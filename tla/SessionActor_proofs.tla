------------------------- MODULE SessionActor_proofs -------------------------
(***************************************************************************)
(* What is proved of a session actor and of the two parts it works with,   *)
(* for every value of the constants.                                       *)
(*                                                                         *)
(* First the parts, whoever calls them and in whatever order: what         *)
(* TurnStore promises for any number of sessions, turns and calls, and     *)
(* what ApprovalManager promises for any approval ids and policy keys.     *)
(*                                                                         *)
(* Then the actor, in layers; each is an invariant that only needs the     *)
(* layers above it:                                                        *)
(*   Typed           the data keep their types, the registers their shape  *)
(*   StoreInv        what TurnStore promises to any caller                 *)
(*   RegistersAgree  memory and database agree on the running turn         *)
(*   Known, Entries, Reports, OwnApproval                                  *)
(*                   turns, approvals, answers are used once they exist    *)
(*   Work            one token goes round a running turn                   *)
(*   AskedAreAskable, LastWord                                             *)
(*                   what an approval and the end of a turn stand on       *)
(*   Truth           the transcript says of a call what happened to it     *)
(*   Answered        a completed turn leaves no call without a result      *)
(* Every layer has a lemma that says a step keeps it, and most have one    *)
(* that sorts the steps by what they do to it: TurnStep, MailFrame,        *)
(* ApprovalStep, Written, Kept, StoryStep.                                 *)
(***************************************************************************)
EXTENDS SessionActor, SequenceTheorems, FiniteSetTheorems, TLAPS

-----------------------------------------------------------------------------
(* appending *)

\* Appending a row leaves the rows before it where they were.
LEMMA AppendRow ==
  ASSUME NEW Row, NEW log \in Seq(Row), NEW e \in Row
  PROVE  /\ Len(log) \in Nat /\ Append(log, e) # <<>>
         /\ Len(Append(log, e)) = Len(log) + 1
         /\ DOMAIN log = 1 .. Len(log) /\ DOMAIN Append(log, e) = 1 .. Len(log) + 1
         /\ \A i \in 1 .. Len(log) : Append(log, e)[i] = log[i]
         /\ Append(log, e)[Len(log) + 1] = e
<1>1. /\ Append(log, e) \in Seq(Row) /\ Append(log, e) # <<>>
      /\ Len(Append(log, e)) = Len(log) + 1
      /\ \A i \in 1 .. Len(log) : Append(log, e)[i] = log[i]
      /\ Append(log, e)[Len(log) + 1] = e
  BY AppendProperties
<1>2. /\ Len(log) \in Nat /\ DOMAIN log = 1 .. Len(log)
      /\ DOMAIN Append(log, e) = 1 .. Len(Append(log, e))
  BY <1>1, LenProperties
<1>3. QED
  BY <1>1, <1>2

-----------------------------------------------------------------------------
(* type correctness *)

\* Appending to a log keeps the shape of the table, twice as well as once.
LEMMA AppendTyped ==
  ASSUME NEW Row, NEW f \in [Sessions -> Seq(Row)], NEW s \in Sessions,
         NEW d \in Row, NEW e \in Row
  PROVE  /\ [f EXCEPT ![s] = Append(@, e)] \in [Sessions -> Seq(Row)]
         /\ [f EXCEPT ![s] = Append(Append(@, d), e)] \in [Sessions -> Seq(Row)]
<1>1. Append(f[s], d) \in Seq(Row) /\ Append(f[s], e) \in Seq(Row)
  BY AppendProperties
<1>2. Append(Append(f[s], d), e) \in Seq(Row)
  BY <1>1, AppendProperties
<1>3. QED
  BY <1>1, <1>2

\* Every transaction writes rows of the tables' types.
LEMMA StoreTypeStep == StoreTypeOK /\ [StoreNext]_storeVars => StoreTypeOK'
<1> SUFFICES ASSUME StoreTypeOK, [StoreNext]_storeVars
             PROVE  StoreTypeOK'
  OBVIOUS
<1> USE DEF StoreTypeOK
<1>1. CASE CallerGenerates
  BY <1>1 DEF CallerGenerates, CreateGeneration
<1>2. CASE CallerBegins
  <2>1. PICK s \in Sessions, t \in Turns : BeginTurn(s, t)
    BY <1>2 DEF CallerBegins
  <2>2. /\ Text("user", t) \in Message
        /\ Fact("turn.started", t) \in Event /\ Committed(Text("user", t)) \in Event
    <3>1. Text("user", t) \in Message
      BY EmptySeq DEF Message, Text
    <3>2. Fact("turn.started", t) \in Event
      BY EmptySeq DEF Event, EventTypes, Fact
    <3>3. Committed(Text("user", t)) \in Event
      BY EmptySeq DEF Event, EventTypes, Fact, Committed, Text
    <3>4. QED
      BY <3>1, <3>2, <3>3
  <2>3. messages' \in [Sessions -> Seq(Message)]
    BY <2>1, <2>2, AppendTyped DEF BeginTurn
  <2>4. events' \in [Sessions -> Seq(Event)]
    BY <2>1, <2>2, AppendTyped DEF BeginTurn
  <2>5. /\ status' \in [Turns -> Status] /\ owner' \in [Turns -> Sessions \union {NoSession}]
        /\ generation' \in [Sessions -> Schemas \union {NoSchema}]
    BY <2>1 DEF BeginTurn, Status
  <2>6. QED
    BY <2>3, <2>4, <2>5
<1>3. CASE CallerAsks
  <2>1. PICK s \in Sessions, t \in Turns, cs \in Batches : CommitAssistantToolCalls(s, t, cs)
    BY <1>3 DEF CallerAsks
  <2>2. cs \in Seq(Calls)
    BY StoreAssumption
  <2>3. Request(t, cs) \in Message
    BY <2>2 DEF Message, Request, Text
  <2>4. Committed(Request(t, cs)) \in Event
    BY <2>2 DEF Event, EventTypes, Committed, Fact, Request, Text
  <2>5. messages' \in [Sessions -> Seq(Message)]
    BY <2>1, <2>3, AppendTyped DEF CommitAssistantToolCalls
  <2>6. events' \in [Sessions -> Seq(Event)]
    BY <2>1, <2>4, AppendTyped DEF CommitAssistantToolCalls
  <2>7. QED
    BY <2>1, <2>5, <2>6 DEF CommitAssistantToolCalls
<1>4. CASE CallerAnswers
  <2>1. PICK s \in Sessions, t \in Turns, c \in Calls, k \in ResultKinds :
          CommitToolResult(s, t, c, k)
    BY <1>4 DEF CallerAnswers
  <2>2. Result(t, c, k) \in Message
    BY EmptySeq DEF Message, Result, Text
  <2>3. Committed(Result(t, c, k)) \in Event
    BY EmptySeq DEF Event, EventTypes, Committed, Fact, Result, Text
  <2>4. ToolFact("tool.completed", t, c) \in Event
    BY EmptySeq DEF Event, EventTypes, ToolFact, Fact
  <2>5. messages' \in [Sessions -> Seq(Message)]
    BY <2>1, <2>2, AppendTyped DEF CommitToolResult
  <2>6. events' \in [Sessions -> Seq(Event)]
    BY <2>1, <2>3, <2>4, AppendTyped DEF CommitToolResult, ResultEvents
  <2>7. QED
    BY <2>1, <2>5, <2>6 DEF CommitToolResult
<1>5. CASE CallerCompletes
  <2>1. PICK s \in Sessions, t \in Turns : CompleteTurn(s, t)
    BY <1>5 DEF CallerCompletes
  <2>2. Text("assistant", t) \in Message
    BY EmptySeq DEF Message, Text
  <2>3. Committed(Text("assistant", t)) \in Event
    BY EmptySeq DEF Event, EventTypes, Committed, Fact, Text
  <2>4. Fact("turn.completed", t) \in Event
    BY EmptySeq DEF Event, EventTypes, Fact
  <2>5. messages' \in [Sessions -> Seq(Message)]
    BY <2>1, <2>2, AppendTyped DEF CompleteTurn
  <2>6. events' \in [Sessions -> Seq(Event)]
    BY <2>1, <2>3, <2>4, AppendTyped DEF CompleteTurn
  <2>7. status' \in [Turns -> Status]
    BY <2>1 DEF CompleteTurn, Status, Terminal
  <2>8. QED
    BY <2>1, <2>5, <2>6, <2>7 DEF CompleteTurn
<1>6. CASE CallerFinishes
  <2>1. PICK s \in Sessions, t \in Turns, k \in {"interrupted", "failed"} :
          FinishWithoutMessage(s, t, k)
    BY <1>6 DEF CallerFinishes
  <2>2. Fact(TerminalEvent(k), t) \in Event
    BY EmptySeq DEF Event, EventTypes, TerminalEvent, Fact
  <2>3. events' \in [Sessions -> Seq(Event)]
    BY <2>1, <2>2, AppendTyped DEF FinishWithoutMessage
  <2>4. status' \in [Turns -> Status]
    BY <2>1 DEF FinishWithoutMessage, Status, Terminal
  <2>5. QED
    BY <2>1, <2>3, <2>4 DEF FinishWithoutMessage
<1>7. CASE CallerNotes
  <2>0. PICK s \in Sessions, t \in Turns : \E x \in Appendable(t) : AppendEvent(s, x)
    BY <1>7 DEF CallerNotes
  <2>1. PICK e \in Appendable(t) : AppendEvent(s, e)
    BY <2>0
  <2>2. e \in Event
    <3>1. CASE e \in {ToolFact("tool.started", t, c) : c \in Calls}
      BY <3>1, EmptySeq DEF Event, EventTypes, ToolFact, Fact
    <3>2. CASE e \in {ApprovalFact("approval.requested", t, c, a) : c \in Calls, a \in Approvals}
      <4>1. PICK c \in Calls, a \in Approvals : e = ApprovalFact("approval.requested", t, c, a)
        BY <3>2
      <4>2. QED
        BY <4>1, EmptySeq DEF Event, EventTypes, ApprovalFact, Fact
    <3>3. CASE e \in {ApprovalFact(type, t, NoCall, a) :
                       type \in {"approval.resolved", "approval.timed_out"}, a \in Approvals}
      <4>1. PICK type \in {"approval.resolved", "approval.timed_out"}, a \in Approvals :
              e = ApprovalFact(type, t, NoCall, a)
        BY <3>3
      <4>2. QED
        BY <4>1, EmptySeq DEF Event, EventTypes, ApprovalFact, Fact
    <3>4. QED
      BY <3>1, <3>2, <3>3 DEF Appendable
  <2>3. events' \in [Sessions -> Seq(Event)]
    BY <2>1, <2>2, AppendTyped DEF AppendEvent
  <2>4. QED
    BY <2>1, <2>3 DEF AppendEvent
<1>8. CASE UNCHANGED storeVars
  BY <1>8 DEF storeVars
<1>9. QED
  BY <1>1, <1>2, <1>3, <1>4, <1>5, <1>6, <1>7, <1>8 DEF StoreNext

\* The tables hold rows of their types, whatever is written in whatever order.
THEOREM StoreTyped == StoreSpec => []StoreTypeOK
<1>1. StoreInit => StoreTypeOK
  BY EmptySeq DEF StoreInit, StoreTypeOK, Status
<1>2. QED
  BY <1>1, StoreTypeStep, PTL DEF StoreSpec

-----------------------------------------------------------------------------
(* the log spells out the transcript *)

\* The commits among the first n events are numbered 1, 2, 3 ...
LEMMA CommitsCounted ==
  ASSUME NEW log \in Seq(Event), NEW n \in 0 .. Len(log)
  PROVE  /\ CommitsIn(log, n) \in Nat /\ CommitsIn(log, 0) = 0
         /\ n < Len(log) => CommitsIn(log, n + 1)
                              = CommitsIn(log, n) + (IF IsCommit(log[n + 1]) THEN 1 ELSE 0)
         /\ \A i \in 1 .. n : IsCommit(log[i])
              => CommitsIn(log, i) \in 1 .. CommitsIn(log, n)
<1> DEFINE S(k) == {i \in 1 .. k : IsCommit(log[i])}
<1>0. Len(log) \in Nat /\ n \in Nat
  BY LenProperties
<1>1. \A k \in Nat : IsFiniteSet(S(k)) /\ Cardinality(S(k)) \in Nat
  <2> SUFFICES ASSUME NEW k \in Nat PROVE IsFiniteSet(S(k)) /\ Cardinality(S(k)) \in Nat
    OBVIOUS
  <2>1. IsFiniteSet(1 .. k)
    BY FS_Interval
  <2>2. S(k) \in SUBSET (1 .. k)
    OBVIOUS
  <2>3. IsFiniteSet(S(k))
    BY <2>1, <2>2, FS_Subset
  <2>4. QED
    BY <2>3, FS_CardinalityType
<1>2. \A k \in Nat : CommitsIn(log, k) = Cardinality(S(k))
  BY DEF CommitsIn
<1>3. CommitsIn(log, 0) = 0
  <2>1. S(0) = {}
    OBVIOUS
  <2>2. QED
    BY <1>2, <2>1, FS_EmptySet
<1>4. CommitsIn(log, n + 1) = CommitsIn(log, n) + (IF IsCommit(log[n + 1]) THEN 1 ELSE 0)
  <2>1. CASE IsCommit(log[n + 1])
    <3>1. S(n + 1) = S(n) \union {n + 1} /\ n + 1 \notin S(n)
      BY <1>0, <2>1
    <3>2. Cardinality(S(n) \union {n + 1}) = Cardinality(S(n)) + 1
      BY <1>0, <1>1, <3>1, FS_AddElement
    <3>3. QED
      BY <1>0, <1>2, <2>1, <3>1, <3>2
  <2>2. CASE ~IsCommit(log[n + 1])
    <3>1. S(n + 1) = S(n)
      BY <1>0, <2>2
    <3> HIDE DEF S
    <3>2. CommitsIn(log, n + 1) = Cardinality(S(n + 1)) /\ CommitsIn(log, n) = Cardinality(S(n))
      BY <1>0, <1>2
    <3>3. Cardinality(S(n)) \in Nat
      BY <1>0, <1>1
    <3>4. QED
      BY <2>2, <3>1, <3>2, <3>3
  <2>3. QED
    BY <2>1, <2>2
<1>5. ASSUME NEW i \in 1 .. n, IsCommit(log[i]) PROVE CommitsIn(log, i) \in 1 .. CommitsIn(log, n)
  <2>1. S(i) \in SUBSET S(n) /\ i \in S(i) /\ i \in Nat
    BY <1>0, <1>5
  <2>2. Cardinality(S(i)) <= Cardinality(S(n))
    BY <1>0, <1>1, <2>1, FS_Subset
  <2>3. Cardinality(S(i)) # 0
    BY <1>1, <2>1, FS_EmptySet
  <2>4. /\ CommitsIn(log, i) = Cardinality(S(i)) /\ CommitsIn(log, n) = Cardinality(S(n))
        /\ Cardinality(S(i)) \in Nat /\ Cardinality(S(n)) \in Nat
    BY <1>0, <1>1, <1>2, <2>1
  <2> HIDE DEF S
  <2>5. QED
    BY <2>2, <2>3, <2>4
<1>6. QED
  BY <1>0, <1>1, <1>2, <1>3, <1>4, <1>5

\* Appending changes no number.
LEMMA CommitsKept ==
  ASSUME NEW log \in Seq(Event), NEW e \in Event, NEW n \in 0 .. Len(log)
  PROVE  CommitsIn(Append(log, e), n) = CommitsIn(log, n)
<1>1. \A i \in 1 .. n : Append(log, e)[i] = log[i]
  BY AppendRow
<1>2. {i \in 1 .. n : IsCommit(Append(log, e)[i])} = {i \in 1 .. n : IsCommit(log[i])}
  BY <1>1
<1>3. QED
  BY <1>2 DEF CommitsIn

\* An event that commits no message may come at any time.
LEMMA MirrorsOther ==
  ASSUME NEW log \in Seq(Event), NEW rows \in Seq(Message), NEW e \in Event, ~IsCommit(e), Mirrors(log, rows)
  PROVE  Mirrors(Append(log, e), rows)
<1> DEFINE new == Append(log, e)
           n == Len(log)
<1>1. /\ n \in Nat /\ Len(new) = n + 1 /\ new \in Seq(Event)
      /\ DOMAIN log = 1 .. n /\ DOMAIN new = 1 .. n + 1
      /\ \A i \in 1 .. n : new[i] = log[i]
      /\ new[n + 1] = e
  BY AppendRow, AppendProperties
<1> HIDE DEF new
<1>2. /\ \A i \in 0 .. n : CommitsIn(new, i) = CommitsIn(log, i)
      /\ CommitsIn(log, n) \in Nat
  BY <1>1, CommitsKept, CommitsCounted DEF new
<1>3. CommitsIn(new, n + 1) = CommitsIn(new, n)
  BY <1>1, <1>2, CommitsCounted
<1>4. CommitsIn(new, Len(new)) = Len(rows)
  BY <1>1, <1>2, <1>3 DEF Mirrors
<1>5. \A i \in 1 .. n + 1 : IsCommit(new[i]) => new[i] = Committed(rows[CommitsIn(new, i)])
  BY <1>1, <1>2 DEF Mirrors
<1>6. QED
  BY <1>1, <1>4, <1>5 DEF Mirrors, new

\* A message and its commit are written together.
LEMMA MirrorsCommit ==
  ASSUME NEW log \in Seq(Event), NEW rows \in Seq(Message), NEW m \in Message, Committed(m) \in Event,
         Mirrors(log, rows)
  PROVE  Mirrors(Append(log, Committed(m)), Append(rows, m))
<1> DEFINE new == Append(log, Committed(m))
           more == Append(rows, m)
           n == Len(log)
<1>1. /\ n \in Nat /\ Len(new) = n + 1 /\ new \in Seq(Event)
      /\ DOMAIN log = 1 .. n /\ DOMAIN new = 1 .. n + 1
      /\ \A i \in 1 .. n : new[i] = log[i]
      /\ new[n + 1] = Committed(m)
  BY AppendRow, AppendProperties
<1>2. /\ Len(rows) \in Nat /\ Len(more) = Len(rows) + 1
      /\ \A i \in 1 .. Len(rows) : more[i] = rows[i]
      /\ more[Len(rows) + 1] = m
  BY AppendRow
<1>3. IsCommit(Committed(m))
  BY DEF IsCommit, Committed, Fact
<1>4. /\ \A i \in 0 .. n : CommitsIn(new, i) = CommitsIn(log, i)
      /\ CommitsIn(log, n) \in Nat
      /\ \A i \in 1 .. n : IsCommit(log[i]) => CommitsIn(log, i) \in 1 .. CommitsIn(log, n)
  BY <1>1, CommitsKept, CommitsCounted, SMTT(30)
<1> HIDE DEF new, more
<1>5. CommitsIn(new, n + 1) = CommitsIn(new, n) + 1
  <2>1. IsCommit(new[n + 1])
    BY <1>1, <1>3
  <2>2. n \in 0 .. Len(new) /\ n < Len(new) /\ new \in Seq(Event)
    BY <1>1
  <2>3. QED
    BY <2>1, <2>2, CommitsCounted
<1>6. CommitsIn(log, n) = Len(rows)
  BY DEF Mirrors
<1>7. CommitsIn(new, Len(new)) = Len(more)
  BY <1>1, <1>2, <1>4, <1>5, <1>6
<1>8. ASSUME NEW i \in 1 .. n + 1, IsCommit(new[i]) PROVE new[i] = Committed(more[CommitsIn(new, i)])
  <2>1. CASE i = n + 1
    BY <2>1, <1>1, <1>2, <1>4, <1>5, <1>6
  <2>2. CASE i \in 1 .. n
    <3>1. log[i] = Committed(rows[CommitsIn(log, i)]) /\ IsCommit(log[i])
      BY <2>2, <1>1, <1>8 DEF Mirrors
    <3>2. CommitsIn(log, i) \in 1 .. Len(rows)
      BY <2>2, <3>1, <1>4, <1>6
    <3>3. QED
      BY <2>2, <3>1, <3>2, <1>1, <1>2, <1>4
  <2>3. QED
    BY <2>1, <2>2, <1>1
<1>9. QED
  BY <1>1, <1>7, <1>8 DEF Mirrors, new, more

\* The rows and events of a transaction have their types.
LEMMA EntryTypes ==
  ASSUME NEW t \in Turns
  PROVE  /\ \A r \in {"user", "assistant"} : Text(r, t) \in Message /\ Committed(Text(r, t)) \in Event
         /\ \A cs \in Seq(Calls) : Request(t, cs) \in Message /\ Committed(Request(t, cs)) \in Event
         /\ \A c \in Calls, k \in ResultKinds : Result(t, c, k) \in Message /\ Committed(Result(t, c, k)) \in Event
         /\ \A type \in EventTypes : Fact(type, t) \in Event /\ Fact(type, t).type = type
         /\ \A type \in EventTypes, c \in Calls \union {NoCall} :
              /\ ToolFact(type, t, c) \in Event /\ ToolFact(type, t, c).type = type
              /\ \A a \in Approvals : ApprovalFact(type, t, c, a) \in Event /\ ApprovalFact(type, t, c, a).type = type
<1>1. \A r \in {"user", "assistant"} : Text(r, t) \in Message /\ Committed(Text(r, t)) \in Event
  BY EmptySeq DEF Message, Event, EventTypes, Committed, Fact, Text
<1>2. \A cs \in Seq(Calls) : Request(t, cs) \in Message /\ Committed(Request(t, cs)) \in Event
  BY DEF Message, Event, EventTypes, Committed, Fact, Request, Text
<1>3. \A c \in Calls, k \in ResultKinds : Result(t, c, k) \in Message /\ Committed(Result(t, c, k)) \in Event
  BY EmptySeq DEF Message, Event, EventTypes, Committed, Fact, Result, Text
<1>4. \A type \in EventTypes : Fact(type, t) \in Event /\ Fact(type, t).type = type
  BY EmptySeq DEF Event, Fact
<1>5. \A type \in EventTypes, c \in Calls \union {NoCall} :
        ToolFact(type, t, c) \in Event /\ ToolFact(type, t, c).type = type
  BY EmptySeq DEF Event, ToolFact, Fact
<1>6. \A type \in EventTypes, c \in Calls \union {NoCall} : \A a \in Approvals :
        ApprovalFact(type, t, c, a) \in Event /\ ApprovalFact(type, t, c, a).type = type
  BY EmptySeq DEF Event, ApprovalFact, Fact
<1>7. QED
  BY <1>1, <1>2, <1>3, <1>4, <1>5, <1>6

\* What a transaction adds to one session, as the log and the rows see it.
MirrorsStep(s) ==
  /\ Mirrors(events'[s], messages'[s])
  /\ \A r \in Sessions \ {s} : events'[r] = events[r] /\ messages'[r] = messages[r]

\* Every transaction that writes a message writes its commit.
LEMMA LogStep == StoreTypeOK /\ LogMirrorsTranscript /\ [StoreNext]_storeVars => LogMirrorsTranscript'
<1> SUFFICES ASSUME StoreTypeOK, LogMirrorsTranscript, [StoreNext]_storeVars
             PROVE  LogMirrorsTranscript'
  OBVIOUS
<1>1. \A s \in Sessions : events[s] \in Seq(Event) /\ messages[s] \in Seq(Message) /\ Mirrors(events[s], messages[s])
  BY DEF StoreTypeOK, LogMirrorsTranscript
<1>2. ASSUME NEW s \in Sessions, MirrorsStep(s) PROVE LogMirrorsTranscript'
  BY <1>1, <1>2 DEF LogMirrorsTranscript, MirrorsStep
<1>3. ASSUME NEW s \in Sessions, NEW e \in Event, AppendEvent(s, e), ~IsCommit(e) PROVE LogMirrorsTranscript'
  <2>1. events'[s] = Append(events[s], e) /\ messages' = messages
        /\ \A r \in Sessions \ {s} : events'[r] = events[r]
    BY <1>3 DEF AppendEvent, StoreTypeOK
  <2>2. Mirrors(events'[s], messages'[s])
    BY <1>1, <1>3, <2>1, MirrorsOther
  <2>3. QED
    BY <1>2, <2>1, <2>2 DEF MirrorsStep
<1>4. CASE UNCHANGED <<messages, events>>
  BY <1>4 DEF LogMirrorsTranscript
<1>5. CASE CallerGenerates
  BY <1>4, <1>5 DEF CallerGenerates, CreateGeneration
<1>6. CASE CallerBegins
  <2>1. PICK s \in Sessions, t \in Turns : BeginTurn(s, t)
    BY <1>6 DEF CallerBegins
  <2> DEFINE a == Fact("turn.started", t)
             m == Text("user", t)
  <2>2. a \in Event /\ ~IsCommit(a) /\ m \in Message /\ Committed(m) \in Event
    BY EntryTypes DEF IsCommit, EventTypes
  <2>3. /\ events'[s] = Append(Append(events[s], a), Committed(m)) /\ messages'[s] = Append(messages[s], m)
        /\ \A r \in Sessions \ {s} : events'[r] = events[r] /\ messages'[r] = messages[r]
    BY <2>1 DEF BeginTurn, StoreTypeOK
  <2> HIDE DEF a, m
  <2>4. Append(events[s], a) \in Seq(Event) /\ Mirrors(Append(events[s], a), messages[s])
    BY <1>1, <2>2, MirrorsOther, AppendProperties
  <2>5. Mirrors(events'[s], messages'[s])
    BY <1>1, <2>2, <2>3, <2>4, MirrorsCommit
  <2>6. QED
    BY <1>2, <2>3, <2>5 DEF MirrorsStep
<1>7. CASE CallerAsks
  <2>1. PICK s \in Sessions, t \in Turns, cs \in Batches : CommitAssistantToolCalls(s, t, cs)
    BY <1>7 DEF CallerAsks
  <2> DEFINE m == Request(t, cs)
  <2>2. m \in Message /\ Committed(m) \in Event
    BY EntryTypes, StoreAssumption
  <2>3. /\ events'[s] = Append(events[s], Committed(m)) /\ messages'[s] = Append(messages[s], m)
        /\ \A r \in Sessions \ {s} : events'[r] = events[r] /\ messages'[r] = messages[r]
    BY <2>1 DEF CommitAssistantToolCalls, StoreTypeOK
  <2> HIDE DEF m
  <2>4. Mirrors(events'[s], messages'[s])
    BY <1>1, <2>2, <2>3, MirrorsCommit
  <2>5. QED
    BY <1>2, <2>3, <2>4 DEF MirrorsStep
<1>8. CASE CallerAnswers
  <2>1. PICK s \in Sessions, t \in Turns, c \in Calls, k \in ResultKinds : CommitToolResult(s, t, c, k)
    BY <1>8 DEF CallerAnswers
  <2> DEFINE a == ToolFact("tool.completed", t, c)
             m == Result(t, c, k)
  <2>2. a \in Event /\ ~IsCommit(a) /\ m \in Message /\ Committed(m) \in Event
    BY EntryTypes DEF IsCommit, EventTypes
  <2>3. /\ events'[s] = Append(Append(events[s], a), Committed(m)) /\ messages'[s] = Append(messages[s], m)
        /\ \A r \in Sessions \ {s} : events'[r] = events[r] /\ messages'[r] = messages[r]
    BY <2>1 DEF CommitToolResult, ResultEvents, StoreTypeOK
  <2> HIDE DEF a, m
  <2>4. Append(events[s], a) \in Seq(Event) /\ Mirrors(Append(events[s], a), messages[s])
    BY <1>1, <2>2, MirrorsOther, AppendProperties
  <2>5. Mirrors(events'[s], messages'[s])
    BY <1>1, <2>2, <2>3, <2>4, MirrorsCommit
  <2>6. QED
    BY <1>2, <2>3, <2>5 DEF MirrorsStep
<1>9. CASE CallerCompletes
  <2>1. PICK s \in Sessions, t \in Turns : CompleteTurn(s, t)
    BY <1>9 DEF CallerCompletes
  <2> DEFINE a == Fact("turn.completed", t)
             m == Text("assistant", t)
  <2>2. a \in Event /\ ~IsCommit(a) /\ m \in Message /\ Committed(m) \in Event
    BY EntryTypes DEF IsCommit, EventTypes
  <2>3. /\ events'[s] = Append(Append(events[s], Committed(m)), a) /\ messages'[s] = Append(messages[s], m)
        /\ \A r \in Sessions \ {s} : events'[r] = events[r] /\ messages'[r] = messages[r]
    BY <2>1 DEF CompleteTurn, StoreTypeOK
  <2> HIDE DEF a, m
  <2>4. /\ Append(events[s], Committed(m)) \in Seq(Event) /\ Append(messages[s], m) \in Seq(Message)
        /\ Mirrors(Append(events[s], Committed(m)), Append(messages[s], m))
    BY <1>1, <2>2, MirrorsCommit, AppendProperties
  <2>5. Mirrors(events'[s], messages'[s])
    BY <2>2, <2>3, <2>4, MirrorsOther
  <2>6. QED
    BY <1>2, <2>3, <2>5 DEF MirrorsStep
<1>10. CASE CallerFinishes
  <2>1. PICK s \in Sessions, t \in Turns, k \in {"interrupted", "failed"} : FinishWithoutMessage(s, t, k)
    BY <1>10 DEF CallerFinishes
  <2> DEFINE a == Fact(TerminalEvent(k), t)
  <2>2. a \in Event /\ ~IsCommit(a)
    BY EntryTypes DEF IsCommit, EventTypes, TerminalEvent
  <2>3. /\ events'[s] = Append(events[s], a) /\ messages' = messages
        /\ \A r \in Sessions \ {s} : events'[r] = events[r]
    BY <2>1 DEF FinishWithoutMessage, StoreTypeOK
  <2> HIDE DEF a
  <2>4. Mirrors(events'[s], messages'[s])
    BY <1>1, <2>2, <2>3, MirrorsOther
  <2>5. QED
    BY <1>2, <2>3, <2>4 DEF MirrorsStep
<1>11. CASE CallerNotes
  <2>1. PICK s \in Sessions, t \in Turns : \E x \in Appendable(t) : AppendEvent(s, x)
    BY <1>11 DEF CallerNotes
  <2>2. PICK e \in Appendable(t) : AppendEvent(s, e)
    BY <2>1
  <2>3. e \in Event /\ ~IsCommit(e)
    <3>1. CASE e \in {ToolFact("tool.started", t, c) : c \in Calls}
      BY <3>1, EntryTypes DEF IsCommit, EventTypes
    <3>2. CASE e \in {ApprovalFact("approval.requested", t, c, a) : c \in Calls, a \in Approvals}
      <4>1. PICK c \in Calls, a \in Approvals : e = ApprovalFact("approval.requested", t, c, a)
        BY <3>2
      <4>2. "approval.requested" \in EventTypes /\ c \in Calls \union {NoCall}
        BY DEF EventTypes
      <4>3. e \in Event /\ e.type = "approval.requested"
        BY <4>1, <4>2, EntryTypes
      <4>4. QED
        BY <4>3 DEF IsCommit
    <3>3. CASE e \in {ApprovalFact(type, t, NoCall, a) :
                       type \in {"approval.resolved", "approval.timed_out"}, a \in Approvals}
      <4>1. PICK type \in {"approval.resolved", "approval.timed_out"}, a \in Approvals :
              e = ApprovalFact(type, t, NoCall, a)
        BY <3>3
      <4>2. type \in EventTypes /\ type # "message.committed" /\ NoCall \in Calls \union {NoCall}
        BY <4>1 DEF EventTypes
      <4>3. e \in Event /\ e.type = type
        BY <4>1, <4>2, EntryTypes
      <4>4. QED
        BY <4>2, <4>3 DEF IsCommit
    <3>4. QED
      BY <2>2, <3>1, <3>2, <3>3 DEF Appendable
  <2>4. QED
    BY <1>3, <2>2, <2>3
<1>12. CASE UNCHANGED storeVars
  BY <1>4, <1>12 DEF storeVars
<1>13. QED
  BY <1>5, <1>6, <1>7, <1>8, <1>9, <1>10, <1>11, <1>12 DEF StoreNext

\* The restart recovery can trust the log: whatever is written in whatever
\* order, its message.committed events are the messages table, row by row.
THEOREM LogIsTheTranscript == StoreSpec => []LogMirrorsTranscript
<1>1. StoreInit => StoreTypeOK /\ LogMirrorsTranscript
  <2> SUFFICES ASSUME StoreInit PROVE StoreTypeOK /\ LogMirrorsTranscript
    OBVIOUS
  <2>1. StoreTypeOK
    BY EmptySeq DEF StoreInit, StoreTypeOK, Status
  <2>2. /\ <<>> \in Seq(Event) /\ <<>> \in Seq(Message) /\ Len(<<>>) = 0
    BY EmptySeq
  <2>3. CommitsIn(<<>>, 0) = 0
    <3>1. 0 \in 0 .. Len(<<>>)
      BY <2>2
    <3>2. QED
      BY <2>2, <3>1, CommitsCounted
  <2>4. Mirrors(<<>>, <<>>)
    BY <2>2, <2>3 DEF Mirrors
  <2>5. QED
    BY <2>1, <2>4 DEF LogMirrorsTranscript, StoreInit
<1>2. StoreTypeOK /\ LogMirrorsTranscript /\ [StoreNext]_storeVars => (StoreTypeOK /\ LogMirrorsTranscript)'
  BY StoreTypeStep, LogStep
<1>3. QED
  BY <1>1, <1>2, PTL DEF StoreSpec

-----------------------------------------------------------------------------
(* the inductive invariant *)

\* Why the blocks stay whole: rows are written for begun turns only, and the
\* last message of a session is of its running turn when it has one.
TurnBlocks ==
  \A s \in Sessions :
    /\ \A i \in DOMAIN messages[s] : status[messages[s][i].turn] # "none"
    /\ \A t \in Turns : RunningIn(s, t) =>
         messages[s] # <<>> /\ messages[s][Len(messages[s])].turn = t

\* The promises need each other: an appended message keeps the blocks whole
\* because it is of the one running turn, which is the turn of the last row.
StoreInv ==
  /\ StoreTypeOK
  /\ AtMostOneRunning
  /\ TurnBlocks
  /\ TurnsDoNotInterleave
  /\ OneResultPerCall

Promises == AtMostOneRunning /\ TurnBlocks /\ TurnsDoNotInterleave /\ OneResultPerCall

\* What a transaction other than begin_turn does to the turns table: no turn
\* starts to run, none is forgotten and none changes its session.
NoTurnBegins ==
  /\ \A u \in Turns : status'[u] = "running" => status[u] = "running"
  /\ \A u \in Turns : status[u] # "none" => status'[u] # "none"
  /\ owner' = owner

\* Every row of a transcript is of some turn.
LEMMA RowsHaveTurns ==
  ASSUME StoreTypeOK, NEW s \in Sessions, NEW i \in DOMAIN messages[s]
  PROVE  messages[s][i].turn \in Turns
<1>1. messages[s] \in Seq(Message)
  BY DEF StoreTypeOK
<1>2. i \in 1 .. Len(messages[s])
  BY <1>1, LenProperties
<1>3. messages[s][i] \in Message
  BY <1>1, <1>2, ElementOfSeq
<1>4. QED
  BY <1>3 DEF Message

\* Transactions that write no message.
LEMMA QuietStep ==
  ASSUME StoreInv, NoTurnBegins, messages' = messages
  PROVE  Promises'
<1> USE DEF StoreInv, NoTurnBegins
<1>1. AtMostOneRunning'
  BY DEF AtMostOneRunning, RunningIn
<1>2. TurnBlocks'
  <2> SUFFICES ASSUME NEW s \in Sessions
               PROVE  /\ \A i \in DOMAIN messages[s] : status'[messages[s][i].turn] # "none"
                      /\ \A t \in Turns : RunningIn(s, t)' =>
                           messages[s] # <<>> /\ messages[s][Len(messages[s])].turn = t
    BY DEF TurnBlocks
  <2>1. \A t \in Turns : RunningIn(s, t)' => RunningIn(s, t)
    BY DEF RunningIn
  <2>2. \A i \in DOMAIN messages[s] : messages[s][i].turn \in Turns
    BY RowsHaveTurns
  <2>3. QED
    BY <2>1, <2>2 DEF TurnBlocks
<1>3. TurnsDoNotInterleave'
  BY DEF TurnsDoNotInterleave
<1>4. OneResultPerCall'
  BY DEF OneResultPerCall
<1>5. QED
  BY <1>1, <1>2, <1>3, <1>4 DEF Promises

\* Transactions that append a message of the running turn.
LEMMA ExtendStep ==
  ASSUME StoreInv, NoTurnBegins,
         NEW s \in Sessions, NEW t \in Turns, RunningIn(s, t),
         NEW m \in Message, m.turn = t,
         m.role = "tool" => ~HasResult(s, m.call),
         messages' = [messages EXCEPT ![s] = Append(@, m)]
  PROVE  Promises'
<1> USE DEF StoreInv
<1> DEFINE old == messages[s]
           new == messages'[s]
           n == Len(old)
<1>1. /\ n \in Nat /\ new # <<>> /\ Len(new) = n + 1
      /\ DOMAIN new = 1 .. n + 1 /\ DOMAIN old = 1 .. n
      /\ \A i \in 1 .. n : new[i] = old[i]
      /\ new[n + 1] = m
      /\ \A r \in Sessions \ {s} : messages'[r] = messages[r]
  <2>1. old \in Seq(Message) /\ new = Append(old, m)
    BY DEF StoreTypeOK
  <2>2. \A r \in Sessions \ {s} : messages'[r] = messages[r]
    BY DEF StoreTypeOK
  <2>3. QED
    BY <2>1, <2>2, AppendRow
<1>2. old # <<>> /\ n \in 1 .. n /\ old[n].turn = t
  <2>1. old # <<>> /\ old[n].turn = t
    BY DEF TurnBlocks
  <2>2. n # 0
    BY <2>1, EmptySeq DEF StoreTypeOK
  <2>3. QED
    BY <1>1, <2>1, <2>2
<1>3. \A r \in Sessions : \A i \in DOMAIN messages[r] : messages[r][i].turn \in Turns
  BY RowsHaveTurns
<1>4. AtMostOneRunning'
  BY DEF AtMostOneRunning, RunningIn, NoTurnBegins
<1>5. TurnBlocks'
  <2> SUFFICES ASSUME NEW r \in Sessions
               PROVE  /\ \A i \in DOMAIN messages'[r] : status'[messages'[r][i].turn] # "none"
                      /\ \A u \in Turns : RunningIn(r, u)' =>
                           messages'[r] # <<>> /\ messages'[r][Len(messages'[r])].turn = u
    BY DEF TurnBlocks
  <2>1. \A u \in Turns : RunningIn(r, u)' => RunningIn(r, u)
    BY DEF RunningIn, NoTurnBegins
  <2>2. \A i \in DOMAIN messages[r] : status'[messages[r][i].turn] # "none"
    BY <1>3 DEF TurnBlocks, NoTurnBegins
  <2>3. CASE r # s
    BY <2>1, <2>2, <2>3, <1>1 DEF TurnBlocks
  <2>4. CASE r = s
    <3>1. status'[t] # "none"
      BY DEF RunningIn, NoTurnBegins
    <3>2. \A i \in 1 .. n + 1 : status'[new[i].turn] # "none"
      BY <3>1, <2>2, <2>4, <1>1
    <3>3. \A u \in Turns : RunningIn(s, u) => u = t
      BY DEF AtMostOneRunning
    <3>4. QED
      BY <3>2, <3>3, <2>1, <2>4, <1>1
  <2>5. QED
    BY <2>3, <2>4
<1>6. TurnsDoNotInterleave'
  <2> SUFFICES ASSUME NEW r \in Sessions,
                      NEW i \in DOMAIN messages'[r], NEW j \in DOMAIN messages'[r],
                      NEW k \in DOMAIN messages'[r],
                      i < j, j < k, messages'[r][i].turn = messages'[r][k].turn
               PROVE  messages'[r][j].turn = messages'[r][i].turn
    BY DEF TurnsDoNotInterleave
  <2>1. CASE r # s
    BY <2>1, <1>1 DEF TurnsDoNotInterleave
  <2>2. CASE r = s /\ k \in 1 .. n
    <3>1. i \in 1 .. n /\ j \in 1 .. n
      BY <2>2, <1>1
    <3>2. QED
      BY <3>1, <2>2, <1>1 DEF TurnsDoNotInterleave
  <2>3. CASE r = s /\ k = n + 1
    <3>1. i \in 1 .. n /\ j \in 1 .. n /\ old[i].turn = t
      BY <2>3, <1>1
    <3>2. CASE j = n
      BY <3>1, <3>2, <2>3, <1>1, <1>2
    <3>3. CASE j < n
      <4>1. old[j].turn = old[i].turn
        BY <3>1, <3>3, <1>1, <1>2 DEF TurnsDoNotInterleave
      <4>2. QED
        BY <4>1, <3>1, <2>3, <1>1
    <3>4. QED
      BY <3>1, <3>2, <3>3, <1>1
  <2>4. QED
    BY <2>1, <2>2, <2>3, <1>1
<1>7. OneResultPerCall'
  <2> SUFFICES ASSUME NEW r \in Sessions,
                      NEW i \in DOMAIN messages'[r], NEW j \in DOMAIN messages'[r],
                      messages'[r][i].role = "tool", messages'[r][j].role = "tool",
                      messages'[r][i].call = messages'[r][j].call
               PROVE  i = j
    BY DEF OneResultPerCall
  <2>1. CASE r # s
    BY <2>1, <1>1 DEF OneResultPerCall
  <2>2. CASE r = s /\ i \in 1 .. n /\ j \in 1 .. n
    BY <2>2, <1>1 DEF OneResultPerCall
  <2>3. CASE r = s /\ i = n + 1 /\ j \in 1 .. n
    BY <2>3, <1>1 DEF HasResult
  <2>4. CASE r = s /\ i \in 1 .. n /\ j = n + 1
    BY <2>4, <1>1 DEF HasResult
  <2>5. QED
    BY <2>1, <2>2, <2>3, <2>4, <1>1
<1>8. QED
  BY <1>4, <1>5, <1>6, <1>7 DEF Promises

\* begin_turn opens a block: nothing of the new turn is in any transcript yet.
LEMMA BeginStep ==
  ASSUME StoreInv, NEW s \in Sessions, NEW t \in Turns, BeginTurn(s, t)
  PROVE  Promises'
<1> USE DEF StoreInv
<1> DEFINE old == messages[s]
           new == messages'[s]
           n == Len(old)
           m == Text("user", t)
<1>1. /\ n \in Nat /\ new # <<>> /\ Len(new) = n + 1
      /\ DOMAIN new = 1 .. n + 1 /\ DOMAIN old = 1 .. n
      /\ \A i \in 1 .. n : new[i] = old[i]
      /\ new[n + 1] = m
      /\ \A r \in Sessions \ {s} : messages'[r] = messages[r]
  <2>1. m \in Message
    BY EmptySeq DEF Message, Text
  <2>2. old \in Seq(Message) /\ new = Append(old, m)
    BY DEF StoreTypeOK, BeginTurn
  <2>3. \A r \in Sessions \ {s} : messages'[r] = messages[r]
    BY DEF StoreTypeOK, BeginTurn
  <2>4. QED
    BY <2>1, <2>2, <2>3, AppendRow
<1>2. m.turn = t /\ m.role = "user"
  BY DEF Text
<1>3. /\ status[t] = "none" /\ status'[t] = "running" /\ owner'[t] = s
      /\ \A u \in Turns \ {t} : status'[u] = status[u] /\ owner'[u] = owner[u]
      /\ \A u \in Turns : ~RunningIn(s, u)
  BY DEF StoreTypeOK, BeginTurn, CanBegin
<1>4. \A r \in Sessions : \A i \in DOMAIN messages[r] :
        messages[r][i].turn \in Turns \ {t} /\ status'[messages[r][i].turn] # "none"
  BY <1>3, RowsHaveTurns DEF TurnBlocks
<1>5. \A r \in Sessions, u \in Turns :
        RunningIn(r, u)' => (r = s /\ u = t) \/ (r # s /\ RunningIn(r, u))
  BY <1>3 DEF RunningIn
<1>6. AtMostOneRunning'
  BY <1>5 DEF AtMostOneRunning
<1>7. TurnBlocks'
  <2> SUFFICES ASSUME NEW r \in Sessions
               PROVE  /\ \A i \in DOMAIN messages'[r] : status'[messages'[r][i].turn] # "none"
                      /\ \A u \in Turns : RunningIn(r, u)' =>
                           messages'[r] # <<>> /\ messages'[r][Len(messages'[r])].turn = u
    BY DEF TurnBlocks
  <2>1. CASE r # s
    BY <2>1, <1>1, <1>4, <1>5 DEF TurnBlocks
  <2>2. CASE r = s
    <3>1. ASSUME NEW i \in 1 .. n + 1
          PROVE  status'[new[i].turn] # "none"
      <4>1. CASE i = n + 1
        <5>1. new[i].turn = t
          BY <4>1, <1>1, <1>2
        <5>2. QED
          BY <5>1, <1>3
      <4>2. CASE i # n + 1
        <5>1. i \in 1 .. n
          BY <4>2, <1>1
        <5>2. new[i] = old[i] /\ i \in DOMAIN old
          BY <5>1, <1>1
        <5>3. QED
          BY <5>2, <1>4
      <4>3. QED
        BY <4>1, <4>2
    <3>2. QED
      BY <3>1, <2>2, <1>1, <1>2, <1>5
  <2>3. QED
    BY <2>1, <2>2
<1>8. TurnsDoNotInterleave'
  <2> SUFFICES ASSUME NEW r \in Sessions,
                      NEW i \in DOMAIN messages'[r], NEW j \in DOMAIN messages'[r],
                      NEW k \in DOMAIN messages'[r],
                      i < j, j < k, messages'[r][i].turn = messages'[r][k].turn
               PROVE  messages'[r][j].turn = messages'[r][i].turn
    BY DEF TurnsDoNotInterleave
  <2>1. CASE r # s
    BY <2>1, <1>1 DEF TurnsDoNotInterleave
  <2>2. CASE r = s
    <3>1. i \in 1 .. n
      BY <2>2, <1>1
    <3>2. new[i].turn # t
      BY <3>1, <1>1, <1>4
    <3>3. k # n + 1
      BY <3>2, <2>2, <1>1, <1>2
    <3>4. k \in 1 .. n /\ j \in 1 .. n
      BY <3>3, <2>2, <1>1
    <3>5. old[i].turn = old[k].turn /\ new[i] = old[i] /\ new[j] = old[j]
      BY <3>1, <3>4, <2>2, <1>1
    <3>6. old[j].turn = old[i].turn
      BY <3>1, <3>4, <3>5, <1>1 DEF TurnsDoNotInterleave
    <3>7. QED
      BY <3>5, <3>6, <2>2
  <2>3. QED
    BY <2>1, <2>2
<1>9. OneResultPerCall'
  <2> SUFFICES ASSUME NEW r \in Sessions,
                      NEW i \in DOMAIN messages'[r], NEW j \in DOMAIN messages'[r],
                      messages'[r][i].role = "tool", messages'[r][j].role = "tool",
                      messages'[r][i].call = messages'[r][j].call
               PROVE  i = j
    BY DEF OneResultPerCall
  <2>1. CASE r # s
    BY <2>1, <1>1 DEF OneResultPerCall
  <2>2. CASE r = s
    <3>1. i \in 1 .. n /\ j \in 1 .. n
      BY <2>2, <1>1, <1>2
    <3>2. QED
      BY <3>1, <2>2, <1>1 DEF OneResultPerCall
  <2>3. QED
    BY <2>1, <2>2
<1>10. QED
  BY <1>6, <1>7, <1>8, <1>9 DEF Promises

-----------------------------------------------------------------------------
(* the promises hold *)

\* Every transaction is a quiet one, an extension or a beginning.
LEMMA StoreInvStep == StoreInv /\ [StoreNext]_storeVars => StoreInv'
<1> SUFFICES ASSUME StoreInv, [StoreNext]_storeVars
             PROVE  StoreInv'
  OBVIOUS
<1>0. StoreTypeOK /\ StoreTypeOK'
  BY StoreTypeStep DEF StoreInv
<1>1. CASE CallerGenerates
  <2>1. NoTurnBegins /\ messages' = messages
    BY <1>1 DEF CallerGenerates, CreateGeneration, NoTurnBegins
  <2>2. QED
    BY <2>1, <1>0, QuietStep DEF StoreInv, Promises
<1>2. CASE CallerBegins
  <2>1. PICK s \in Sessions, t \in Turns : BeginTurn(s, t)
    BY <1>2 DEF CallerBegins
  <2>2. QED
    BY <2>1, <1>0, BeginStep DEF StoreInv, Promises
<1>3. CASE CallerAsks
  <2>1. PICK s \in Sessions, t \in Turns, cs \in Batches : CommitAssistantToolCalls(s, t, cs)
    BY <1>3 DEF CallerAsks
  <2>2. /\ Request(t, cs) \in Message /\ Request(t, cs).turn = t
        /\ Request(t, cs).role = "assistant"
    BY StoreAssumption DEF Message, Request, Text
  <2>3. /\ NoTurnBegins /\ RunningIn(s, t)
        /\ messages' = [messages EXCEPT ![s] = Append(@, Request(t, cs))]
    BY <2>1 DEF CommitAssistantToolCalls, NoTurnBegins
  <2>4. Promises'
    BY <2>2, <2>3, ExtendStep
  <2>5. QED
    BY <2>4, <1>0 DEF StoreInv, Promises
<1>4. CASE CallerAnswers
  <2>1. PICK s \in Sessions, t \in Turns, c \in Calls, k \in ResultKinds :
          CommitToolResult(s, t, c, k)
    BY <1>4 DEF CallerAnswers
  <2>2. /\ Result(t, c, k) \in Message /\ Result(t, c, k).turn = t
        /\ Result(t, c, k).call = c
    BY EmptySeq DEF Message, Result, Text
  <2>3. /\ NoTurnBegins /\ RunningIn(s, t) /\ ~HasResult(s, c)
        /\ messages' = [messages EXCEPT ![s] = Append(@, Result(t, c, k))]
    BY <2>1 DEF CommitToolResult, CanCommitResult, NoTurnBegins
  <2>4. Promises'
    BY <2>2, <2>3, ExtendStep
  <2>5. QED
    BY <2>4, <1>0 DEF StoreInv, Promises
<1>5. CASE CallerCompletes
  <2>1. PICK s \in Sessions, t \in Turns : CompleteTurn(s, t)
    BY <1>5 DEF CallerCompletes
  <2>2. /\ Text("assistant", t) \in Message /\ Text("assistant", t).turn = t
        /\ Text("assistant", t).role = "assistant"
    BY EmptySeq DEF Message, Text
  <2>3. /\ NoTurnBegins /\ RunningIn(s, t)
        /\ messages' = [messages EXCEPT ![s] = Append(@, Text("assistant", t))]
    BY <2>1, <1>0 DEF CompleteTurn, CanComplete, NoTurnBegins, StoreTypeOK
  <2>4. Promises'
    BY <2>2, <2>3, ExtendStep
  <2>5. QED
    BY <2>4, <1>0 DEF StoreInv, Promises
<1>6. CASE CallerFinishes
  <2>1. NoTurnBegins /\ messages' = messages
    BY <1>6, <1>0 DEF CallerFinishes, FinishWithoutMessage, NoTurnBegins, StoreTypeOK
  <2>2. QED
    BY <2>1, <1>0, QuietStep DEF StoreInv, Promises
<1>7. CASE CallerNotes
  <2>1. NoTurnBegins /\ messages' = messages
    BY <1>7 DEF CallerNotes, AppendEvent, NoTurnBegins
  <2>2. QED
    BY <2>1, <1>0, QuietStep DEF StoreInv, Promises
<1>8. CASE UNCHANGED storeVars
  <2>1. NoTurnBegins /\ messages' = messages
    BY <1>8 DEF storeVars, NoTurnBegins
  <2>2. QED
    BY <2>1, <1>0, QuietStep DEF StoreInv, Promises
<1>9. QED
  BY <1>1, <1>2, <1>3, <1>4, <1>5, <1>6, <1>7, <1>8 DEF StoreNext

\* Empty tables keep every promise.
LEMMA StoreInitially == StoreInit => StoreInv
<1>1. StoreInit => StoreTypeOK
  BY EmptySeq DEF StoreInit, StoreTypeOK, Status
<1>2. StoreInit => AtMostOneRunning
  BY DEF StoreInit, AtMostOneRunning, RunningIn
<1>3. StoreInit => TurnBlocks
  BY EmptySeq DEF StoreInit, TurnBlocks, RunningIn
<1>4. StoreInit => TurnsDoNotInterleave /\ OneResultPerCall
  BY EmptySeq DEF StoreInit, TurnsDoNotInterleave, OneResultPerCall
<1>5. QED
  BY <1>1, <1>2, <1>3, <1>4 DEF StoreInv

\* The invariant the promises follow from.
LEMMA StoreInvariant == StoreSpec => []StoreInv
  BY StoreInitially, StoreInvStep, PTL DEF StoreSpec

\* A session never has two running turns.
THEOREM OneRunningTurn == StoreSpec => []AtMostOneRunning
<1>1. StoreInv => AtMostOneRunning
  BY DEF StoreInv
<1>2. QED
  BY <1>1, StoreInvariant, PTL

\* The messages of a turn are contiguous, and the running turn's come last.
THEOREM TurnsAreBlocks == StoreSpec => [](TurnBlocks /\ TurnsDoNotInterleave)
<1>1. StoreInv => TurnBlocks /\ TurnsDoNotInterleave
  BY DEF StoreInv
<1>2. QED
  BY <1>1, StoreInvariant, PTL

\* A tool call has at most one result in its session.
THEOREM ResultsAreUnique == StoreSpec => []OneResultPerCall
<1>1. StoreInv => OneResultPerCall
  BY DEF StoreInv
<1>2. QED
  BY <1>1, StoreInvariant, PTL

-----------------------------------------------------------------------------
(* ended turns *)

\* The guard RunningIn of every writer is what seals a turn: a transaction
\* changes the status of a turn that has not ended, and the row it appends is
\* of one.
Sealed ==
  /\ \A t \in Turns : status[t] \in Terminal => status'[t] = status[t]
  /\ \A s \in Sessions :
       messages'[s] # messages[s]
         => status[messages'[s][Len(messages'[s])].turn] \notin Terminal

\* Appending a row of a turn that has not ended.
LEMMA SealedAppend ==
  ASSUME StoreTypeOK, NEW s \in Sessions, NEW m \in Message,
         status[m.turn] \notin Terminal,
         messages' = [messages EXCEPT ![s] = Append(@, m)],
         NEW r \in Sessions, messages'[r] # messages[r]
  PROVE  status[messages'[r][Len(messages'[r])].turn] \notin Terminal
<1>1. r = s
  BY DEF StoreTypeOK
<1>2. messages[s] \in Seq(Message) /\ messages'[s] = Append(messages[s], m)
  BY DEF StoreTypeOK
<1>3. messages'[s][Len(messages'[s])] = m
  BY <1>2, AppendRow
<1>4. QED
  BY <1>1, <1>3

\* Every transaction leaves the ended turns alone.
LEMMA SealedStep == StoreTypeOK /\ [StoreNext]_storeVars => Sealed
<1> SUFFICES ASSUME StoreTypeOK, [StoreNext]_storeVars
             PROVE  Sealed
  OBVIOUS
<1>0. "running" \notin Terminal /\ "none" \notin Terminal /\ status \in [Turns -> Status]
  BY DEF Terminal, StoreTypeOK
<1>1. CASE CallerGenerates
  BY <1>1 DEF CallerGenerates, CreateGeneration, Sealed
<1>2. CASE CallerBegins
  <2>1. PICK s \in Sessions, t \in Turns : BeginTurn(s, t)
    BY <1>2 DEF CallerBegins
  <2>2. Text("user", t) \in Message /\ Text("user", t).turn = t /\ status[t] = "none"
    BY <2>1, EmptySeq DEF Message, Text, BeginTurn, CanBegin
  <2>3. messages' = [messages EXCEPT ![s] = Append(@, Text("user", t))]
    BY <2>1 DEF BeginTurn
  <2>4. \A u \in Turns : status[u] \in Terminal => status'[u] = status[u]
    BY <1>0, <2>1, <2>2 DEF BeginTurn
  <2>5. QED
    BY <1>0, <2>2, <2>3, <2>4, SealedAppend DEF Sealed
<1>3. CASE CallerAsks
  <2>1. PICK s \in Sessions, t \in Turns, cs \in Batches : CommitAssistantToolCalls(s, t, cs)
    BY <1>3 DEF CallerAsks
  <2>2. /\ Request(t, cs) \in Message /\ Request(t, cs).turn = t /\ status[t] = "running"
    BY <2>1, StoreAssumption DEF Message, Request, Text, CommitAssistantToolCalls, RunningIn
  <2>3. messages' = [messages EXCEPT ![s] = Append(@, Request(t, cs))] /\ status' = status
    BY <2>1 DEF CommitAssistantToolCalls
  <2>4. QED
    BY <1>0, <2>2, <2>3, SealedAppend DEF Sealed
<1>4. CASE CallerAnswers
  <2>1. PICK s \in Sessions, t \in Turns, c \in Calls, k \in ResultKinds :
          CommitToolResult(s, t, c, k)
    BY <1>4 DEF CallerAnswers
  <2>2. /\ Result(t, c, k) \in Message /\ Result(t, c, k).turn = t
    BY EmptySeq DEF Message, Result, Text
  <2>3. /\ messages' = [messages EXCEPT ![s] = Append(@, Result(t, c, k))]
        /\ status' = status /\ status[t] = "running"
    BY <2>1 DEF CommitToolResult, CanCommitResult, RunningIn
  <2>4. QED
    BY <1>0, <2>2, <2>3, SealedAppend DEF Sealed
<1>5. CASE CallerCompletes
  <2>1. PICK s \in Sessions, t \in Turns : CompleteTurn(s, t)
    BY <1>5 DEF CallerCompletes
  <2>2. Text("assistant", t) \in Message /\ Text("assistant", t).turn = t
    BY EmptySeq DEF Message, Text
  <2>3. /\ messages' = [messages EXCEPT ![s] = Append(@, Text("assistant", t))]
        /\ status' = [status EXCEPT ![t] = "completed"] /\ status[t] = "running"
    BY <2>1 DEF CompleteTurn, CanComplete, RunningIn
  <2>4. \A u \in Turns : status[u] \in Terminal => status'[u] = status[u]
    BY <1>0, <2>3
  <2>5. QED
    BY <1>0, <2>2, <2>3, <2>4, SealedAppend DEF Sealed
<1>6. CASE CallerFinishes
  <2>1. PICK s \in Sessions, t \in Turns, k \in {"interrupted", "failed"} :
          FinishWithoutMessage(s, t, k)
    BY <1>6 DEF CallerFinishes
  <2>2. /\ messages' = messages /\ status' = [status EXCEPT ![t] = k]
        /\ status[t] = "running"
    BY <2>1 DEF FinishWithoutMessage, CanFinish, RunningIn
  <2>3. QED
    BY <1>0, <2>2 DEF Sealed
<1>7. CASE CallerNotes
  BY <1>7 DEF CallerNotes, AppendEvent, Sealed
<1>8. CASE UNCHANGED storeVars
  BY <1>8 DEF storeVars, Sealed
<1>9. QED
  BY <1>1, <1>2, <1>3, <1>4, <1>5, <1>6, <1>7, <1>8 DEF StoreNext

\* An ended turn keeps its outcome and gets no further message.
THEOREM EndedTurnsStaySealed == StoreSpec => EndedTurnIsSealed
<1>1. StoreTypeOK /\ [StoreNext]_storeVars => [Sealed]_storeVars
  BY SealedStep
<1>2. QED
  BY <1>1, StoreTyped, PTL DEF StoreSpec, EndedTurnIsSealed, Sealed

-----------------------------------------------------------------------------
(* where a request is *)

\* The maps partition the ids that were registered, an answer is only ever sent
\* to a request that is settled with it, and a grant only by a decision.
Tracked(a) ==
  /\ a \in pending => request[a] # NoRequest /\ finished[a] = "-"
  /\ finished[a] # "-" => request[a] # NoRequest
  /\ request[a] # NoRequest => a \in pending \/ finished[a] # "-"
  /\ finished[a] = "-" => delivered[a] = "-"
  /\ delivered[a] \in Granted => finished[a] = "AlreadyResolved"

ApprovalInv == ApprovalTypeOK /\ \A a \in Approvals : Tracked(a)

\* A request that is registered is none of the placeholders.
LEMMA RequestIsReal == \A r \in Requests : r # NoRequest
  BY IdAssumption DEF Requests, NoRequest

\* Both maps and the channel are empty at the start.
LEMMA InitTracks == ApprovalInit => ApprovalInv
  BY DEF ApprovalInit, ManagerInit, ApprovalInv, ApprovalTypeOK, Tracked, Finished, Outcomes, Granted

\* register
LEMMA RegisterTracks ==
  ASSUME ApprovalInv, NEW a \in Approvals, NEW r \in Requests, request[a] = NoRequest, Register(a, r)
  PROVE  ApprovalInv'
<1>1. ApprovalTypeOK'
  BY DEF ApprovalInv, ApprovalTypeOK, Register
<1>2. ASSUME NEW b \in Approvals
      PROVE  Tracked(b)'
  BY RequestIsReal DEF ApprovalInv, ApprovalTypeOK, Tracked, Register
<1>3. QED
  BY <1>1, <1>2 DEF ApprovalInv

\* What resolve and expire do to an entry they take out for good.
LEMMA SettleTracks ==
  ASSUME ApprovalInv, NEW a \in pending, NEW why \in Finished, NEW o \in Outcomes,
         o \in Granted => why = "AlreadyResolved",
         Settle(a, why, o), UNCHANGED request
  PROVE  /\ pending' \in SUBSET Approvals
         /\ finished' \in [Approvals -> Finished \union {"-"}]
         /\ delivered' \in [Approvals -> Outcomes \union {"-"}]
         /\ \A b \in Approvals : Tracked(b)'
<1>1. a \in Approvals
  BY DEF ApprovalInv, ApprovalTypeOK
<1>2. /\ pending' \in SUBSET Approvals
      /\ finished' \in [Approvals -> Finished \union {"-"}]
      /\ delivered' \in [Approvals -> Outcomes \union {"-"}]
  BY <1>1 DEF ApprovalInv, ApprovalTypeOK, Settle
<1>3. why # "-"
  BY DEF Finished
<1>4. ASSUME NEW b \in Approvals
      PROVE  Tracked(b)'
  BY <1>1, <1>3 DEF ApprovalInv, ApprovalTypeOK, Tracked, Settle
<1>5. QED
  BY <1>2, <1>4

\* resolve, in each of its three ways
LEMMA ResolveTracks ==
  ASSUME ApprovalInv, NEW s \in Sessions, NEW t \in Turns, NEW a \in Approvals,
         NEW d \in Decisions, Resolve(s, t, a, d)
  PROVE  ApprovalInv'
<1>1. CASE ResolveAccepted(s, t, a, d)
  <2> DEFINE o == IF d = "deny" THEN "denied" ELSE d
  <2>1. a \in pending /\ request[a] \in Requests
    BY <1>1, RequestIsReal DEF ResolveAccepted, Resolvable, ApprovalInv, ApprovalTypeOK, Tracked
  <2>2. o \in Outcomes /\ "AlreadyResolved" \in Finished
    BY DEF Decisions, Outcomes, Granted, Finished
  <2>3. Settle(a, "AlreadyResolved", o) /\ UNCHANGED request
    BY <1>1 DEF ResolveAccepted
  <2>4. request[a].key \in Keys
    BY <2>1 DEF Requests
  <2>5. rules' \in [Sessions -> SUBSET Keys] /\ alwaysRules' \in SUBSET Keys
    BY <1>1, <2>4 DEF ResolveAccepted, RulesAfter, ApprovalInv, ApprovalTypeOK
  <2>6. UNCHANGED <<request, waiter, due>>
    BY <1>1 DEF ResolveAccepted
  <2> HIDE DEF o
  <2>7. QED
    BY <2>1, <2>2, <2>3, <2>5, <2>6, SettleTracks DEF ApprovalInv, ApprovalTypeOK
<1>2. CASE ResolveExpired(a)
  <2>1. a \in pending /\ Settle(a, "Expired", "timed_out") /\ UNCHANGED request
    BY <1>2 DEF ResolveExpired
  <2>2. "timed_out" \in Outcomes \ Granted /\ "Expired" \in Finished
    BY DEF Outcomes, Granted, Finished
  <2>3. QED
    BY <1>2, <2>1, <2>2, SettleTracks DEF ResolveExpired, ApprovalInv, ApprovalTypeOK
<1>3. CASE ResolveRefused(s, t, a)
  BY <1>3 DEF ResolveRefused, approvalVars, managerVars, ApprovalInv, ApprovalTypeOK, Tracked
<1>4. QED
  BY <1>1, <1>2, <1>3 DEF Resolve

\* cancel_for_turn settles every entry of the turn and leaves the others.
LEMMA CancelTracks ==
  ASSUME ApprovalInv, NEW t \in Turns, CancelForTurn(t)
  PROVE  ApprovalInv'
<1>1. ApprovalTypeOK'
  BY DEF ApprovalInv, ApprovalTypeOK, CancelForTurn, PendingOf, Finished, Outcomes
<1>2. ASSUME NEW b \in Approvals
      PROVE  Tracked(b)'
  BY DEF ApprovalInv, ApprovalTypeOK, Tracked, CancelForTurn, PendingOf, Granted
<1>3. QED
  BY <1>1, <1>2 DEF ApprovalInv

\* expire
LEMMA ExpireTracks ==
  ASSUME ApprovalInv, NEW a \in Approvals, Expire(a)
  PROVE  ApprovalInv'
<1>1. CASE a \in pending
  <2>1. Settle(a, "Expired", "timed_out") /\ UNCHANGED request
    BY <1>1 DEF Expire
  <2>2. "timed_out" \in Outcomes \ Granted /\ "Expired" \in Finished
    BY DEF Outcomes, Granted, Finished
  <2>3. QED
    BY <1>1, <2>1, <2>2, SettleTracks DEF Expire, ApprovalInv, ApprovalTypeOK
<1>2. CASE a \notin pending
  BY <1>2 DEF Expire, ApprovalInv, ApprovalTypeOK, Tracked
<1>3. QED
  BY <1>1, <1>2

\* The waiters and the clock touch neither map.
LEMMA OthersTrack ==
  ASSUME ApprovalInv, TimePasses \/ WaiterWakes \/ UNCHANGED approvalVars
  PROVE  ApprovalInv'
<1>1. CASE TimePasses
  BY <1>1 DEF TimePasses, DeadlinePasses, managerVars, ApprovalInv, ApprovalTypeOK, Tracked
<1>2. CASE WaiterWakes
  BY <1>2 DEF WaiterWakes, WaiterReturns, managerVars, ApprovalInv, ApprovalTypeOK, Tracked
<1>3. CASE UNCHANGED approvalVars
  BY <1>3 DEF approvalVars, managerVars, ApprovalInv, ApprovalTypeOK, Tracked
<1>4. QED
  BY <1>1, <1>2, <1>3

LEMMA StepTracks == ApprovalInv /\ [ApprovalNext]_approvalVars => ApprovalInv'
<1> SUFFICES ASSUME ApprovalInv, [ApprovalNext]_approvalVars
             PROVE  ApprovalInv'
  OBVIOUS
<1>1. CASE ActorRegisters
  BY <1>1, RegisterTracks DEF ActorRegisters
<1>2. CASE ActorResolves
  BY <1>2, ResolveTracks DEF ActorResolves
<1>3. CASE ActorCancels
  BY <1>3, CancelTracks DEF ActorCancels
<1>4. CASE ActorExpires
  BY <1>4, ExpireTracks DEF ActorExpires
<1>5. CASE TimePasses \/ WaiterWakes \/ UNCHANGED approvalVars
  BY <1>5, OthersTrack
<1>6. QED
  BY <1>1, <1>2, <1>3, <1>4, <1>5 DEF ApprovalNext

\* No sequence of operations, waits and deadlines loses a registered request or
\* leaves it in both maps.
THEOREM NoRequestIsLost == ApprovalSpec => [](ApprovalTypeOK /\ EveryRequestIsAccountedFor)
<1>1. ApprovalSpec => []ApprovalInv
  BY InitTracks, StepTracks, PTL DEF ApprovalSpec
<1>2. ApprovalInv => ApprovalTypeOK /\ EveryRequestIsAccountedFor
  BY DEF ApprovalInv, Tracked, EveryRequestIsAccountedFor
<1>3. QED
  BY <1>1, <1>2, PTL

-----------------------------------------------------------------------------
(* what was settled stays settled *)

\* The entry of a settled request, its answer and what it was registered with.
Stays(a) ==
  /\ finished'[a] = finished[a] /\ delivered'[a] = delivered[a]
  /\ request'[a] = request[a] /\ a \notin pending'

\* Only what is in the pending map is ever settled.
LEMMA SettleSparesOthers ==
  ASSUME ApprovalInv, NEW a \in pending, NEW why, NEW o, Settle(a, why, o), UNCHANGED request,
         NEW b \in Approvals, finished[b] # "-"
  PROVE  Stays(b)
<1>1. a # b /\ b \notin pending
  BY DEF ApprovalInv, Tracked
<1>2. QED
  BY <1>1 DEF Settle, Stays, ApprovalInv, ApprovalTypeOK

LEMMA SettledStays ==
  ASSUME ApprovalInv, [ApprovalNext]_approvalVars, NEW b \in Approvals, finished[b] # "-"
  PROVE  Stays(b)
<1>1. b \notin pending /\ request[b] # NoRequest
  BY DEF ApprovalInv, Tracked
<1>2. CASE ActorRegisters
  BY <1>1, <1>2 DEF ActorRegisters, Register, Stays, ApprovalInv, ApprovalTypeOK
<1>3. CASE ActorResolves
  <2>1. PICK s \in Sessions, t \in Turns, a \in Approvals, d \in Decisions : Resolve(s, t, a, d)
    BY <1>3 DEF ActorResolves
  <2>2. CASE ResolveAccepted(s, t, a, d)
    BY <2>2, SettleSparesOthers DEF ResolveAccepted, Resolvable
  <2>3. CASE ResolveExpired(a)
    BY <2>3, SettleSparesOthers DEF ResolveExpired
  <2>4. CASE ResolveRefused(s, t, a)
    BY <1>1, <2>4 DEF ResolveRefused, approvalVars, managerVars, Stays
  <2>5. QED
    BY <2>1, <2>2, <2>3, <2>4 DEF Resolve
<1>4. CASE ActorCancels
  BY <1>1, <1>4 DEF ActorCancels, CancelForTurn, PendingOf, Stays, ApprovalInv, ApprovalTypeOK
<1>5. CASE ActorExpires
  <2>1. PICK a \in Approvals : Expire(a)
    BY <1>5 DEF ActorExpires
  <2>2. CASE a \in pending
    BY <2>1, <2>2, SettleSparesOthers DEF Expire
  <2>3. CASE a \notin pending
    BY <1>1, <2>1, <2>3 DEF Expire, Stays
  <2>4. QED
    BY <2>2, <2>3
<1>6. CASE TimePasses \/ WaiterWakes \/ UNCHANGED approvalVars
  BY <1>1, <1>6 DEF TimePasses, DeadlinePasses, WaiterWakes, WaiterReturns, approvalVars, managerVars,
    Stays
<1>7. QED
  BY <1>2, <1>3, <1>4, <1>5, <1>6 DEF ApprovalNext

\* A second decision, a cancellation of the turn or an expiry that comes later
\* changes neither the verdict nor the answer that was sent.
THEOREM SettlementIsFinal == ApprovalSpec => SettledOnce
<1>1. ApprovalInv /\ [ApprovalNext]_approvalVars =>
        [\A a \in Approvals :
           finished[a] # "-" => /\ finished'[a] = finished[a]
                                /\ delivered'[a] = delivered[a]
                                /\ a \notin pending']_approvalVars
  BY SettledStays DEF Stays
<1>2. ApprovalSpec => []ApprovalInv
  BY InitTracks, StepTracks, PTL DEF ApprovalSpec
<1>3. QED
  BY <1>1, <1>2, PTL DEF ApprovalSpec, SettledOnce

-----------------------------------------------------------------------------
(* nothing is permitted that no user permitted *)

\* The answer of a request that was sent one stays, whatever happens.
LEMMA AnswersStay ==
  ASSUME ApprovalInv, [ApprovalNext]_approvalVars, NEW a \in Approvals, delivered[a] # "-"
  PROVE  Stays(a)
<1>1. finished[a] # "-"
  BY DEF ApprovalInv, Tracked
<1>2. QED
  BY <1>1, SettledStays

\* A new rule comes with the decision that asked for it; old ones keep theirs.
LEMMA RulesStep ==
  ASSUME ApprovalInv, RulesComeFromTheUser, [ApprovalNext]_approvalVars
  PROVE  RulesComeFromTheUser'
<1>1. ASSUME NEW s \in Sessions, NEW k \in rules[s]
      PROVE  \E a \in Approvals :
               request'[a].session = s /\ request'[a].key = k /\ delivered'[a] = "session"
  BY AnswersStay DEF RulesComeFromTheUser, Stays
<1>2. ASSUME NEW k \in alwaysRules
      PROVE  \E a \in Approvals : request'[a].key = k /\ delivered'[a] = "always"
  BY AnswersStay DEF RulesComeFromTheUser, Stays
<1>3. CASE UNCHANGED <<rules, alwaysRules>>
  BY <1>1, <1>2, <1>3 DEF RulesComeFromTheUser
<1>4. CASE ActorResolves
  <2>1. PICK s \in Sessions, t \in Turns, a \in Approvals, d \in Decisions : Resolve(s, t, a, d)
    BY <1>4 DEF ActorResolves
  <2>2. CASE ResolveAccepted(s, t, a, d)
    <3>1. /\ rules' = RulesAfter(d, s, request[a].key)
          /\ alwaysRules' = IF d = "always" THEN alwaysRules \union {request[a].key} ELSE alwaysRules
          /\ request' = request /\ request[a].session = s
          /\ delivered'[a] = IF d = "deny" THEN "denied" ELSE d
      BY <2>2 DEF ResolveAccepted, Resolvable, Settle, ApprovalInv, ApprovalTypeOK
    <3>2. ASSUME NEW r \in Sessions, NEW k \in rules'[r]
          PROVE  \E b \in Approvals :
                   request'[b].session = r /\ request'[b].key = k /\ delivered'[b] = "session"
      <4>1. CASE k \in rules[r]
        BY <1>1, <4>1
      <4>2. CASE k \notin rules[r]
        <5>1. d = "session" /\ r = s /\ k = request[a].key
          BY <3>1, <4>2 DEF RulesAfter, ApprovalInv, ApprovalTypeOK
        <5>2. QED
          BY <3>1, <5>1
      <4>3. QED
        BY <4>1, <4>2
    <3>3. ASSUME NEW k \in alwaysRules'
          PROVE  \E b \in Approvals : request'[b].key = k /\ delivered'[b] = "always"
      BY <1>2, <3>1
    <3>4. QED
      BY <3>2, <3>3 DEF RulesComeFromTheUser
  <2>3. CASE ResolveExpired(a) \/ ResolveRefused(s, t, a)
    BY <1>3, <2>3 DEF ResolveExpired, ResolveRefused, approvalVars, managerVars
  <2>4. QED
    BY <2>1, <2>2, <2>3 DEF Resolve
<1>5. CASE ~ActorResolves
  BY <1>3, <1>5 DEF ApprovalNext, ActorRegisters, Register, ActorCancels, CancelForTurn, ActorExpires,
    Expire, TimePasses, DeadlinePasses, WaiterWakes, WaiterReturns, approvalVars, managerVars
<1>6. QED
  BY <1>4, <1>5

\* A waiter takes a grant from its channel only.
LEMMA GrantsStep ==
  ASSUME ApprovalInv, GrantsAreTheUsers, [ApprovalNext]_approvalVars
  PROVE  GrantsAreTheUsers'
<1> SUFFICES ASSUME NEW a \in Approvals, waiter'[a] \in Granted
             PROVE  finished'[a] = "AlreadyResolved" /\ delivered'[a] = waiter'[a]
  BY DEF GrantsAreTheUsers
<1>1. CASE waiter[a] = waiter'[a]
  <2>1. finished[a] = "AlreadyResolved" /\ delivered[a] = waiter'[a]
    BY <1>1 DEF GrantsAreTheUsers
  <2>2. QED
    BY <2>1, SettledStays DEF Stays
<1>2. CASE waiter[a] # waiter'[a]
  <2>1. CASE WaiterWakes
    <3>1. PICK b \in Approvals, cancelled \in BOOLEAN, o \in Outcomes : WaiterReturns(b, cancelled, o)
      BY <2>1 DEF WaiterWakes
    <3>2. b = a /\ o = waiter'[a]
      BY <1>2, <3>1 DEF WaiterReturns, ApprovalInv, ApprovalTypeOK
    <3>3. delivered[a] = o
      BY <3>1, <3>2 DEF WaiterReturns, Ready, Granted
    <3>4. finished[a] = "AlreadyResolved"
      BY <3>2, <3>3 DEF ApprovalInv, Tracked
    <3>5. QED
      BY <3>1, <3>2, <3>3, <3>4 DEF WaiterReturns, managerVars
  <2>2. CASE ActorRegisters
    <3>1. waiter'[a] = waiter[a] \/ waiter'[a] = "waiting"
      BY <2>2 DEF ActorRegisters, Register, ApprovalInv, ApprovalTypeOK
    <3>2. QED
      BY <1>2, <3>1 DEF Granted
  <2>3. CASE ~WaiterWakes /\ ~ActorRegisters
    <3>1. UNCHANGED waiter
      BY <2>3 DEF ApprovalNext, ActorResolves, Resolve, ResolveAccepted, ResolveExpired, ResolveRefused,
        ActorCancels, CancelForTurn, ActorExpires, Expire, TimePasses, DeadlinePasses, approvalVars,
        managerVars
    <3>2. QED
      BY <1>2, <3>1
  <2>4. QED
    BY <2>1, <2>2, <2>3
<1>3. QED
  BY <1>1, <1>2

\* Neither a rule nor a granted call without the user's decision behind it: the
\* races of answers, deadlines and cancellations leave none.
THEOREM NothingIsGrantedUnasked == ApprovalSpec => []OnlyUsersGrant
<1>1. ApprovalInit => OnlyUsersGrant
  BY DEF ApprovalInit, ManagerInit, OnlyUsersGrant, RulesComeFromTheUser, GrantsAreTheUsers, Granted
<1>2. ApprovalInv /\ OnlyUsersGrant /\ [ApprovalNext]_approvalVars => OnlyUsersGrant'
  BY RulesStep, GrantsStep DEF OnlyUsersGrant
<1>3. ApprovalSpec => []ApprovalInv
  BY InitTracks, StepTracks, PTL DEF ApprovalSpec
<1>4. QED
  BY <1>1, <1>2, <1>3, PTL DEF ApprovalSpec

-----------------------------------------------------------------------------
(* the mailbox *)

\* What an input carries, by its type.
LEMMA InputFields ==
  ASSUME NEW m \in Inputs
  PROVE  /\ m.type \in {"delta", "final", "failed", "cancelled", "exited", "calls", "result", "outcome"}
              => m.turn \in Turns
         /\ m.type = "calls" => m.calls \in Batches \union {<<>>}
         /\ m.type = "result" => m.call \in Calls
         /\ m.type \in {"resolve", "outcome"} => m.approval \in Approvals
         /\ m.type = "resolve" => m.decision \in Decisions
         /\ m.type = "outcome" => m.outcome \in Outcomes
         /\ m.type = "resume" => m.interactive \in BOOLEAN
  BY DEF Inputs

\* Taking the first input moves the others up.
LEMMA Taken ==
  ASSUME mailbox \in Seq(Inputs), mailbox # <<>>, mailbox' = Tail(mailbox)
  PROVE  /\ Head(mailbox) \in Inputs /\ Head(mailbox) = mailbox[1]
         /\ mailbox' \in Seq(Inputs) /\ Len(mailbox') = Len(mailbox) - 1
         /\ Len(mailbox) \in Nat \ {0}
         /\ DOMAIN mailbox = 1 .. Len(mailbox) /\ DOMAIN mailbox' = 1 .. Len(mailbox) - 1
         /\ \A i \in DOMAIN mailbox' : i + 1 \in DOMAIN mailbox /\ mailbox'[i] = mailbox[i + 1]
<1>1. /\ Head(mailbox) \in Inputs /\ Tail(mailbox) \in Seq(Inputs)
      /\ Len(mailbox) \in Nat /\ Len(mailbox) # 0 /\ Len(Tail(mailbox)) = Len(mailbox) - 1
      /\ Head(mailbox) = mailbox[1]
      /\ \A i \in 1 .. Len(mailbox) - 1 : Tail(mailbox)[i] = mailbox[i + 1]
  BY HeadTailProperties, EmptySeq, LenProperties
<1>2. DOMAIN mailbox = 1 .. Len(mailbox) /\ DOMAIN mailbox' = 1 .. Len(mailbox')
  BY <1>1, LenProperties
<1>3. QED
  BY <1>1, <1>2

\* Posting an input leaves the others where they are.
LEMMA Posted ==
  ASSUME mailbox \in Seq(Inputs), NEW m \in Inputs, mailbox' = Append(mailbox, m)
  PROVE  /\ mailbox' \in Seq(Inputs) /\ Len(mailbox) \in Nat /\ Len(mailbox') = Len(mailbox) + 1
         /\ DOMAIN mailbox = 1 .. Len(mailbox) /\ DOMAIN mailbox' = 1 .. Len(mailbox) + 1
         /\ \A i \in DOMAIN mailbox : mailbox'[i] = mailbox[i]
         /\ mailbox'[Len(mailbox) + 1] = m
  BY AppendRow

-----------------------------------------------------------------------------
(* types *)

Ending == pc \in {"stop", "drain", "finish"}

\* Where the actor stands and what it holds there.
Shape ==
  /\ Idle => active = NoActive
  /\ pc \in {"stopped", "recover", "begin"} => Idle
  /\ Ending \/ pc \in {"advance", "spawn", "reject"} => ~Idle
  /\ pc = "spawn" => HasCurrent
  /\ active.batch # <<>> => active.rounds # 0
  /\ pc = "recover" => job.turn \in Turns
  /\ Ending => job.turn = active.turn /\ job.kind \in Terminal

MemoryTypeOK ==
  /\ pc \in Pcs
  /\ job \in [turn : Turns \union {NoTurn}, kind : Terminal \union {"-"}, exit : BOOLEAN]
  /\ plan \subseteq [at : [event : Nat, slot : Nat, call : Calls], kind : Verdicts]
  /\ active \in [turn : Turns \union {NoTurn}, cancelled : BOOLEAN, rounds : 0 .. MaxRounds,
                 batch : Batches \union {<<>>}, index : Nat, approved : BOOLEAN,
                 approval : Approvals \union {NoApproval}, awaiting : BOOLEAN]
  /\ interactive \in BOOLEAN
  /\ schema \in Schemas
  /\ mailbox \in Seq(Inputs) /\ Len(mailbox) <= Capacity
  /\ workers \subseteq Turns \X (0 .. MaxRounds)
  /\ tools \subseteq Positions /\ executed \subseteq Positions
  /\ subject \in [Approvals -> Positions \union {NoPosition}]
  /\ heard \in [Turns -> {"-", "open"} \union Terminal]
  /\ told \in [Approvals -> {"-", "requested", "resolved", "timed_out"}]
  /\ lost \subseteq Turns
  /\ faults \in 0 .. MaxFaults /\ crashes \in 0 .. MaxCrashes
  /\ commands \in 0 .. MaxCommands /\ deltas \in 0 .. MaxDeltas

\* The type invariant of SessionActor is that of its three parts.
LEMMA ActorTypes == ActorTypeOK <=> StoreTypeOK /\ ApprovalTypeOK /\ MemoryTypeOK
  BY DEF ActorTypeOK, MemoryTypeOK

\* An actor without a turn holds no calls.
LEMMA IdleHasNoBatch == Idle => NoActive.batch = <<>>
  BY DEF NoActive

\* The call under the cursor.
LEMMA CursorTyped ==
  ASSUME MemoryTypeOK, Shape, HasCurrent
  PROVE  /\ Cursor \in Positions /\ Cursor.call = active.batch[active.index]
         /\ Cursor.turn = active.turn /\ Cursor.round = active.rounds /\ Cursor.index = active.index
         /\ active.turn \in Turns /\ active.batch # <<>>
<1>1. active.batch # <<>>
  BY DEF HasCurrent
<1>2. active.turn \in Turns
  BY <1>1 DEF MemoryTypeOK, Shape, Idle, NoActive
<1>3. active.batch \in Seq(Calls)
  BY <1>1, StoreAssumption DEF MemoryTypeOK
<1>4. active.batch[active.index] \in Calls
  BY <1>3 DEF HasCurrent
<1>5. active.rounds \in 1 .. MaxRounds
  BY <1>1, ActorAssumption DEF MemoryTypeOK, Shape
<1>6. QED
  BY <1>1, <1>2, <1>4, <1>5 DEF Cursor, Position, Positions, MemoryTypeOK

\* A transaction that fails writes nothing.
LEMMA FailsQuietly ==
  ASSUME MemoryTypeOK, NEW can, Fails(can)
  PROVE  UNCHANGED storeVars /\ faults' \in 0 .. MaxFaults
  BY ActorAssumption DEF Fails, MemoryTypeOK

-----------------------------------------------------------------------------
(* every step is typed, and writes the store by a transaction of its own *)

Typed == StoreTypeOK /\ ApprovalTypeOK /\ MemoryTypeOK /\ Shape
TypedStep == [StoreNext]_storeVars /\ ApprovalTypeOK' /\ MemoryTypeOK' /\ Shape'

\* The values that stand for "no turn" and "no task".
LEMMA NoTypes ==
  /\ NoActive \in [turn : {NoTurn}, cancelled : BOOLEAN, rounds : 0 .. MaxRounds,
                   batch : {<<>>}, index : Nat, approved : BOOLEAN,
                   approval : {NoApproval}, awaiting : BOOLEAN]
  /\ NoActive.turn = NoTurn /\ NoActive.batch = <<>> /\ ~NoActive.cancelled
  /\ NoJob \in [turn : {NoTurn}, kind : {"-"}, exit : BOOLEAN]
  BY ActorAssumption DEF NoActive, NoJob

\* Dropping the actor.
LEMMA HaltTyped ==
  ASSUME Typed, Halt, schema' \in Schemas, heard' \in [Turns -> {"-", "open"} \union Terminal],
         {faults', crashes', commands', deltas'} \subseteq Nat,
         faults' <= MaxFaults, crashes' <= MaxCrashes, commands' <= MaxCommands, deltas' <= MaxDeltas
  PROVE  ApprovalTypeOK' /\ MemoryTypeOK' /\ Shape'
<1> USE NoTypes, ActorAssumption DEF Typed, MemoryTypeOK, ApprovalTypeOK, Shape, Halt
<1>1. ApprovalTypeOK'
  OBVIOUS
<1>2. Shape'
  BY DEF Idle, Ending
<1>3. mailbox' \in Seq(Inputs) /\ Len(mailbox') <= Capacity
  BY EmptySeq
<1>4. MemoryTypeOK'
  BY <1>3, SMTT(30) DEF Pcs
<1>5. QED
  BY <1>1, <1>2, <1>4

\* Ending the active turn.
LEMMA EndTyped ==
  ASSUME Typed, ~Idle, NEW kind \in Terminal, NEW exit \in BOOLEAN, End(kind, exit),
         active'.turn = active.turn, active'.batch \in {active.batch, <<>>},
         active'.rounds = active.rounds
  PROVE  /\ pc' \in Pcs /\ Shape'
         /\ job' \in [turn : Turns \union {NoTurn}, kind : Terminal \union {"-"}, exit : BOOLEAN]
  BY DEF Typed, MemoryTypeOK, Shape, End, Idle, Ending, Pcs

\* The events the actor writes are events of the turn they name.
LEMMA EventTyped ==
  ASSUME NEW t \in Turns
  PROVE  /\ \A c \in Calls : ToolFact("tool.started", t, c) \in Appendable(t)
         /\ \A c \in Calls, a \in Approvals : ApprovalFact("approval.requested", t, c, a) \in Appendable(t)
         /\ \A type \in {"approval.resolved", "approval.timed_out"}, a \in Approvals :
              ApprovalFact(type, t, NoCall, a) \in Appendable(t)
  BY DEF Appendable

\* What the recovery plans to write.
LEMMA PlanTyped ==
  ASSUME StoreTypeOK, NEW t \in Turns
  PROVE  PlanRecovery(t) \subseteq [at : [event : Nat, slot : Nat, call : Calls], kind : Verdicts]
<1>1. ASSUME NEW r \in RequestedIn(t)
      PROVE  r \in [event : Nat, slot : Nat, call : Calls]
  <2>1. PICK i \in {j \in TurnEvents(t) : events[Self][j].role = "assistant"} :
          \E k \in DOMAIN events[Self][i].calls :
            r = [event |-> i, slot |-> k, call |-> events[Self][i].calls[k]]
    BY DEF RequestedIn
  <2>2. PICK k \in DOMAIN events[Self][i].calls :
          r = [event |-> i, slot |-> k, call |-> events[Self][i].calls[k]]
    BY <2>1
  <2>3. events[Self] \in Seq(Event) /\ i \in DOMAIN events[Self]
    BY ActorAssumption DEF StoreTypeOK, TurnEvents
  <2>4. i \in 1 .. Len(events[Self]) /\ Len(events[Self]) \in Nat
    BY <2>3, LenProperties
  <2>5. events[Self][i] \in Event
    BY <2>3, <2>4, ElementOfSeq
  <2>6. events[Self][i].calls \in Seq(Calls)
    BY <2>5 DEF Event
  <2>7. k \in 1 .. Len(events[Self][i].calls) /\ Len(events[Self][i].calls) \in Nat
    BY <2>6, LenProperties
  <2>8. events[Self][i].calls[k] \in Calls
    BY <2>6, <2>7, ElementOfSeq
  <2>9. QED
    BY <2>2, <2>4, <2>7, <2>8
<1>2. \A c : Verdict(t, c) \in Verdicts
  BY DEF Verdict, Verdicts
<1>3. QED
  BY <1>1, <1>2 DEF PlanRecovery

\* Opening the session keeps the types.
LEMMA StartTyped == ASSUME Typed, StartActor PROVE TypedStep
<1> USE NoTypes, ActorAssumption DEF Typed
<1>1. [StoreNext]_storeVars /\ UNCHANGED approvalVars
  BY DEF StartActor, Fails
<1>2. ApprovalTypeOK'
  BY <1>1 DEF ApprovalTypeOK, approvalVars, managerVars
<1>3. faults' \in 0 .. MaxFaults
  BY FailsQuietly DEF StartActor, MemoryTypeOK
<1>4. plan' \subseteq [at : [event : Nat, slot : Nat, call : Calls], kind : Verdicts]
  <2>1. plan' = plan \/ \E t \in Turns : plan' = PlanRecovery(t)
    BY DEF StartActor
  <2>2. QED
    BY <2>1, PlanTyped DEF MemoryTypeOK
<1>5. job' \in [turn : Turns \union {NoTurn}, kind : Terminal \union {"-"}, exit : BOOLEAN]
  BY ZenonT(30) DEF StartActor, NoJob, MemoryTypeOK
<1>6. MemoryTypeOK'
  BY <1>3, <1>4, <1>5 DEF StartActor, MemoryTypeOK, taskVars, Pcs
<1>7. Shape'
  BY DEF StartActor, Shape, Idle, Ending, NoJob
<1>8. QED
  BY <1>1, <1>2, <1>6, <1>7 DEF TypedStep

\* The recovery of an interrupted turn keeps the types.
LEMMA RecoveryTyped == ASSUME Typed, RecoverTool \/ RecoverEnd PROVE TypedStep
<1> USE NoTypes, ActorAssumption DEF Typed
<1>1. job.turn \in Turns /\ Idle /\ pc = "recover"
  BY DEF RecoverTool, RecoverEnd, Shape
<1>2. UNCHANGED <<approvalVars, active, interactive, schema, mailbox, taskVars,
                  executed, subject, told, crashes, commands, deltas>>
  BY DEF RecoverTool, RecoverEnd
<1>3. ApprovalTypeOK'
  BY <1>2 DEF ApprovalTypeOK, approvalVars, managerVars
<1>4. CASE RecoverTool
  <2>1. PICK u \in plan :
          \/ /\ CommitToolResult(Self, job.turn, u.at.call, u.kind)
             /\ Publish(job.turn, "open")
             /\ plan' = plan \ {u}
             /\ UNCHANGED <<pc, job, lost, faults>>
          \/ Fails(CanCommitResult(Self, job.turn, u.at.call)) /\ GiveUp
    BY <1>4 DEF RecoverTool
  <2>2. u.at.call \in Calls /\ u.kind \in ResultKinds
    BY DEF MemoryTypeOK, ResultKinds
  <2>3. [StoreNext]_storeVars
    BY <1>1, <2>1, <2>2, FailsQuietly DEF StoreNext, CallerAnswers
  <2>4. faults' \in 0 .. MaxFaults
    BY <2>1, FailsQuietly DEF MemoryTypeOK
  <2>5. MemoryTypeOK'
    BY <1>1, <1>2, <2>1, <2>4, ZenonT(30) DEF MemoryTypeOK, taskVars, Publish, GiveUp, LeaveRecovery, Pcs, Terminal
  <2>6. Shape'
    BY <1>1, <1>2, <2>1 DEF Shape, Idle, Ending, GiveUp, LeaveRecovery
  <2>7. QED
    BY <1>3, <2>3, <2>5, <2>6 DEF TypedStep
<1>5. CASE RecoverEnd
  <2>1. [StoreNext]_storeVars
    BY <1>1, <1>5, FailsQuietly DEF RecoverEnd, StoreNext, CallerFinishes
  <2>2. LeaveRecovery /\ lost' \subseteq Turns
    BY <1>1, <1>5 DEF RecoverEnd, GiveUp, MemoryTypeOK
  <2>3. faults' \in 0 .. MaxFaults
    BY <1>5, FailsQuietly DEF RecoverEnd, MemoryTypeOK
  <2>4. MemoryTypeOK'
    BY <1>1, <1>2, <2>2, <2>3 DEF MemoryTypeOK, taskVars, Publish, LeaveRecovery, Pcs, Terminal
  <2>5. Shape'
    BY <1>1, <1>2, <2>2 DEF Shape, Idle, Ending, LeaveRecovery
  <2>6. QED
    BY <1>3, <2>1, <2>4, <2>5 DEF TypedStep
<1>6. QED
  BY <1>4, <1>5

\* A command put into the mailbox keeps the types.
LEMMA CommandTyped == ASSUME Typed, Commands PROVE TypedStep
<1> USE NoTypes, ActorAssumption DEF Typed
<1>1. PICK m : Command(m) /\ m \in Inputs
  <2>1. CASE SendSubmit \/ SendInterrupt \/ SendClose
    BY <2>1 DEF SendSubmit, SendInterrupt, SendClose, Inputs
  <2>2. CASE SendResume
    BY <2>2 DEF SendResume, Inputs
  <2>3. CASE SendResolve
    BY <2>3 DEF SendResolve, Inputs
  <2>4. QED
    BY <2>1, <2>2, <2>3 DEF Commands
<1>2. mailbox' \in Seq(Inputs) /\ Len(mailbox') <= Capacity
  BY <1>1, Posted DEF Command, Post, Room, MemoryTypeOK
<1>3. [StoreNext]_storeVars /\ ApprovalTypeOK'
  BY <1>1 DEF Command, ApprovalTypeOK, approvalVars, managerVars
<1>4. commands' \in 0 .. MaxCommands
  BY <1>1 DEF Command, MemoryTypeOK
<1>5. UNCHANGED <<pc, memoryVars, schema, taskVars, historyVars, faults, crashes, deltas>>
  BY <1>1 DEF Command
<1>6. MemoryTypeOK'
  BY <1>2, <1>4, <1>5, SMTT(30) DEF MemoryTypeOK, memoryVars, taskVars, historyVars
<1>7. Shape'
  BY <1>5 DEF Shape, memoryVars, Idle, Ending, HasCurrent
<1>8. QED
  BY <1>3, <1>6, <1>7 DEF TypedStep

\* What a handler finds in the input it takes.
LEMMA ReceivedTyped ==
  ASSUME Typed, NEW type, Receive(type)
  PROVE  /\ pc = "recv" /\ mailbox # <<>> /\ Head(mailbox) \in Inputs /\ Head(mailbox).type = type
         /\ mailbox' = Tail(mailbox) /\ mailbox' \in Seq(Inputs) /\ Len(mailbox') <= Capacity
<1>1. mailbox \in Seq(Inputs) /\ Len(mailbox) <= Capacity
  BY DEF Typed, MemoryTypeOK
<1>2. QED
  BY <1>1, Taken, ActorAssumption DEF Receive

\* Accepting a prompt keeps the types.
LEMMA PromptTyped == ASSUME Typed, HandleSubmit \/ BeginPrompt PROVE TypedStep
<1> USE NoTypes, ActorAssumption DEF Typed
<1>1. CASE HandleSubmit
  <2>1. mailbox' \in Seq(Inputs) /\ Len(mailbox') <= Capacity /\ pc = "recv"
    BY <1>1, ReceivedTyped DEF HandleSubmit
  <2>2. [StoreNext]_storeVars
    BY <1>1, FailsQuietly DEF HandleSubmit, StoreNext, CallerGenerates, MemoryTypeOK
  <2>3. faults' \in 0 .. MaxFaults
    BY <1>1, FailsQuietly DEF HandleSubmit, MemoryTypeOK
  <2>4. ApprovalTypeOK'
    BY <1>1 DEF HandleSubmit, ApprovalTypeOK, approvalVars, managerVars
  <2>5. MemoryTypeOK'
    BY <1>1, <2>1, <2>3, ZenonT(30) DEF HandleSubmit, MemoryTypeOK, memoryVars, taskVars, historyVars, Pcs
  <2>6. Shape'
    BY <1>1, <2>1 DEF HandleSubmit, Shape, memoryVars, Idle, Ending
  <2>7. QED
    BY <2>2, <2>4, <2>5, <2>6 DEF TypedStep
<1>2. CASE BeginPrompt
  <2>1. /\ Idle /\ pc' = "recv"
        /\ UNCHANGED <<approvalVars, job, plan, interactive, schema, mailbox, tools,
                       executed, subject, told, lost, crashes, commands, deltas>>
    BY <1>2 DEF BeginPrompt, Shape
  <2>2. ApprovalTypeOK'
    BY <2>1 DEF ApprovalTypeOK, approvalVars, managerVars
  <2>3. CASE \E t \in Turns :
               /\ BeginTurn(Self, t)
               /\ active' = [NoActive EXCEPT !.turn = t]
               /\ workers' = workers \union (IF ProviderConfigured THEN {<<t, 0>>} ELSE {})
               /\ Publish(t, "open")
               /\ UNCHANGED faults
    <3>1. PICK t \in Turns :
               /\ BeginTurn(Self, t)
               /\ active' = [NoActive EXCEPT !.turn = t]
               /\ workers' = workers \union (IF ProviderConfigured THEN {<<t, 0>>} ELSE {})
               /\ Publish(t, "open")
               /\ UNCHANGED faults
      BY <2>3
    <3>2. [StoreNext]_storeVars
      BY <3>1 DEF StoreNext, CallerBegins
    <3>3. /\ active' \in [turn : Turns \union {NoTurn}, cancelled : BOOLEAN, rounds : 0 .. MaxRounds,
                          batch : Batches \union {<<>>}, index : Nat, approved : BOOLEAN,
                          approval : Approvals \union {NoApproval}, awaiting : BOOLEAN]
          /\ active'.turn = t /\ active'.batch = <<>> /\ ~active'.cancelled
      BY <3>1
    <3>4. workers' \subseteq Turns \X (0 .. MaxRounds)
      BY <3>1, SMTT(30) DEF MemoryTypeOK
    <3>5. MemoryTypeOK'
      BY <2>1, <3>1, <3>3, <3>4 DEF MemoryTypeOK, Publish, Pcs
    <3>6. Shape'
      BY <2>1, <3>3, IdAssumption DEF Shape, Idle, Ending
    <3>7. QED
      BY <2>2, <3>2, <3>5, <3>6 DEF TypedStep
  <2>4. CASE /\ Fails(\A t \in Turns : ~RunningIn(Self, t))
             /\ UNCHANGED <<active, workers, heard>>
    <3>1. [StoreNext]_storeVars /\ faults' \in 0 .. MaxFaults
      BY <2>4, FailsQuietly
    <3>2. MemoryTypeOK'
      BY <2>1, <2>4, <3>1, SMTT(30) DEF MemoryTypeOK, Pcs
    <3>3. Shape'
      BY <2>1, <2>4 DEF Shape, Idle, Ending
    <3>4. QED
      BY <2>2, <3>1, <3>2, <3>3 DEF TypedStep
  <2>5. QED
    BY <1>2, <2>3, <2>4 DEF BeginPrompt
<1>3. QED
  BY <1>1, <1>2

\* The manager's operations keep the types of its maps.
LEMMA SettleTyped ==
  ASSUME ApprovalTypeOK, NEW a \in Approvals, NEW why \in Finished, NEW o \in Outcomes, Settle(a, why, o)
  PROVE  /\ pending' \in SUBSET Approvals
         /\ finished' \in [Approvals -> Finished \union {"-"}]
         /\ delivered' \in [Approvals -> Outcomes \union {"-"}]
  BY DEF ApprovalTypeOK, Settle

\* The deadline of an approval keeps the manager's types.
LEMMA ExpireTyped == ASSUME ApprovalTypeOK, NEW a \in Approvals, Expire(a) PROVE ApprovalTypeOK'
<1>1. "timed_out" \in Outcomes /\ "Expired" \in Finished
  BY DEF Outcomes, Finished
<1>2. /\ pending' \in SUBSET Approvals
      /\ finished' \in [Approvals -> Finished \union {"-"}]
      /\ delivered' \in [Approvals -> Outcomes \union {"-"}]
  BY <1>1, SettleTyped DEF Expire, ApprovalTypeOK
<1>3. QED
  BY <1>2 DEF Expire, ApprovalTypeOK

\* An answer to an approval keeps the manager's types.
LEMMA ResolveTyped ==
  ASSUME ApprovalTypeOK, NEW s \in Sessions, NEW t, NEW a \in Approvals, NEW d \in Decisions,
         Resolve(s, t, a, d)
  PROVE  ApprovalTypeOK'
<1>1. CASE ResolveAccepted(s, t, a, d)
  <2> DEFINE o == IF d = "deny" THEN "denied" ELSE d
  <2>1. o \in Outcomes /\ "AlreadyResolved" \in Finished
    BY DEF Outcomes, Granted, Finished, Decisions
  <2>2. Settle(a, "AlreadyResolved", o)
    BY <1>1 DEF ResolveAccepted
  <2> HIDE DEF o
  <2>3. /\ pending' \in SUBSET Approvals
        /\ finished' \in [Approvals -> Finished \union {"-"}]
        /\ delivered' \in [Approvals -> Outcomes \union {"-"}]
    BY <2>1, <2>2, SettleTyped
  <2>4. request[a].key \in Keys
    BY <1>1, IdAssumption DEF ResolveAccepted, Resolvable, ApprovalTypeOK, Requests, NoRequest
  <2>5. rules' \in [Sessions -> SUBSET Keys] /\ alwaysRules' \in SUBSET Keys
    BY <1>1, <2>4 DEF ResolveAccepted, RulesAfter, ApprovalTypeOK
  <2>6. UNCHANGED <<request, waiter, due>>
    BY <1>1 DEF ResolveAccepted
  <2>7. QED
    BY <2>3, <2>5, <2>6 DEF ApprovalTypeOK
<1>2. CASE ResolveExpired(a)
  <2>1. "timed_out" \in Outcomes /\ "Expired" \in Finished
    BY DEF Outcomes, Finished
  <2>2. /\ pending' \in SUBSET Approvals
        /\ finished' \in [Approvals -> Finished \union {"-"}]
        /\ delivered' \in [Approvals -> Outcomes \union {"-"}]
    BY <1>2, <2>1, SettleTyped DEF ResolveExpired
  <2>3. QED
    BY <1>2, <2>2 DEF ResolveExpired, ApprovalTypeOK
<1>3. CASE ResolveRefused(s, t, a)
  BY <1>3 DEF ResolveRefused, ApprovalTypeOK, approvalVars, managerVars
<1>4. QED
  BY <1>1, <1>2, <1>3 DEF Resolve

\* Cancelling a turn's approvals keeps the manager's types.
LEMMA CancelTyped == ASSUME ApprovalTypeOK, NEW t, CancelForTurn(t) PROVE ApprovalTypeOK'
  BY DEF ApprovalTypeOK, CancelForTurn, PendingOf, Finished, Outcomes

\* Registering an approval keeps the manager's types.
LEMMA RegisterTyped ==
  ASSUME ApprovalTypeOK, NEW a \in Approvals, NEW r \in Requests, Register(a, r)
  PROVE  ApprovalTypeOK'
  BY DEF ApprovalTypeOK, Register

-----------------------------------------------------------------------------
(* the handlers *)

LEMMA SmallHandlersTyped ==
  ASSUME Typed, HandleInterrupt \/ HandleResume \/ HandleResolve \/ HandleDelta
  PROVE  TypedStep
<1> USE NoTypes, ActorAssumption DEF Typed
<1>0. /\ pc = "recv" /\ mailbox' \in Seq(Inputs) /\ Len(mailbox') <= Capacity
      /\ UNCHANGED storeVars
  BY ReceivedTyped DEF HandleInterrupt, HandleResume, HandleResolve, HandleDelta
<1>1. [StoreNext]_storeVars
  BY <1>0
<1>2. CASE HandleInterrupt
  <2>1. ApprovalTypeOK'
    BY <1>2 DEF HandleInterrupt, ApprovalTypeOK, approvalVars, managerVars
  <2>2. /\ pc' \in Pcs /\ Shape'
        /\ job' \in [turn : Turns \union {NoTurn}, kind : Terminal \union {"-"}, exit : BOOLEAN]
    <3>1. CASE Idle
      BY <1>0, <1>2, <3>1 DEF HandleInterrupt, MemoryTypeOK, Shape, Idle, Ending, actorOnly
    <3>2. CASE ~Idle
      BY <1>2, <3>2, EndTyped DEF HandleInterrupt, actorOnly, Terminal
    <3>3. QED
      BY <3>1, <3>2
  <2>3. MemoryTypeOK'
    BY <1>0, <1>2, <2>2 DEF HandleInterrupt, MemoryTypeOK, actorOnly, taskVars, historyVars, boundVars
  <2>4. QED
    BY <1>1, <2>1, <2>2, <2>3 DEF TypedStep
<1>3. CASE HandleResume
  <2>1. ApprovalTypeOK'
    BY <1>3 DEF HandleResume, ApprovalTypeOK, approvalVars, managerVars
  <2>2. interactive' \in BOOLEAN
    BY <1>3, ReceivedTyped, InputFields DEF HandleResume
  <2>3. MemoryTypeOK'
    BY <1>0, <1>3, <2>2 DEF HandleResume, MemoryTypeOK, taskVars, historyVars, boundVars
  <2>4. Shape'
    BY <1>0, <1>3 DEF HandleResume, Shape, Idle, Ending
  <2>5. QED
    BY <1>1, <2>1, <2>3, <2>4 DEF TypedStep
<1>4. CASE HandleResolve
  <2>1. Head(mailbox).approval \in Approvals /\ Head(mailbox).decision \in Decisions
    BY <1>4, ReceivedTyped, InputFields DEF HandleResolve
  <2>2. ApprovalTypeOK'
    <3>1. CASE UNCHANGED approvalVars
      BY <3>1 DEF ApprovalTypeOK, approvalVars, managerVars
    <3>2. CASE Resolve(Self, active.turn, Head(mailbox).approval, Head(mailbox).decision)
      BY <2>1, <3>2, ResolveTyped
    <3>3. QED
      BY <1>4, <3>1, <3>2 DEF HandleResolve
  <2>3. MemoryTypeOK'
    BY <1>0, <1>4, SMTT(30) DEF HandleResolve, MemoryTypeOK, memoryVars, taskVars, historyVars, boundVars
  <2>4. Shape'
    BY <1>0, <1>4 DEF HandleResolve, Shape, Idle, Ending, memoryVars
  <2>5. QED
    BY <1>1, <2>2, <2>3, <2>4 DEF TypedStep
<1>5. CASE HandleDelta
  <2>1. Head(mailbox).turn \in Turns
    BY <1>5, ReceivedTyped, InputFields DEF HandleDelta
  <2>2. ApprovalTypeOK'
    BY <1>5 DEF HandleDelta, ApprovalTypeOK, approvalVars, managerVars
  <2>3. heard' \in [Turns -> {"-", "open"} \union Terminal]
    BY <1>5, <2>1 DEF HandleDelta, MemoryTypeOK, Publish
  <2>4. MemoryTypeOK'
    BY <1>0, <1>5, <2>3, SMTT(30) DEF HandleDelta, MemoryTypeOK, memoryVars, taskVars, boundVars
  <2>5. Shape'
    BY <1>0, <1>5 DEF HandleDelta, Shape, Idle, Ending, memoryVars
  <2>6. QED
    BY <1>1, <2>2, <2>4, <2>5 DEF TypedStep
<1>6. QED
  BY <1>2, <1>3, <1>4, <1>5

\* Closing the session keeps the types.
LEMMA CloseTyped == ASSUME Typed, HandleClose PROVE TypedStep
<1> USE ActorAssumption DEF Typed
<1>1. UNCHANGED <<storeVars, schema, boundVars>> /\ pc = "recv" /\ mailbox # <<>>
  BY DEF HandleClose
<1>2. CASE Idle
  <2>1. Halt /\ UNCHANGED heard
    BY <1>2 DEF HandleClose
  <2>2. ApprovalTypeOK' /\ MemoryTypeOK' /\ Shape'
    <3>1. /\ schema' \in Schemas /\ heard' \in [Turns -> {"-", "open"} \union Terminal]
          /\ {faults', crashes', commands', deltas'} \subseteq Nat
          /\ faults' <= MaxFaults /\ crashes' <= MaxCrashes /\ commands' <= MaxCommands /\ deltas' <= MaxDeltas
      BY <1>1, <2>1 DEF MemoryTypeOK, boundVars
    <3>2. QED
      BY <2>1, <3>1, HaltTyped
  <2>3. QED
    BY <1>1, <2>2 DEF TypedStep
<1>3. CASE ~Idle
  <2>1. /\ End("interrupted", TRUE) /\ mailbox' = Tail(mailbox)
        /\ UNCHANGED <<approvalVars, plan, active, interactive, taskVars, historyVars>>
    BY <1>3 DEF HandleClose
  <2>2. mailbox' \in Seq(Inputs) /\ Len(mailbox') <= Capacity
    BY <1>1, <2>1, Taken DEF MemoryTypeOK
  <2>3. ApprovalTypeOK'
    BY <2>1 DEF ApprovalTypeOK, approvalVars, managerVars
  <2>4. /\ pc' \in Pcs /\ Shape'
        /\ job' \in [turn : Turns \union {NoTurn}, kind : Terminal \union {"-"}, exit : BOOLEAN]
    BY <1>3, <2>1, EndTyped DEF Terminal
  <2>5. MemoryTypeOK'
    BY <1>1, <2>1, <2>2, <2>4 DEF MemoryTypeOK, taskVars, historyVars, boundVars
  <2>6. QED
    BY <1>1, <2>3, <2>4, <2>5 DEF TypedStep
<1>4. QED
  BY <1>2, <1>3

\* The end of the worker keeps the types.
LEMMA WorkerEndTyped == ASSUME Typed, HandleFinal \/ HandleWorkerEnd PROVE TypedStep
<1> USE NoTypes, ActorAssumption DEF Typed
<1>0. /\ pc = "recv" /\ mailbox' \in Seq(Inputs) /\ Len(mailbox') <= Capacity
      /\ Head(mailbox).turn \in Turns
      /\ UNCHANGED <<approvalVars, plan, actorOnly, taskVars, historyVars, crashes, commands, deltas>>
  <2>1. PICK type \in {"final", "failed", "cancelled", "exited"} : Receive(type)
    BY DEF HandleFinal, HandleWorkerEnd
  <2>2. QED
    BY <2>1, ReceivedTyped, InputFields DEF HandleFinal, HandleWorkerEnd, boundVars
<1>1. ApprovalTypeOK'
  BY <1>0 DEF ApprovalTypeOK, approvalVars, managerVars
<1>2. [StoreNext]_storeVars /\ faults' \in 0 .. MaxFaults
  <2>1. CASE HandleFinal
    BY <1>0, <2>1, FailsQuietly DEF HandleFinal, StoreNext, CallerCompletes, MemoryTypeOK
  <2>2. CASE HandleWorkerEnd
    BY <2>2 DEF HandleWorkerEnd, boundVars, MemoryTypeOK
  <2>3. QED
    BY <2>1, <2>2
<1>3. UNCHANGED <<pc, job>> \/ (~Idle /\ \E kind \in Terminal : End(kind, FALSE))
  <2>1. Head(mailbox).turn # NoTurn
    BY <1>0, IdAssumption
  <2>2. QED
    BY <2>1 DEF HandleFinal, HandleWorkerEnd, EndsBy, Live, Mine, Idle, Terminal
<1>4. /\ pc' \in Pcs /\ Shape'
      /\ job' \in [turn : Turns \union {NoTurn}, kind : Terminal \union {"-"}, exit : BOOLEAN]
  <2>1. CASE UNCHANGED <<pc, job>>
    BY <1>0, <2>1 DEF MemoryTypeOK, Shape, Idle, Ending, actorOnly
  <2>2. CASE ~Idle /\ \E kind \in Terminal : End(kind, FALSE)
    BY <1>0, <2>2, EndTyped DEF actorOnly
  <2>3. QED
    BY <1>3, <2>1, <2>2
<1>5. MemoryTypeOK'
  BY <1>0, <1>2, <1>4 DEF MemoryTypeOK, actorOnly, taskVars, historyVars
<1>6. QED
  BY <1>1, <1>2, <1>4, <1>5 DEF TypedStep

ActiveType == [turn : Turns \union {NoTurn}, cancelled : BOOLEAN, rounds : 0 .. MaxRounds,
               batch : Batches \union {<<>>}, index : Nat, approved : BOOLEAN,
               approval : Approvals \union {NoApproval}, awaiting : BOOLEAN]

\* A batch of tool calls keeps the types.
LEMMA CallsTyped == ASSUME Typed, HandleCalls PROVE TypedStep
<1> USE NoTypes, ActorAssumption DEF Typed
<1> DEFINE t == Head(mailbox).turn
           cs == Head(mailbox).calls
<1>0. /\ pc = "recv" /\ mailbox' \in Seq(Inputs) /\ Len(mailbox') <= Capacity
      /\ t \in Turns /\ cs \in Batches \union {<<>>}
      /\ UNCHANGED <<approvalVars, plan, interactive, schema, taskVars,
                     executed, subject, told, lost, crashes, commands, deltas>>
  BY ReceivedTyped, InputFields DEF HandleCalls
<1>1. ApprovalTypeOK'
  BY <1>0 DEF ApprovalTypeOK, approvalVars, managerVars
<1>2. CASE ~Live(t) /\ UNCHANGED <<storeVars, pc, job, active, heard, faults>>
  <2>1. Shape'
    BY <1>0, <1>2 DEF Shape, Idle, Ending
  <2>2. MemoryTypeOK'
    BY <1>0, <1>2, SMTT(30) DEF MemoryTypeOK, taskVars
  <2>3. QED
    BY <1>1, <1>2, <2>1, <2>2 DEF TypedStep
<1>3. CASE Live(t) /\ End("failed", FALSE) /\ UNCHANGED <<active, heard, storeVars>> /\ faults' \in 0 .. MaxFaults
  <2>1. ~Idle
    BY <1>0, <1>3, IdAssumption DEF Live, Mine, Idle
  <2>2. /\ pc' \in Pcs /\ Shape'
        /\ job' \in [turn : Turns \union {NoTurn}, kind : Terminal \union {"-"}, exit : BOOLEAN]
    BY <1>3, <2>1, EndTyped DEF Terminal
  <2>3. MemoryTypeOK'
    BY <1>0, <1>3, <2>2 DEF MemoryTypeOK, taskVars
  <2>4. QED
    BY <1>1, <1>3, <2>2, <2>3 DEF TypedStep
<1>4. CASE /\ Live(t) /\ active.rounds < MaxRounds /\ cs # <<>>
           /\ CommitAssistantToolCalls(Self, t, cs)
           /\ active' = [active EXCEPT !.rounds = @ + 1, !.batch = cs, !.index = 1,
                                       !.approved = FALSE, !.awaiting = FALSE]
           /\ Publish(t, "open")
           /\ pc' = "advance" /\ UNCHANGED <<job, faults>>
  <2>1. [StoreNext]_storeVars
    BY <1>0, <1>4 DEF StoreNext, CallerAsks
  <2>2. active' \in ActiveType /\ active'.turn = active.turn /\ active'.cancelled = active.cancelled
        /\ active'.rounds # 0
    <3>1. active \in ActiveType
      BY DEF MemoryTypeOK, ActiveType
    <3>2. active.rounds + 1 \in 0 .. MaxRounds /\ active.rounds + 1 # 0
      BY <1>4, <3>1 DEF ActiveType
    <3> HIDE DEF t, cs
    <3>3. QED
      BY <1>0, <1>4, <3>1, <3>2 DEF ActiveType
  <2>3. MemoryTypeOK'
    BY <1>0, <1>4, <2>2 DEF MemoryTypeOK, ActiveType, taskVars, Publish, Pcs
  <2>4. Shape'
    BY <1>0, <1>4, <2>2, IdAssumption DEF Shape, Idle, Ending, Live, Mine
  <2>5. QED
    BY <1>1, <2>1, <2>3, <2>4 DEF TypedStep
<1>5. QED
  BY <1>2, <1>3, <1>4, FailsQuietly DEF HandleCalls, MemoryTypeOK

\* The result of a tool keeps the types.
LEMMA ResultTyped == ASSUME Typed, HandleResult PROVE TypedStep
<1> USE NoTypes, ActorAssumption DEF Typed
<1> DEFINE t == Head(mailbox).turn
           c == Head(mailbox).call
<1>0. /\ pc = "recv" /\ mailbox' \in Seq(Inputs) /\ Len(mailbox') <= Capacity
      /\ t \in Turns /\ c \in Calls
      /\ UNCHANGED <<approvalVars, plan, interactive, schema, taskVars,
                     executed, subject, told, lost, crashes, commands, deltas>>
  BY ReceivedTyped, InputFields DEF HandleResult
<1>1. ApprovalTypeOK'
  BY <1>0 DEF ApprovalTypeOK, approvalVars, managerVars
<1>2. CASE ~Live(t) /\ UNCHANGED <<storeVars, pc, job, active, heard, faults>>
  <2>1. Shape'
    BY <1>0, <1>2 DEF Shape, Idle, Ending
  <2>2. MemoryTypeOK'
    BY <1>0, <1>2, SMTT(30) DEF MemoryTypeOK, taskVars
  <2>3. QED
    BY <1>1, <1>2, <2>1, <2>2 DEF TypedStep
<1>3. CASE Live(t) /\ End("failed", FALSE) /\ UNCHANGED <<active, heard, storeVars>> /\ faults' \in 0 .. MaxFaults
  <2>1. ~Idle
    BY <1>0, <1>3, IdAssumption DEF Live, Mine, Idle
  <2>2. /\ pc' \in Pcs /\ Shape'
        /\ job' \in [turn : Turns \union {NoTurn}, kind : Terminal \union {"-"}, exit : BOOLEAN]
    BY <1>3, <2>1, EndTyped DEF Terminal
  <2>3. MemoryTypeOK'
    BY <1>0, <1>3, <2>2 DEF MemoryTypeOK, taskVars
  <2>4. QED
    BY <1>1, <1>3, <2>2, <2>3 DEF TypedStep
<1>4. CASE /\ Live(t)
           /\ CommitToolResult(Self, t, c, "executed")
           /\ active' = CompleteCurrent
           /\ Publish(t, "open")
           /\ pc' = "advance" /\ UNCHANGED <<job, faults>>
  <2>1. [StoreNext]_storeVars
    BY <1>0, <1>4 DEF StoreNext, CallerAnswers, ResultKinds
  <2>2. active' \in ActiveType /\ active'.turn = active.turn /\ active'.cancelled = active.cancelled
        /\ active'.rounds = active.rounds /\ active'.batch = active.batch
    <3>1. active \in ActiveType
      BY DEF MemoryTypeOK, ActiveType
    <3>2. active.index + 1 \in Nat
      BY <3>1 DEF ActiveType
    <3> HIDE DEF t, c
    <3>3. QED
      BY <1>4, <3>1, <3>2 DEF ActiveType, CompleteCurrent
  <2>3. MemoryTypeOK'
    BY <1>0, <1>4, <2>2 DEF MemoryTypeOK, ActiveType, taskVars, Publish, Pcs
  <2>4. Shape'
    BY <1>0, <1>4, <2>2, IdAssumption DEF Shape, Idle, Ending, Live, Mine
  <2>5. QED
    BY <1>1, <2>1, <2>3, <2>4 DEF TypedStep
<1>5. QED
  BY <1>2, <1>3, <1>4, FailsQuietly DEF HandleResult, MemoryTypeOK

\* The outcome of an approval keeps the types.
LEMMA OutcomeTyped == ASSUME Typed, HandleOutcome PROVE TypedStep
<1> USE NoTypes, ActorAssumption DEF Typed
<1> DEFINE t == Head(mailbox).turn
           a == Head(mailbox).approval
           o == Head(mailbox).outcome
           fact == IF o = "timed_out" THEN "timed_out" ELSE "resolved"
           type == IF o = "timed_out" THEN "approval.timed_out" ELSE "approval.resolved"
<1>0. /\ pc = "recv" /\ mailbox' \in Seq(Inputs) /\ Len(mailbox') <= Capacity
      /\ t \in Turns /\ a \in Approvals /\ o \in Outcomes
      /\ UNCHANGED <<job, plan, interactive, schema, taskVars, executed, subject,
                     lost, crashes, commands, deltas>>
  BY ReceivedTyped, InputFields DEF HandleOutcome
<1>1. ApprovalTypeOK'
  <2>1. UNCHANGED approvalVars \/ Expire(a)
    BY DEF HandleOutcome
  <2>2. QED
    BY <1>0, <2>1, ExpireTyped DEF ApprovalTypeOK, approvalVars, managerVars
<1>2. CASE ~(Mine(t) /\ active.approval = a) /\ UNCHANGED <<storeVars, approvalVars, pc, active, heard, told, faults>>
  <2>1. Shape'
    BY <1>0, <1>2 DEF Shape, Idle, Ending
  <2>2. MemoryTypeOK'
    BY <1>0, <1>2, SMTT(30) DEF MemoryTypeOK, taskVars
  <2>3. QED
    BY <1>1, <1>2, <2>1, <2>2 DEF TypedStep
<1>3. CASE /\ Mine(t) /\ active.approval = a
           /\ active' = [active EXCEPT !.approval = NoApproval,
                                       !.approved = @ \/ o \in Granted,
                                       !.awaiting = o \notin Granted]
           /\ IF o = "cancelled"
              THEN UNCHANGED <<storeVars, pc, heard, told, faults>>
              ELSE /\ Publish(t, "open") /\ told' = [told EXCEPT ![a] = fact]
                   /\ pc' = IF o \in Granted THEN "advance" ELSE "reject"
                   /\ \/ /\ AppendEvent(Self, ApprovalFact(type, t, NoCall, a))
                         /\ UNCHANGED faults
                      \/ Fails(TRUE)
  <2>1. fact \in {"timed_out", "resolved"} /\ type \in {"approval.resolved", "approval.timed_out"}
    OBVIOUS
  <2> HIDE DEF t, a, o, fact, type
  <2>2. [StoreNext]_storeVars
    <3>1. ApprovalFact(type, t, NoCall, a) \in Appendable(t)
      BY <1>0, <2>1, EventTyped
    <3>2. CASE AppendEvent(Self, ApprovalFact(type, t, NoCall, a))
      BY <1>0, <3>1, <3>2 DEF StoreNext, CallerNotes
    <3>3. CASE UNCHANGED storeVars
      BY <3>3
    <3>4. QED
      BY <1>3, <3>2, <3>3, FailsQuietly
  <2>3. faults' \in 0 .. MaxFaults
    BY <1>3, FailsQuietly DEF MemoryTypeOK
  <2>4. /\ active' \in ActiveType /\ active'.turn = active.turn /\ active'.cancelled = active.cancelled
        /\ active'.rounds = active.rounds /\ active'.batch = active.batch
    <3>1. active \in ActiveType
      BY DEF MemoryTypeOK, ActiveType
    <3>2. (active.approved \/ o \in Granted) \in BOOLEAN /\ (o \notin Granted) \in BOOLEAN
      OBVIOUS
    <3>3. QED
      BY <1>3, <3>1, <3>2 DEF ActiveType
  <2>5. pc' \in {"recv", "advance", "reject"}
    BY <1>0, <1>3
  <2>6. heard' \in [Turns -> {"-", "open"} \union Terminal]
    BY <1>0, <1>3 DEF MemoryTypeOK, Publish
  <2>7. told' \in [Approvals -> {"-", "requested", "resolved", "timed_out"}]
    BY <1>0, <1>3, <2>1 DEF MemoryTypeOK
  <2>8. MemoryTypeOK'
    BY <1>0, <2>3, <2>4, <2>5, <2>6, <2>7 DEF MemoryTypeOK, ActiveType, taskVars, Pcs
  <2>9. Shape'
    BY <1>0, <1>3, <2>4, <2>5, IdAssumption DEF Shape, Idle, Ending, Mine
  <2>10. QED
    BY <1>1, <2>2, <2>8, <2>9 DEF TypedStep
<1>4. QED
  BY <1>2, <1>3 DEF HandleOutcome

\* What advancing the batch leaves alone.
LEMMA AdvanceTyped ==
  ASSUME Typed, NextRound \/ StartTool \/ SpawnTool \/ AskApproval \/ RefuseCall \/ RejectTool
  PROVE  TypedStep
<1> USE NoTypes, ActorAssumption DEF Typed
<1>0. /\ ~Idle /\ active.turn \in Turns /\ active \in ActiveType
      /\ pc \in {"advance", "spawn", "reject"}
  BY DEF NextRound, StartTool, SpawnTool, AskApproval, RefuseCall, RejectTool, Shape, MemoryTypeOK, Idle, ActiveType
<1>1. CASE NextRound
  <2>1. /\ active' = [active EXCEPT !.batch = <<>>, !.index = 1]
        /\ UNCHANGED <<approvalVars, plan, interactive, schema, mailbox, tools, historyVars,
                       crashes, commands, deltas>>
    BY <1>1 DEF NextRound
  <2>2. [StoreNext]_storeVars /\ faults' \in 0 .. MaxFaults
    BY <1>1, FailsQuietly DEF NextRound, MemoryTypeOK
  <2>3. ApprovalTypeOK'
    BY <2>1 DEF ApprovalTypeOK, approvalVars, managerVars
  <2>4. /\ active' \in ActiveType /\ active'.turn = active.turn /\ active'.batch = <<>>
        /\ active'.rounds = active.rounds
    BY <1>0, <2>1 DEF ActiveType
  <2>5. workers' \subseteq Turns \X (0 .. MaxRounds)
    <3>1. WorkerHandle \in Turns \X (0 .. MaxRounds)
      BY <1>0 DEF WorkerHandle, ActiveType
    <3>2. workers' \subseteq workers \union {WorkerHandle}
      BY <1>1 DEF NextRound
    <3>3. QED
      BY <3>1, <3>2, SMTT(30) DEF MemoryTypeOK
  <2>6. /\ pc' \in Pcs /\ Shape'
        /\ job' \in [turn : Turns \union {NoTurn}, kind : Terminal \union {"-"}, exit : BOOLEAN]
    <3>1. CASE pc' = "recv" /\ UNCHANGED job
      BY <1>0, <2>4, <3>1, IdAssumption DEF Shape, Idle, Ending, Pcs, MemoryTypeOK
    <3>2. CASE End("failed", FALSE)
      BY <1>0, <2>4, <3>2, EndTyped DEF Terminal
    <3>3. QED
      BY <1>1, <3>1, <3>2 DEF NextRound
  <2>7. MemoryTypeOK'
    BY <2>1, <2>2, <2>4, <2>5, <2>6 DEF MemoryTypeOK, ActiveType, historyVars
  <2>8. QED
    BY <2>2, <2>3, <2>6, <2>7 DEF TypedStep
<1>2. CASE StartTool
  <2>1. /\ active' = [active EXCEPT !.awaiting = FALSE] /\ HasCurrent
        /\ UNCHANGED <<approvalVars, plan, interactive, schema, mailbox, taskVars, historyVars,
                       crashes, commands, deltas>>
    BY <1>2 DEF StartTool
  <2>2. Cursor \in Positions
    BY <2>1, CursorTyped
  <2>3. [StoreNext]_storeVars
    <3>1. Cursor.call \in Calls
      BY <2>2 DEF Positions
    <3>2. CASE AppendEvent(Self, ToolFact("tool.started", active.turn, Cursor.call))
      BY <1>0, <3>1, <3>2, EventTyped DEF StoreNext, CallerNotes
    <3>3. CASE UNCHANGED storeVars
      BY <3>3
    <3>4. QED
      BY <1>2, <3>2, <3>3, FailsQuietly DEF StartTool
  <2>4. faults' \in 0 .. MaxFaults
    BY <1>2, FailsQuietly DEF StartTool, MemoryTypeOK
  <2>5. ApprovalTypeOK'
    BY <2>1 DEF ApprovalTypeOK, approvalVars, managerVars
  <2>6. /\ active' \in ActiveType /\ active'.turn = active.turn /\ active'.batch = active.batch
        /\ active'.rounds = active.rounds /\ active'.index = active.index
    BY <1>0, <2>1 DEF ActiveType
  <2>7. /\ pc' \in Pcs /\ Shape'
        /\ job' \in [turn : Turns \union {NoTurn}, kind : Terminal \union {"-"}, exit : BOOLEAN]
    <3>1. CASE pc' = "spawn" /\ UNCHANGED job
      <4>1. HasCurrent'
        BY <2>1, <2>6 DEF HasCurrent
      <4>2. QED
        BY <1>0, <2>6, <3>1, <4>1, IdAssumption DEF Shape, Idle, Ending, Pcs, MemoryTypeOK
    <3>2. CASE End("failed", FALSE)
      BY <1>0, <2>6, <3>2, EndTyped DEF Terminal
    <3>3. QED
      BY <1>2, <3>1, <3>2 DEF StartTool
  <2>8. MemoryTypeOK'
    BY <2>1, <2>4, <2>6, <2>7 DEF MemoryTypeOK, ActiveType, taskVars, historyVars
  <2>9. QED
    BY <2>3, <2>5, <2>7, <2>8 DEF TypedStep
<1>7. CASE SpawnTool
  <2>1. /\ pc = "spawn" /\ pc' = "recv"
        /\ tools' = tools \union {Cursor} /\ executed' = executed \union {Cursor}
        /\ Publish(active.turn, "open")
        /\ UNCHANGED <<storeVars, approvalVars, memoryVars, schema, mailbox, workers, subject, told, lost,
                       boundVars>>
    BY <1>7 DEF SpawnTool
  <2>2. Cursor \in Positions
    BY <2>1, CursorTyped DEF Shape
  <2>3. ApprovalTypeOK'
    BY <2>1 DEF ApprovalTypeOK, approvalVars, managerVars
  <2>4. tools' \subseteq Positions /\ executed' \subseteq Positions
    BY <2>1, <2>2 DEF MemoryTypeOK
  <2>5. heard' \in [Turns -> {"-", "open"} \union Terminal]
    BY <1>0, <2>1 DEF MemoryTypeOK, Publish
  <2>6. Shape'
    BY <1>0, <2>1 DEF Shape, Idle, Ending, memoryVars
  <2>7. MemoryTypeOK'
    BY <2>1, <2>4, <2>5 DEF MemoryTypeOK, Pcs, memoryVars, boundVars
  <2>8. QED
    BY <2>1, <2>3, <2>6, <2>7 DEF TypedStep
<1>3. CASE AskApproval
  <2>1. PICK a \in Approvals :
       LET c == Cursor.call IN
       /\ request[a] = NoRequest
       /\ Register(a, [session |-> Self, turn |-> active.turn, key |-> KeyOf[c]])
       /\ subject' = [subject EXCEPT ![a] = Cursor]
       /\ active' = [active EXCEPT !.approval = a, !.awaiting = TRUE]
       /\ \/ /\ AppendEvent(Self, ApprovalFact("approval.requested", active.turn, c, a))
             /\ Publish(active.turn, "open") /\ told' = [told EXCEPT ![a] = "requested"]
             /\ pc' = "recv" /\ UNCHANGED <<job, faults>>
          \/ /\ Fails(TRUE) /\ End("failed", FALSE)
             /\ UNCHANGED <<heard, told>>
    BY <1>3 DEF AskApproval
  <2>2. UNCHANGED <<plan, interactive, schema, mailbox, taskVars, executed, lost,
                 crashes, commands, deltas>>
    BY <1>3 DEF AskApproval
  <2>3. Cursor \in Positions /\ Cursor.call \in Calls
    BY <1>3, CursorTyped DEF AskApproval, Positions
  <2>4. ApprovalTypeOK'
    <3>1. [session |-> Self, turn |-> active.turn, key |-> KeyOf[Cursor.call]] \in Requests
      BY <1>0, <2>3 DEF Requests
    <3>2. QED
      BY <2>1, <3>1, RegisterTyped
  <2>5. [StoreNext]_storeVars
    <3>1. CASE AppendEvent(Self, ApprovalFact("approval.requested", active.turn, Cursor.call, a))
      BY <1>0, <2>3, <3>1, EventTyped DEF StoreNext, CallerNotes
    <3>2. CASE UNCHANGED storeVars
      BY <3>2
    <3>3. QED
      BY <2>1, <3>1, <3>2, FailsQuietly
  <2>6. faults' \in 0 .. MaxFaults
    BY <2>1, FailsQuietly DEF MemoryTypeOK
  <2>7. /\ active' \in ActiveType /\ active'.turn = active.turn /\ active'.batch = active.batch
        /\ active'.rounds = active.rounds
    BY <1>0, <2>1 DEF ActiveType
  <2>8. subject' \in [Approvals -> Positions \union {NoPosition}]
    BY <2>1, <2>3 DEF MemoryTypeOK
  <2>9. heard' \in [Turns -> {"-", "open"} \union Terminal]
    BY <1>0, <2>1 DEF MemoryTypeOK, Publish
  <2>10. told' \in [Approvals -> {"-", "requested", "resolved", "timed_out"}]
    BY <2>1 DEF MemoryTypeOK
  <2>11. /\ pc' \in Pcs /\ Shape'
        /\ job' \in [turn : Turns \union {NoTurn}, kind : Terminal \union {"-"}, exit : BOOLEAN]
    <3>1. CASE pc' = "recv" /\ UNCHANGED job
      BY <1>0, <2>7, <3>1, IdAssumption DEF Shape, Idle, Ending, Pcs, MemoryTypeOK
    <3>2. CASE End("failed", FALSE)
      BY <1>0, <2>7, <3>2, EndTyped DEF Terminal
    <3>3. QED
      BY <2>1, <3>1, <3>2
  <2>12. MemoryTypeOK'
    BY <2>2, <2>6, <2>7, <2>8, <2>9, <2>10, <2>11 DEF MemoryTypeOK, ActiveType, taskVars
  <2>13. QED
    BY <2>4, <2>5, <2>11, <2>12 DEF TypedStep
<1>4. CASE RefuseCall
  <2>1. /\ pc' = "reject" /\ pc = "advance"
        /\ UNCHANGED <<storeVars, approvalVars, memoryVars, schema, mailbox, taskVars, historyVars, boundVars>>
    BY <1>4 DEF RefuseCall
  <2>2. MemoryTypeOK'
    BY <2>1, SMTT(30) DEF MemoryTypeOK, memoryVars, taskVars, historyVars, boundVars, Pcs
  <2>3. ApprovalTypeOK'
    BY <2>1 DEF ApprovalTypeOK, approvalVars, managerVars
  <2>4. Shape'
    BY <1>0, <2>1 DEF Shape, Idle, Ending, memoryVars
  <2>5. QED
    BY <2>1, <2>2, <2>3, <2>4 DEF TypedStep
<1>5. CASE RejectTool
  <2>1. UNCHANGED <<approvalVars, plan, actorOnly, mailbox, taskVars, executed, subject, told, lost,
                 crashes, commands, deltas>> /\ End("failed", FALSE)
    BY <1>5 DEF RejectTool
  <2>2. [StoreNext]_storeVars
    <3>1. Cursor.call \in Calls
      BY <1>5, CursorTyped DEF RejectTool, Positions
    <3>2. QED
      BY <1>0, <1>5, <3>1, FailsQuietly DEF RejectTool, StoreNext, CallerAnswers, ResultKinds
  <2>3. faults' \in 0 .. MaxFaults
    BY <1>5, FailsQuietly DEF RejectTool, MemoryTypeOK
  <2>4. heard' \in [Turns -> {"-", "open"} \union Terminal]
    BY <1>0, <1>5 DEF RejectTool, MemoryTypeOK, Publish
  <2>5. /\ pc' \in Pcs /\ Shape'
        /\ job' \in [turn : Turns \union {NoTurn}, kind : Terminal \union {"-"}, exit : BOOLEAN]
    BY <1>0, <2>1, EndTyped DEF actorOnly, Terminal
  <2>6. ApprovalTypeOK'
    BY <2>1 DEF ApprovalTypeOK, approvalVars, managerVars
  <2>7. MemoryTypeOK'
    BY <2>1, <2>3, <2>4, <2>5 DEF MemoryTypeOK, actorOnly, taskVars
  <2>8. QED
    BY <2>2, <2>5, <2>6, <2>7 DEF TypedStep
<1>6. QED
  BY <1>1, <1>2, <1>3, <1>4, <1>5, <1>7

\* Ending a turn keeps the types.
LEMMA EndingTyped == ASSUME Typed, Stop \/ Drain \/ Finish PROVE TypedStep
<1> USE NoTypes, ActorAssumption DEF Typed
<1>0. /\ ~Idle /\ active.turn \in Turns /\ active \in ActiveType /\ Ending
      /\ job.turn = active.turn /\ job.kind \in Terminal /\ job.exit \in BOOLEAN
  BY DEF Stop, Drain, Finish, Shape, MemoryTypeOK, Idle, ActiveType, Ending
<1>1. CASE Stop
  <2>1. ApprovalTypeOK'
    BY <1>1, CancelTyped DEF Stop
  <2>2. active' \in ActiveType /\ active'.turn = active.turn /\ active'.batch = active.batch
        /\ active'.rounds = active.rounds
    BY <1>0, <1>1 DEF Stop, ActiveType
  <2>3. UNCHANGED <<storeVars, job, plan, interactive, schema, mailbox, taskVars, historyVars, boundVars>>
        /\ pc' = "drain"
    BY <1>1 DEF Stop
  <2>4. MemoryTypeOK'
    BY <2>2, <2>3 DEF MemoryTypeOK, ActiveType, taskVars, historyVars, boundVars, Pcs
  <2>5. Shape'
    BY <1>0, <2>2, <2>3 DEF Shape, Idle, Ending
  <2>6. QED
    BY <2>1, <2>3, <2>4, <2>5 DEF TypedStep
<1>2. CASE Drain
  <2>1. /\ UNCHANGED <<storeVars, managerVars, due, job, plan, interactive, schema, mailbox,
                       historyVars, boundVars>> /\ pc' = "finish"
        /\ active' = [active EXCEPT !.approval = NoApproval]
    BY <1>2 DEF Drain
  <2>2. ApprovalTypeOK'
    BY <1>2 DEF Drain, ApprovalTypeOK, managerVars
  <2>3. active' \in ActiveType /\ active'.turn = active.turn /\ active'.batch = active.batch
        /\ active'.rounds = active.rounds
    BY <1>0, <2>1 DEF ActiveType
  <2>4. /\ tools' \subseteq Positions /\ workers' \subseteq Turns \X (0 .. MaxRounds)
    BY <1>2 DEF Drain, MemoryTypeOK
  <2>5. MemoryTypeOK'
    BY <2>1, <2>3, <2>4 DEF MemoryTypeOK, ActiveType, historyVars, boundVars, Pcs
  <2>6. Shape'
    BY <1>0, <2>1, <2>3 DEF Shape, Idle, Ending
  <2>7. QED
    BY <2>1, <2>2, <2>5, <2>6 DEF TypedStep
<1>3. CASE Finish
  <2>1. UNCHANGED <<schema, crashes, commands, deltas>>
    BY <1>3 DEF Finish
  <2>2. [StoreNext]_storeVars
    BY <1>0, <1>3, FailsQuietly DEF Finish, StoreNext, CallerFinishes, Terminal
  <2>3. heard' \in [Turns -> {"-", "open"} \union Terminal] /\ faults' \in 0 .. MaxFaults
    BY <1>0, <1>3, FailsQuietly DEF Finish, MemoryTypeOK, Publish
  <2>4. Leave(NoActive) \/ Leave(active)
    BY <1>3 DEF Finish
  <2>5. CASE job.exit
    <3>1. Halt
      BY <2>4, <2>5 DEF Leave
    <3>2. /\ schema' \in Schemas /\ {faults', crashes', commands', deltas'} \subseteq Nat
          /\ faults' <= MaxFaults /\ crashes' <= MaxCrashes /\ commands' <= MaxCommands /\ deltas' <= MaxDeltas
      BY <2>1, <2>3 DEF MemoryTypeOK
    <3>3. QED
      BY <2>2, <2>3, <3>1, <3>2, HaltTyped DEF TypedStep
  <2>6. CASE ~job.exit
    <3>1. /\ pc' = "recv" /\ job' = NoJob /\ active' \in {active, NoActive}
          /\ UNCHANGED <<approvalVars, plan, interactive, mailbox, taskVars, executed, subject, told, lost>>
      BY <2>4, <2>6 DEF Leave
    <3>2. ApprovalTypeOK'
      BY <3>1 DEF ApprovalTypeOK, approvalVars, managerVars
    <3>3. active' \in ActiveType
      BY <1>0, <3>1 DEF ActiveType
    <3>4. MemoryTypeOK'
      BY <2>1, <2>3, <3>1, <3>3 DEF MemoryTypeOK, ActiveType, taskVars, Pcs
    <3>5. Shape'
      BY <1>0, <3>1 DEF Shape, Idle, Ending
    <3>6. QED
      BY <2>2, <3>2, <3>4, <3>5 DEF TypedStep
  <2>7. QED
    BY <2>5, <2>6
<1>4. QED
  BY <1>1, <1>2, <1>3

\* A crash keeps the types.
LEMMA CrashTyped == ASSUME Typed, Crash PROVE TypedStep
<1>1. Halt /\ schema' \in Schemas /\ UNCHANGED <<storeVars, heard, faults, commands, deltas>>
      /\ crashes > 0 /\ crashes' = crashes - 1
  BY DEF Crash
<1>2. /\ heard' \in [Turns -> {"-", "open"} \union Terminal]
      /\ {faults', crashes', commands', deltas'} \subseteq Nat
      /\ faults' <= MaxFaults /\ crashes' <= MaxCrashes /\ commands' <= MaxCommands /\ deltas' <= MaxDeltas
  BY <1>1, ActorAssumption DEF Typed, MemoryTypeOK
<1>3. QED
  BY <1>1, <1>2, HaltTyped DEF TypedStep

\* A task's step is typed when the mailbox and the task sets are.
LEMMA TaskStepTyped ==
  ASSUME Typed, TaskStep, ApprovalTypeOK', mailbox' \in Seq(Inputs), Len(mailbox') <= Capacity,
         workers' \subseteq workers, tools' \subseteq tools, deltas' \in 0 .. MaxDeltas
  PROVE  TypedStep
<1> USE DEF Typed, TaskStep
<1>1. MemoryTypeOK'
  BY DEF MemoryTypeOK, memoryVars, historyVars
<1>2. Shape'
  BY DEF Shape, Idle, Ending, memoryVars, HasCurrent
<1>3. QED
  BY <1>1, <1>2 DEF TypedStep

\* What a provider task may end with.
LEMMA AnswersTyped == ASSUME NEW t \in Turns, NEW m \in Answers(t) PROVE m \in Inputs
<1>1. CASE \E k \in {"final", "failed", "cancelled", "exited"} : m = [type |-> k, turn |-> t]
  BY <1>1 DEF Inputs
<1>2. CASE \E b \in Batches \union {<<>>} : m = [type |-> "calls", turn |-> t, calls |-> b]
  BY <1>2 DEF Inputs
<1>3. QED
  BY <1>1, <1>2 DEF Answers, Offered

\* A posted message is a typed one, and there was room for it.
LEMMA PostTyped ==
  ASSUME Typed, NEW m \in Inputs, Post(m)
  PROVE  mailbox' \in Seq(Inputs) /\ Len(mailbox') <= Capacity
  BY Posted, ActorAssumption DEF Typed, MemoryTypeOK, Post, Room

\* The manager's types do not look at the actor.
LEMMA SameApprovals ==
  ASSUME Typed, UNCHANGED approvalVars PROVE ApprovalTypeOK'
  BY DEF Typed, ApprovalTypeOK, approvalVars, managerVars

\* A waiter waits for a request that was registered.
Registered == \A a \in Approvals : waiter[a] = "waiting" => request[a] # NoRequest

\* The steps of the worker, the tools and the waiters keep the types.
LEMMA TasksTyped == ASSUME Typed, Registered, Tasks PROVE TypedStep
<1>0. /\ workers \subseteq Turns \X (0 .. MaxRounds) /\ tools \subseteq Positions
      /\ deltas \in 0 .. MaxDeltas /\ mailbox \in Seq(Inputs) /\ Len(mailbox) <= Capacity
  BY DEF Typed, MemoryTypeOK
<1>1. CASE ProviderStreams
  <2>1. PICK w \in workers :
          /\ deltas > 0 /\ deltas' = deltas - 1
          /\ Post([type |-> "delta", turn |-> w[1]])
          /\ UNCHANGED <<approvalVars, taskVars>> /\ TaskStep
    BY <1>1 DEF ProviderStreams
  <2>2. [type |-> "delta", turn |-> w[1]] \in Inputs
    BY <1>0 DEF Inputs
  <2>3. deltas' \in 0 .. MaxDeltas
    BY <1>0, <2>1, ActorAssumption
  <2>4. QED
    BY <2>1, <2>2, <2>3, PostTyped, SameApprovals, TaskStepTyped DEF taskVars
<1>2. CASE \E w \in workers : ProviderEnds(w)
  <2>1. PICK w \in workers : ProviderEnds(w)
    BY <1>2
  <2>2. PICK m \in Answers(w[1]) : Post(m)
    BY <2>1 DEF ProviderEnds
  <2>3. m \in Inputs
    BY <1>0, AnswersTyped
  <2>4. workers' \subseteq workers /\ UNCHANGED <<approvalVars, tools, deltas>> /\ TaskStep
    BY <2>1 DEF ProviderEnds
  <2>5. QED
    BY <1>0, <2>2, <2>3, <2>4, PostTyped, SameApprovals, TaskStepTyped
<1>3. CASE \E p \in tools : ToolEnds(p)
  <2>1. PICK p \in tools : ToolEnds(p)
    BY <1>3
  <2>2. [type |-> "result", turn |-> p.turn, call |-> p.call] \in Inputs
    BY <1>0 DEF Inputs, Positions
  <2>3. /\ Post([type |-> "result", turn |-> p.turn, call |-> p.call])
        /\ tools' \subseteq tools /\ UNCHANGED <<approvalVars, workers, deltas>> /\ TaskStep
    BY <2>1 DEF ToolEnds
  <2>4. QED
    BY <1>0, <2>2, <2>3, PostTyped, SameApprovals, TaskStepTyped
<1>4. ASSUME NEW a \in Approvals, WaiterEnds(a) PROVE TypedStep
  <2>1. PICK o \in Outcomes :
          /\ WaiterReturns(a, Cancelled(request[a].turn), o)
          /\ Post([type |-> "outcome", turn |-> request[a].turn, approval |-> a, outcome |-> o])
    BY <1>4 DEF WaiterEnds
  <2>2. UNCHANGED <<taskVars, deltas>> /\ TaskStep
    BY <1>4 DEF WaiterEnds
  <2>3. ApprovalTypeOK'
    BY <2>1 DEF Typed, ApprovalTypeOK, WaiterReturns, managerVars
  <2>4. request[a].turn \in Turns
    BY <2>1 DEF Typed, ApprovalTypeOK, Requests, Registered, WaiterReturns
  <2>5. [type |-> "outcome", turn |-> request[a].turn, approval |-> a, outcome |-> o] \in Inputs
    BY <2>4 DEF Inputs
  <2>6. deltas' \in 0 .. MaxDeltas
    BY <1>0, <2>2
  <2>7. QED
    BY <2>1, <2>2, <2>3, <2>5, <2>6, PostTyped, TaskStepTyped DEF taskVars
<1>5. ASSUME NEW a \in Approvals, DeadlineOf(a) PROVE TypedStep
  <2>1. DeadlinePasses(a) /\ UNCHANGED <<mailbox, taskVars, deltas>> /\ TaskStep
    BY <1>5 DEF DeadlineOf
  <2>2. ApprovalTypeOK'
    BY <2>1 DEF Typed, ApprovalTypeOK, DeadlinePasses, managerVars
  <2>3. QED
    BY <1>0, <2>1, <2>2, TaskStepTyped DEF taskVars
<1>6. QED
  BY <1>1, <1>2, <1>3, <1>4, <1>5 DEF Tasks

\* The initial state has its types.
LEMMA InitTyped == ActorInit => Typed
<1> SUFFICES ASSUME ActorInit PROVE Typed
  OBVIOUS
<1> USE NoTypes, ActorAssumption DEF ActorInit
<1>1. StoreTypeOK
  BY DEF StoreInit, StoreTypeOK, Status
<1>2. ApprovalTypeOK
  BY DEF ApprovalInit, ManagerInit, ApprovalTypeOK
<1>3. MemoryTypeOK
  BY DEF MemoryTypeOK, Pcs, Inputs
<1>4. Shape
  BY DEF Shape, Idle, Ending
<1>5. QED
  BY <1>1, <1>2, <1>3, <1>4 DEF Typed

\* Every step of the actor keeps the types, and writes the store by one of its
\* transactions.
LEMMA StepTyped == ASSUME Typed, Registered, [ActorNext]_vars PROVE TypedStep /\ Typed'
<1>1. TypedStep
  <2>1. CASE UNCHANGED vars
    <3>1. ApprovalTypeOK'
      BY <2>1, SameApprovals DEF vars
    <3>2. MemoryTypeOK'
      BY <2>1 DEF vars, Typed, MemoryTypeOK, memoryVars, taskVars, historyVars, boundVars
    <3>3. Shape'
      BY <2>1 DEF vars, Typed, Shape, Idle, Ending, memoryVars, HasCurrent
    <3>4. QED
      BY <2>1, <3>1, <3>2, <3>3 DEF TypedStep, vars
  <2>2. CASE Handlers
    BY <2>2, RecoveryTyped, PromptTyped, SmallHandlersTyped, CloseTyped, WorkerEndTyped, CallsTyped,
       ResultTyped, OutcomeTyped, AdvanceTyped, EndingTyped DEF Handlers
  <2>3. CASE StartActor \/ Commands \/ Tasks \/ Crash
    BY <2>3, StartTyped, CommandTyped, TasksTyped, CrashTyped
  <2>4. QED
    BY <2>1, <2>2, <2>3 DEF ActorNext
<1>2. QED
  BY <1>1, StoreTypeStep DEF TypedStep, Typed

-----------------------------------------------------------------------------
(* what a step may write *)

\* An input in the mailbox was there before, comes from a client, or is what
\* a task reports of its own turn.
WorkerInputs == {"delta", "final", "failed", "cancelled", "exited", "calls"}
TurnInputs == WorkerInputs \union {"result", "outcome"}

ToolReport(p) == [type |-> "result", turn |-> p.turn, call |-> p.call]
WaiterReport(a, o) == [type |-> "outcome", turn |-> request[a].turn, approval |-> a, outcome |-> o]

Sent(m) ==
  \/ m.type \notin TurnInputs
  \/ m.type \in WorkerInputs /\ \E w \in workers : m.turn = w[1]
  \/ \E p \in tools : m = ToolReport(p)
  \/ \E a \in Approvals, o \in Outcomes :
       WaiterReturns(a, Cancelled(request[a].turn), o) /\ m = WaiterReport(a, o)

MailFrame ==
  \A i \in DOMAIN mailbox' :
    (\E j \in DOMAIN mailbox : mailbox'[i] = mailbox[j]) \/ Sent(mailbox'[i])

\* Taking the head of the mailbox puts nothing into it.
LEMMA TakenFrame == ASSUME Typed, mailbox # <<>>, mailbox' = Tail(mailbox) PROVE MailFrame
  BY Taken DEF MailFrame, Typed, MemoryTypeOK

\* A mailbox left alone or dropped gains nothing.
LEMMA SameFrame == ASSUME mailbox' \in {mailbox, <<>>} PROVE MailFrame
  BY DEF MailFrame

\* A post appends one message.
LEMMA PostedFrame == ASSUME Typed, NEW m \in Inputs, Post(m), Sent(m) PROVE MailFrame
<1>1. mailbox \in Seq(Inputs) /\ mailbox' = Append(mailbox, m)
  BY DEF Typed, MemoryTypeOK, Post
<1>2. ASSUME NEW i \in DOMAIN mailbox'
      PROVE  (\E j \in DOMAIN mailbox : mailbox'[i] = mailbox[j]) \/ Sent(mailbox'[i])
  <2>1. i \in DOMAIN mailbox \/ i = Len(mailbox) + 1
    BY <1>1, Posted
  <2>2. CASE i \in DOMAIN mailbox
    BY <1>1, <2>2, Posted
  <2>3. CASE i = Len(mailbox) + 1
    BY <1>1, <2>3, Posted
  <2>4. QED
    BY <2>1, <2>2, <2>3
<1>3. QED
  BY <1>2 DEF MailFrame

\* A task sends what it is allowed to.
LEMMA TasksFrame == ASSUME Typed, Registered, Tasks PROVE MailFrame
<1>0. /\ workers \subseteq Turns \X (0 .. MaxRounds) /\ tools \subseteq Positions
  BY DEF Typed, MemoryTypeOK
<1>1. CASE ProviderStreams
  <2>1. PICK w \in workers : Post([type |-> "delta", turn |-> w[1]])
    BY <1>1 DEF ProviderStreams
  <2>2. [type |-> "delta", turn |-> w[1]] \in Inputs
    BY <1>0 DEF Inputs
  <2>3. Sent([type |-> "delta", turn |-> w[1]])
    BY DEF Sent, WorkerInputs
  <2>4. QED
    BY <2>1, <2>2, <2>3, PostedFrame
<1>2. CASE \E w \in workers : ProviderEnds(w)
  <2>1. PICK w \in workers : ProviderEnds(w)
    BY <1>2
  <2>2. PICK m \in Answers(w[1]) : Post(m)
    BY <2>1 DEF ProviderEnds
  <2>3. m \in Inputs
    BY <1>0, AnswersTyped
  <2>4. m.type \in WorkerInputs /\ m.turn = w[1]
    BY DEF Answers, WorkerInputs
  <2>5. Sent(m)
    BY <2>4 DEF Sent
  <2>6. QED
    BY <2>2, <2>3, <2>5, PostedFrame
<1>3. CASE \E p \in tools : ToolEnds(p)
  <2>1. PICK p \in tools : Post(ToolReport(p))
    BY <1>3 DEF ToolEnds, ToolReport
  <2>2. ToolReport(p) \in Inputs
    BY <1>0 DEF Inputs, Positions, ToolReport
  <2>3. Sent(ToolReport(p))
    BY DEF Sent
  <2>4. QED
    BY <2>1, <2>2, <2>3, PostedFrame
<1>4. ASSUME NEW a \in Approvals, WaiterEnds(a) PROVE MailFrame
  <2>1. PICK o \in Outcomes :
          WaiterReturns(a, Cancelled(request[a].turn), o) /\ Post(WaiterReport(a, o))
    BY <1>4 DEF WaiterEnds, WaiterReport
  <2>2. request[a].turn \in Turns
    BY <2>1 DEF Typed, ApprovalTypeOK, Requests, Registered, WaiterReturns
  <2>3. WaiterReport(a, o) \in Inputs
    BY <2>2 DEF Inputs, WaiterReport
  <2>4. Sent(WaiterReport(a, o))
    BY <2>1 DEF Sent
  <2>5. QED
    BY <2>1, <2>3, <2>4, PostedFrame
<1>5. ASSUME NEW a \in Approvals, DeadlineOf(a) PROVE MailFrame
  BY <1>5, SameFrame DEF DeadlineOf
<1>6. QED
  BY <1>1, <1>2, <1>3, <1>4, <1>5 DEF Tasks

\* A command is only appended.
LEMMA CommandsFrame == ASSUME Typed, Commands PROVE MailFrame
<1>1. PICK m : Command(m) /\ m \in Inputs /\ Sent(m)
  <2>1. CASE SendSubmit \/ SendInterrupt \/ SendClose
    BY <2>1 DEF SendSubmit, SendInterrupt, SendClose, Inputs, Sent, TurnInputs, WorkerInputs
  <2>2. CASE SendResume
    BY <2>2 DEF SendResume, Inputs, Sent, TurnInputs, WorkerInputs
  <2>3. CASE SendResolve
    BY <2>3 DEF SendResolve, Inputs, Sent, TurnInputs, WorkerInputs
  <2>4. QED
    BY <2>1, <2>2, <2>3 DEF Commands
<1>2. QED
  BY <1>1, PostedFrame DEF Command

\* The handlers only take inputs out.
LEMMA MailStep == ASSUME Typed, Registered, [ActorNext]_vars PROVE MailFrame
<1>1. CASE UNCHANGED vars
  BY <1>1, SameFrame DEF vars
<1>2. CASE Tasks
  BY <1>2, TasksFrame
<1>3. CASE Commands
  BY <1>3, CommandsFrame
<1>4. CASE StartActor \/ Crash
  BY <1>4, SameFrame DEF StartActor, Crash, Halt
<1>5. CASE Handlers
  <2>1. \/ mailbox' \in {mailbox, <<>>}
        \/ mailbox # <<>> /\ mailbox' = Tail(mailbox)
    <3>1. CASE RecoverTool \/ RecoverEnd \/ BeginPrompt \/ NextRound \/ StartTool \/ SpawnTool
               \/ AskApproval \/ RefuseCall \/ RejectTool \/ Stop \/ Drain \/ Finish
      BY <3>1 DEF RecoverTool, RecoverEnd, BeginPrompt, NextRound, StartTool, SpawnTool, AskApproval,
                  RefuseCall, RejectTool, Stop, Drain, Finish, Leave, Halt
    <3>2. CASE HandleClose
      BY <3>2 DEF HandleClose, Halt
    <3>3. CASE HandleSubmit \/ HandleInterrupt \/ HandleResume \/ HandleResolve \/ HandleDelta
               \/ HandleFinal \/ HandleWorkerEnd \/ HandleCalls \/ HandleResult \/ HandleOutcome
      <4>1. \E type : Receive(type)
        BY <3>3 DEF HandleSubmit, HandleInterrupt, HandleResume, HandleResolve, HandleDelta,
                    HandleFinal, HandleWorkerEnd, HandleCalls, HandleResult, HandleOutcome
      <4>2. QED
        BY <4>1 DEF Receive
    <3>4. QED
      BY <1>5, <3>1, <3>2, <3>3 DEF Handlers
  <2>2. QED
    BY <2>1, TakenFrame, SameFrame
<1>6. QED
  BY <1>1, <1>2, <1>3, <1>4, <1>5 DEF ActorNext

-----------------------------------------------------------------------------
(* which turn runs *)

Begun(t) == status[t] # "none"

\* Most steps begin and end no turn, and leave the actor with the turn it has.
SameTurns ==
  /\ UNCHANGED <<status, owner, lost>> /\ active'.turn = active.turn
  /\ \/ UNCHANGED <<pc, job>>
     \/ /\ {pc, pc'} \cap {"stopped", "recover"} = {}
        /\ Ending => Ending' /\ job' = job
        /\ ~Ending /\ Ending' => job'.kind # "completed"

\* Most transactions leave every turn as it is.
LEMMA StoreLeavesTurns ==
  /\ \A s, h : CreateGeneration(s, h) => UNCHANGED <<status, owner>>
  /\ \A s, t, cs : CommitAssistantToolCalls(s, t, cs) => UNCHANGED <<status, owner>>
  /\ \A s, t, c, k : CommitToolResult(s, t, c, k) => UNCHANGED <<status, owner>>
  /\ \A s, e : AppendEvent(s, e) => UNCHANGED <<status, owner>>
  /\ \A can : Fails(can) => UNCHANGED <<status, owner>>
  /\ UNCHANGED storeVars => UNCHANGED <<status, owner>>
<1>1. \A s, h : CreateGeneration(s, h) => UNCHANGED <<status, owner>>
  BY DEF CreateGeneration
<1>2. \A s, t, cs : CommitAssistantToolCalls(s, t, cs) => UNCHANGED <<status, owner>>
  BY DEF CommitAssistantToolCalls
<1>3. \A s, t, c, k : CommitToolResult(s, t, c, k) => UNCHANGED <<status, owner>>
  BY DEF CommitToolResult
<1>4. \A s, e : AppendEvent(s, e) => UNCHANGED <<status, owner>>
  BY DEF AppendEvent
<1>5. UNCHANGED storeVars => UNCHANGED <<status, owner>>
  BY DEF storeVars
<1>6. \A can : Fails(can) => UNCHANGED <<status, owner>>
  BY <1>5 DEF Fails
<1>7. QED
  BY <1>1, <1>2, <1>3, <1>4, <1>5, <1>6

\* Tasks and commands never touch the turns.
LEMMA TasksAndCommandsSameTurns ==
  ASSUME Tasks \/ Commands \/ UNCHANGED vars PROVE SameTurns
<1>1. CASE Tasks
  <2>1. TaskStep
    BY <1>1 DEF Tasks, ProviderStreams, ProviderEnds, ToolEnds, WaiterEnds, DeadlineOf
  <2>2. QED
    BY <2>1 DEF TaskStep, SameTurns, storeVars, memoryVars, historyVars
<1>2. CASE Commands
  <2>1. \E m : Command(m)
    BY <1>2 DEF Commands, SendSubmit, SendInterrupt, SendClose, SendResume, SendResolve
  <2>2. QED
    BY <2>1 DEF Command, SameTurns, storeVars, memoryVars, historyVars
<1>3. CASE UNCHANGED vars
  BY <1>3 DEF vars, SameTurns, storeVars, memoryVars, historyVars
<1>4. QED
  BY <1>1, <1>2, <1>3

\* Recovery that is not at its end touches no turn.
LEMMA RecoverToolSameTurns == ASSUME Typed, RecoverTool, pc' = "recover" PROVE SameTurns
  BY StoreLeavesTurns DEF RecoverTool, SameTurns, GiveUp, LeaveRecovery

\* Most handlers touch no turn.
LEMMA InputsSameTurns ==
  ASSUME Typed,
         \/ HandleSubmit \/ HandleInterrupt \/ HandleResume \/ HandleResolve
         \/ HandleDelta \/ HandleWorkerEnd \/ HandleCalls \/ HandleResult \/ HandleOutcome
         \/ HandleClose /\ ~Idle
         \/ HandleFinal /\ UNCHANGED status
  PROVE  SameTurns
<1> USE StoreLeavesTurns DEF SameTurns, Receive, Ending
<1>1. CASE HandleSubmit
  BY <1>1 DEF HandleSubmit, memoryVars, historyVars
<1>2. CASE HandleInterrupt
  BY <1>2 DEF HandleInterrupt, historyVars, actorOnly, End
<1>3. CASE HandleResume \/ HandleResolve \/ HandleDelta
  BY <1>3 DEF HandleResume, HandleResolve, HandleDelta, memoryVars, historyVars
<1>4. CASE HandleWorkerEnd
  BY <1>4 DEF HandleWorkerEnd, historyVars, actorOnly, End
<1>5. CASE HandleCalls
  <2>1. active'.turn = active.turn
    BY <1>5 DEF HandleCalls, Typed, MemoryTypeOK
  <2>2. QED
    BY <1>5, <2>1 DEF HandleCalls, End
<1>6. CASE HandleResult
  <2>1. active'.turn = active.turn
    BY <1>6 DEF HandleResult, CompleteCurrent, Typed, MemoryTypeOK
  <2>2. QED
    BY <1>6, <2>1 DEF HandleResult, End
<1>7. CASE HandleOutcome
  <2>1. active'.turn = active.turn
    BY <1>7 DEF HandleOutcome, Typed, MemoryTypeOK
  <2>2. pc = "recv" /\ pc' \in {"recv", "advance", "reject"} /\ UNCHANGED <<status, owner, lost>>
    BY <1>7 DEF HandleOutcome
  <2>3. QED
    BY <2>1, <2>2
<1>8. CASE HandleClose /\ ~Idle
  BY <1>8 DEF HandleClose, End, historyVars
<1>9. CASE HandleFinal /\ UNCHANGED status
  <2>1. UNCHANGED <<status, owner, lost, active>> /\ pc = "recv"
    BY <1>9 DEF HandleFinal, CompleteTurn, historyVars, actorOnly
  <2>2. ASSUME CompleteTurn(Self, Head(mailbox).turn) PROVE FALSE
    <3>1. Head(mailbox).turn \in Turns
      BY <1>9, ReceivedTyped, InputFields DEF HandleFinal
    <3>2. QED
      BY <1>9, <2>2, <3>1 DEF CompleteTurn, CanComplete, RunningIn, Typed, StoreTypeOK
  <2>3. UNCHANGED <<pc, job>>
    BY <1>9, <2>2 DEF HandleFinal
  <2>4. QED
    BY <2>1, <2>3
<1>10. QED
  BY <1>1, <1>2, <1>3, <1>4, <1>5, <1>6, <1>7, <1>8, <1>9

\* Advancing a turn leaves it running.
LEMMA AdvanceSameTurns ==
  ASSUME Typed,
         NextRound \/ StartTool \/ SpawnTool \/ AskApproval \/ RefuseCall \/ RejectTool \/ Stop \/ Drain
  PROVE  SameTurns
<1> USE StoreLeavesTurns DEF SameTurns, Ending
<1>1. CASE NextRound
  <2>1. active'.turn = active.turn
    BY <1>1 DEF NextRound, Typed, MemoryTypeOK
  <2>2. QED
    BY <1>1, <2>1 DEF NextRound, End, historyVars
<1>2. CASE StartTool
  <2>1. active'.turn = active.turn
    BY <1>2 DEF StartTool, Typed, MemoryTypeOK
  <2>2. pc = "advance" /\ (pc' = "spawn" \/ End("failed", FALSE)) /\ UNCHANGED lost
    BY <1>2 DEF StartTool, historyVars
  <2>3. UNCHANGED <<status, owner>>
    BY <1>2 DEF StartTool
  <2>4. QED
    BY <2>1, <2>2, <2>3 DEF End
<1>3. CASE AskApproval
  <2>1. active'.turn = active.turn
    BY <1>3 DEF AskApproval, Typed, MemoryTypeOK
  <2>2. pc = "advance" /\ (pc' = "recv" \/ End("failed", FALSE)) /\ UNCHANGED lost
    BY <1>3 DEF AskApproval
  <2>3. UNCHANGED <<status, owner>>
    BY <1>3 DEF AskApproval
  <2>4. QED
    BY <2>1, <2>2, <2>3 DEF End
<1>4. CASE RefuseCall \/ SpawnTool
  BY <1>4 DEF RefuseCall, SpawnTool, memoryVars, historyVars, storeVars
<1>5. CASE RejectTool
  BY <1>5 DEF RejectTool, End, actorOnly
<1>6. CASE Stop
  <2>1. active'.turn = active.turn
    BY <1>6 DEF Stop, Typed, MemoryTypeOK
  <2>2. QED
    BY <1>6, <2>1 DEF Stop, historyVars
<1>7. CASE Drain
  <2>1. active'.turn = active.turn
    BY <1>7 DEF Drain, Typed, MemoryTypeOK
  <2>2. QED
    BY <1>7, <2>1 DEF Drain, historyVars
<1>8. QED
  BY <1>1, <1>2, <1>3, <1>4, <1>5, <1>6, <1>7

RecoveryEnds ==
  /\ pc = "recover" /\ Idle /\ UNCHANGED active /\ LeaveRecovery
  /\ \/ FinishWithoutMessage(Self, job.turn, "failed") /\ UNCHANGED lost
     \/ UNCHANGED storeVars /\ lost' = lost \union {job.turn}

Begins ==
  /\ pc = "begin" /\ pc' = "recv" /\ UNCHANGED lost
  /\ \E t \in Turns :
       BeginTurn(Self, t) /\ active' = [NoActive EXCEPT !.turn = t] /\ Publish(t, "open")

Completes ==
  /\ pc = "recv" /\ active.turn \in Turns /\ CompleteTurn(Self, active.turn) /\ End("completed", FALSE)
  /\ UNCHANGED <<active, lost, heard>>

Ends ==
  /\ pc = "finish" /\ pc' \in {"recv", "stopped"} /\ job' = NoJob /\ UNCHANGED lost
  /\ \/ /\ \/ job.kind = "completed" /\ UNCHANGED storeVars
           \/ job.kind # "completed" /\ FinishWithoutMessage(Self, active.turn, job.kind)
        /\ active' = NoActive /\ Publish(active.turn, job.kind)
     \/ /\ job.kind # "completed" /\ UNCHANGED storeVars
        /\ active' = active \/ (pc' = "stopped" /\ active' = NoActive)
        /\ UNCHANGED heard

Dropped == Halt /\ UNCHANGED <<storeVars, heard>>

\* What a step does to the turns.
TurnStep == SameTurns \/ StartActor \/ RecoveryEnds \/ Begins \/ Completes \/ Ends \/ Dropped

\* Recovery ends with its last step, and with the first one that fails.
LEMMA RecoveryLeaves == ASSUME Typed, RecoverEnd \/ RecoverTool, pc' # "recover" PROVE RecoveryEnds
<1>1. pc = "recover" /\ Idle /\ UNCHANGED active
  BY DEF RecoverTool, RecoverEnd, Typed, Shape
<1>2. CASE RecoverTool
  BY <1>1, <1>2 DEF RecoverTool, RecoveryEnds, GiveUp, Fails
<1>3. CASE RecoverEnd
  BY <1>1, <1>3 DEF RecoverEnd, RecoveryEnds, GiveUp, Fails
<1>4. QED
  BY <1>2, <1>3

\* What the recovery does to the turns.
LEMMA RecoveryTurnStep == ASSUME Typed, RecoverTool \/ RecoverEnd PROVE TurnStep
<1>1. CASE pc' # "recover"
  BY <1>1, RecoveryLeaves DEF TurnStep
<1>2. CASE RecoverTool /\ pc' = "recover"
  BY <1>2, RecoverToolSameTurns DEF TurnStep
<1>3. CASE RecoverEnd
  <2>1. pc' # "recover"
    BY <1>3 DEF RecoverEnd, GiveUp, LeaveRecovery
  <2>2. QED
    BY <1>1, <2>1
<1>4. QED
  BY <1>1, <1>2, <1>3

\* The last of the three parts of ending a turn.
LEMMA FinishEnds == ASSUME Finish PROVE Ends
<1>1. pc' \in {"recv", "stopped"} /\ job' = NoJob /\ UNCHANGED lost
  BY DEF Finish, Leave, Halt
<1>2. CASE Leave(NoActive) /\ Publish(active.turn, job.kind)
           /\ \/ job.kind = "completed" /\ UNCHANGED storeVars
              \/ job.kind # "completed" /\ FinishWithoutMessage(Self, active.turn, job.kind)
  <2>1. active' = NoActive
    BY <1>2 DEF Leave, Halt
  <2>2. QED
    BY <1>1, <1>2, <2>1 DEF Finish, Ends
<1>3. CASE job.kind # "completed" /\ Fails(CanFinish(Self, active.turn)) /\ Leave(active) /\ UNCHANGED heard
  <2>1. active' = active \/ (pc' = "stopped" /\ active' = NoActive)
    BY <1>3 DEF Leave, Halt
  <2>2. UNCHANGED storeVars
    BY <1>3 DEF Fails
  <2>3. QED
    BY <1>1, <1>3, <2>1, <2>2 DEF Finish, Ends
<1>4. QED
  BY <1>2, <1>3 DEF Finish

\* What the handlers that begin or end a turn do to the turns.
LEMMA EdgeTurnStep ==
  ASSUME Typed, BeginPrompt \/ HandleFinal \/ HandleClose \/ Finish \/ Crash
  PROVE  TurnStep
<1>1. CASE BeginPrompt
  <2>1. CASE UNCHANGED active /\ \E can : Fails(can)
    BY <1>1, <2>1, StoreLeavesTurns DEF BeginPrompt, TurnStep, SameTurns, Ending
  <2>2. CASE Begins
    BY <2>2 DEF TurnStep
  <2>3. QED
    BY <1>1, <2>1, <2>2 DEF BeginPrompt, Begins
<1>2. CASE HandleFinal
  <2>1. CASE UNCHANGED status
    BY <1>2, <2>1, InputsSameTurns DEF TurnStep
  <2>2. CASE ~UNCHANGED status
    <3>1. Live(Head(mailbox).turn) /\ CompleteTurn(Self, Head(mailbox).turn) /\ End("completed", FALSE)
      BY <1>2, <2>2, StoreLeavesTurns DEF HandleFinal
    <3>2. Head(mailbox).turn \in Turns
      BY <1>2, ReceivedTyped, InputFields DEF HandleFinal
    <3>3. QED
      BY <1>2, <3>1, <3>2 DEF HandleFinal, TurnStep, Completes, Live, Mine, historyVars, actorOnly, Receive
  <2>3. QED
    BY <2>1, <2>2
<1>3. CASE HandleClose
  <2>1. CASE Idle
    BY <1>3, <2>1 DEF HandleClose, TurnStep, Dropped
  <2>2. CASE ~Idle
    BY <1>3, <2>2, InputsSameTurns DEF TurnStep
  <2>3. QED
    BY <2>1, <2>2
<1>4. CASE Finish
  BY <1>4, FinishEnds DEF TurnStep
<1>5. CASE Crash
  BY <1>5 DEF Crash, TurnStep, Dropped
<1>6. QED
  BY <1>1, <1>2, <1>3, <1>4, <1>5

\* Every step does one of five things to the turns.
LEMMA TurnSteps == ASSUME Typed, [ActorNext]_vars PROVE TurnStep
<1>1. CASE Tasks \/ Commands \/ UNCHANGED vars
  BY <1>1, TasksAndCommandsSameTurns DEF TurnStep
<1>2. CASE StartActor
  BY <1>2 DEF TurnStep
<1>3. CASE Crash
  BY <1>3, EdgeTurnStep
<1>4. CASE Handlers
  BY <1>4, RecoveryTurnStep, EdgeTurnStep, InputsSameTurns, AdvanceSameTurns DEF Handlers, TurnStep
<1>5. QED
  BY <1>1, <1>2, <1>3, <1>4 DEF ActorNext

-----------------------------------------------------------------------------
(* memory and database agree on the running turn *)

RegistersAgree ==
  /\ ActiveIsTheRunningTurn
  /\ pc = "recover" => RunningIn(Self, job.turn)
  /\ \A t \in Turns : Begun(t) => owner[t] = Self
  /\ \A t \in lost : Begun(t) /\ ~Mine(t)
  /\ Ending /\ job.kind = "completed" => status[active.turn] = "completed"

\* Memory and database go on agreeing about the running turn.
LEMMA RegisterStep ==
  ASSUME Typed, Typed', AtMostOneRunning, RegistersAgree, TurnStep PROVE RegistersAgree'
<1> USE DEF RegistersAgree, ActiveIsTheRunningTurn, RunningIn, Begun, Mine
<1>0. /\ Self \in Sessions /\ lost \subseteq Turns /\ job.turn \in Turns \union {NoTurn}
      /\ status \in [Turns -> Status] /\ owner \in [Turns -> Sessions \union {NoSession}]
      /\ Idle => active = NoActive
  BY ActorAssumption DEF Typed, MemoryTypeOK, StoreTypeOK, Shape
<1>1. CASE SameTurns
  BY <1>0, <1>1 DEF SameTurns, Ending
<1>2. CASE StartActor
  <2>1. UNCHANGED <<status, owner, active>> /\ Idle /\ pc' \in {"recv", "recover"} /\ pc = "stopped"
    BY <1>2 DEF StartActor, Typed, Shape, storeVars
  <2>2. \A t \in Turns : active.turn # t
    BY <1>0, <2>1, NoTypes, IdAssumption DEF Idle
  <2>3. CASE (\A t \in Turns : ~RunningIn(Self, t)) /\ UNCHANGED lost /\ pc' = "recv"
    BY <1>0, <2>1, <2>2, <2>3 DEF Ending
  <2>4. CASE UNCHANGED lost /\ pc' = "recover" /\ \E t \in Turns : RunningIn(Self, t) /\ job' = [NoJob EXCEPT !.turn = t]
    BY <1>0, <2>1, <2>2, <2>4 DEF NoJob
  <2>5. CASE lost' = lost \union {t \in Turns : RunningIn(Self, t)} /\ pc' = "recv"
    BY <1>0, <2>1, <2>2, <2>5 DEF Ending
  <2>6. QED
    BY <1>2, <2>3, <2>4, <2>5 DEF StartActor
<1>3. CASE RecoveryEnds
  <2>1. /\ pc = "recover" /\ pc' = "recv" /\ Idle /\ UNCHANGED active /\ job.turn \in Turns
        /\ \A t \in Turns : active.turn # t
    BY <1>0, <1>3, NoTypes, IdAssumption DEF RecoveryEnds, LeaveRecovery, Idle, Typed, Shape
  <2>2. \A t \in Turns : RunningIn(Self, t) => t = job.turn
    BY <1>0, <2>1 DEF AtMostOneRunning
  <2>3. CASE FinishWithoutMessage(Self, job.turn, "failed") /\ UNCHANGED lost
    BY <1>0, <2>1, <2>2, <2>3 DEF FinishWithoutMessage, Ending
  <2>4. CASE UNCHANGED storeVars /\ lost' = lost \union {job.turn}
    BY <1>0, <2>1, <2>2, <2>4 DEF storeVars, Ending
  <2>5. QED
    BY <1>3, <2>3, <2>4 DEF RecoveryEnds
<1>4. CASE Begins
  <2>1. PICK t \in Turns : BeginTurn(Self, t) /\ active' = [NoActive EXCEPT !.turn = t]
    BY <1>4 DEF Begins
  <2>2. pc' = "recv" /\ UNCHANGED lost /\ active'.turn = t
    BY <1>4, <2>1, NoTypes DEF Begins, NoActive
  <2>3. /\ status' = [status EXCEPT ![t] = "running"] /\ owner' = [owner EXCEPT ![t] = Self]
        /\ status[t] = "none" /\ \A u \in Turns : ~RunningIn(Self, u)
    BY <2>1 DEF BeginTurn, CanBegin
  <2>4. QED
    BY <1>0, <2>2, <2>3 DEF Ending
<1>5. CASE Completes
  <2>1. /\ status' = [status EXCEPT ![active.turn] = "completed"] /\ UNCHANGED <<owner, active, lost>>
        /\ pc' = "stop" /\ job'.kind = "completed" /\ pc = "recv" /\ active.turn \in Turns
    BY <1>5 DEF Completes, CompleteTurn, End
  <2>2. QED
    BY <1>0, <2>1 DEF Ending
<1>6. CASE Ends
  <2>1. /\ pc = "finish" /\ pc' \in {"recv", "stopped"} /\ UNCHANGED lost /\ active.turn \in Turns
        /\ \A t \in Turns : NoActive.turn # t
    BY <1>6, NoTypes, IdAssumption DEF Ends, Typed, Shape, MemoryTypeOK, Idle, Ending
  <2>2. \A t \in Turns : RunningIn(Self, t) => t = active.turn \/ t \in lost
    BY <2>1
  <2>3. CASE /\ job.kind = "completed" /\ UNCHANGED storeVars /\ active' = NoActive
    <3>1. ~RunningIn(Self, active.turn)
      BY <2>1, <2>3 DEF Ending
    <3>2. QED
      BY <1>0, <2>1, <2>2, <2>3, <3>1 DEF storeVars, Ending
  <2>4. CASE FinishWithoutMessage(Self, active.turn, job.kind) /\ active' = NoActive
    <3>1. job.kind \in {"completed", "interrupted", "failed"}
      BY <2>1 DEF Typed, Shape, Ending, Terminal
    <3>2. QED
      BY <1>0, <2>1, <2>2, <2>4, <3>1 DEF FinishWithoutMessage, Ending
  <2>5. CASE job.kind # "completed" /\ UNCHANGED storeVars /\ (active' = active \/ (pc' = "stopped" /\ active' = NoActive))
    BY <1>0, <2>1, <2>2, <2>5 DEF storeVars, Ending
  <2>6. QED
    BY <1>6, <2>3, <2>4, <2>5 DEF Ends
<1>7. CASE Dropped
  <2>1. UNCHANGED <<status, owner, lost>> /\ pc' = "stopped" /\ active' = NoActive
        /\ \A t \in Turns : NoActive.turn # t
    BY <1>7, NoTypes, IdAssumption DEF Dropped, Halt, storeVars
  <2>2. QED
    BY <1>0, <2>1 DEF Ending
<1>8. QED
  BY <1>1, <1>2, <1>3, <1>4, <1>5, <1>6, <1>7 DEF TurnStep

-----------------------------------------------------------------------------
(* nothing is about a turn that was never begun *)

\* Tasks and history grow by what belongs to the active turn.
Written ==
  /\ \A w \in workers' : w \in workers \/ (w[1] = active'.turn /\ active'.turn \in Turns)
  /\ \A p \in executed' : p \in executed \/ (p.turn = active.turn /\ active.turn \in Turns)
  /\ executed \subseteq executed' /\ \A p \in tools' : p \in tools \/ p \in executed'
  /\ \A a \in Approvals :
       request'[a] = request[a] \/ (request'[a].turn = active.turn /\ active.turn \in Turns)

Unwritten ==
  workers' \subseteq workers /\ tools' \subseteq tools /\ UNCHANGED <<executed, request>>

\* No operation of the manager but Register writes a request.
LEMMA ResolveUnwritten ==
  /\ \A s, t, a, d : Resolve(s, t, a, d) => UNCHANGED request
  /\ \A a : Expire(a) => UNCHANGED request
  /\ \A t : CancelForTurn(t) => UNCHANGED request
  /\ UNCHANGED approvalVars => UNCHANGED request
  BY DEF Resolve, ResolveAccepted, ResolveExpired, ResolveRefused, Expire, CancelForTurn,
         approvalVars, managerVars

\* Most steps write neither an approval nor a batch.
LEMMA MostUnwritten ==
  ASSUME \/ Tasks \/ Commands \/ UNCHANGED vars \/ StartActor \/ Crash \/ RecoverTool \/ RecoverEnd
         \/ HandleSubmit \/ HandleInterrupt \/ HandleClose \/ HandleResume \/ HandleResolve
         \/ HandleDelta \/ HandleFinal \/ HandleWorkerEnd \/ HandleCalls \/ HandleResult \/ HandleOutcome
         \/ StartTool \/ RefuseCall \/ RejectTool \/ Stop \/ Drain \/ Finish
  PROVE  Unwritten
<1> USE ResolveUnwritten DEF Unwritten
<1>1. CASE Tasks
  <2>1. CASE ProviderStreams
    BY <2>1 DEF ProviderStreams, TaskStep, taskVars, historyVars
  <2>2. CASE \E w \in workers : ProviderEnds(w)
    BY <2>2 DEF ProviderEnds, TaskStep, historyVars
  <2>3. CASE \E p \in tools : ToolEnds(p)
    BY <2>3 DEF ToolEnds, TaskStep, historyVars
  <2>4. CASE \E a \in Approvals : WaiterEnds(a) \/ DeadlineOf(a)
    BY <2>4 DEF WaiterEnds, DeadlineOf, WaiterReturns, DeadlinePasses, managerVars, TaskStep, taskVars, historyVars
  <2>5. QED
    BY <1>1, <2>1, <2>2, <2>3, <2>4 DEF Tasks
<1>2. CASE Commands
  <2>1. \E m : Command(m)
    BY <1>2 DEF Commands, SendSubmit, SendInterrupt, SendClose, SendResume, SendResolve
  <2>2. QED
    BY <2>1 DEF Command, taskVars, historyVars
<1>3. CASE UNCHANGED vars
  BY <1>3 DEF vars, taskVars, historyVars
<1>4. CASE StartActor \/ Crash \/ RecoverTool \/ RecoverEnd
  BY <1>4 DEF StartActor, Crash, Halt, RecoverTool, RecoverEnd, taskVars
<1>5. CASE HandleSubmit \/ HandleInterrupt \/ HandleResume \/ HandleResolve
  BY <1>5 DEF HandleSubmit, HandleInterrupt, HandleResume, HandleResolve, taskVars, historyVars
<1>6. CASE HandleClose
  BY <1>6 DEF HandleClose, Halt, taskVars, historyVars
<1>7. CASE HandleDelta \/ HandleFinal \/ HandleWorkerEnd
  BY <1>7 DEF HandleDelta, HandleFinal, HandleWorkerEnd, taskVars, historyVars
<1>8. CASE HandleCalls \/ HandleResult
  BY <1>8 DEF HandleCalls, HandleResult, taskVars
<1>9. CASE HandleOutcome
  <2>1. UNCHANGED approvalVars \/ \E a : Expire(a)
    BY <1>9 DEF HandleOutcome
  <2>2. QED
    BY <1>9, <2>1 DEF HandleOutcome, taskVars
<1>10. CASE StartTool \/ RefuseCall \/ RejectTool \/ Stop
  BY <1>10 DEF StartTool, RefuseCall, RejectTool, Stop, taskVars, historyVars
<1>11. CASE Drain
  BY <1>11 DEF Drain, managerVars, historyVars
<1>12. CASE Finish
  BY <1>12 DEF Finish, Leave, Halt, taskVars
<1>13. QED
  BY <1>1, <1>2, <1>3, <1>4, <1>5, <1>6, <1>7, <1>8, <1>9, <1>10, <1>11, <1>12

\* Every step writes only what was already known.
LEMMA StepWritten == ASSUME Typed, [ActorNext]_vars PROVE Written
<1>1. CASE Unwritten
  BY <1>1 DEF Unwritten, Written
<1>2. CASE BeginPrompt
  <2>1. UNCHANGED <<tools, executed, request>>
    BY <1>2 DEF BeginPrompt, approvalVars, managerVars
  <2>2. CASE UNCHANGED workers
    BY <2>1, <2>2 DEF Written
  <2>3. CASE \E t \in Turns : /\ active' = [NoActive EXCEPT !.turn = t]
                              /\ workers' = workers \union (IF ProviderConfigured THEN {<<t, 0>>} ELSE {})
    BY <2>1, <2>3, NoTypes DEF Written, NoActive
  <2>4. QED
    BY <1>2, <2>2, <2>3 DEF BeginPrompt
<1>3. CASE NextRound
  <2>1. UNCHANGED <<tools, executed, request>>
    BY <1>3 DEF NextRound, approvalVars, managerVars, historyVars
  <2>2. active'.turn = active.turn /\ active.turn \in Turns
    BY <1>3 DEF NextRound, Typed, MemoryTypeOK, Shape, Idle
  <2>3. workers' = workers \/ workers' = workers \union {WorkerHandle}
    BY <1>3 DEF NextRound
  <2>4. QED
    BY <2>1, <2>2, <2>3 DEF Written, WorkerHandle
<1>4. CASE SpawnTool
  <2>1. UNCHANGED <<workers, request>> /\ pc = "spawn"
        /\ tools' = tools \union {Cursor} /\ executed' = executed \union {Cursor}
    BY <1>4 DEF SpawnTool, approvalVars, managerVars
  <2>2. Cursor.turn = active.turn /\ active.turn \in Turns
    BY <2>1, CursorTyped DEF Typed, Shape
  <2>3. QED
    BY <2>1, <2>2 DEF Written
<1>5. CASE AskApproval
  <2>1. UNCHANGED <<taskVars, executed>> /\ Cursor.turn = active.turn /\ active.turn \in Turns
    BY <1>5, CursorTyped DEF AskApproval, Typed
  <2>2. PICK a \in Approvals : Register(a, [session |-> Self, turn |-> active.turn, key |-> KeyOf[Cursor.call]])
    BY <1>5 DEF AskApproval
  <2>3. QED
    BY <2>1, <2>2 DEF Written, Register, Typed, ApprovalTypeOK, taskVars
<1>6. QED
  BY <1>1, <1>2, <1>3, <1>4, <1>5, MostUnwritten DEF ActorNext, Handlers

\* A turn that has begun stays begun.
LEMMA BegunStays == ASSUME StoreTypeOK, [StoreNext]_storeVars, NEW t \in Turns, Begun(t) PROVE Begun(t)'
<1>1. CASE UNCHANGED status
  BY <1>1 DEF Begun
<1>2. CASE CallerBegins \/ CallerCompletes \/ CallerFinishes
  BY <1>2 DEF CallerBegins, BeginTurn, CallerCompletes, CompleteTurn, CallerFinishes, FinishWithoutMessage,
              StoreTypeOK, Begun
<1>3. QED
  BY <1>1, <1>2 DEF StoreNext, storeVars, CallerGenerates, CreateGeneration, CallerAsks,
     CommitAssistantToolCalls, CallerAnswers, CommitToolResult, CallerNotes, AppendEvent

Known ==
  /\ ~Idle => Begun(active.turn)
  /\ tools \subseteq executed
  /\ \A p \in executed : Begun(p.turn)
  /\ \A w \in workers : Begun(w[1])
  /\ \A a \in Approvals : request[a] # NoRequest => Begun(request[a].turn)
  /\ \A i \in DOMAIN mailbox : mailbox[i].type \in TurnInputs => Begun(mailbox[i].turn)

\* Turns, approvals and answers are used after they exist.
LEMMA KnownStep ==
  ASSUME Typed, Registered, TypedStep, Typed', Written, MailFrame, TurnStep, Known
  PROVE  Known'
<1> USE DEF Begun
<1>0. /\ \A t \in Turns : status[t] # "none" => status'[t] # "none"
      /\ \A p \in executed' : p.turn \in Turns
      /\ \A w \in workers' : w[1] \in Turns
      /\ \A a \in Approvals : request[a] # NoRequest => request[a].turn \in Turns
      /\ \A i \in DOMAIN mailbox : mailbox[i] \in Inputs
  <2>1. \A t \in Turns : status[t] # "none" => status'[t] # "none"
    BY BegunStays DEF Typed, TypedStep
  <2>2. executed' \subseteq Positions /\ workers' \subseteq Turns \X (0 .. MaxRounds)
    BY DEF Typed, MemoryTypeOK
  <2>3. \A a \in Approvals : request[a] # NoRequest => request[a].turn \in Turns
    BY DEF Typed, ApprovalTypeOK, Requests
  <2>4. \A i \in DOMAIN mailbox : mailbox[i] \in Inputs
    BY DEF Typed, MemoryTypeOK
  <2>5. QED
    BY <2>1, <2>2, <2>3, <2>4 DEF Positions
<1>1. (~Idle => Begun(active.turn))'
  <2>1. CASE Begins
    <3>1. PICK t \in Turns : BeginTurn(Self, t) /\ active' = [NoActive EXCEPT !.turn = t]
      BY <2>1 DEF Begins
    <3>2. active'.turn = t /\ status'[t] = "running"
      BY <3>1, NoTypes DEF NoActive, BeginTurn, Typed, StoreTypeOK
    <3>3. QED
      BY <3>2 DEF Begun
  <2>2. CASE active'.turn = active.turn
    BY <1>0, <2>2 DEF Known, Idle, Typed, MemoryTypeOK
  <2>3. CASE active' = NoActive
    BY <2>3, NoTypes DEF Idle
  <2>4. QED
    BY <2>1, <2>2, <2>3 DEF TurnStep, SameTurns, StartActor, RecoveryEnds, Completes, Ends, Dropped, Halt
<1>2. active.turn \in Turns => status'[active.turn] # "none"
  BY <1>0, IdAssumption DEF Known, Idle
<1>3. active'.turn \in Turns => status'[active'.turn] # "none"
  BY <1>1, IdAssumption DEF Idle
<1>4. (\A p \in executed : Begun(p.turn))' /\ (tools \subseteq executed)'
  BY <1>0, <1>2, ZenonT(30) DEF Written, Known, Typed, MemoryTypeOK, Positions
<1>5. (\A w \in workers : Begun(w[1]))'
  BY <1>0, <1>3 DEF Written, Known, Typed, MemoryTypeOK
<1>6. (\A a \in Approvals : request[a] # NoRequest => Begun(request[a].turn))'
  BY <1>0, <1>2 DEF Written, Known
<1>7. ASSUME NEW i \in DOMAIN mailbox', mailbox'[i].type \in TurnInputs
      PROVE  status'[mailbox'[i].turn] # "none"
  <2>1. CASE \E j \in DOMAIN mailbox : mailbox'[i] = mailbox[j]
    <3>1. PICK j \in DOMAIN mailbox : mailbox'[i] = mailbox[j]
      BY <2>1
    <3>2. mailbox[j].turn \in Turns /\ Begun(mailbox[j].turn)
      BY <1>0, <1>7, <3>1, InputFields DEF Known, TurnInputs, WorkerInputs
    <3>3. QED
      BY <1>0, <3>1, <3>2
  <2>2. CASE Sent(mailbox'[i])
    <3>1. CASE \E w \in workers : mailbox'[i].turn = w[1]
      BY <1>0, <3>1, SMTT(30) DEF Known, Typed, MemoryTypeOK
    <3>2. CASE \E p \in tools : mailbox'[i] = ToolReport(p)
      <4>1. PICK p \in tools : mailbox'[i] = ToolReport(p)
        BY <3>2
      <4>2. p \in executed /\ p \in Positions
        BY DEF Known, Typed, MemoryTypeOK
      <4>3. p.turn \in Turns /\ status[p.turn] # "none"
        BY <4>2 DEF Known, Positions
      <4>4. mailbox'[i].turn = p.turn
        BY <4>1 DEF ToolReport
      <4>5. QED
        BY <1>0, <4>3, <4>4
    <3>3. CASE \E a \in Approvals, o \in Outcomes :
                 WaiterReturns(a, Cancelled(request[a].turn), o) /\ mailbox'[i] = WaiterReport(a, o)
      BY <1>0, <3>3 DEF Known, WaiterReport, WaiterReturns, Registered
    <3>4. QED
      BY <1>7, <2>2, <3>1, <3>2, <3>3 DEF Sent
  <2>3. QED
    BY <2>1, <2>2 DEF MailFrame
<1>8. QED
  BY <1>1, <1>4, <1>5, <1>6, <1>7 DEF Known

-----------------------------------------------------------------------------
(* approvals *)

AskStep(a) ==
  /\ HasCurrent /\ MustAsk /\ pc = "advance" /\ a \in Approvals /\ request[a] = NoRequest
  /\ Register(a, [session |-> Self, turn |-> active.turn, key |-> KeyOf[Cursor.call]])
  /\ subject' = [subject EXCEPT ![a] = Cursor]
  /\ active' = [active EXCEPT !.approval = a, !.awaiting = TRUE]

DrainStep ==
  /\ pc = "drain" /\ pc' = "finish"
  /\ UNCHANGED <<managerVars, due>>
  /\ waiter' = [a \in Approvals |-> IF a = active.approval THEN "none" ELSE waiter[a]]
  /\ active' = [active EXCEPT !.approval = NoApproval]

\* What a step does to the approvals.
ApprovalStep ==
  \/ UNCHANGED <<approvalVars, subject>>
  \/ /\ UNCHANGED subject
     /\ \/ pc = "recv" /\ \E t, d : \E a \in Approvals : d \in Decisions /\ Resolve(Self, t, a, d)
        \/ pc = "recv" /\ Expire(active.approval) /\ active.approval \in Approvals
        \/ pc = "stop" /\ CancelForTurn(active.turn)
        \/ DrainStep
        \/ \E a \in Approvals, o \in Outcomes : WaiterReturns(a, Cancelled(request[a].turn), o)
        \/ \E a \in Approvals : DeadlinePasses(a)
        \/ Halt
  \/ \E a \in Approvals : AskStep(a)

\* Every step uses the manager through one of its operations.
LEMMA ApprovalSteps == ASSUME Typed, [ActorNext]_vars PROVE ApprovalStep
<1> USE DEF ApprovalStep
<1>1. CASE Tasks
  <2>1. CASE ProviderStreams \/ \E w \in workers : ProviderEnds(w)
    BY <2>1 DEF ProviderStreams, ProviderEnds, TaskStep, historyVars
  <2>2. CASE \E p \in tools : ToolEnds(p)
    BY <2>2 DEF ToolEnds, TaskStep, historyVars
  <2>3. CASE \E a \in Approvals : WaiterEnds(a)
    BY <2>3 DEF WaiterEnds, TaskStep, historyVars
  <2>4. CASE \E a \in Approvals : DeadlineOf(a)
    BY <2>4 DEF DeadlineOf, TaskStep, historyVars
  <2>5. QED
    BY <1>1, <2>1, <2>2, <2>3, <2>4 DEF Tasks
<1>2. CASE Commands
  <2>1. \E m : Command(m)
    BY <1>2 DEF Commands, SendSubmit, SendInterrupt, SendClose, SendResume, SendResolve
  <2>2. UNCHANGED <<approvalVars, subject>>
    BY <2>1 DEF Command, approvalVars, managerVars, historyVars
  <2>3. QED
    BY <2>2
<1>3. CASE UNCHANGED vars
  <2>1. UNCHANGED <<approvalVars, subject>>
    BY <1>3 DEF vars, historyVars
  <2>2. QED
    BY <2>1
<1>4. CASE StartActor \/ RecoverTool \/ RecoverEnd \/ HandleSubmit \/ BeginPrompt \/ HandleInterrupt
           \/ HandleResume \/ HandleDelta \/ HandleFinal \/ HandleWorkerEnd \/ HandleCalls \/ HandleResult
           \/ NextRound \/ StartTool \/ SpawnTool \/ RefuseCall \/ RejectTool
  <2>1. UNCHANGED <<approvalVars, subject>>
    BY <1>4 DEF StartActor, RecoverTool, RecoverEnd, HandleSubmit, BeginPrompt, HandleInterrupt,
      HandleResume, HandleDelta, HandleFinal, HandleWorkerEnd, HandleCalls, HandleResult,
      NextRound, StartTool, SpawnTool, RefuseCall, RejectTool, historyVars
  <2>2. QED
    BY <2>1
<1>5. CASE HandleClose \/ Crash
  <2>1. Halt \/ UNCHANGED <<approvalVars, historyVars>>
    BY <1>5 DEF HandleClose, Crash
  <2>2. QED
    BY <2>1 DEF Halt, historyVars
<1>6. CASE HandleResolve
  <2>1. Head(mailbox).approval \in Approvals /\ Head(mailbox).decision \in Decisions /\ pc = "recv"
    BY <1>6, ReceivedTyped, InputFields DEF HandleResolve
  <2>2. UNCHANGED subject
    BY <1>6 DEF HandleResolve, historyVars
  <2>3. \/ UNCHANGED approvalVars
        \/ Resolve(Self, active.turn, Head(mailbox).approval, Head(mailbox).decision)
    BY <1>6 DEF HandleResolve
  <2>4. QED
    BY <2>1, <2>2, <2>3
<1>7. CASE HandleOutcome
  <2>1. Head(mailbox).approval \in Approvals /\ pc = "recv"
    BY <1>7, ReceivedTyped, InputFields DEF HandleOutcome
  <2>2. UNCHANGED subject
    BY <1>7 DEF HandleOutcome
  <2>3. \/ UNCHANGED approvalVars
        \/ Expire(Head(mailbox).approval) /\ Head(mailbox).approval = active.approval
    BY <1>7 DEF HandleOutcome
  <2>4. QED
    BY <2>1, <2>2, <2>3
<1>8. CASE AskApproval
  BY <1>8 DEF AskApproval, AskStep
<1>9. CASE Stop
  BY <1>9 DEF Stop, historyVars
<1>10. CASE Drain
  BY <1>10 DEF Drain, DrainStep, historyVars
<1>11. CASE Finish
  <2>1. Halt \/ UNCHANGED <<approvalVars, subject>>
    BY <1>11 DEF Finish, Leave
  <2>2. QED
    BY <2>1 DEF Halt
<1>12. QED
  BY <1>1, <1>2, <1>3, <1>4, <1>5, <1>6, <1>7, <1>8, <1>9, <1>10, <1>11 DEF ActorNext, Handlers

\* What the manager, the waiter and the history know of a request agree.
Entry(a) ==
  /\ request[a] = NoRequest =>
       /\ a \notin pending /\ finished[a] = "-" /\ delivered[a] = "-" /\ waiter[a] = "none"
       /\ subject[a] = NoPosition
  /\ a \in pending => finished[a] = "-"
  /\ finished[a] = "-" => delivered[a] = "-"
  /\ waiter[a] \in Granted \union {"denied"} => delivered[a] = waiter[a]

Entries == \A a \in Approvals : Entry(a)

\* An answer, once sent, stays.
Kept ==
  \A a \in Approvals : request[a] # NoRequest =>
    /\ request'[a] = request[a] /\ subject'[a] = subject[a]
    /\ waiter[a] # "waiting" => waiter'[a] # "waiting"
    /\ ~Halt /\ delivered[a] # "-" => delivered'[a] = delivered[a]

\* Settling an approval settles it once.
LEMMA SettleEntry ==
  ASSUME Typed, Entries, NEW a \in Approvals, a \in pending, NEW why \in Finished, NEW o \in Outcomes,
         Settle(a, why, o), UNCHANGED <<request, waiter, subject>>
  PROVE  Entries' /\ Kept
<1>1. "-" \notin Finished
  BY DEF Finished
<1>2. waiter[a] \notin Granted \union {"denied"}
  BY DEF Entries, Entry, Granted
<1>3. QED
  BY <1>1, <1>2 DEF Typed, ApprovalTypeOK, Settle, Entries, Entry, Kept

\* Resolving an approval settles it once.
LEMMA ResolveEntry ==
  ASSUME Typed, Entries, NEW t, NEW a \in Approvals, NEW d \in Decisions, Resolve(Self, t, a, d), UNCHANGED subject
  PROVE  Entries' /\ Kept
<1>1. CASE ResolveAccepted(Self, t, a, d)
  <2> DEFINE o == IF d = "deny" THEN "denied" ELSE d
  <2>1. o \in Outcomes /\ "AlreadyResolved" \in Finished
    BY DEF Outcomes, Granted, Finished, Decisions
  <2>2. Settle(a, "AlreadyResolved", o) /\ a \in pending /\ UNCHANGED <<request, waiter>>
    BY <1>1 DEF ResolveAccepted, Resolvable
  <2> HIDE DEF o
  <2>3. QED
    BY <2>1, <2>2, SettleEntry
<1>2. CASE ResolveExpired(a)
  <2>1. "timed_out" \in Outcomes /\ "Expired" \in Finished
    BY DEF Outcomes, Finished
  <2>2. QED
    BY <1>2, <2>1, SettleEntry DEF ResolveExpired
<1>3. CASE ResolveRefused(Self, t, a)
  BY <1>3 DEF ResolveRefused, approvalVars, managerVars, Entries, Entry, Kept
<1>4. QED
  BY <1>1, <1>2, <1>3 DEF Resolve

\* The table of approvals keeps its shape, and settled ones stay so.
LEMMA EntriesStep == ASSUME Typed, Typed', Entries, ApprovalStep PROVE Entries' /\ Kept
<1>1. CASE UNCHANGED <<approvalVars, subject>>
  BY <1>1 DEF approvalVars, managerVars, Entries, Entry, Kept
<1>2. CASE UNCHANGED subject /\ \E t, d : \E a \in Approvals : d \in Decisions /\ Resolve(Self, t, a, d)
  BY <1>2, ResolveEntry
<1>3. CASE UNCHANGED subject /\ Expire(active.approval) /\ active.approval \in Approvals
  <2>1. CASE active.approval \in pending
    <3>1. "timed_out" \in Outcomes /\ "Expired" \in Finished
      BY DEF Outcomes, Finished
    <3>2. QED
      BY <1>3, <2>1, <3>1, SettleEntry DEF Expire
  <2>2. CASE active.approval \notin pending
    BY <1>3, <2>2 DEF Expire, Entries, Entry, Kept
  <2>3. QED
    BY <2>1, <2>2
<1>4. CASE UNCHANGED subject /\ CancelForTurn(active.turn)
  BY <1>4 DEF CancelForTurn, PendingOf, Typed, ApprovalTypeOK, Entries, Entry, Kept, Granted
<1>5. CASE UNCHANGED subject /\ DrainStep
  BY <1>5 DEF DrainStep, managerVars, Entries, Entry, Kept, Granted
<1>6. CASE UNCHANGED subject /\ \E a \in Approvals, o \in Outcomes : WaiterReturns(a, Cancelled(request[a].turn), o)
  <2>1. PICK a \in Approvals, o \in Outcomes : WaiterReturns(a, Cancelled(request[a].turn), o)
    BY <1>6
  <2>2. /\ o # "waiting" /\ waiter[a] = "waiting" /\ UNCHANGED managerVars
        /\ waiter' = [waiter EXCEPT ![a] = o]
        /\ o \in Granted \union {"denied"} => delivered[a] = o
    BY <2>1 DEF WaiterReturns, Ready, Granted, Outcomes
  <2>3. QED
    BY <1>6, <2>2 DEF managerVars, Typed, ApprovalTypeOK, Entries, Entry, Kept
<1>7. CASE UNCHANGED subject /\ \E a \in Approvals : DeadlinePasses(a)
  BY <1>7 DEF DeadlinePasses, managerVars, Entries, Entry, Kept
<1>8. CASE UNCHANGED subject /\ Halt
  BY <1>8 DEF Halt, Entries, Entry, Kept, Granted
<1>9. CASE \E a \in Approvals : AskStep(a)
  <2>1. PICK a \in Approvals : AskStep(a)
    BY <1>9
  <2>2. [session |-> Self, turn |-> active.turn, key |-> KeyOf[Cursor.call]] # NoRequest
    BY ActorAssumption, IdAssumption DEF NoRequest
  <2>3. QED
    BY <2>1, <2>2 DEF AskStep, Register, Typed, MemoryTypeOK, ApprovalTypeOK, Entries, Entry, Kept, Granted
<1>10. QED
  BY <1>1, <1>2, <1>3, <1>4, <1>5, <1>6, <1>7, <1>8, <1>9 DEF ApprovalStep

\* A waiter waits for an approval that was registered.
LEMMA EntriesRegistered == ASSUME Typed, Entries PROVE Registered
  BY DEF Entries, Entry, Registered

\* An outcome in the mailbox is what the waiter of that request returned.
Reported(m) ==
  m.type = "outcome" =>
    /\ request[m.approval] # NoRequest /\ request[m.approval].turn = m.turn
    /\ waiter[m.approval] # "waiting"
    /\ m.outcome \in Granted \union {"denied"} => delivered[m.approval] = m.outcome

Reports == \A i \in DOMAIN mailbox : Reported(mailbox[i])

\* A report in the mailbox is of an approval that was settled.
LEMMA ReportsStep ==
  ASSUME Typed, Typed', Entries, Kept, MailFrame, Reports PROVE Reports'
<1> SUFFICES ASSUME NEW i \in DOMAIN mailbox', mailbox'[i].type = "outcome"
             PROVE  /\ request'[mailbox'[i].approval] # NoRequest
                    /\ request'[mailbox'[i].approval].turn = mailbox'[i].turn
                    /\ waiter'[mailbox'[i].approval] # "waiting"
                    /\ mailbox'[i].outcome \in Granted \union {"denied"} =>
                         delivered'[mailbox'[i].approval] = mailbox'[i].outcome
  BY DEF Reports, Reported
<1>0. ~Halt
  BY DEF Halt
<1>1. CASE \E j \in DOMAIN mailbox : mailbox'[i] = mailbox[j]
  <2>1. PICK j \in DOMAIN mailbox : mailbox'[i] = mailbox[j]
    BY <1>1
  <2>2. mailbox[j] \in Inputs
    BY DEF Typed, MemoryTypeOK
  <2>3. mailbox[j].approval \in Approvals
    BY <2>1, <2>2, InputFields
  <2>4. Reported(mailbox[j])
    BY DEF Reports
  <2>5. "-" \notin Granted \union {"denied"}
    BY DEF Granted
  <2>6. QED
    BY <1>0, <2>1, <2>3, <2>4, <2>5 DEF Reported, Kept
<1>2. CASE Sent(mailbox'[i])
  <2>1. PICK a \in Approvals, o \in Outcomes :
          WaiterReturns(a, Cancelled(request[a].turn), o) /\ mailbox'[i] = WaiterReport(a, o)
    BY <1>2 DEF Sent, TurnInputs, WorkerInputs, ToolReport
  <2>2. /\ mailbox'[i].turn = request[a].turn /\ mailbox'[i].approval = a /\ mailbox'[i].outcome = o
    BY <2>1 DEF WaiterReport
  <2>3. /\ o # "waiting" /\ waiter[a] = "waiting" /\ UNCHANGED managerVars
        /\ waiter' = [waiter EXCEPT ![a] = o]
        /\ o \in Granted \union {"denied"} => delivered[a] = o
    BY <2>1 DEF WaiterReturns, Ready, Granted, Outcomes
  <2>4. request[a] # NoRequest
    BY <2>3 DEF Entries, Entry
  <2>5. QED
    BY <2>2, <2>3, <2>4 DEF managerVars, Typed, ApprovalTypeOK
<1>3. QED
  BY <1>1, <1>2 DEF MailFrame

\* The approval the actor holds is one of its active turn.
OwnApproval ==
  active.approval # NoApproval =>
    /\ active.approval \in Approvals
    /\ request[active.approval].turn = active.turn /\ request[active.approval].session = Self

SameApproval == active'.approval = active.approval /\ active'.turn = active.turn
HoldsApproval == SameApproval \/ active'.approval = NoApproval \/ \E a \in Approvals : AskStep(a)

\* The actor lets go of an approval only when it was settled.
LEMMA ApprovalHeld == ASSUME Typed, [ActorNext]_vars PROVE HoldsApproval
<1> USE DEF HoldsApproval, SameApproval
<1>1. CASE Tasks \/ UNCHANGED vars
  <2>1. TaskStep \/ UNCHANGED vars
    BY <1>1 DEF Tasks, ProviderStreams, ProviderEnds, ToolEnds, WaiterEnds, DeadlineOf
  <2>2. QED
    BY <2>1 DEF TaskStep, memoryVars, vars
<1>2. CASE Commands
  <2>1. \E m : Command(m)
    BY <1>2 DEF Commands, SendSubmit, SendInterrupt, SendClose, SendResume, SendResolve
  <2>2. QED
    BY <2>1 DEF Command, memoryVars
<1>3. CASE StartActor \/ RecoverTool \/ RecoverEnd \/ HandleSubmit \/ HandleInterrupt
           \/ HandleResume \/ HandleResolve \/ HandleDelta \/ HandleFinal \/ HandleWorkerEnd
           \/ SpawnTool \/ RefuseCall \/ RejectTool
  BY <1>3 DEF StartActor, RecoverTool, RecoverEnd, HandleSubmit, HandleInterrupt,
      HandleResume, HandleResolve, HandleDelta, HandleFinal, HandleWorkerEnd, SpawnTool, RefuseCall, RejectTool,
      memoryVars, actorOnly
<1>4. CASE HandleClose \/ Crash \/ Finish
  BY <1>4, NoTypes DEF HandleClose, Crash, Finish, Leave, Halt, NoActive
<1>5. CASE BeginPrompt
  <2>1. UNCHANGED active \/ \E t \in Turns : active' = [NoActive EXCEPT !.turn = t]
    BY <1>5 DEF BeginPrompt
  <2>2. QED
    BY <2>1 DEF NoActive
<1>6. CASE HandleCalls \/ HandleResult \/ NextRound \/ StartTool
  <2>1. \/ UNCHANGED active
        \/ active' = [active EXCEPT !.rounds = @ + 1, !.batch = Head(mailbox).calls, !.index = 1,
                                    !.approved = FALSE, !.awaiting = FALSE]
        \/ active' = CompleteCurrent
        \/ active' = [active EXCEPT !.batch = <<>>, !.index = 1]
        \/ active' = [active EXCEPT !.awaiting = FALSE]
    BY <1>6 DEF HandleCalls, HandleResult, NextRound, StartTool
  <2>2. active \in ActiveType
    BY DEF Typed, MemoryTypeOK, ActiveType
  <2>3. QED
    BY <2>1, <2>2 DEF ActiveType, CompleteCurrent
<1>7. CASE HandleOutcome
  <2>1. \/ UNCHANGED active
        \/ \E x, y : active' = [active EXCEPT !.approval = NoApproval, !.approved = x, !.awaiting = y]
    BY <1>7 DEF HandleOutcome
  <2>2. QED
    BY <2>1 DEF Typed, MemoryTypeOK
<1>8. CASE AskApproval
  BY <1>8 DEF AskApproval, AskStep
<1>9. CASE Stop \/ Drain
  BY <1>9 DEF Stop, Drain, Typed, MemoryTypeOK
<1>10. QED
  BY <1>1, <1>2, <1>3, <1>4, <1>5, <1>6, <1>7, <1>8, <1>9 DEF ActorNext, Handlers

\* The approval a turn waits for is its own.
LEMMA OwnApprovalStep ==
  ASSUME Typed, Entries, Kept, HoldsApproval, OwnApproval PROVE OwnApproval'
<1>1. CASE SameApproval
  <2>1. CASE active.approval # NoApproval
    <3>1. active.turn # NoTurn
      BY <2>1, NoTypes DEF Typed, Shape, Idle, NoActive
    <3>2. request[active.approval] # NoRequest
      BY <2>1, <3>1 DEF OwnApproval, NoRequest
    <3>3. QED
      BY <1>1, <2>1, <3>2 DEF SameApproval, OwnApproval, Kept
  <2>2. QED
    BY <1>1, <2>1 DEF SameApproval, OwnApproval
<1>2. CASE active'.approval = NoApproval
  BY <1>2 DEF OwnApproval
<1>3. CASE \E a \in Approvals : AskStep(a)
  <2>1. PICK a \in Approvals : AskStep(a)
    BY <1>3
  <2>2. active'.approval = a /\ active'.turn = active.turn
    BY <2>1 DEF AskStep, Typed, MemoryTypeOK
  <2>3. request'[a] = [session |-> Self, turn |-> active.turn, key |-> KeyOf[Cursor.call]]
    BY <2>1 DEF AskStep, Register, Typed, ApprovalTypeOK
  <2>4. QED
    BY <2>2, <2>3 DEF OwnApproval
<1>4. QED
  BY <1>1, <1>2, <1>3 DEF HoldsApproval

-----------------------------------------------------------------------------
(* the invariant of the registers *)

Base == Typed /\ StoreInv /\ RegistersAgree /\ Known /\ Entries /\ Reports /\ OwnApproval

\* The first layers hold of the initial state.
LEMMA BaseInit == ActorInit => Base
<1> SUFFICES ASSUME ActorInit PROVE Base
  OBVIOUS
<1>1. Typed
  BY InitTyped
<1>2. StoreInv
  BY StoreInitially DEF ActorInit
<1>3. /\ pc = "stopped" /\ active = NoActive /\ workers = {} /\ tools = {} /\ executed = {} /\ lost = {}
      /\ mailbox = <<>> /\ status = [t \in Turns |-> "none"]
      /\ subject = [a \in Approvals |-> NoPosition]
      /\ ApprovalInit
  BY DEF ActorInit, StoreInit
<1>4. Idle /\ (\A t \in Turns : ~Mine(t)) /\ ~Ending
  BY <1>3, NoTypes, IdAssumption DEF Idle, Mine, Ending
<1>5. RegistersAgree
  BY <1>3, <1>4 DEF RegistersAgree, ActiveIsTheRunningTurn, Begun, RunningIn
<1>6. Known
  BY <1>3, <1>4 DEF Known, ApprovalInit
<1>7. Entries
  BY <1>3 DEF Entries, Entry, ApprovalInit, ManagerInit, Granted
<1>8. Reports /\ OwnApproval
  BY <1>3, NoTypes DEF Reports, OwnApproval
<1>9. QED
  BY <1>1, <1>2, <1>5, <1>6, <1>7, <1>8 DEF Base

\* Every step keeps the first layers, and is sorted by what it does.
LEMMA BaseStep ==
  ASSUME Base, [ActorNext]_vars
  PROVE  /\ Base'
         /\ TypedStep /\ TurnStep /\ Written /\ MailFrame /\ Kept /\ ApprovalStep /\ HoldsApproval
<1> USE DEF Base
<1>1. Registered
  BY EntriesRegistered
<1>2. TypedStep /\ Typed'
  BY <1>1, StepTyped
<1>3. TurnStep /\ Written /\ MailFrame /\ ApprovalStep /\ HoldsApproval
  BY <1>1, TurnSteps, StepWritten, MailStep, ApprovalSteps, ApprovalHeld
<1>4. StoreInv'
  BY <1>2, StoreInvStep DEF TypedStep
<1>5. AtMostOneRunning
  BY DEF StoreInv
<1>6. RegistersAgree'
  BY <1>2, <1>3, <1>5, RegisterStep
<1>7. Known'
  BY <1>1, <1>2, <1>3, KnownStep
<1>8. Entries' /\ Kept
  BY <1>2, <1>3, EntriesStep
<1>9. Reports'
  BY <1>2, <1>3, <1>8, ReportsStep
<1>10. OwnApproval'
  BY <1>3, <1>8, OwnApprovalStep
<1>11. QED
  BY <1>2, <1>3, <1>4, <1>6, <1>7, <1>8, <1>9, <1>10

\* The first layers are invariants.
LEMMA BaseInvariant == ActorSpec => []Base
<1>1. Base /\ [ActorNext]_vars => Base'
  BY BaseStep
<1>2. QED
  BY <1>1, BaseInit, PTL DEF ActorSpec

\* The actor is one of the callers the store was proved for: what the store
\* promises to any caller holds of every run of the actor.
THEOREM ActorUsesTheStore == ActorSpec => StoreSpec
<1>1. ActorInit => StoreInit
  BY DEF ActorInit
<1>2. Base /\ [ActorNext]_vars => [StoreNext]_storeVars
  BY BaseStep DEF TypedStep
<1>3. QED
  BY <1>1, <1>2, BaseInvariant, PTL DEF ActorSpec, StoreSpec

\* Memory and database never disagree on which turn is running.
THEOREM ActorStaysConsistent == ActorSpec => []ActorIsConsistent
<1>1. Base => ActorIsConsistent
  BY ActorTypes DEF Base, Typed, RegistersAgree, ActorIsConsistent
<1>2. QED
  BY <1>1, BaseInvariant, PTL

-----------------------------------------------------------------------------
(* what the running turn waits for *)

InTurn == ~Idle /\ ~active.cancelled /\ ~Ending

\* No task without its turn.
Tasked ==
  /\ NoTaskOutlivesItsTurn
  /\ tools # {} => HasCurrent /\ (InTurn \/ pc \in {"stop", "drain"})
  /\ active.approval # NoApproval => InTurn \/ pc \in {"stop", "drain"}
  /\ pc \in {"drain", "finish"} => pending = {} /\ (active.cancelled \/ job.kind = "completed")
  /\ active.cancelled => Ending \/ pc = "recv"

AnswerTypes == {"final", "failed", "cancelled", "exited", "calls"}
Answer(m) == m.type \in AnswerTypes /\ m.turn = active.turn
ToolAnswer(m) == m.type = "result" /\ m.turn = active.turn
Working == \E w \in workers : w[1] = active.turn

\* One token goes round: the turn waits for its provider, for the answer in
\* the mailbox, for its tool, for the result, or for one approval, or the
\* actor is at work on it.
Token ==
  InTurn =>
    /\ Working => pc = "recv" /\ active.batch = <<>> /\ \A w \in workers : w[1] = active.turn => w = WorkerHandle
    /\ \A i \in DOMAIN mailbox : Answer(mailbox[i]) =>
         /\ pc = "recv" /\ active.batch = <<>> /\ ~Working
         /\ \A j \in DOMAIN mailbox : Answer(mailbox[j]) => i = j
    /\ \A i \in DOMAIN mailbox : ToolAnswer(mailbox[i]) =>
         /\ pc = "recv" /\ HasCurrent /\ mailbox[i].call = Cursor.call /\ Cursor \in executed
         /\ tools = {} /\ \A j \in DOMAIN mailbox : ToolAnswer(mailbox[j]) => i = j
    /\ tools # {} => pc = "recv"
    /\ active.approval # NoApproval =>
         pc = "recv" /\ HasCurrent /\ subject[active.approval] = Cursor /\ Cursor \notin executed
    /\ pc \in {"advance", "spawn", "reject"} => active.batch # <<>> /\ (HasCurrent => Cursor \notin executed)

\* A grant is for the call at the cursor, and the cursor never goes back.
Authorised ==
  /\ active.approved => HasCurrent /\ \E a \in Approvals : subject[a] = Cursor /\ delivered[a] \in Granted
  /\ \A p \in executed : p.turn = active.turn =>
       /\ p.round <= active.rounds
       /\ active.batch # <<>> /\ p.round = active.rounds => p.index <= active.index

Work == Tasked /\ Token /\ Authorised

-----------------------------------------------------------------------------
(* steps of one kind *)

\* No turn is active.
LEMMA IdleWork ==
  ASSUME Base', active' = NoActive, tools' = {}, pending' = {},
         \A a \in Approvals : waiter'[a] # "waiting", ~Ending'
  PROVE  Work'
<1>1. /\ active'.turn = NoTurn /\ active'.approval = NoApproval /\ ~active'.cancelled /\ ~active'.approved
  BY DEF NoActive
<1>2. Tasked'
  BY <1>1 DEF Tasked, NoTaskOutlivesItsTurn, Ending
<1>3. Token'
  BY <1>1 DEF Token, InTurn, Idle
<1>4. Authorised'
  <2>1. \A p \in executed' : p.turn # NoTurn
    BY IdAssumption DEF Base, Typed, MemoryTypeOK, Positions
  <2>2. QED
    BY <1>1, <2>1 DEF Authorised
<1>5. QED
  BY <1>2, <1>3, <1>4 DEF Work

\* What an idle actor has.
LEMMA IdleHasNothing ==
  ASSUME Base, Work, Idle
  PROVE  active = NoActive /\ tools = {} /\ pending = {} /\ \A a \in Approvals : waiter[a] # "waiting"
<1>1. active = NoActive
  BY DEF Base, Typed, Shape
<1>2. active.approval = NoApproval /\ ~HasCurrent
  BY <1>1, EmptySeq DEF NoActive, HasCurrent
<1>3. pending \subseteq Approvals
  BY DEF Base, Typed, ApprovalTypeOK
<1>4. QED
  BY <1>1, <1>2, <1>3, IdAssumption DEF Work, Tasked, NoTaskOutlivesItsTurn

\* The cursor moves with the batch only.
SameCall ==
  /\ active'.turn = active.turn /\ active'.rounds = active.rounds
  /\ active'.batch = active.batch /\ active'.index = active.index

\* The same batch and position are the same call.
LEMMA CursorKept ==
  ASSUME SameCall
  PROVE  /\ (HasCurrent' <=> HasCurrent) /\ Cursor' = Cursor /\ WorkerHandle' = WorkerHandle
         /\ (Idle' <=> Idle)
  BY DEF SameCall, HasCurrent, Cursor, Position, WorkerHandle, Idle

\* Grants and positions do not change while the call is the same.
LEMMA AuthorisedKept ==
  ASSUME Base, Kept, ~Halt, Authorised, SameCall, active'.approved => active.approved, UNCHANGED executed
  PROVE  Authorised'
<1>1. (HasCurrent' <=> HasCurrent) /\ Cursor' = Cursor
  BY CursorKept
<1>2. ASSUME NEW a \in Approvals, subject[a] = Cursor, HasCurrent, delivered[a] \in Granted
      PROVE  subject'[a] = Cursor /\ delivered'[a] \in Granted
  <2>1. request[a] # NoRequest /\ delivered[a] # "-"
    BY <1>2 DEF Base, Entries, Entry, Granted
  <2>2. QED
    BY <1>2, <2>1 DEF Kept
<1>3. (active.approved => HasCurrent /\ \E a \in Approvals : subject[a] = Cursor /\ delivered[a] \in Granted)'
  BY <1>1, <1>2 DEF Authorised
<1>4. QED
  BY <1>3 DEF Authorised, SameCall

\* Ending begins: the tasks are still there.
LEMMA EndWork ==
  ASSUME Base, Work, Base', Kept, ~Halt, SameCall, active'.approved => active.approved,
         pc' = "stop", UNCHANGED <<tools, executed>>,
         \A a \in Approvals : waiter'[a] = "waiting" => a = active'.approval,
         pending' \subseteq {active'.approval}
  PROVE  Work'
<1>1. Authorised'
  BY AuthorisedKept DEF Work
<1>2. Token'
  BY DEF Token, InTurn, Ending
<1>3. Tasked'
  BY CursorKept DEF Work, Tasked, NoTaskOutlivesItsTurn, Ending
<1>4. QED
  BY <1>1, <1>2, <1>3 DEF Work

\* The inputs the active turn waits for move up by d places, and none comes.
Shifted(d) ==
  \A i \in DOMAIN mailbox' :
    /\ i \in Nat
    /\ Answer(mailbox'[i]) \/ ToolAnswer(mailbox'[i]) =>
         i + d \in DOMAIN mailbox /\ mailbox'[i] = mailbox[i + d]

\* A mailbox left alone keeps every message at its place.
LEMMA SameShift == ASSUME Typed, UNCHANGED mailbox PROVE Shifted(0)
<1>1. mailbox \in Seq(Inputs)
  BY DEF Typed, MemoryTypeOK
<1>2. DOMAIN mailbox = 1 .. Len(mailbox) /\ Len(mailbox) \in Nat
  BY <1>1, LenProperties
<1>3. QED
  BY <1>2 DEF Shifted

\* Taking a message moves the others up by one.
LEMMA TakenShift == ASSUME Typed, mailbox # <<>>, mailbox' = Tail(mailbox) PROVE Shifted(1)
<1>1. mailbox \in Seq(Inputs)
  BY DEF Typed, MemoryTypeOK
<1>2. QED
  BY <1>1, Taken DEF Shifted

\* A message that is no answer leaves the answers where they are.
LEMMA PostedShift ==
  ASSUME Typed, NEW m \in Inputs, Post(m), ~Answer(m), ~ToolAnswer(m) PROVE Shifted(0)
<1>1. mailbox \in Seq(Inputs) /\ mailbox' = Append(mailbox, m)
  BY DEF Typed, MemoryTypeOK, Post
<1>2. /\ Len(mailbox) \in Nat /\ DOMAIN mailbox = 1 .. Len(mailbox) /\ DOMAIN mailbox' = 1 .. Len(mailbox) + 1
      /\ \A i \in DOMAIN mailbox : mailbox'[i] = mailbox[i]
      /\ mailbox'[Len(mailbox) + 1] = m
  BY <1>1, Posted
<1>3. QED
  BY <1>2 DEF Shifted

\* Steps that change nothing the turn waits for.
LEMMA QuietWork ==
  ASSUME Base, Work, Base', Kept, ~Halt, UNCHANGED <<pc, job, active, tools, executed>>,
         workers' \subseteq workers, \A w \in workers : w[1] = active.turn => w \in workers',
         pending' \subseteq pending, \A a \in Approvals : waiter'[a] = "waiting" => waiter[a] = "waiting",
         NEW d \in {0, 1}, Shifted(d)
  PROVE  Work'
<1>1. SameCall
  BY DEF SameCall
<1>2. (HasCurrent' <=> HasCurrent) /\ Cursor' = Cursor /\ WorkerHandle' = WorkerHandle
  BY <1>1, CursorKept
<1>3. Authorised'
  BY <1>1, AuthorisedKept DEF Work
<1>4. Tasked'
  BY <1>2 DEF Work, Tasked, NoTaskOutlivesItsTurn, Ending, InTurn, Idle
<1>5. ASSUME InTurn' PROVE InTurn /\ active.turn # NoTurn
  BY <1>5 DEF InTurn, Ending, Idle
<1>6. (Working' <=> Working)
  BY DEF Working
<1>7. ASSUME InTurn', NEW i \in DOMAIN mailbox', Answer(mailbox'[i])
      PROVE  /\ pc = "recv" /\ active.batch = <<>> /\ ~Working
             /\ \A j \in DOMAIN mailbox' : Answer(mailbox'[j]) => i = j
  BY <1>5, <1>7 DEF Work, Token, Shifted
<1>8. ASSUME InTurn', NEW i \in DOMAIN mailbox', ToolAnswer(mailbox'[i])
      PROVE  /\ pc = "recv" /\ HasCurrent /\ mailbox'[i].call = Cursor.call /\ Cursor \in executed
             /\ tools = {} /\ \A j \in DOMAIN mailbox' : ToolAnswer(mailbox'[j]) => i = j
  BY <1>5, <1>8 DEF Work, Token, Shifted
<1>9. ASSUME InTurn', active.approval # NoApproval
      PROVE  /\ pc = "recv" /\ HasCurrent /\ subject'[active.approval] = Cursor /\ Cursor \notin executed
  <2>1. /\ pc = "recv" /\ HasCurrent /\ subject[active.approval] = Cursor /\ Cursor \notin executed
    BY <1>5, <1>9 DEF Work, Token
  <2>2. active.approval \in Approvals /\ request[active.approval] # NoRequest
    BY <1>5, <1>9 DEF Base, OwnApproval, NoRequest
  <2>3. QED
    BY <2>1, <2>2 DEF Kept
<1>10. Token'
  <2>1. ASSUME InTurn'
        PROVE  /\ Working => pc = "recv" /\ active.batch = <<>> /\ \A w \in workers : w[1] = active.turn => w = WorkerHandle
               /\ tools # {} => pc = "recv"
               /\ pc \in {"advance", "spawn", "reject"} =>
                    active.batch # <<>> /\ (HasCurrent => Cursor \notin executed)
    BY <1>5, <2>1 DEF Work, Token
  <2>2. QED
    BY <1>2, <1>6, <1>7, <1>8, <1>9, <2>1 DEF Token, Answer, ToolAnswer
<1>11. QED
  BY <1>3, <1>4, <1>10 DEF Work

\* Resolving an approval opens none.
LEMMA ResolveShrinks ==
  ASSUME NEW t, NEW a, NEW d, Resolve(Self, t, a, d)
  PROVE  pending' \subseteq pending /\ UNCHANGED waiter
  BY DEF Resolve, ResolveAccepted, ResolveExpired, ResolveRefused, Settle, approvalVars, managerVars

\* An input taken without effect on the turn.
LEMMA QuietInput ==
  ASSUME Base, Work, Base', Kept, NEW type, Receive(type), UNCHANGED <<pc, job, active, taskVars, executed>>,
         pending' \subseteq pending, UNCHANGED waiter
  PROVE  Work'
<1>1. Shifted(1)
  BY TakenShift DEF Receive, Base
<1>2. ~Halt
  BY DEF Halt, Receive
<1>3. UNCHANGED <<tools, workers>>
  BY DEF taskVars
<1>4. QED
  BY <1>1, <1>2, <1>3, QuietWork

\* A message that is no answer leaves the token where it is.
LEMMA QuietPost ==
  ASSUME Base, Work, Base', Kept, NEW m \in Inputs, Post(m), ~Answer(m), ~ToolAnswer(m),
         UNCHANGED <<pc, job, active, tools, executed>>,
         workers' \subseteq workers, \A w \in workers : w[1] = active.turn => w \in workers',
         pending' \subseteq pending, \A a \in Approvals : waiter'[a] = "waiting" => waiter[a] = "waiting"
  PROVE  Work'
<1>1. Shifted(0)
  BY PostedShift DEF Base
<1>2. ~Halt
  BY DEF Halt, Post, Room
<1>3. QED
  BY <1>1, <1>2, QuietWork

\* Work does not depend on anything else.
LEMMA StutterWork == ASSUME Work, UNCHANGED vars PROVE Work'
<1>1. UNCHANGED <<pc, job, active, mailbox, workers, tools, executed, subject, waiter, pending, delivered>>
  BY DEF vars, memoryVars, taskVars, historyVars, approvalVars, managerVars
<1>2. Tasked'
  BY <1>1 DEF Work, Tasked, NoTaskOutlivesItsTurn, Ending, InTurn, Idle, HasCurrent, Cursor, Position
<1>3. Token'
  BY <1>1 DEF Work, Token, InTurn, Idle, Ending, Working, WorkerHandle, Answer, ToolAnswer, HasCurrent, Cursor, Position
<1>4. Authorised'
  BY <1>1 DEF Work, Authorised, HasCurrent, Cursor, Position
<1>5. QED
  BY <1>2, <1>3, <1>4 DEF Work

\* A command is no answer.
LEMMA CommandWork == ASSUME Base, Work, Base', Kept, Commands PROVE Work'
<1>1. PICK m : Command(m) /\ m \in Inputs /\ m.type \in {"submit", "interrupt", "close", "resume", "resolve"}
  <2>1. CASE SendSubmit \/ SendInterrupt \/ SendClose
    BY <2>1 DEF SendSubmit, SendInterrupt, SendClose, Inputs
  <2>2. CASE SendResume
    BY <2>2 DEF SendResume, Inputs
  <2>3. CASE SendResolve
    BY <2>3 DEF SendResolve, Inputs
  <2>4. QED
    BY <2>1, <2>2, <2>3 DEF Commands
<1>2. ~Answer(m) /\ ~ToolAnswer(m)
  BY <1>1 DEF Answer, AnswerTypes, ToolAnswer
<1>3. /\ Post(m) /\ UNCHANGED <<pc, job, active, tools, workers, executed>>
      /\ UNCHANGED <<pending, waiter>>
  BY <1>1 DEF Command, memoryVars, taskVars, historyVars, approvalVars, managerVars
<1>4. QED
  BY <1>1, <1>2, <1>3, QuietPost

\* The steps of an actor without a turn, and the end of the actor.
LEMMA IdleStepsWork ==
  ASSUME Base, Work, Base', Kept,
         \/ StartActor \/ RecoverTool \/ RecoverEnd \/ Crash
         \/ (HandleSubmit /\ Idle) \/ (HandleClose /\ Idle)
         \/ BeginPrompt /\ UNCHANGED active
         \/ Finish /\ active' = NoActive
  PROVE  Work'
<1>1. CASE Halt
  BY <1>1, IdleWork DEF Halt, Ending
<1>2. CASE Idle /\ UNCHANGED <<active, tools, pending, waiter>> /\ ~Ending'
  BY <1>2, IdleHasNothing, IdleWork
<1>3. CASE StartActor \/ RecoverTool \/ RecoverEnd
  <2>1. Idle
    BY <1>3 DEF StartActor, RecoverTool, RecoverEnd, Base, Typed, Shape
  <2>2. UNCHANGED <<active, tools, pending, waiter>>
    BY <1>3 DEF StartActor, RecoverTool, RecoverEnd, taskVars, approvalVars, managerVars
  <2>3. ~Ending'
    BY <1>3 DEF StartActor, RecoverTool, RecoverEnd, GiveUp, LeaveRecovery, Ending
  <2>4. QED
    BY <1>2, <2>1, <2>2, <2>3
<1>4. CASE Crash \/ (HandleClose /\ Idle)
  BY <1>1, <1>4 DEF Crash, HandleClose
<1>5. CASE HandleSubmit /\ Idle
  <2>1. UNCHANGED <<active, tools, pending, waiter>>
    BY <1>5 DEF HandleSubmit, memoryVars, taskVars, approvalVars, managerVars
  <2>2. ~Ending'
    BY <1>5 DEF HandleSubmit, Receive, Ending
  <2>3. QED
    BY <1>2, <1>5, <2>1, <2>2
<1>6. CASE BeginPrompt /\ UNCHANGED active
  <2>1. UNCHANGED <<tools, pending, waiter>> /\ Idle
    BY <1>6 DEF BeginPrompt, Base, Typed, Shape, approvalVars, managerVars
  <2>2. ~Ending'
    BY <1>6 DEF BeginPrompt, Ending
  <2>3. QED
    BY <1>2, <1>6, <2>1, <2>2
<1>7. CASE Finish /\ active' = NoActive
  <2>1. CASE Halt
    BY <1>1, <2>1
  <2>2. CASE ~Halt
    <3>1. UNCHANGED <<approvalVars, taskVars>> /\ pc' = "recv" /\ pc = "finish"
      BY <1>7, <2>2 DEF Finish, Leave
    <3>2. tools = {} /\ pending = {} /\ active.approval = NoApproval
      BY <3>1 DEF Work, Tasked, InTurn, Ending
    <3>3. \A a \in Approvals : waiter[a] # "waiting"
      BY <3>2, IdAssumption DEF Work, Tasked, NoTaskOutlivesItsTurn
    <3>4. QED
      BY <1>7, <3>1, <3>2, <3>3, IdleWork DEF Ending, taskVars, approvalVars, managerVars
  <2>3. QED
    BY <2>1, <2>2
<1>8. QED
  BY <1>3, <1>4, <1>5, <1>6, <1>7

\* Inputs that do not concern the turn.
LEMMA QuietInputsWork ==
  ASSUME Base, Work, Base', Kept, UNCHANGED <<pc, job, active>>,
         \/ HandleSubmit \/ HandleInterrupt \/ HandleResume \/ HandleResolve \/ HandleDelta
         \/ HandleFinal \/ HandleWorkerEnd \/ HandleCalls \/ HandleResult
         \/ HandleOutcome /\ UNCHANGED approvalVars
  PROVE  Work'
<1>1. \E type : Receive(type)
  BY DEF HandleSubmit, HandleInterrupt, HandleResume, HandleResolve, HandleDelta,
         HandleFinal, HandleWorkerEnd, HandleCalls, HandleResult, HandleOutcome
<1>2. UNCHANGED <<taskVars, executed>>
  BY DEF HandleSubmit, HandleInterrupt, HandleResume, HandleResolve, HandleDelta,
         HandleFinal, HandleWorkerEnd, HandleCalls, HandleResult, HandleOutcome, historyVars
<1>3. pending' \subseteq pending /\ UNCHANGED waiter
  <2>1. UNCHANGED approvalVars \/ HandleResolve
    BY DEF HandleSubmit, HandleInterrupt, HandleResume, HandleDelta,
           HandleFinal, HandleWorkerEnd, HandleCalls, HandleResult, approvalVars, managerVars
  <2>2. UNCHANGED approvalVars \/ \E t, a, d : Resolve(Self, t, a, d)
    BY <2>1 DEF HandleResolve
  <2>3. QED
    BY <2>2, ResolveShrinks DEF approvalVars, managerVars
<1>4. QED
  BY <1>1, <1>2, <1>3, QuietInput

\* Handlers that end the active turn.
LEMMA EndStepsWork ==
  ASSUME Base, Work, Base', Kept, NEW kind, NEW exit, End(kind, exit), UNCHANGED <<active, tools, executed>>,
         UNCHANGED <<pending, waiter>>
  PROVE  Work'
<1>1. SameCall /\ pc' = "stop" /\ ~Halt
  BY DEF SameCall, End, Halt
<1>2. /\ \A a \in Approvals : waiter'[a] = "waiting" => a = active'.approval
      /\ pending' \subseteq {active'.approval}
  BY DEF Work, Tasked, NoTaskOutlivesItsTurn
<1>3. QED
  BY <1>1, <1>2, EndWork

\* A handler that ends the turn passes the token to the ending.
LEMMA EndHandlersWork ==
  ASSUME Base, Work, Base', Kept, \E kind, exit : End(kind, exit), UNCHANGED active,
         \/ HandleInterrupt \/ (HandleClose /\ ~Idle) \/ HandleFinal \/ HandleWorkerEnd
         \/ HandleCalls \/ HandleResult \/ RejectTool
  PROVE  Work'
<1>1. UNCHANGED <<approvalVars, tools, executed>>
  BY DEF HandleInterrupt, HandleClose, HandleFinal, HandleWorkerEnd, HandleCalls, HandleResult, RejectTool,
         taskVars, historyVars
<1>2. QED
  BY <1>1, EndStepsWork DEF approvalVars, managerVars

\* A turn begins: nothing is left of it from before, as it was not begun.
LEMMA BeginWork == ASSUME Base, Work, Base', Kept, BeginPrompt PROVE Work'
<1>0. CASE UNCHANGED active
  BY <1>0, IdleStepsWork
<1>1. CASE ~UNCHANGED active
  <2>1. PICK t \in Turns :
          /\ BeginTurn(Self, t)
          /\ active' = [NoActive EXCEPT !.turn = t]
          /\ workers' = workers \union (IF ProviderConfigured THEN {<<t, 0>>} ELSE {})
    BY <1>1 DEF BeginPrompt
  <2>2. /\ active'.turn = t /\ active'.batch = <<>> /\ active'.rounds = 0 /\ active'.approval = NoApproval
        /\ ~active'.cancelled /\ ~active'.approved
    BY <2>1 DEF NoActive
  <2>3. UNCHANGED <<pending, waiter, tools, executed, mailbox>> /\ pc' = "recv" /\ Idle
    BY DEF BeginPrompt, Base, Typed, Shape, approvalVars, managerVars
  <2>4. tools = {} /\ pending = {} /\ \A a \in Approvals : waiter[a] # "waiting"
    BY <2>3, IdleHasNothing
  <2>5. ~Begun(t)
    BY <2>1 DEF BeginTurn, CanBegin, Begun
  <2>6. Tasked'
    BY <2>2, <2>3, <2>4 DEF Tasked, NoTaskOutlivesItsTurn, Ending
  <2>7. Authorised'
    BY <2>2, <2>3, <2>5 DEF Authorised, Base, Known
  <2>8. Token'
    <3>1. \A i \in DOMAIN mailbox : ~(mailbox[i].type \in TurnInputs /\ mailbox[i].turn = t)
      BY <2>5 DEF Base, Known
    <3>2. \A i \in DOMAIN mailbox' : ~Answer(mailbox[i])' /\ ~ToolAnswer(mailbox[i])'
      BY <2>2, <2>3, <3>1 DEF Answer, ToolAnswer, AnswerTypes, TurnInputs, WorkerInputs
    <3>3. \A w \in workers' : w[1] = t => w = <<t, 0>>
      BY <2>1, <2>5 DEF Base, Known
    <3>4. WorkerHandle' = <<t, 0>>
      BY <2>2 DEF WorkerHandle
    <3>5. QED
      BY <2>2, <2>3, <2>4, <3>2, <3>3, <3>4 DEF Token, Working
  <2>9. QED
    BY <2>6, <2>7, <2>8 DEF Work
<1>2. QED
  BY <1>0, <1>1

\* The tool calls of an answer are committed.
LEMMA CallsWork == ASSUME Base, Work, Base', Kept, HandleCalls PROVE Work'
<1> DEFINE t == Head(mailbox).turn
           cs == Head(mailbox).calls
<1>0. Receive("calls") /\ t \in Turns /\ mailbox[1] = Head(mailbox) /\ mailbox \in Seq(Inputs)
      /\ Head(mailbox).type = "calls"
  BY ReceivedTyped, InputFields, Taken DEF HandleCalls, Base, Typed, MemoryTypeOK, Receive
<1>1. CASE UNCHANGED <<pc, job, active>>
  BY <1>1, QuietInputsWork
<1>2. CASE UNCHANGED active /\ \E kind, exit : End(kind, exit)
  BY <1>2, EndHandlersWork
<1>3. CASE /\ Live(t)
           /\ active' = [active EXCEPT !.rounds = @ + 1, !.batch = cs, !.index = 1,
                                       !.approved = FALSE, !.awaiting = FALSE]
           /\ pc' = "advance" /\ cs # <<>>
  <2>1. /\ DOMAIN mailbox = 1 .. Len(mailbox) /\ DOMAIN mailbox' = 1 .. Len(mailbox) - 1
        /\ Len(mailbox) \in Nat \ {0}
        /\ \A i \in DOMAIN mailbox' : i + 1 \in DOMAIN mailbox /\ mailbox'[i] = mailbox[i + 1]
    BY <1>0, Taken DEF Receive
  <2>2. InTurn /\ Answer(mailbox[1]) /\ 1 \in DOMAIN mailbox /\ pc = "recv" /\ active.turn = t
    BY <1>0, <1>3, <2>1, IdAssumption DEF InTurn, Live, Mine, Idle, Answer, AnswerTypes, Receive, Ending
  <2>3. active.batch = <<>> /\ ~Working /\ \A j \in DOMAIN mailbox : Answer(mailbox[j]) => j = 1
    BY <2>2 DEF Work, Token
  <2>4. ~HasCurrent
    BY <2>3 DEF HasCurrent
  <2>5. tools = {} /\ active.approval = NoApproval /\ \A i \in DOMAIN mailbox : ~ToolAnswer(mailbox[i])
    BY <2>2, <2>4 DEF Work, Token, Tasked
  <2>6. UNCHANGED <<tools, workers, executed, pending, waiter>>
    BY DEF HandleCalls, taskVars, approvalVars, managerVars
  <2> HIDE DEF t, cs
  <2>7. active \in ActiveType
    BY DEF Base, Typed, MemoryTypeOK, ActiveType
  <2>8. /\ active'.turn = active.turn /\ active'.batch = cs /\ active'.rounds = active.rounds + 1 /\ active'.index = 1
        /\ active'.approval = NoApproval /\ ~active'.cancelled /\ ~active'.approved
    BY <1>3, <2>2, <2>5, <2>7 DEF ActiveType, InTurn
  <2>9. \A i \in DOMAIN mailbox' : ~Answer(mailbox'[i]) /\ ~ToolAnswer(mailbox'[i])
    BY <2>1, <2>3, <2>5
  <2>10. \A p \in executed : p.turn = active.turn => p.round <= active.rounds /\ p.round \in Nat
    BY SMTT(30) DEF Work, Authorised, Base, Typed, MemoryTypeOK, Positions
  <2>11. active.rounds \in Nat
    BY <2>7 DEF ActiveType
  <2>12. Tasked'
    BY <1>3, <2>5, <2>6, <2>8 DEF Work, Tasked, NoTaskOutlivesItsTurn, Ending
  <2>13. Authorised'
    BY <2>6, <2>8, <2>10, <2>11 DEF Authorised
  <2>14. Token'
    <3>1. ~Working'
      BY <2>3, <2>6, <2>8 DEF Working
    <3>2. HasCurrent' => Cursor' \notin executed
      BY <2>8, <2>10, <2>11 DEF Cursor, Position
    <3>3. QED
      BY <1>3, <2>5, <2>6, <2>8, <2>9, <3>1, <3>2 DEF Token, Answer, ToolAnswer
  <2>15. QED
    BY <2>12, <2>13, <2>14 DEF Work
<1>4. QED
  BY <1>1, <1>2, <1>3 DEF HandleCalls

\* The result of the running tool is committed.
LEMMA ResultWork == ASSUME Base, Work, Base', Kept, HandleResult PROVE Work'
<1> DEFINE t == Head(mailbox).turn
<1>0. /\ Receive("result") /\ t \in Turns /\ mailbox[1] = Head(mailbox) /\ mailbox \in Seq(Inputs)
      /\ Head(mailbox).type = "result"
  BY ReceivedTyped, InputFields, Taken DEF HandleResult, Base, Typed, MemoryTypeOK, Receive
<1>1. CASE UNCHANGED <<pc, job, active>>
  BY <1>1, QuietInputsWork
<1>2. CASE UNCHANGED active /\ \E kind, exit : End(kind, exit)
  BY <1>2, EndHandlersWork
<1>3. CASE Live(t) /\ active' = CompleteCurrent /\ pc' = "advance"
  <2>1. /\ DOMAIN mailbox = 1 .. Len(mailbox) /\ DOMAIN mailbox' = 1 .. Len(mailbox) - 1
        /\ Len(mailbox) \in Nat \ {0}
        /\ \A i \in DOMAIN mailbox' : i + 1 \in DOMAIN mailbox /\ mailbox'[i] = mailbox[i + 1]
    BY <1>0, Taken DEF Receive
  <2>2. InTurn /\ ToolAnswer(mailbox[1]) /\ 1 \in DOMAIN mailbox /\ pc = "recv" /\ active.turn = t
    BY <1>0, <1>3, <2>1, IdAssumption DEF InTurn, Live, Mine, Idle, ToolAnswer, Receive, Ending
  <2>3. /\ HasCurrent /\ Cursor \in executed /\ tools = {}
        /\ \A j \in DOMAIN mailbox : ToolAnswer(mailbox[j]) => j = 1
    BY <2>2 DEF Work, Token
  <2>4. active.batch # <<>>
    BY <2>3, EmptySeq DEF HasCurrent
  <2>5. ~Working /\ active.approval = NoApproval /\ \A i \in DOMAIN mailbox : ~Answer(mailbox[i])
    BY <2>2, <2>3, <2>4 DEF Work, Token
  <2>6. UNCHANGED <<tools, workers, executed, pending, waiter>>
    BY DEF HandleResult, taskVars, approvalVars, managerVars
  <2> HIDE DEF t
  <2>7. active \in ActiveType
    BY DEF Base, Typed, MemoryTypeOK, ActiveType
  <2>8. /\ active'.turn = active.turn /\ active'.batch = active.batch /\ active'.rounds = active.rounds
        /\ active'.index = active.index + 1
        /\ active'.approval = NoApproval /\ ~active'.cancelled /\ ~active'.approved
    BY <1>3, <2>2, <2>5, <2>7 DEF ActiveType, InTurn, CompleteCurrent
  <2>9. \A i \in DOMAIN mailbox' : ~Answer(mailbox'[i]) /\ ~ToolAnswer(mailbox'[i])
    BY <2>1, <2>3, <2>5
  <2>10. \A p \in executed : p.index \in Nat /\ (p.turn = active.turn =>
            p.round <= active.rounds /\ (p.round = active.rounds => p.index <= active.index))
    BY <2>4 DEF Work, Authorised, Base, Typed, MemoryTypeOK, Positions
  <2>11. active.index \in Nat
    BY <2>7 DEF ActiveType
  <2>12. Tasked'
    BY <1>3, <2>3, <2>5, <2>6, <2>8 DEF Work, Tasked, NoTaskOutlivesItsTurn, Ending
  <2>13. Authorised'
    BY <2>6, <2>8, <2>10, <2>11 DEF Authorised
  <2>14. Token'
    <3>1. ~Working'
      BY <2>5, <2>6, <2>8 DEF Working
    <3>2. HasCurrent' => Cursor' \notin executed
      BY <2>8, <2>10, <2>11 DEF Cursor, Position
    <3>3. QED
      BY <1>3, <2>3, <2>4, <2>6, <2>8, <2>9, <3>1, <3>2 DEF Token, Answer, ToolAnswer
  <2>15. QED
    BY <2>12, <2>13, <2>14 DEF Work
<1>4. QED
  BY <1>1, <1>2, <1>3 DEF HandleResult

\* The waiter of the turn's approval has come back.
LEMMA OutcomeWork == ASSUME Base, Work, Base', Kept, HandleOutcome PROVE Work'
<1> DEFINE t == Head(mailbox).turn
           a == Head(mailbox).approval
           o == Head(mailbox).outcome
<1>0. /\ Receive("outcome") /\ t \in Turns /\ a \in Approvals /\ o \in Outcomes
      /\ mailbox[1] = Head(mailbox) /\ mailbox \in Seq(Inputs) /\ Head(mailbox).type = "outcome"
  BY ReceivedTyped, InputFields, Taken DEF HandleOutcome, Base, Typed, MemoryTypeOK, Receive
<1>1. CASE UNCHANGED <<approvalVars, pc, job, active>>
  BY <1>1, QuietInputsWork
<1>2. CASE /\ Mine(t) /\ active.approval = a
           /\ IF o \in {"timed_out", "cancelled"} THEN Expire(a) ELSE UNCHANGED approvalVars
           /\ active' = [active EXCEPT !.approval = NoApproval,
                                       !.approved = @ \/ o \in Granted,
                                       !.awaiting = o \notin Granted]
           /\ pc' \in {"recv", "advance", "reject"}
  <2>1. /\ DOMAIN mailbox = 1 .. Len(mailbox) /\ DOMAIN mailbox' = 1 .. Len(mailbox) - 1
        /\ Len(mailbox) \in Nat \ {0}
        /\ \A i \in DOMAIN mailbox' : i + 1 \in DOMAIN mailbox /\ mailbox'[i] = mailbox[i + 1]
    BY <1>0, Taken DEF Receive
  <2>2. Reported(mailbox[1])
    BY <2>1 DEF Base, Reports
  <2>3. waiter[a] # "waiting" /\ (o \in Granted \union {"denied"} => delivered[a] = o) /\ request[a] # NoRequest
    BY <1>0, <2>2 DEF Reported
  <2> HIDE DEF t, a, o
  <2>4. pc = "recv" /\ InTurn
    BY <1>0, <1>2, IdAssumption DEF Receive, Work, Tasked
  <2>5. HasCurrent /\ subject[a] = Cursor /\ Cursor \notin executed
    BY <1>0, <1>2, <2>4, IdAssumption DEF Work, Token
  <2>6. active.batch # <<>>
    BY <2>5, EmptySeq DEF HasCurrent
  <2>7. tools = {}
    BY <2>5 DEF Work, Tasked, NoTaskOutlivesItsTurn, Base, Known
  <2>8. ~Working /\ \A i \in DOMAIN mailbox : ~Answer(mailbox[i]) /\ ~ToolAnswer(mailbox[i])
    BY <2>4, <2>5, <2>6 DEF Work, Token
  <2>9. UNCHANGED <<tools, workers, executed, waiter>>
    BY <1>2 DEF HandleOutcome, taskVars, approvalVars, managerVars, Expire
  <2>10. active \in ActiveType
    BY DEF Base, Typed, MemoryTypeOK, ActiveType
  <2>11. SameCall /\ active'.approval = NoApproval /\ (active'.cancelled <=> active.cancelled)
         /\ (active'.approved <=> (active.approved \/ o \in Granted))
    <3>1. (active.approved \/ o \in Granted) \in BOOLEAN
      OBVIOUS
    <3>2. QED
      BY <1>2, <2>10, <3>1 DEF ActiveType, SameCall
  <2>12. (HasCurrent' <=> HasCurrent) /\ Cursor' = Cursor
    BY <2>11, CursorKept
  <2>13. pending' = {}
    <3>1. pending \subseteq {a}
      BY <1>2 DEF Work, Tasked, NoTaskOutlivesItsTurn
    <3>2. CASE o \in {"timed_out", "cancelled"}
      BY <1>2, <3>1, <3>2 DEF Expire, Settle
    <3>3. CASE o \notin {"timed_out", "cancelled"}
      <4>1. delivered[a] # "-"
        BY <1>0, <2>3, <3>3 DEF Outcomes, Granted
      <4>2. a \notin pending
        BY <1>0, <4>1 DEF Base, Entries, Entry
      <4>3. QED
        BY <1>2, <3>1, <3>3, <4>2 DEF approvalVars, managerVars
    <3>4. QED
      BY <3>2, <3>3
  <2>14. Tasked'
    <3>1. \A b \in Approvals : waiter[b] # "waiting"
      BY <1>2, <2>3 DEF Work, Tasked, NoTaskOutlivesItsTurn
    <3>2. QED
      BY <1>2, <2>4, <2>7, <2>9, <2>11, <2>13, <3>1 DEF Tasked, NoTaskOutlivesItsTurn, Ending, InTurn
  <2>15. Authorised'
    <3>1. subject'[a] = Cursor /\ (o \in Granted => delivered'[a] \in Granted)
      <4>1. ~Halt
        BY <1>2 DEF Halt
      <4>2. QED
        BY <1>0, <2>3, <2>5, <4>1 DEF Kept, Granted
    <3>2. CASE o \in Granted
      BY <1>0, <2>5, <2>9, <2>11, <2>12, <3>1, <3>2 DEF Work, Authorised, SameCall
    <3>3. CASE o \notin Granted
      <4>1. ~Halt
        BY <1>2 DEF Halt
      <4>2. QED
        BY <2>9, <2>11, <3>3, <4>1, AuthorisedKept DEF Work
    <3>4. QED
      BY <3>2, <3>3
  <2>16. Token'
    <3>1. ~Working'
      BY <2>8, <2>9, <2>11 DEF Working, SameCall
    <3>2. \A i \in DOMAIN mailbox' : ~Answer(mailbox'[i]) /\ ~ToolAnswer(mailbox'[i])
      BY <2>1, <2>8
    <3>3. QED
      BY <1>2, <2>5, <2>6, <2>7, <2>9, <2>11, <2>12, <3>1, <3>2 DEF Token, Answer, ToolAnswer, SameCall
  <2>17. QED
    BY <2>14, <2>15, <2>16 DEF Work
<1>3. QED
  <2>1. CASE ~(Mine(t) /\ active.approval = a)
    BY <1>1, <2>1 DEF HandleOutcome
  <2>2. CASE Mine(t) /\ active.approval = a
    <3>1. pc' \in {"recv", "advance", "reject"}
      BY <1>0, <2>2 DEF HandleOutcome, Receive
    <3>2. QED
      BY <1>2, <2>2, <3>1 DEF HandleOutcome
  <2>3. QED
    BY <2>1, <2>2

\* What holds while the actor advances the batch.
LEMMA Advancing ==
  ASSUME Base, Work, (pc = "advance" /\ Live(active.turn)) \/ pc = "spawn"
  PROVE  /\ InTurn /\ active.batch # <<>> /\ (HasCurrent => Cursor \notin executed)
         /\ tools = {} /\ active.approval = NoApproval /\ ~Working
         /\ \A i \in DOMAIN mailbox : ~Answer(mailbox[i]) /\ ~ToolAnswer(mailbox[i])
         /\ pending = {} /\ \A a \in Approvals : waiter[a] # "waiting"
<1>1. InTurn
  BY DEF InTurn, Live, Ending, Base, Typed, Shape, Work, Tasked
<1>2. /\ active.batch # <<>> /\ (HasCurrent => Cursor \notin executed)
      /\ tools = {} /\ active.approval = NoApproval /\ ~Working
      /\ \A i \in DOMAIN mailbox : ~Answer(mailbox[i]) /\ ~ToolAnswer(mailbox[i])
  BY <1>1 DEF Work, Token
<1>3. pending \subseteq Approvals
  BY DEF Base, Typed, ApprovalTypeOK
<1>4. pending = {} /\ \A a \in Approvals : waiter[a] # "waiting"
  BY <1>2, <1>3, IdAssumption DEF Work, Tasked, NoTaskOutlivesItsTurn
<1>5. QED
  BY <1>1, <1>2, <1>4

\* The next round gives the token to a new worker.
LEMMA NextRoundWork == ASSUME Base, Work, Base', Kept, NextRound PROVE Work'
<1>1. /\ pc = "advance" /\ Live(active.turn) /\ ~HasCurrent
      /\ active' = [active EXCEPT !.batch = <<>>, !.index = 1]
      /\ UNCHANGED <<tools, executed, pending, waiter, mailbox>>
      /\ \/ pc' = "recv" /\ workers' = workers \union {WorkerHandle}
         \/ pc' = "stop"
  BY DEF NextRound, BatchDone, End, approvalVars, managerVars, historyVars
<1>2. active \in ActiveType
  BY DEF Base, Typed, MemoryTypeOK, ActiveType
<1>3. /\ active'.turn = active.turn /\ active'.batch = <<>> /\ active'.rounds = active.rounds
      /\ active'.approval = active.approval
      /\ (active'.cancelled <=> active.cancelled) /\ (active'.approved <=> active.approved)
  BY <1>1, <1>2 DEF ActiveType
<1>4. /\ InTurn /\ tools = {} /\ active.approval = NoApproval /\ ~Working
      /\ \A i \in DOMAIN mailbox : ~Answer(mailbox[i]) /\ ~ToolAnswer(mailbox[i])
      /\ pending = {} /\ \A a \in Approvals : waiter[a] # "waiting"
  BY <1>1, Advancing
<1>5. ~active.approved
  BY <1>1 DEF Work, Authorised
<1>6. Tasked'
  BY <1>1, <1>3, <1>4 DEF Tasked, NoTaskOutlivesItsTurn, Ending, InTurn
<1>7. Authorised'
  BY <1>1, <1>3, <1>5 DEF Work, Authorised
<1>8. Token'
  <2>1. CASE pc' = "stop"
    BY <2>1 DEF Token, InTurn, Ending
  <2>2. CASE pc' = "recv" /\ workers' = workers \union {WorkerHandle}
    <3>1. WorkerHandle' = WorkerHandle
      BY <1>3 DEF WorkerHandle
    <3>2. \A w \in workers' : w[1] = active'.turn => w = WorkerHandle
      BY <1>3, <1>4, <2>2 DEF Working
    <3>3. QED
      BY <1>1, <1>3, <1>4, <2>2, <3>1, <3>2 DEF Token, Answer, ToolAnswer
  <2>3. QED
    BY <1>1, <2>1, <2>2
<1>9. QED
  BY <1>6, <1>7, <1>8 DEF Work

\* A start that is recorded leaves the token with the actor.
LEMMA StartToolWork == ASSUME Base, Work, Base', Kept, StartTool PROVE Work'
<1>1. /\ pc = "advance" /\ Live(active.turn) /\ HasCurrent
      /\ active' = [active EXCEPT !.awaiting = FALSE]
      /\ UNCHANGED <<workers, pending, waiter, mailbox, tools, executed>>
      /\ pc' = "stop" \/ pc' = "spawn"
  BY DEF StartTool, End, taskVars, historyVars, approvalVars, managerVars
<1>2. /\ SameCall /\ active'.approval = active.approval
      /\ (active'.cancelled <=> active.cancelled) /\ (active'.approved <=> active.approved)
  BY <1>1 DEF Base, Typed, MemoryTypeOK, SameCall
<1>3. /\ InTurn /\ tools = {} /\ active.approval = NoApproval /\ ~Working
      /\ active.batch # <<>> /\ Cursor \notin executed
      /\ \A i \in DOMAIN mailbox : ~Answer(mailbox[i]) /\ ~ToolAnswer(mailbox[i])
      /\ pending = {} /\ \A a \in Approvals : waiter[a] # "waiting"
  BY <1>1, Advancing
<1>4. ~Halt
  BY <1>1 DEF Halt
<1>5. CASE pc' = "stop"
  BY <1>1, <1>2, <1>3, <1>4, <1>5, EndWork
<1>6. CASE pc' = "spawn"
  <2>1. (HasCurrent' <=> HasCurrent) /\ Cursor' = Cursor
    BY <1>2, CursorKept
  <2>2. Tasked'
    BY <1>1, <1>2, <1>3, <1>6, <2>1 DEF Tasked, NoTaskOutlivesItsTurn, Ending, InTurn, Idle, SameCall
  <2>3. Token'
    <3>1. ~Working'
      BY <1>1, <1>2, <1>3 DEF Working, SameCall
    <3>2. \A i \in DOMAIN mailbox' : ~Answer(mailbox[i])' /\ ~ToolAnswer(mailbox[i])'
      BY <1>1, <1>2, <1>3 DEF Answer, ToolAnswer, SameCall
    <3>3. QED
      BY <1>1, <1>2, <1>3, <1>6, <2>1, <3>1, <3>2 DEF Token, SameCall
  <2>4. Authorised'
    BY <1>1, <1>2, <1>4, AuthorisedKept DEF Work
  <2>5. QED
    BY <2>2, <2>3, <2>4 DEF Work
<1>7. QED
  BY <1>1, <1>5, <1>6

\* A spawned tool takes the token.
LEMMA SpawnToolWork == ASSUME Base, Work, Base', Kept, SpawnTool PROVE Work'
<1>1. /\ pc = "spawn" /\ pc' = "recv"
      /\ tools' = tools \union {Cursor} /\ executed' = executed \union {Cursor}
      /\ UNCHANGED <<active, workers, pending, waiter, mailbox>>
  BY DEF SpawnTool, memoryVars, approvalVars, managerVars
<1>2. HasCurrent
  BY <1>1 DEF Base, Typed, Shape
<1>3. SameCall
  BY <1>1 DEF SameCall
<1>4. /\ InTurn /\ tools = {} /\ active.approval = NoApproval /\ ~Working
      /\ active.batch # <<>> /\ Cursor \notin executed
      /\ \A i \in DOMAIN mailbox : ~Answer(mailbox[i]) /\ ~ToolAnswer(mailbox[i])
      /\ pending = {} /\ \A a \in Approvals : waiter[a] # "waiting"
  BY <1>1, <1>2, Advancing
<1>5. ~Halt
  BY <1>1 DEF Halt
<1>6. (HasCurrent' <=> HasCurrent) /\ Cursor' = Cursor
  BY <1>3, CursorKept
<1>7. Tasked'
  BY <1>1, <1>2, <1>4, <1>6 DEF Tasked, NoTaskOutlivesItsTurn, Ending, InTurn, Idle
<1>8. Token'
  <2>1. ~Working'
    BY <1>1, <1>4 DEF Working
  <2>2. \A i \in DOMAIN mailbox' : ~Answer(mailbox[i])' /\ ~ToolAnswer(mailbox[i])'
    BY <1>1, <1>4 DEF Answer, ToolAnswer
  <2>3. QED
    BY <1>1, <1>4, <2>1, <2>2 DEF Token
<1>9. Authorised'
  <2>1. /\ Cursor.turn = active.turn /\ Cursor.round = active.rounds /\ Cursor.index = active.index
        /\ active.rounds \in Nat /\ active.index \in Nat
    BY <1>2, CursorTyped, SMTT(30) DEF Base, Typed, MemoryTypeOK
  <2>2. \A p \in executed' : p.turn = active.turn =>
           /\ p.round <= active.rounds
           /\ active.batch # <<>> /\ p.round = active.rounds => p.index <= active.index
    BY <1>1, <2>1 DEF Work, Authorised
  <2>3. ASSUME NEW a \in Approvals, subject[a] = Cursor, delivered[a] \in Granted
        PROVE  subject'[a] = Cursor /\ delivered'[a] \in Granted
    <3>1. request[a] # NoRequest /\ delivered[a] # "-"
      BY <2>3 DEF Base, Entries, Entry, Granted
    <3>2. QED
      BY <1>5, <2>3, <3>1 DEF Kept
  <2>4. QED
    BY <1>1, <1>2, <1>6, <2>2, <2>3 DEF Work, Authorised
<1>10. QED
  BY <1>7, <1>8, <1>9 DEF Work

\* An approval that is asked for takes the token.
LEMMA AskWork == ASSUME Base, Work, Base', Kept, AskApproval PROVE Work'
<1>1. PICK a \in Approvals : AskStep(a)
  BY DEF AskApproval, AskStep
<1>2. /\ pc = "advance" /\ Live(active.turn) /\ HasCurrent
      /\ UNCHANGED <<tools, workers, executed, mailbox>>
      /\ pc' = "stop" \/ pc' = "recv"
  BY DEF AskApproval, End, taskVars
<1>3. /\ SameCall /\ active'.approval = a
      /\ (active'.cancelled <=> active.cancelled) /\ (active'.approved <=> active.approved)
  BY <1>1 DEF AskStep, Base, Typed, MemoryTypeOK, SameCall
<1>4. /\ InTurn /\ tools = {} /\ active.approval = NoApproval /\ ~Working
      /\ active.batch # <<>> /\ Cursor \notin executed
      /\ \A i \in DOMAIN mailbox : ~Answer(mailbox[i]) /\ ~ToolAnswer(mailbox[i])
      /\ pending = {} /\ \A b \in Approvals : waiter[b] # "waiting"
  BY <1>2, Advancing
<1>5. ~Halt
  BY <1>2 DEF Halt
<1>6. /\ pending' = {a} /\ \A b \in Approvals : waiter'[b] = "waiting" => b = a
      /\ subject'[a] = Cursor
  BY <1>1, <1>4 DEF AskStep, Register, Base, Typed, ApprovalTypeOK, MemoryTypeOK
<1>7. CASE pc' = "stop"
  BY <1>2, <1>3, <1>5, <1>6, <1>7, EndWork
<1>8. CASE pc' = "recv"
  <2>1. (HasCurrent' <=> HasCurrent) /\ Cursor' = Cursor
    BY <1>3, CursorKept
  <2>2. Tasked'
    BY <1>2, <1>3, <1>4, <1>6, <1>8 DEF Tasked, NoTaskOutlivesItsTurn, Ending, InTurn, Idle, SameCall
  <2>3. Authorised'
    BY <1>2, <1>3, <1>5, AuthorisedKept DEF Work
  <2>4. Token'
    <3>1. ~Working'
      BY <1>2, <1>3, <1>4 DEF Working, SameCall
    <3>2. \A i \in DOMAIN mailbox' : ~Answer(mailbox[i])' /\ ~ToolAnswer(mailbox[i])'
      BY <1>2, <1>3, <1>4 DEF Answer, ToolAnswer, SameCall
    <3>3. QED
      BY <1>2, <1>3, <1>4, <1>6, <1>8, <2>1, <3>1, <3>2 DEF Token
  <2>5. QED
    BY <2>2, <2>3, <2>4 DEF Work
<1>9. QED
  BY <1>2, <1>7, <1>8

\* A call that is refused at once leaves the token with the actor.
LEMMA RefuseWork == ASSUME Base, Work, Base', Kept, RefuseCall PROVE Work'
<1>1. /\ pc = "advance" /\ pc' = "reject" /\ Live(active.turn) /\ HasCurrent
      /\ UNCHANGED <<active, tools, workers, executed, mailbox, pending, waiter>>
  BY DEF RefuseCall, memoryVars, taskVars, historyVars, approvalVars, managerVars
<1>2. SameCall /\ ~Halt
  BY <1>1 DEF SameCall, Halt
<1>3. /\ InTurn /\ tools = {} /\ active.approval = NoApproval /\ ~Working
      /\ active.batch # <<>> /\ Cursor \notin executed
      /\ \A i \in DOMAIN mailbox : ~Answer(mailbox[i]) /\ ~ToolAnswer(mailbox[i])
      /\ pending = {} /\ \A b \in Approvals : waiter[b] # "waiting"
  BY <1>1, Advancing
<1>4. (HasCurrent' <=> HasCurrent) /\ Cursor' = Cursor
  BY <1>2, CursorKept
<1>5. Tasked'
  BY <1>1, <1>3 DEF Tasked, NoTaskOutlivesItsTurn, Ending, InTurn, Idle
<1>6. Authorised'
  BY <1>1, <1>2, AuthorisedKept DEF Work
<1>7. Token'
  <2>1. ~Working'
    BY <1>1, <1>3 DEF Working
  <2>2. \A i \in DOMAIN mailbox' : ~Answer(mailbox[i])' /\ ~ToolAnswer(mailbox[i])'
    BY <1>1, <1>3 DEF Answer, ToolAnswer
  <2>3. QED
    BY <1>1, <1>3, <1>4, <2>1, <2>2 DEF Token
<1>8. QED
  BY <1>5, <1>6, <1>7 DEF Work

\* The ending keeps the token until the turn is gone.
LEMMA StopWork == ASSUME Base, Work, Base', Kept, Stop \/ Drain \/ Finish PROVE Work'
<1>0. Ending /\ ~Idle
  BY DEF Stop, Drain, Finish, Ending, Base, Typed, Shape
<1>1. CASE Stop
  <2>1. /\ pc = "stop" /\ pc' = "drain"
        /\ active' = [active EXCEPT !.cancelled = @ \/ job.kind # "completed"]
        /\ CancelForTurn(active.turn)
        /\ UNCHANGED <<job, mailbox, workers, tools, executed>>
    BY <1>1 DEF Stop, taskVars, historyVars
  <2>2. /\ SameCall /\ active'.approval = active.approval /\ (active'.approved <=> active.approved)
        /\ active'.cancelled \/ job.kind = "completed"
    BY <2>1 DEF SameCall, Base, Typed, MemoryTypeOK
  <2>3. (HasCurrent' <=> HasCurrent) /\ Cursor' = Cursor
    BY <2>2, CursorKept
  <2>4. pending' = {} /\ UNCHANGED waiter
    <3>1. \A a \in pending : a = active.approval /\ a \in Approvals
      BY DEF Work, Tasked, NoTaskOutlivesItsTurn, Base, Typed, ApprovalTypeOK
    <3>2. \A a \in pending : request[a].turn = active.turn
      BY <3>1, IdAssumption DEF Base, OwnApproval
    <3>3. QED
      BY <2>1, <3>2 DEF CancelForTurn, PendingOf
  <2>5. Tasked'
    BY <2>1, <2>2, <2>3, <2>4 DEF Work, Tasked, NoTaskOutlivesItsTurn, Ending, InTurn
  <2>6. Token'
    BY <2>1 DEF Token, InTurn, Ending
  <2>7. Authorised'
    <3>1. ~Halt
      BY <2>1 DEF Halt
    <3>2. QED
      BY <2>1, <2>2, <3>1, AuthorisedKept DEF Work
  <2>8. QED
    BY <2>5, <2>6, <2>7 DEF Work
<1>2. CASE Drain
  <2>1. /\ pc = "drain" /\ pc' = "finish" /\ tools' = tools \ {Cursor}
        /\ waiter' = [a \in Approvals |-> IF a = active.approval THEN "none" ELSE waiter[a]]
        /\ active' = [active EXCEPT !.approval = NoApproval]
        /\ UNCHANGED <<job, pending, executed>>
    BY <1>2 DEF Drain, managerVars, historyVars
  <2>2. /\ SameCall /\ active'.approval = NoApproval /\ (active'.approved <=> active.approved)
        /\ (active'.cancelled <=> active.cancelled)
    BY <2>1 DEF SameCall, Base, Typed, MemoryTypeOK
  <2>3. tools' = {} /\ pending' = {} /\ (\A a \in Approvals : waiter'[a] # "waiting")
        /\ (active.cancelled \/ job.kind = "completed")
    BY <2>1 DEF Work, Tasked, NoTaskOutlivesItsTurn
  <2>4. Tasked'
    BY <2>1, <2>2, <2>3 DEF Tasked, NoTaskOutlivesItsTurn, Ending
  <2>5. Token'
    BY <2>1 DEF Token, InTurn, Ending
  <2>6. Authorised'
    <3>1. ~Halt
      BY <2>1 DEF Halt
    <3>2. QED
      BY <2>1, <2>2, <3>1, AuthorisedKept DEF Work
  <2>7. QED
    BY <2>4, <2>5, <2>6 DEF Work
<1>3. CASE Finish
  <2>1. CASE active' = NoActive
    BY <1>3, <2>1, IdleStepsWork
  <2>2. CASE active' # NoActive
    <3>1. /\ pc = "finish" /\ pc' = "recv" /\ UNCHANGED <<active, approvalVars, taskVars, executed>>
          /\ job.kind # "completed" /\ ~Halt
      BY <1>3, <2>2 DEF Finish, Leave, Halt
    <3>2. SameCall
      BY <3>1 DEF SameCall
    <3>3. active.cancelled /\ pending = {} /\ tools = {} /\ active.approval = NoApproval
          /\ \A a \in Approvals : waiter[a] # "waiting"
      BY <3>1, IdAssumption DEF Work, Tasked, NoTaskOutlivesItsTurn, InTurn, Ending
    <3>4. Tasked'
      BY <3>1, <3>3 DEF Tasked, NoTaskOutlivesItsTurn, Ending, taskVars, approvalVars, managerVars
    <3>5. Token'
      BY <3>1, <3>3 DEF Token, InTurn
    <3>6. Authorised'
      BY <3>1, <3>2, AuthorisedKept DEF Work
    <3>7. QED
      BY <3>4, <3>5, <3>6 DEF Work
  <2>3. QED
    BY <2>1, <2>2
<1>4. QED
  BY <1>1, <1>2, <1>3

-----------------------------------------------------------------------------
(* the tasks *)

\* The provider of the active turn answers.
LEMMA ProviderEndsWork ==
  ASSUME Base, Work, Base', Kept, NEW w \in workers, ProviderEnds(w) PROVE Work'
<1>0. /\ workers \subseteq Turns \X (0 .. MaxRounds) /\ mailbox \in Seq(Inputs)
  BY DEF Base, Typed, MemoryTypeOK
<1>1. PICK m \in Answers(w[1]) : Post(m)
  BY DEF ProviderEnds
<1>2. m \in Inputs /\ m.turn = w[1] /\ m.type \in AnswerTypes
  <2>1. m \in Inputs
    BY <1>0, AnswersTyped
  <2>2. QED
    BY <2>1 DEF Answers, AnswerTypes
<1>3. /\ workers' = workers \ {w} /\ UNCHANGED <<pc, job, active, tools, executed, pending, waiter, subject>>
  BY DEF ProviderEnds, TaskStep, memoryVars, historyVars, approvalVars, managerVars
<1>4. ~ToolAnswer(m)
  BY <1>2 DEF ToolAnswer, AnswerTypes
<1>5. CASE w[1] # active.turn
  BY <1>1, <1>2, <1>3, <1>4, <1>5, QuietPost DEF Answer
<1>6. CASE w[1] = active.turn
  <2>1. SameCall /\ ~Halt
    BY <1>1, <1>3 DEF SameCall, Halt, Post, Room
  <2>2. Authorised'
    BY <1>3, <2>1, AuthorisedKept DEF Work
  <2>3. Tasked'
    BY <1>3, <2>1, CursorKept DEF Work, Tasked, NoTaskOutlivesItsTurn, Ending, InTurn
  <2>4. /\ Len(mailbox) \in Nat /\ DOMAIN mailbox = 1 .. Len(mailbox) /\ DOMAIN mailbox' = 1 .. Len(mailbox) + 1
        /\ \A i \in DOMAIN mailbox : mailbox'[i] = mailbox[i]
        /\ mailbox'[Len(mailbox) + 1] = m
    BY <1>0, <1>1, <1>2, Posted DEF Post
  <2>5. ASSUME InTurn
        PROVE  /\ pc = "recv" /\ active.batch = <<>> /\ w = WorkerHandle
               /\ \A v \in workers : v[1] = active.turn => v = w
               /\ \A i \in DOMAIN mailbox : ~Answer(mailbox[i]) /\ ~ToolAnswer(mailbox[i])
               /\ tools = {} /\ active.approval = NoApproval
    <3>1. Working
      BY <1>6 DEF Working
    <3>2. /\ pc = "recv" /\ active.batch = <<>> /\ \A v \in workers : v[1] = active.turn => v = WorkerHandle
      BY <2>5, <3>1 DEF Work, Token
    <3>3. ~HasCurrent
      BY <3>2 DEF HasCurrent
    <3>4. QED
      BY <1>6, <2>5, <3>1, <3>2, <3>3 DEF Work, Token, Tasked
  <2>6. Token'
    <3>1. SUFFICES ASSUME InTurn PROVE Token'
      BY <1>3 DEF Token, InTurn, Idle, Ending
    <3>2. ~Working'
      BY <1>3, <2>5, <3>1 DEF Working
    <3>3. \A i \in DOMAIN mailbox' : ~ToolAnswer(mailbox[i])' /\ (Answer(mailbox[i])' => i = Len(mailbox) + 1)
      <4>1. \A i \in DOMAIN mailbox' : i \in DOMAIN mailbox \/ i = Len(mailbox) + 1
        BY <2>4
      <4>2. QED
        BY <1>3, <1>4, <2>4, <2>5, <3>1, <4>1 DEF Answer, ToolAnswer
    <3>4. QED
      BY <1>3, <2>5, <3>1, <3>2, <3>3 DEF Token
  <2>7. QED
    BY <2>2, <2>3, <2>6 DEF Work
<1>7. QED
  BY <1>5, <1>6

\* The tool of the active turn reports.
LEMMA ToolEndsWork ==
  ASSUME Base, Work, Base', Kept, NEW p \in tools, ToolEnds(p) PROVE Work'
<1>0. /\ p \in executed /\ mailbox \in Seq(Inputs) /\ p = Cursor /\ tools = {Cursor} /\ HasCurrent /\ p \in Positions
  BY DEF Base, Typed, Known, MemoryTypeOK, Work, Tasked, NoTaskOutlivesItsTurn
<1> DEFINE m == ToolReport(p)
<1>1. Post(m) /\ m \in Inputs /\ m.type = "result" /\ m.turn = p.turn /\ m.call = p.call
  BY <1>0 DEF ToolEnds, ToolReport, Inputs, Positions
<1> HIDE DEF m
<1>2. /\ tools' = {} /\ UNCHANGED <<pc, job, active, workers, executed, pending, waiter, subject>>
  BY <1>0 DEF ToolEnds, TaskStep, memoryVars, historyVars, approvalVars, managerVars
<1>3. SameCall /\ ~Halt
  BY <1>1, <1>2 DEF SameCall, Halt, Post, Room
<1>4. (HasCurrent' <=> HasCurrent) /\ Cursor' = Cursor
  BY <1>3, CursorKept
<1>5. Authorised'
  BY <1>2, <1>3, AuthorisedKept DEF Work
<1>6. Tasked'
  BY <1>2, <1>3, <1>4 DEF Work, Tasked, NoTaskOutlivesItsTurn, Ending, InTurn, Idle
<1>7. /\ Len(mailbox) \in Nat /\ DOMAIN mailbox = 1 .. Len(mailbox) /\ DOMAIN mailbox' = 1 .. Len(mailbox) + 1
      /\ \A i \in DOMAIN mailbox : mailbox'[i] = mailbox[i]
      /\ mailbox'[Len(mailbox) + 1] = m
  BY <1>0, <1>1, Posted DEF Post
<1>8. ASSUME InTurn
      PROVE  /\ pc = "recv" /\ active.batch # <<>> /\ ~Working /\ active.approval = NoApproval
             /\ \A i \in DOMAIN mailbox : ~Answer(mailbox[i]) /\ ~ToolAnswer(mailbox[i])
  <2>1. active.batch # <<>>
    BY <1>0, EmptySeq DEF HasCurrent
  <2>2. QED
    BY <1>0, <1>8, <2>1 DEF Work, Token
<1>9. Token'
  <2>1. SUFFICES ASSUME InTurn PROVE Token'
    BY <1>2 DEF Token, InTurn, Idle, Ending
  <2>2. ~Working'
    BY <1>2, <1>8, <2>1 DEF Working
  <2>3. \A i \in DOMAIN mailbox' :
          ~Answer(mailbox[i])' /\ (ToolAnswer(mailbox[i])' => i = Len(mailbox) + 1 /\ mailbox'[i].call = Cursor.call)
    <3>1. \A i \in DOMAIN mailbox' : i \in DOMAIN mailbox \/ i = Len(mailbox) + 1
      BY <1>7
    <3>2. ~(m.type \in AnswerTypes) /\ m.call = Cursor.call
      BY <1>0, <1>1 DEF AnswerTypes
    <3>3. QED
      BY <1>2, <1>7, <1>8, <2>1, <3>1, <3>2 DEF Answer, ToolAnswer
  <2>4. QED
    BY <1>0, <1>2, <1>4, <1>8, <2>1, <2>2, <2>3 DEF Token
<1>10. QED
  BY <1>5, <1>6, <1>9 DEF Work

\* A task that answers puts the token into the mailbox.
LEMMA TasksWork == ASSUME Base, Work, Base', Kept, Tasks PROVE Work'
<1>0. /\ workers \subseteq Turns \X (0 .. MaxRounds)
  BY DEF Base, Typed, MemoryTypeOK
<1>1. CASE ProviderStreams
  <2>1. PICK w \in workers : Post([type |-> "delta", turn |-> w[1]])
    BY <1>1 DEF ProviderStreams
  <2>2. [type |-> "delta", turn |-> w[1]] \in Inputs
    BY <1>0 DEF Inputs
  <2>3. UNCHANGED <<pc, job, active, tools, workers, executed, pending, waiter>>
    BY <1>1 DEF ProviderStreams, TaskStep, memoryVars, historyVars, approvalVars, managerVars, taskVars
  <2>4. QED
    BY <2>1, <2>2, <2>3, QuietPost DEF Answer, AnswerTypes, ToolAnswer
<1>2. CASE \E w \in workers : ProviderEnds(w)
  BY <1>2, ProviderEndsWork
<1>3. CASE \E p \in tools : ToolEnds(p)
  BY <1>3, ToolEndsWork
<1>4. ASSUME NEW a \in Approvals, WaiterEnds(a) PROVE Work'
  <2>1. PICK o \in Outcomes :
          WaiterReturns(a, Cancelled(request[a].turn), o) /\ Post(WaiterReport(a, o))
    BY <1>4 DEF WaiterEnds, WaiterReport
  <2>2. request[a].turn \in Turns
    BY <2>1, EntriesRegistered DEF Base, Typed, ApprovalTypeOK, Requests, Registered, WaiterReturns
  <2>3. WaiterReport(a, o) \in Inputs
    BY <2>2 DEF Inputs, WaiterReport
  <2>4. UNCHANGED <<pc, job, active, tools, workers, executed, pending>>
    BY <1>4, <2>1 DEF WaiterEnds, WaiterReturns, TaskStep, memoryVars, historyVars, managerVars, taskVars
  <2>5. \A b \in Approvals : waiter'[b] = "waiting" => waiter[b] = "waiting"
    BY <2>1 DEF WaiterReturns, Base, Typed, ApprovalTypeOK
  <2>6. QED
    BY <2>1, <2>3, <2>4, <2>5, QuietPost DEF Answer, AnswerTypes, ToolAnswer, WaiterReport
<1>5. ASSUME NEW a \in Approvals, DeadlineOf(a) PROVE Work'
  <2>1. /\ UNCHANGED <<pc, job, active, mailbox, tools, workers, executed, pending, waiter>>
        /\ due' = due \union {a}
    BY <1>5 DEF DeadlineOf, DeadlinePasses, TaskStep, memoryVars, historyVars, managerVars, taskVars
  <2>2. ~Halt
    BY <2>1 DEF Halt
  <2>3. Shifted(0)
    BY <2>1, SameShift DEF Base
  <2>4. QED
    BY <2>1, <2>2, <2>3, QuietWork
<1>6. QED
  BY <1>1, <1>2, <1>3, <1>4, <1>5 DEF Tasks

\* There is no token before the first turn.
LEMMA WorkInit == ActorInit => Work
<1> SUFFICES ASSUME ActorInit PROVE Work
  OBVIOUS
<1>1. /\ pc = "stopped" /\ active = NoActive /\ tools = {} /\ executed = {} /\ pending = {}
      /\ \A a \in Approvals : waiter[a] = "none"
  BY DEF ActorInit, ApprovalInit, ManagerInit
<1>2. active.approval = NoApproval /\ ~active.cancelled /\ ~active.approved /\ Idle
  BY <1>1 DEF NoActive, Idle
<1>3. QED
  BY <1>1, <1>2 DEF Work, Tasked, NoTaskOutlivesItsTurn, Ending, Token, InTurn, Authorised

\* Every step passes the token on, or keeps it.
LEMMA WorkStep == ASSUME Base, Work, [ActorNext]_vars PROVE Work'
<1>1. Base' /\ Kept
  BY BaseStep
<1>2. CASE UNCHANGED vars
  BY <1>2, StutterWork
<1>3. CASE StartActor \/ Crash \/ RecoverTool \/ RecoverEnd
  BY <1>1, <1>3, IdleStepsWork
<1>4. CASE Commands
  BY <1>1, <1>4, CommandWork
<1>5. CASE Tasks
  BY <1>1, <1>5, TasksWork
<1>6. CASE HandleSubmit
  <2>1. CASE Idle
    BY <1>1, <1>6, <2>1, IdleStepsWork
  <2>2. CASE ~Idle
    <3>1. UNCHANGED <<pc, job, active>>
      BY <1>6, <2>2 DEF HandleSubmit, memoryVars
    <3>2. QED
      BY <1>1, <1>6, <3>1, QuietInputsWork
  <2>3. QED
    BY <2>1, <2>2
<1>7. CASE HandleInterrupt \/ HandleFinal \/ HandleWorkerEnd
  <2>1. UNCHANGED active /\ (UNCHANGED <<pc, job>> \/ \E kind, exit : End(kind, exit))
    BY <1>7 DEF HandleInterrupt, HandleFinal, HandleWorkerEnd, actorOnly
  <2>2. CASE UNCHANGED <<pc, job, active>>
    BY <1>1, <1>7, <2>2, QuietInputsWork
  <2>3. CASE UNCHANGED active /\ \E kind, exit : End(kind, exit)
    BY <1>1, <1>7, <2>3, EndHandlersWork
  <2>4. QED
    BY <2>1, <2>2, <2>3
<1>8. CASE HandleClose
  <2>1. CASE Idle
    BY <1>1, <1>8, <2>1, IdleStepsWork
  <2>2. CASE ~Idle
    <3>1. UNCHANGED active /\ \E kind, exit : End(kind, exit)
      BY <1>8, <2>2 DEF HandleClose
    <3>2. QED
      BY <1>1, <1>8, <2>2, <3>1, EndHandlersWork
  <2>3. QED
    BY <2>1, <2>2
<1>9. CASE HandleResume \/ HandleResolve \/ HandleDelta
  <2>1. UNCHANGED <<pc, job, active>>
    BY <1>9 DEF HandleResume, HandleResolve, HandleDelta, memoryVars
  <2>2. QED
    BY <1>1, <1>9, <2>1, QuietInputsWork
<1>10. CASE RejectTool
  <2>1. UNCHANGED active /\ \E kind, exit : End(kind, exit)
    BY <1>10 DEF RejectTool, actorOnly
  <2>2. QED
    BY <1>1, <1>10, <2>1, EndHandlersWork
<1>11. CASE BeginPrompt
  BY <1>1, <1>11, BeginWork
<1>12. CASE HandleCalls \/ HandleResult \/ HandleOutcome
  BY <1>1, <1>12, CallsWork, ResultWork, OutcomeWork
<1>13. CASE NextRound \/ StartTool \/ SpawnTool \/ AskApproval \/ RefuseCall
  BY <1>1, <1>13, NextRoundWork, StartToolWork, SpawnToolWork, AskWork, RefuseWork
<1>14. CASE Stop \/ Drain \/ Finish
  BY <1>1, <1>14, StopWork
<1>15. QED
  BY <1>2, <1>3, <1>4, <1>5, <1>6, <1>7, <1>8, <1>9, <1>10, <1>11, <1>12, <1>13, <1>14
     DEF ActorNext, Handlers

\* At any time one place holds the token of a running turn.
LEMMA WorkInvariant == ActorSpec => []Work
<1>1. Base /\ Work /\ [ActorNext]_vars => Work'
  BY WorkStep
<1>2. QED
  BY <1>1, WorkInit, BaseInvariant, PTL DEF ActorSpec

\* No task acts on, or answers for, a turn that was ended.
THEOREM TasksEndWithTheirTurn == ActorSpec => []NoTaskOutlivesItsTurn
<1>1. Work => NoTaskOutlivesItsTurn
  BY DEF Work, Tasked
<1>2. QED
  BY <1>1, WorkInvariant, PTL

-----------------------------------------------------------------------------
(* a tool runs only when it may *)

\* A user is only asked about calls the policy leaves to the user.
AskedAreAskable ==
  \A a \in Approvals : request[a] # NoRequest => Risk[subject[a].call] = "ask"

\* Only a tool that may be asked about is asked about.
LEMMA AskableStep == ASSUME Base, AskedAreAskable, [ActorNext]_vars PROVE AskedAreAskable'
<1>1. ApprovalStep /\ Kept
  BY BaseStep
<1>2. CASE \E a \in Approvals : AskStep(a)
  <2>1. PICK a \in Approvals : AskStep(a)
    BY <1>2
  <2>2. Cursor.call = active.batch[active.index]
    BY <2>1, CursorTyped DEF AskStep, Base, Typed
  <2>3. subject'[a] = Cursor /\ Risk[Cursor.call] = "ask"
    BY <2>1, <2>2 DEF AskStep, MustAsk, Base, Typed, MemoryTypeOK
  <2>4. \A b \in Approvals \ {a} : request'[b] = request[b] /\ subject'[b] = subject[b]
    BY <2>1 DEF AskStep, Register, Base, Typed, MemoryTypeOK, ApprovalTypeOK
  <2>5. QED
    BY <2>3, <2>4 DEF AskedAreAskable
<1>3. CASE UNCHANGED <<request, subject>>
  BY <1>3 DEF AskedAreAskable
<1>4. QED
  BY <1>1, <1>2, <1>3, ResolveUnwritten
     DEF ApprovalStep, approvalVars, managerVars, DrainStep, WaiterReturns, DeadlinePasses, Halt

\* An approval is always about a tool that may be approved.
LEMMA AskableInvariant == ActorSpec => []AskedAreAskable
<1>1. ActorInit => AskedAreAskable
  BY DEF ActorInit, ApprovalInit, AskedAreAskable
<1>2. Base /\ AskedAreAskable /\ [ActorNext]_vars => AskedAreAskable'
  BY AskableStep
<1>3. QED
  BY <1>1, <1>2, BaseInvariant, PTL DEF ActorSpec

\* A tool whose start is recorded may run, until it is spawned.
Cleared == pc = "spawn" => MayRun

\* Only a recorded start leads to a spawn.
LEMMA OnlyStartsSpawn ==
  ASSUME [ActorNext]_vars, ~StartTool, pc' = "spawn"
  PROVE  UNCHANGED <<pc, active, rules, alwaysRules>> /\ UNCHANGED executed
<1>1. CASE Tasks
  BY <1>1 DEF Tasks, ProviderStreams, ProviderEnds, ToolEnds, WaiterEnds, DeadlineOf, WaiterReturns,
     DeadlinePasses, TaskStep, memoryVars, approvalVars, managerVars, historyVars
<1>2. CASE Commands
  <2>1. \E m : Command(m)
    BY <1>2 DEF Commands, SendSubmit, SendInterrupt, SendClose, SendResume, SendResolve
  <2>2. QED
    BY <2>1 DEF Command, memoryVars, approvalVars, managerVars, historyVars
<1>3. CASE UNCHANGED vars
  BY <1>3 DEF vars, memoryVars, approvalVars, managerVars, historyVars
<1>4. CASE StartActor \/ Crash \/ RecoverTool \/ RecoverEnd
  BY <1>4 DEF StartActor, Crash, RecoverTool, RecoverEnd, LeaveRecovery, GiveUp, Halt
<1>5. CASE HandleSubmit \/ BeginPrompt \/ HandleInterrupt \/ HandleClose \/ HandleResume \/ HandleResolve
  BY <1>5 DEF HandleSubmit, BeginPrompt, HandleInterrupt, HandleClose, HandleResume, HandleResolve,
     Receive, End, Halt
<1>6. CASE HandleDelta \/ HandleFinal \/ HandleWorkerEnd \/ HandleCalls \/ HandleResult \/ HandleOutcome
  BY <1>6 DEF HandleDelta, HandleFinal, HandleWorkerEnd, HandleCalls, HandleResult, HandleOutcome,
     Receive, End
<1>7. CASE NextRound \/ SpawnTool \/ AskApproval \/ RefuseCall \/ RejectTool
  BY <1>7 DEF NextRound, SpawnTool, AskApproval, RefuseCall, RejectTool, End
<1>8. CASE Stop \/ Drain \/ Finish
  BY <1>8 DEF Stop, Drain, Finish, Leave, Halt
<1>9. QED
  BY <1>1, <1>2, <1>3, <1>4, <1>5, <1>6, <1>7, <1>8 DEF ActorNext, Handlers

\* Nothing takes the leave back between the record of a start and the spawn.
LEMMA ClearedStep == ASSUME Base, Cleared, [ActorNext]_vars PROVE Cleared'
<1>1. CASE StartTool
  <2>1. MayRun /\ active' = [active EXCEPT !.awaiting = FALSE] /\ UNCHANGED <<rules, alwaysRules>>
    BY <1>1 DEF StartTool, approvalVars, managerVars
  <2>2. /\ active'.batch = active.batch /\ active'.index = active.index
        /\ (active'.approved <=> active.approved)
    BY <2>1 DEF Base, Typed, MemoryTypeOK
  <2>3. MayRun'
    BY <2>1, <2>2 DEF MayRun, IsAllowed
  <2>4. QED
    BY <2>3 DEF Cleared
<1>2. CASE ~StartTool /\ pc' = "spawn"
  <2>1. UNCHANGED <<pc, active, rules, alwaysRules>>
    BY <1>2, OnlyStartsSpawn
  <2>2. MayRun' <=> MayRun
    BY <2>1 DEF MayRun, IsAllowed
  <2>3. QED
    BY <2>1, <2>2 DEF Cleared
<1>3. QED
  BY <1>1, <1>2 DEF Cleared

\* A tool that is about to be spawned may run.
LEMMA ClearedInvariant == ActorSpec => []Cleared
<1>1. ActorInit => Cleared
  BY DEF ActorInit, Cleared
<1>2. Base /\ Cleared /\ [ActorNext]_vars => Cleared'
  BY ClearedStep
<1>3. QED
  BY <1>1, <1>2, BaseInvariant, PTL DEF ActorSpec

\* A tool is spawned by start_tool_plan only.
LEMMA OnlyStartSpawns == ASSUME [ActorNext]_vars, ~SpawnTool PROVE tools' \subseteq tools
<1>1. CASE BeginPrompt \/ NextRound \/ AskApproval
  BY <1>1 DEF BeginPrompt, NextRound, AskApproval, taskVars
<1>2. QED
  BY <1>1, MostUnwritten DEF ActorNext, Handlers, Unwritten

SpawnsAuthorised ==
  \A p \in tools' \ tools :
    /\ p \notin executed
    /\ \/ Risk[p.call] = "allow"
       \/ /\ Risk[p.call] = "ask"
          /\ \/ IsAllowed(Self, KeyOf[p.call])
             \/ \E a \in Approvals : subject[a] = p /\ delivered[a] \in Granted

\* A step that starts a tool starts an authorised one.
LEMMA SpawnStep ==
  ASSUME Base, Work, AskedAreAskable, Cleared, [ActorNext]_vars PROVE SpawnsAuthorised
<1>1. CASE ~SpawnTool
  BY <1>1, OnlyStartSpawns DEF SpawnsAuthorised
<1>2. CASE SpawnTool
  <2>1. /\ pc = "spawn" /\ HasCurrent /\ MayRun
        /\ tools' \subseteq tools \union {Cursor}
    BY <1>2 DEF SpawnTool, Cleared, Base, Typed, Shape
  <2>2. Cursor \notin executed /\ Cursor.call = active.batch[active.index]
    BY <2>1, Advancing, CursorTyped DEF Base, Typed
  <2>3. CASE active.approved
    <3>1. PICK a \in Approvals : subject[a] = Cursor /\ delivered[a] \in Granted
      BY <2>3 DEF Work, Authorised
    <3>2. request[a] # NoRequest
      BY <3>1 DEF Base, Entries, Entry, Granted
    <3>3. Risk[Cursor.call] = "ask"
      BY <3>1, <3>2 DEF AskedAreAskable
    <3>4. QED
      BY <2>1, <2>2, <3>1, <3>3 DEF SpawnsAuthorised
  <2>4. CASE ~active.approved
    BY <2>1, <2>2, <2>4 DEF MayRun, SpawnsAuthorised
  <2>5. QED
    BY <2>3, <2>4
<1>3. QED
  BY <1>1, <1>2

\* An approval given once is not carried over, and no position runs twice.
THEOREM EveryToolWasAuthorised == ActorSpec => ToolsRunAuthorised
<1>1. Base /\ Work /\ AskedAreAskable /\ Cleared /\ [ActorNext]_vars => [SpawnsAuthorised]_vars
  BY SpawnStep
<1>2. ToolsRunAuthorised <=> [][SpawnsAuthorised]_vars
  BY DEF ToolsRunAuthorised, SpawnsAuthorised
<1>3. QED
  BY <1>1, <1>2, BaseInvariant, WorkInvariant, AskableInvariant, ClearedInvariant, PTL DEF ActorSpec

-----------------------------------------------------------------------------
(* the contract with the clients *)

\* Apart from the steps that begin and end a turn, an event is published of
\* the turn the actor works on only, and none of them is terminal.
OpensOnly ==
  \/ UNCHANGED heard
  \/ \E t \in Turns : (Mine(t) \/ (pc = "recover" /\ t = job.turn)) /\ Publish(t, "open")

\* What a step publishes.
LEMMA HeardSteps ==
  ASSUME Typed, [ActorNext]_vars PROVE OpensOnly \/ RecoveryEnds \/ Begins \/ Ends
<1> USE DEF OpensOnly
<1>0. active.turn \in Turns => Mine(active.turn)
  BY DEF Mine
<1>1. CASE RecoverTool \/ RecoverEnd
  <2>1. CASE pc' # "recover"
    BY <1>1, <2>1, RecoveryLeaves
  <2>2. CASE pc' = "recover"
    <3>1. pc = "recover" /\ Publish(job.turn, "open")
      BY <1>1, <2>2 DEF RecoverTool, RecoverEnd, GiveUp, LeaveRecovery
    <3>2. job.turn \in Turns
      BY <3>1 DEF Typed, Shape
    <3>3. QED
      BY <3>1, <3>2
  <2>3. QED
    BY <2>1, <2>2
<1>2. CASE BeginPrompt
  <2>1. pc = "begin" /\ pc' = "recv" /\ UNCHANGED lost
    BY <1>2 DEF BeginPrompt
  <2>2. QED
    BY <1>2, <2>1 DEF BeginPrompt, Begins
<1>3. CASE Finish
  BY <1>3, FinishEnds
<1>4. CASE Tasks \/ Commands \/ UNCHANGED vars \/ StartActor \/ Crash
  <2>1. CASE Tasks
    BY <2>1 DEF Tasks, ProviderStreams, ProviderEnds, ToolEnds, WaiterEnds, DeadlineOf, TaskStep, historyVars
  <2>2. CASE Commands
    <3>1. \E m : Command(m)
      BY <2>2 DEF Commands, SendSubmit, SendInterrupt, SendClose, SendResume, SendResolve
    <3>2. QED
      BY <3>1 DEF Command, historyVars
  <2>3. CASE UNCHANGED vars \/ StartActor \/ Crash
    BY <2>3 DEF vars, historyVars, StartActor, Crash
  <2>4. QED
    BY <1>4, <2>1, <2>2, <2>3
<1>5. CASE HandleSubmit \/ HandleInterrupt \/ HandleClose \/ HandleResume \/ HandleResolve
           \/ HandleFinal \/ HandleWorkerEnd \/ StartTool \/ RefuseCall \/ Stop \/ Drain
  BY <1>5 DEF HandleSubmit, HandleInterrupt, HandleClose, HandleResume, HandleResolve,
     HandleFinal, HandleWorkerEnd, StartTool, RefuseCall, Stop, Drain, historyVars
<1>6. CASE NextRound
  BY <1>6 DEF NextRound, historyVars
<1>7. CASE HandleDelta \/ HandleCalls \/ HandleResult \/ HandleOutcome
  <2>1. Head(mailbox).type \in TurnInputs => Head(mailbox).turn \in Turns
    BY <1>7, ReceivedTyped, InputFields
       DEF HandleDelta, HandleCalls, HandleResult, HandleOutcome, TurnInputs, WorkerInputs
  <2>2. CASE HandleDelta
    BY <2>1, <2>2 DEF HandleDelta, Receive, TurnInputs, WorkerInputs, Live
  <2>3. CASE HandleCalls
    BY <2>1, <2>3 DEF HandleCalls, Receive, TurnInputs, WorkerInputs, Live
  <2>4. CASE HandleResult
    BY <2>1, <2>4 DEF HandleResult, Receive, TurnInputs, WorkerInputs, Live
  <2>5. CASE HandleOutcome
    BY <2>1, <2>5 DEF HandleOutcome, Receive, TurnInputs, WorkerInputs
  <2>6. QED
    BY <1>7, <2>2, <2>3, <2>4, <2>5
<1>8. CASE SpawnTool \/ AskApproval \/ RejectTool
  <2>1. active.turn \in Turns
    BY <1>8 DEF SpawnTool, AskApproval, RejectTool, Typed, Shape, MemoryTypeOK, Idle
  <2>2. QED
    BY <1>0, <1>8, <2>1 DEF SpawnTool, AskApproval, RejectTool
<1>9. QED
  BY <1>1, <1>2, <1>3, <1>4, <1>5, <1>6, <1>7, <1>8 DEF ActorNext, Handlers

\* The last word about a turn is its outcome, and is said once the actor has
\* let go of it.
LastWord == \A t \in Turns : heard[t] \in Terminal => t \in lost \/ (heard[t] = status[t] /\ ~Mine(t))

Announced == [t \in Turns |-> IF heard[t] \in Terminal /\ t \notin lost THEN heard[t] ELSE "-"]

\* Steps that settle no turn, as clients see them.
LEMMA SilentSteps ==
  ASSUME Base, LastWord, Base', UNCHANGED status, lost \subseteq lost',
         \A t \in lost' \ lost : RunningIn(Self, t),
         UNCHANGED heard \/ \E t \in Turns : (Mine(t) \/ RunningIn(Self, t)) /\ Publish(t, "open"),
         active'.turn = active.turn \/ active' = NoActive
  PROVE  LastWord' /\ Announced' = Announced
<1>1. ASSUME NEW t \in Turns
      PROVE  /\ heard'[t] \in Terminal => t \in lost' \/ (heard'[t] = status'[t] /\ ~Mine(t)')
             /\ Announced'[t] = Announced[t]
  <2>1. ~Mine(t) => ~Mine(t)'
    BY NoTypes, IdAssumption DEF Mine
  <2>2. status[t] = "running" => status[t] \notin Terminal
    BY DEF Terminal
  <2>3. CASE heard'[t] = heard[t]
    BY <2>1, <2>2, <2>3 DEF LastWord, RunningIn, Announced
  <2>4. CASE heard'[t] # heard[t]
    <3>1. heard'[t] = "open" /\ (Mine(t) \/ RunningIn(Self, t))
      BY <2>4 DEF Publish, Base, Typed, MemoryTypeOK
    <3>2. heard'[t] \notin Terminal
      BY <3>1 DEF Terminal
    <3>3. heard[t] \in Terminal => t \in lost
      BY <3>1, <2>2 DEF LastWord, RunningIn
    <3>4. QED
      BY <3>2, <3>3 DEF Announced
  <2>5. QED
    BY <2>3, <2>4
<1>2. Announced' = Announced
  BY <1>1 DEF Announced
<1>3. QED
  BY <1>1, <1>2 DEF LastWord

\* Only turns of this session are ever begun here, and one runs at a time.
LEMMA OneRuns ==
  ASSUME Base, NEW t \in Turns, NEW u \in Turns, status[t] = "running", status[u] = "running"
  PROVE  t = u
<1>1. RunningIn(Self, t) /\ RunningIn(Self, u)
  BY DEF Base, RegistersAgree, Begun, RunningIn
<1>2. QED
  BY <1>1, ActorAssumption DEF Base, StoreInv, AtMostOneRunning

\* The recovery of a restart settles the turn or gives it up.
LEMMA RecoveryContract ==
  ASSUME Base, LastWord, Base', RecoveryEnds
  PROVE  LastWord' /\ [Contract!ContractNext]_(Contract!contractVars)
<1>0. /\ pc = "recover" /\ job.turn \in Turns /\ RunningIn(Self, job.turn) /\ UNCHANGED active
      /\ heard' = [heard EXCEPT ![job.turn] = "failed"] /\ heard \in [Turns -> {"-", "open"} \union Terminal]
      /\ status \in [Turns -> Status] /\ "failed" \in Terminal /\ "running" \notin Terminal
      /\ ~Mine(job.turn) /\ heard'[job.turn] = "failed"
      /\ \A t \in Turns \ {job.turn} : heard'[t] = heard[t]
      /\ \A t \in Turns : Mine(t)' = Mine(t)
  BY IdAssumption DEF RecoveryEnds, LeaveRecovery, Publish, Base, Typed, Shape, RegistersAgree, MemoryTypeOK, StoreTypeOK,
     Terminal, Idle, Mine
<1>1. heard[job.turn] \in Terminal => job.turn \in lost
  BY <1>0 DEF LastWord, RunningIn
<1>2. CASE FinishWithoutMessage(Self, job.turn, "failed") /\ UNCHANGED lost
  <2>1. status' = [status EXCEPT ![job.turn] = "failed"]
    BY <1>2 DEF FinishWithoutMessage
  <2>2. LastWord'
    BY <1>0, <2>1, <1>2 DEF LastWord
  <2>3. Contract!Settled(job.turn, "failed")
    BY <1>0, <2>1 DEF Contract!Settled, Contract!Ends, RunningIn
  <2>4. CASE job.turn \in lost
    <3>1. Announced' = Announced
      BY <1>0, <1>2, <2>4 DEF Announced
    <3>2. Contract!EndQuietly(job.turn)
      BY <2>3, <3>1 DEF Contract!EndQuietly, Contract!Ends, Announced
    <3>3. QED
      BY <1>0, <2>2, <3>2 DEF Contract!ContractNext
  <2>5. CASE job.turn \notin lost
    <3>1. Announced[job.turn] = "-" /\ Announced' = [Announced EXCEPT ![job.turn] = "failed"]
      BY <1>0, <1>1, <1>2, <2>5 DEF Announced
    <3>2. Contract!EndAloud(job.turn)
      BY <2>3, <3>1 DEF Contract!EndAloud, Contract!Tell, Contract!Ends, Announced
    <3>3. QED
      BY <1>0, <2>2, <3>2 DEF Contract!ContractNext
  <2>6. QED
    BY <2>4, <2>5
<1>3. CASE UNCHANGED storeVars /\ lost' = lost \union {job.turn}
  <2>1. UNCHANGED status
    BY <1>3 DEF storeVars
  <2>2. LastWord'
    BY <1>0, <1>3, <2>1 DEF LastWord
  <2>3. Announced' = Announced
    BY <1>0, <1>1, <1>3 DEF Announced
  <2>4. QED
    BY <2>1, <2>2, <2>3 DEF Contract!contractVars, Announced
<1>4. QED
  BY <1>2, <1>3 DEF RecoveryEnds

\* Beginning a turn is a step of the contract.
LEMMA BeginsContract ==
  ASSUME Base, LastWord, Base', Begins
  PROVE  LastWord' /\ [Contract!ContractNext]_(Contract!contractVars)
<1>1. PICK t \in Turns : BeginTurn(Self, t) /\ active' = [NoActive EXCEPT !.turn = t] /\ Publish(t, "open")
  BY DEF Begins
<1>2. /\ status' = [status EXCEPT ![t] = "running"] /\ status[t] = "none" /\ UNCHANGED lost
      /\ \A u \in Turns : ~RunningIn(Self, u)
      /\ heard' = [heard EXCEPT ![t] = "open"] /\ active'.turn = t /\ Idle
      /\ heard \in [Turns -> {"-", "open"} \union Terminal] /\ status \in [Turns -> Status]
      /\ {"none", "running", "open"} \cap Terminal = {}
  <2>1. pc = "begin" /\ UNCHANGED lost /\ Idle
    BY DEF Begins, Base, Typed, Shape
  <2>2. status' = [status EXCEPT ![t] = "running"] /\ status[t] = "none" /\ \A u \in Turns : ~RunningIn(Self, u)
    BY <1>1 DEF BeginTurn, CanBegin
  <2>3. active'.turn = t /\ heard' = [heard EXCEPT ![t] = "open"]
    BY <1>1, NoTypes DEF NoActive, Publish
  <2>4. heard \in [Turns -> {"-", "open"} \union Terminal] /\ status \in [Turns -> Status]
    BY DEF Base, Typed, MemoryTypeOK, StoreTypeOK
  <2>5. {"none", "running", "open"} \cap Terminal = {}
    BY DEF Terminal
  <2>6. QED
    BY <2>1, <2>2, <2>3, <2>4, <2>5
<1>3. t \notin lost /\ heard[t] \notin Terminal
  BY <1>2 DEF LastWord, Base, RegistersAgree, Begun
<1>4. \A u \in Turns : status[u] # "running"
  BY <1>2 DEF Base, RegistersAgree, Begun, RunningIn
<1>5. \A u \in Turns \ {t} : heard'[u] = heard[u] /\ status'[u] = status[u] /\ ~Mine(u)'
  BY <1>2 DEF Mine
<1>6. LastWord'
  BY <1>2, <1>5 DEF LastWord
<1>7. Announced' = Announced
  BY <1>2, <1>3, <1>5 DEF Announced
<1>8. Contract!Accept(t)
  BY <1>2, <1>4, <1>7 DEF Contract!Accept, Announced
<1>9. QED
  BY <1>6, <1>8 DEF Contract!ContractNext

\* Completing a turn is a step of the contract.
LEMMA CompletesContract ==
  ASSUME Base, LastWord, Base', Completes
  PROVE  LastWord' /\ [Contract!ContractNext]_(Contract!contractVars)
<1> DEFINE t == active.turn
<1>1. /\ t \in Turns /\ status' = [status EXCEPT ![t] = "completed"] /\ status[t] = "running"
      /\ UNCHANGED <<active, lost, heard>> /\ status \in [Turns -> Status] /\ Mine(t)
  BY DEF Completes, CompleteTurn, CanComplete, RunningIn, Mine, Base, Typed, StoreTypeOK
<1>2. LastWord'
  BY <1>1 DEF LastWord, Mine
<1>3. Announced' = Announced
  BY <1>1 DEF Announced
<1>4. Contract!EndQuietly(t)
  BY <1>1, <1>3 DEF Contract!EndQuietly, Contract!Settled, Contract!Ends, Announced
<1>5. QED
  BY <1>1, <1>2, <1>4 DEF Contract!ContractNext

\* The end of a turn is announced as it was recorded.
LEMMA EndsContract ==
  ASSUME Base, LastWord, Base', Ends
  PROVE  LastWord' /\ [Contract!ContractNext]_(Contract!contractVars)
<1>0. active.turn \in Turns /\ job.kind \in Terminal /\ Ending
  BY DEF Ends, Base, Typed, Shape, MemoryTypeOK, Ending, Idle
<1> SUFFICES ASSUME NEW t \in Turns, t = active.turn, NEW k \in Terminal, k = job.kind
             PROVE  LastWord' /\ [Contract!ContractNext]_(Contract!contractVars)
  BY <1>0
<1>1. /\ UNCHANGED lost /\ Mine(t) /\ t \notin lost
      /\ k = "completed" => status[t] = "completed"
      /\ heard \in [Turns -> {"-", "open"} \union Terminal] /\ status \in [Turns -> Status]
  BY <1>0 DEF Ends, Base, Typed, RegistersAgree, MemoryTypeOK, StoreTypeOK, Mine
<1>2. heard[t] \notin Terminal
  BY <1>1 DEF LastWord
<1>3. Announced[t] = "-"
  BY <1>1, <1>2 DEF Announced
<1>4. CASE active' = NoActive /\ Publish(t, k)
           /\ \/ k = "completed" /\ UNCHANGED storeVars
              \/ k # "completed" /\ FinishWithoutMessage(Self, t, k)
  <2>1. heard' = [heard EXCEPT ![t] = k] /\ \A u \in Turns : ~Mine(u)'
    BY <1>4, NoTypes, IdAssumption DEF Publish, Mine
  <2>2. status' = [status EXCEPT ![t] = k]
    BY <1>1, <1>4 DEF FinishWithoutMessage, storeVars
  <2>3. LastWord'
    BY <1>1, <2>1, <2>2 DEF LastWord
  <2>4. Announced' = [Announced EXCEPT ![t] = k]
    BY <1>1, <2>1 DEF Announced
  <2>5. Contract!Tell(t, k)
    BY <1>3, <2>4 DEF Contract!Tell, Announced
  <2>6. CASE k = "completed" /\ UNCHANGED storeVars
    <3>1. status[t] = k /\ UNCHANGED status /\ k \in Contract!Ends
      BY <1>1, <2>6 DEF Contract!Ends, storeVars
    <3>2. Contract!Announce(t)
      BY <2>5, <3>1 DEF Contract!Announce, Contract!Tell
    <3>3. QED
      BY <2>3, <3>2 DEF Contract!ContractNext
  <2>7. CASE k # "completed" /\ FinishWithoutMessage(Self, t, k)
    <3>1. status[t] = "running"
      BY <2>7 DEF FinishWithoutMessage, CanFinish, RunningIn
    <3>2. Contract!Settled(t, k)
      BY <1>1, <2>2, <3>1 DEF Contract!Settled, Contract!Ends, Terminal
    <3>3. Contract!EndAloud(t)
      <4>1. k \in Contract!Ends
        BY DEF Contract!Ends, Terminal
      <4>2. QED
        BY <2>5, <3>2, <4>1 DEF Contract!EndAloud
    <3>4. QED
      BY <2>3, <3>3 DEF Contract!ContractNext
  <2>8. QED
    BY <1>4, <2>6, <2>7
<1>5. CASE UNCHANGED <<storeVars, heard>> /\ (active' = active \/ active' = NoActive)
  <2>1. LastWord' /\ Announced' = Announced
    BY <1>1, <1>5, SilentSteps DEF storeVars
  <2>2. QED
    BY <1>5, <2>1 DEF Contract!contractVars, Announced, storeVars
<1>6. QED
  BY <1>4, <1>5 DEF Ends

\* Every step of the actor is a step of the contract, or a stutter.
LEMMA ContractStep ==
  ASSUME Base, LastWord, [ActorNext]_vars
  PROVE  LastWord' /\ [Contract!ContractNext]_(Contract!contractVars)
<1>0. Base' /\ TurnStep /\ (OpensOnly \/ RecoveryEnds \/ Begins \/ Ends)
  BY BaseStep, HeardSteps DEF Base
<1>1. CASE RecoveryEnds \/ Begins \/ Ends
  BY <1>0, <1>1, RecoveryContract, BeginsContract, EndsContract
<1>2. CASE Completes
  BY <1>0, <1>2, CompletesContract
<1>3. CASE (SameTurns \/ StartActor \/ Dropped) /\ OpensOnly
  <2>1. UNCHANGED status /\ lost \subseteq lost' /\ \A t \in lost' \ lost : RunningIn(Self, t)
    <3>1. CASE SameTurns
      BY <3>1 DEF SameTurns
    <3>2. CASE StartActor
      BY <3>2 DEF StartActor, storeVars
    <3>3. CASE Dropped
      BY <3>3 DEF Dropped, Halt, storeVars
    <3>4. QED
      BY <1>3, <3>1, <3>2, <3>3
  <2>2. active'.turn = active.turn \/ active' = NoActive
    BY <1>3 DEF SameTurns, StartActor, Dropped, Halt
  <2>3. UNCHANGED heard \/ \E t \in Turns : (Mine(t) \/ RunningIn(Self, t)) /\ Publish(t, "open")
    BY <1>3 DEF OpensOnly, Base, RegistersAgree
  <2>4. LastWord' /\ Announced' = Announced
    BY <1>0, <2>1, <2>2, <2>3, SilentSteps
  <2>5. QED
    BY <2>1, <2>4 DEF Contract!contractVars, Announced
<1>4. QED
  BY <1>0, <1>1, <1>2, <1>3 DEF TurnStep

\* The actor implements the contract its clients rely on.
THEOREM ActorKeepsTheContract == ActorSpec => KeepsTheContract
<1>1. ActorInit => LastWord /\ Contract!ContractInit
  BY DEF ActorInit, StoreInit, LastWord, Terminal, Contract!ContractInit
<1>2. Base /\ LastWord /\ [ActorNext]_vars => LastWord' /\ [Contract!ContractNext]_(Contract!contractVars)
  BY ContractStep
<1>3. QED
  BY <1>1, <1>2, BaseInvariant, PTL DEF ActorSpec, KeepsTheContract, Contract!ContractSpec

-----------------------------------------------------------------------------
(* what the log and the transcript say *)

NotedIn(log, t, type) == {log[i].call : i \in {j \in DOMAIN log : log[j].turn = t /\ log[j].type = type}}

\* The calls noted are read off the log.
LEMMA NotedReads == \A t, type : Noted(t, type) = NotedIn(events[Self], t, type)
  BY DEF Noted, NotedIn, TurnEvents

\* An event adds its own call.
LEMMA NotedGrows ==
  ASSUME NEW log \in Seq(Event), NEW e \in Event, NEW t, NEW type
  PROVE  NotedIn(Append(log, e), t, type) =
           NotedIn(log, t, type) \union (IF e.turn = t /\ e.type = type THEN {e.call} ELSE {})
<1> DEFINE new == Append(log, e)
<1>1. /\ Len(log) \in Nat /\ DOMAIN log = 1 .. Len(log) /\ DOMAIN new = 1 .. Len(log) + 1
      /\ \A i \in 1 .. Len(log) : new[i] = log[i]
      /\ new[Len(log) + 1] = e
  BY AppendRow
<1> HIDE DEF new
<1>2. ASSUME NEW c \in NotedIn(new, t, type)
      PROVE  c \in NotedIn(log, t, type) \/ (e.turn = t /\ e.type = type /\ c = e.call)
  <2>1. PICK i \in DOMAIN new : new[i].turn = t /\ new[i].type = type /\ c = new[i].call
    BY <1>2 DEF NotedIn
  <2>2. CASE i = Len(log) + 1
    BY <1>1, <2>1, <2>2
  <2>3. CASE i \in 1 .. Len(log)
    BY <1>1, <2>1, <2>3 DEF NotedIn
  <2>4. QED
    BY <1>1, <2>2, <2>3
<1>3. ASSUME NEW c \in NotedIn(log, t, type) PROVE c \in NotedIn(new, t, type)
  <2>1. PICK i \in DOMAIN log : log[i].turn = t /\ log[i].type = type /\ c = log[i].call
    BY <1>3 DEF NotedIn
  <2>2. i \in DOMAIN new /\ new[i] = log[i]
    BY <1>1
  <2>3. QED
    BY <2>1, <2>2 DEF NotedIn
<1>4. ASSUME e.turn = t, e.type = type PROVE e.call \in NotedIn(new, t, type)
  <2>1. Len(log) + 1 \in DOMAIN new /\ new[Len(log) + 1] = e
    BY <1>1
  <2>2. QED
    BY <1>4, <2>1 DEF NotedIn
<1>5. QED
  BY <1>2, <1>3, <1>4 DEF new

\* Other events add nothing.
LEMMA NotedElse ==
  ASSUME NEW log \in Seq(Event), NEW e \in Event, NEW t, NEW type, e.type # type
  PROVE  NotedIn(Append(log, e), t, type) = NotedIn(log, t, type)
<1> DEFINE extra == IF e.turn = t /\ e.type = type THEN {e.call} ELSE {}
<1>1. NotedIn(Append(log, e), t, type) = NotedIn(log, t, type) \union extra
  BY NotedGrows
<1>2. extra = {}
  OBVIOUS
<1> HIDE DEF extra
<1>3. QED
  BY <1>1, <1>2

SameNotes == \A t \in Turns : Noted(t, "tool.started")' = Noted(t, "tool.started")

\* One event that is no start leaves the starts as they were.
LEMMA OneNote ==
  ASSUME StoreTypeOK, NEW e \in Event, e.type # "tool.started", events' = [events EXCEPT ![Self] = Append(@, e)]
  PROVE  SameNotes
<1>1. events[Self] \in Seq(Event) /\ events'[Self] = Append(events[Self], e)
  BY ActorAssumption DEF StoreTypeOK
<1>2. \A t \in Turns : NotedIn(events'[Self], t, "tool.started") = NotedIn(events[Self], t, "tool.started")
  BY <1>1, NotedElse
<1>3. QED
  BY <1>2 DEF SameNotes, Noted, NotedIn, TurnEvents

\* Two events that are no starts leave the starts as they were.
LEMMA TwoNotes ==
  ASSUME StoreTypeOK, NEW d \in Event, NEW e \in Event, d.type # "tool.started", e.type # "tool.started",
         events' = [events EXCEPT ![Self] = Append(Append(@, d), e)]
  PROVE  SameNotes
<1>1. events[Self] \in Seq(Event)
  BY ActorAssumption DEF StoreTypeOK
<1>2. PICK log \in Seq(Event) : log = Append(events[Self], d)
  BY <1>1, AppendProperties
<1>3. events'[Self] = Append(log, e)
  BY <1>2, ActorAssumption DEF StoreTypeOK
<1>4. \A t \in Turns : NotedIn(log, t, "tool.started") = NotedIn(events[Self], t, "tool.started")
  BY <1>1, <1>2, NotedElse
<1>5. \A t \in Turns : NotedIn(events'[Self], t, "tool.started") = NotedIn(log, t, "tool.started")
  <2>1. log \in Seq(Event)
    BY <1>2
  <2>2. \A t \in Turns : NotedIn(Append(log, e), t, "tool.started") = NotedIn(log, t, "tool.started")
    BY <2>1, NotedElse
  <2>3. QED
    BY <1>3, <2>2
<1>6. QED
  BY <1>4, <1>5 DEF SameNotes, Noted, NotedIn, TurnEvents

\* The events of a message and of a fact, and their types.
LEMMA EventKinds ==
  /\ \A m \in Message : Committed(m) \in Event /\ Committed(m).type = "message.committed"
  /\ \A type \in EventTypes, t \in Turns : Fact(type, t) \in Event /\ Fact(type, t).type = type
  /\ \A type \in EventTypes, t \in Turns, c \in Calls :
       /\ ToolFact(type, t, c) \in Event /\ ToolFact(type, t, c).type = type
       /\ ToolFact(type, t, c).turn = t /\ ToolFact(type, t, c).call = c
  /\ \A type \in EventTypes, t \in Turns, c \in Calls \union {NoCall}, a \in Approvals :
       ApprovalFact(type, t, c, a) \in Event /\ ApprovalFact(type, t, c, a).type = type
<1>1. \A m \in Message : Committed(m) \in Event /\ Committed(m).type = "message.committed"
  BY EmptySeq DEF Committed, Fact, Message, Event, EventTypes
<1>2. \A type \in EventTypes, t \in Turns : Fact(type, t) \in Event /\ Fact(type, t).type = type
  BY EmptySeq DEF Fact, Event, EventTypes
<1>3. \A type \in EventTypes, t \in Turns, c \in Calls :
       /\ ToolFact(type, t, c) \in Event /\ ToolFact(type, t, c).type = type
       /\ ToolFact(type, t, c).turn = t /\ ToolFact(type, t, c).call = c
  BY <1>2 DEF ToolFact, Fact, Event
<1>4. \A type \in EventTypes, t \in Turns, c \in Calls \union {NoCall}, a \in Approvals :
       ApprovalFact(type, t, c, a) \in Event /\ ApprovalFact(type, t, c, a).type = type
  BY <1>2 DEF ApprovalFact, Fact, Event
<1>5. QED
  BY <1>1, <1>2, <1>3, <1>4

\* The messages of a turn.
LEMMA MessageKinds ==
  ASSUME NEW t \in Turns
  PROVE  /\ \A r \in {"user", "assistant", "tool"} :
              /\ Text(r, t) \in Message /\ Text(r, t).turn = t /\ Text(r, t).calls = <<>>
              /\ Text(r, t).kind = "text"
         /\ \A cs \in Seq(Calls) :
              /\ Request(t, cs) \in Message /\ Request(t, cs).turn = t /\ Request(t, cs).calls = cs
              /\ Request(t, cs).kind = "text"
         /\ \A c \in Calls, k \in ResultKinds :
              /\ Result(t, c, k) \in Message /\ Result(t, c, k).turn = t /\ Result(t, c, k).calls = <<>>
              /\ Result(t, c, k).kind = k /\ Result(t, c, k).call = c /\ Result(t, c, k).role = "tool"
<1>1. \A r \in {"user", "assistant", "tool"} :
         /\ Text(r, t) \in Message /\ Text(r, t).turn = t /\ Text(r, t).calls = <<>>
         /\ Text(r, t).kind = "text"
  BY EmptySeq DEF Text, Message
<1>2. \A cs \in Seq(Calls) :
         /\ Request(t, cs) \in Message /\ Request(t, cs).turn = t /\ Request(t, cs).calls = cs
         /\ Request(t, cs).kind = "text"
  BY <1>1 DEF Request, Text, Message
<1>3. \A c \in Calls, k \in ResultKinds :
         /\ Result(t, c, k) \in Message /\ Result(t, c, k).turn = t /\ Result(t, c, k).calls = <<>>
         /\ Result(t, c, k).kind = k /\ Result(t, c, k).call = c /\ Result(t, c, k).role = "tool"
  BY <1>1 DEF Result, Text, Message
<1>4. QED
  BY <1>1, <1>2, <1>3

\* Only tool.started says that a call was started.
LEMMA TransactionsNote ==
  ASSUME StoreTypeOK
  PROVE  /\ \A h : CreateGeneration(Self, h) => SameNotes
         /\ \A t \in Turns : BeginTurn(Self, t) => SameNotes
         /\ \A t \in Turns, cs \in Seq(Calls) : CommitAssistantToolCalls(Self, t, cs) => SameNotes
         /\ \A t \in Turns, c \in Calls, k \in ResultKinds : CommitToolResult(Self, t, c, k) => SameNotes
         /\ \A t \in Turns : CompleteTurn(Self, t) => SameNotes
         /\ \A t \in Turns, k \in Terminal : FinishWithoutMessage(Self, t, k) => SameNotes
         /\ \A e \in Event : e.type # "tool.started" /\ AppendEvent(Self, e) => SameNotes
         /\ UNCHANGED events => SameNotes
<1>1. UNCHANGED events => SameNotes
  BY DEF SameNotes, Noted, TurnEvents
<1>2. \A h : CreateGeneration(Self, h) => SameNotes
  BY <1>1 DEF CreateGeneration
<1>3. ASSUME NEW t \in Turns, BeginTurn(Self, t) PROVE SameNotes
  <2>1. Text("user", t) \in Message /\ "turn.started" \in EventTypes
    BY MessageKinds DEF EventTypes
  <2>2. /\ Fact("turn.started", t) \in Event /\ Fact("turn.started", t).type = "turn.started"
        /\ Committed(Text("user", t)) \in Event /\ Committed(Text("user", t)).type = "message.committed"
    BY <2>1, EventKinds
  <2>3. events' = [events EXCEPT ![Self] = Append(Append(@, Fact("turn.started", t)), Committed(Text("user", t)))]
    BY <1>3 DEF BeginTurn
  <2>4. QED
    BY <2>2, <2>3, TwoNotes
<1>4. ASSUME NEW t \in Turns, NEW cs \in Seq(Calls), CommitAssistantToolCalls(Self, t, cs) PROVE SameNotes
  <2>1. Committed(Request(t, cs)) \in Event /\ Committed(Request(t, cs)).type = "message.committed"
    BY EventKinds, MessageKinds
  <2>2. events' = [events EXCEPT ![Self] = Append(@, Committed(Request(t, cs)))]
    BY <1>4 DEF CommitAssistantToolCalls
  <2>3. QED
    BY <2>1, <2>2, OneNote
<1>5. ASSUME NEW t \in Turns, NEW c \in Calls, NEW k \in ResultKinds, CommitToolResult(Self, t, c, k) PROVE SameNotes
  <2>1. Result(t, c, k) \in Message /\ "tool.completed" \in EventTypes
    BY MessageKinds DEF EventTypes
  <2>2. /\ ToolFact("tool.completed", t, c) \in Event /\ ToolFact("tool.completed", t, c).type = "tool.completed"
        /\ Committed(Result(t, c, k)) \in Event /\ Committed(Result(t, c, k)).type = "message.committed"
    BY <2>1, EventKinds
  <2>3. events' = [events EXCEPT ![Self] = Append(Append(@, ToolFact("tool.completed", t, c)), Committed(Result(t, c, k)))]
    BY <1>5 DEF CommitToolResult, ResultEvents
  <2>4. QED
    BY <2>2, <2>3, TwoNotes
<1>6. ASSUME NEW t \in Turns, CompleteTurn(Self, t) PROVE SameNotes
  <2>1. Text("assistant", t) \in Message /\ "turn.completed" \in EventTypes
    BY MessageKinds DEF EventTypes
  <2>2. /\ Fact("turn.completed", t) \in Event /\ Fact("turn.completed", t).type = "turn.completed"
        /\ Committed(Text("assistant", t)) \in Event /\ Committed(Text("assistant", t)).type = "message.committed"
    BY <2>1, EventKinds
  <2>3. events' = [events EXCEPT ![Self] = Append(Append(@, Committed(Text("assistant", t))), Fact("turn.completed", t))]
    BY <1>6 DEF CompleteTurn
  <2>4. QED
    BY <2>2, <2>3, TwoNotes
<1>7. ASSUME NEW t \in Turns, NEW k \in Terminal, FinishWithoutMessage(Self, t, k) PROVE SameNotes
  <2>1. TerminalEvent(k) \in EventTypes /\ TerminalEvent(k) # "tool.started"
    BY DEF TerminalEvent, EventTypes
  <2>2. Fact(TerminalEvent(k), t) \in Event /\ Fact(TerminalEvent(k), t).type # "tool.started"
    BY <2>1, EventKinds
  <2>3. events' = [events EXCEPT ![Self] = Append(@, Fact(TerminalEvent(k), t))]
    BY <1>7 DEF FinishWithoutMessage
  <2>4. QED
    BY <2>2, <2>3, OneNote
<1>8. \A e \in Event : e.type # "tool.started" /\ AppendEvent(Self, e) => SameNotes
  BY OneNote DEF AppendEvent
<1>9. QED
  BY <1>1, <1>2, <1>3, <1>4, <1>5, <1>6, <1>7, <1>8

-----------------------------------------------------------------------------
(* what a step adds to the story *)

Says(m) == messages' = [messages EXCEPT ![Self] = Append(@, m)]

NoneCompletes == \A t \in Turns : status'[t] = "completed" => status[t] = "completed"
PlanKept == pc' = "recover" => pc = "recover" /\ plan' \subseteq plan /\ UNCHANGED job
GoesOn == InTurn' => InTurn /\ SameCall
Unstarted == UNCHANGED executed /\ SameNotes

\* Nothing is said and nothing is started.
Hushed == Unstarted /\ NoneCompletes /\ PlanKept /\ UNCHANGED messages /\ GoesOn

\* A recovery is planned.
Replans ==
  /\ Unstarted /\ NoneCompletes /\ UNCHANGED messages /\ ~InTurn'
  /\ plan' = PlanRecovery(job'.turn) /\ job'.turn \in Turns /\ UNCHANGED events

\* The batch is done, and the turn goes back to its provider.
Rounds ==
  /\ Unstarted /\ NoneCompletes /\ PlanKept /\ UNCHANGED messages
  /\ InTurn /\ ~HasCurrent /\ active'.turn = active.turn /\ active'.batch = <<>> /\ active'.index = 1

\* A turn begins.
Opens ==
  /\ Unstarted /\ NoneCompletes /\ PlanKept
  /\ \E t \in Turns : ~Begun(t) /\ Says(Text("user", t)) /\ active' = [NoActive EXCEPT !.turn = t]

\* The provider asks for a batch.
Asks ==
  /\ Unstarted /\ NoneCompletes /\ PlanKept /\ InTurn /\ active.batch = <<>>
  /\ \E cs \in Batches :
       /\ Says(Request(active.turn, cs))
       /\ active'.turn = active.turn /\ active'.batch = cs /\ active'.index = 1

\* The result of the current call is committed.
Commits ==
  /\ Unstarted /\ NoneCompletes /\ PlanKept /\ InTurn /\ HasCurrent /\ Cursor \in executed
  /\ Says(Result(active.turn, Cursor.call, "executed"))
  /\ active'.turn = active.turn /\ active'.batch = active.batch /\ active'.rounds = active.rounds
  /\ active'.index = active.index + 1

\* A start is recorded.
Starts ==
  /\ NoneCompletes /\ PlanKept /\ UNCHANGED <<messages, executed>> /\ InTurn /\ HasCurrent /\ SameCall
  /\ AppendEvent(Self, ToolFact("tool.started", active.turn, Cursor.call))

\* The tool whose start was recorded is spawned.
Spawns ==
  /\ NoneCompletes /\ PlanKept /\ UNCHANGED messages /\ InTurn /\ HasCurrent /\ SameCall /\ SameNotes
  /\ executed' = executed \union {Cursor} /\ pc = "spawn" /\ pc' = "recv"

\* The current call is refused.
Rejects ==
  /\ Unstarted /\ NoneCompletes /\ PlanKept /\ InTurn /\ HasCurrent /\ Cursor \notin executed /\ ~InTurn'
  /\ ~HasResult(Self, Cursor.call) /\ Says(Result(active.turn, Cursor.call, "rejected"))

\* The recovery settles a call.
Settles ==
  /\ Unstarted /\ NoneCompletes /\ PlanKept /\ pc = "recover" /\ ~InTurn'
  /\ \E u \in plan : Says(Result(job.turn, u.at.call, u.kind))

\* The provider has the last word.
Concludes ==
  /\ Unstarted /\ PlanKept /\ InTurn /\ active.batch = <<>> /\ ~InTurn'
  /\ Says(Text("assistant", active.turn))
  /\ \A t \in Turns : status'[t] = "completed" => status[t] = "completed" \/ Mine(t)

StoryStep ==
  \/ Hushed \/ Replans \/ Rounds \/ Opens \/ Asks \/ Commits \/ Starts \/ Spawns \/ Rejects \/ Settles
  \/ Concludes

\* What a step needs to go on with the same turn.
LEMMA GoingOn ==
  /\ UNCHANGED <<pc, active>> => GoesOn
  /\ ~Ending /\ SameCall /\ (active'.cancelled <=> active.cancelled) => GoesOn
  /\ ~InTurn' => GoesOn
  /\ pc' \in {"stop", "drain", "finish"} \/ active' = NoActive => ~InTurn'
  BY NoTypes DEF GoesOn, InTurn, SameCall, Idle, Ending

\* A turn is completed by its answer only.
LEMMA NoneCompleted ==
  ASSUME StoreTypeOK
  PROVE  /\ UNCHANGED status => NoneCompletes
         /\ \A t \in Turns : BeginTurn(Self, t) => NoneCompletes
         /\ \A t \in Turns : \A k : k # "completed" /\ FinishWithoutMessage(Self, t, k) => NoneCompletes
  BY DEF NoneCompletes, StoreTypeOK, BeginTurn, FinishWithoutMessage

\* The store is not written, or fails.
LEMMA Unchanging ==
  ASSUME StoreTypeOK, UNCHANGED storeVars \/ \E can : Fails(can), UNCHANGED executed
  PROVE  Unstarted /\ NoneCompletes /\ UNCHANGED <<messages, events, status>>
<1>1. UNCHANGED <<messages, events, status>>
  BY DEF Fails, storeVars
<1>2. QED
  BY <1>1, TransactionsNote, NoneCompleted DEF Unstarted

\* Most steps say nothing in the transcript.
LEMMA IdleStory ==
  ASSUME Base, Work,
         Tasks \/ Commands \/ UNCHANGED vars \/ Crash \/ HandleSubmit \/ HandleInterrupt \/ HandleClose
           \/ HandleResume \/ HandleResolve \/ HandleDelta \/ HandleWorkerEnd \/ RefuseCall \/ Stop \/ Drain
  PROVE  Hushed
<1> USE Unchanging, GoingOn DEF Base, Typed, Hushed, PlanKept, Ending
<1>1. CASE Tasks
  <2>1. TaskStep
    BY <1>1 DEF Tasks, ProviderStreams, ProviderEnds, ToolEnds, WaiterEnds, DeadlineOf
  <2>2. UNCHANGED <<storeVars, executed, pc, active, plan, job>>
    BY <2>1 DEF TaskStep, memoryVars, historyVars
  <2>3. QED
    BY <2>2
<1>2. CASE Commands
  <2>1. \E m : Command(m)
    BY <1>2 DEF Commands, SendSubmit, SendInterrupt, SendClose, SendResume, SendResolve
  <2>2. UNCHANGED <<storeVars, executed, pc, active, plan, job>>
    BY <2>1 DEF Command, memoryVars, historyVars
  <2>3. QED
    BY <2>2
<1>3. CASE UNCHANGED vars
  <2>1. UNCHANGED <<storeVars, executed, pc, active, plan, job>>
    BY <1>3 DEF vars, memoryVars, historyVars
  <2>2. QED
    BY <2>1
<1>4. CASE Crash
  <2>1. UNCHANGED <<storeVars, executed>> /\ active' = NoActive /\ pc' = "stopped"
    BY <1>4 DEF Crash, Halt
  <2>2. QED
    BY <2>1
<1>5. CASE HandleSubmit
  <2>1. UNCHANGED <<executed, active>> /\ pc = "recv" /\ pc' \in {"recv", "begin"}
    BY <1>5 DEF HandleSubmit, Receive, memoryVars, historyVars
  <2>2. GoesOn
    BY <2>1 DEF GoesOn, InTurn, SameCall, Idle
  <2>3. CASE UNCHANGED storeVars \/ \E can : Fails(can)
    BY <2>1, <2>2, <2>3
  <2>4. CASE CreateGeneration(Self, schema)
    <3>1. SameNotes /\ UNCHANGED <<messages, status>>
      BY <2>4, TransactionsNote DEF CreateGeneration
    <3>2. QED
      BY <2>1, <2>2, <3>1, NoneCompleted DEF Unstarted
  <2>5. QED
    BY <1>5, <2>3, <2>4 DEF HandleSubmit
<1>6. CASE HandleInterrupt \/ HandleWorkerEnd
  <2>1. /\ UNCHANGED <<storeVars, executed, active>> /\ pc = "recv"
        /\ pc' \in {"recv", "stop"}
    BY <1>6 DEF HandleInterrupt, HandleWorkerEnd, Receive, actorOnly, historyVars, End
  <2>2. QED
    BY <2>1
<1>7. CASE HandleClose
  <2>1. UNCHANGED <<storeVars, executed>> /\ (pc' = "stop" \/ (pc' = "stopped" /\ active' = NoActive))
    BY <1>7 DEF HandleClose, Halt, End, historyVars
  <2>2. QED
    BY <2>1
<1>8. CASE HandleResume \/ HandleResolve \/ HandleDelta
  <2>1. UNCHANGED <<storeVars, executed, active, pc>> /\ pc = "recv"
    BY <1>8 DEF HandleResume, HandleResolve, HandleDelta, Receive, memoryVars, historyVars
  <2>2. QED
    BY <2>1
<1>9. CASE RefuseCall
  <2>1. UNCHANGED <<storeVars, executed, active>> /\ pc' = "reject" /\ pc = "advance"
    BY <1>9 DEF RefuseCall, memoryVars, historyVars
  <2>2. SameCall
    BY <2>1 DEF SameCall
  <2>3. QED
    BY <2>1, <2>2
<1>10. CASE Stop \/ Drain
  <2>1. UNCHANGED <<storeVars, executed>> /\ pc' \in {"drain", "finish"}
    BY <1>10 DEF Stop, Drain, historyVars
  <2>2. QED
    BY <2>1
<1>11. QED
  BY <1>1, <1>2, <1>3, <1>4, <1>5, <1>6, <1>7, <1>8, <1>9, <1>10

\* Start and recovery.
LEMMA RecoveryStory ==
  ASSUME Base, Work, StartActor \/ RecoverTool \/ RecoverEnd PROVE StoryStep
<1>0. /\ Idle /\ StoreTypeOK /\ UNCHANGED <<active, executed>> /\ ~InTurn'
      /\ plan \subseteq [at : [event : Nat, slot : Nat, call : Calls], kind : Verdicts]
      /\ pc = "recover" => job.turn \in Turns
  BY DEF StartActor, RecoverTool, RecoverEnd, Base, Typed, Shape, MemoryTypeOK, InTurn, Idle
<1>1. GoesOn
  BY <1>0, GoingOn
<1>2. CASE StartActor
  <2>1. UNCHANGED storeVars \/ \E can : Fails(can)
    BY <1>2 DEF StartActor
  <2>2. Unstarted /\ NoneCompletes /\ UNCHANGED <<messages, events>>
    BY <1>0, <2>1, Unchanging
  <2>3. CASE pc' = "recv"
    BY <1>0, <1>1, <2>2, <2>3 DEF StoryStep, Hushed, PlanKept
  <2>4. CASE \E t \in Turns : job' = [NoJob EXCEPT !.turn = t] /\ plan' = PlanRecovery(t)
    <3>1. PICK t \in Turns : job' = [NoJob EXCEPT !.turn = t] /\ plan' = PlanRecovery(t)
      BY <2>4
    <3>2. job'.turn = t
      BY <3>1 DEF NoJob
    <3>3. QED
      BY <1>0, <2>2, <3>1, <3>2 DEF StoryStep, Replans
  <2>5. QED
    BY <1>2, <2>3, <2>4 DEF StartActor
<1>3. CASE RecoverTool
  <2>1. PICK u \in plan :
           \/ /\ CommitToolResult(Self, job.turn, u.at.call, u.kind)
              /\ plan' = plan \ {u}
              /\ UNCHANGED <<pc, job>>
           \/ Fails(CanCommitResult(Self, job.turn, u.at.call)) /\ GiveUp
    BY <1>3 DEF RecoverTool
  <2>2. pc = "recover" /\ job.turn \in Turns /\ u.at.call \in Calls /\ u.kind \in ResultKinds
    BY <1>0, <1>3 DEF RecoverTool, ResultKinds
  <2>3. CASE CommitToolResult(Self, job.turn, u.at.call, u.kind) /\ plan' = plan \ {u} /\ UNCHANGED <<pc, job>>
    <3>1. Unstarted
      BY <1>0, <2>2, <2>3, TransactionsNote DEF Unstarted
    <3>2. NoneCompletes
      BY <1>0, <2>3, StoreLeavesTurns, NoneCompleted
    <3>3. Says(Result(job.turn, u.at.call, u.kind))
      BY <2>3 DEF Says, CommitToolResult
    <3>4. QED
      BY <1>0, <2>2, <2>3, <3>1, <3>2, <3>3 DEF StoryStep, Settles, PlanKept
  <2>4. CASE Fails(CanCommitResult(Self, job.turn, u.at.call)) /\ GiveUp
    <3>1. Unstarted /\ NoneCompletes /\ UNCHANGED messages
      BY <1>0, <2>4, Unchanging
    <3>2. pc' = "recv"
      BY <2>4 DEF GiveUp, LeaveRecovery
    <3>3. QED
      BY <1>1, <3>1, <3>2 DEF StoryStep, Hushed, PlanKept
  <2>5. QED
    BY <2>1, <2>3, <2>4
<1>4. CASE RecoverEnd
  <2>1. pc = "recover" /\ pc' = "recv" /\ job.turn \in Turns
    BY <1>0, <1>4 DEF RecoverEnd, GiveUp, LeaveRecovery
  <2>2. Unstarted /\ NoneCompletes /\ UNCHANGED messages
    <3>1. CASE FinishWithoutMessage(Self, job.turn, "failed")
      <4>1. SameNotes
        BY <1>0, <2>1, <3>1, TransactionsNote DEF Terminal
      <4>2. NoneCompletes
        BY <1>0, <2>1, <3>1, NoneCompleted
      <4>3. QED
        BY <1>0, <3>1, <4>1, <4>2 DEF Unstarted, FinishWithoutMessage
    <3>2. CASE \E can : Fails(can)
      BY <1>0, <3>2, Unchanging
    <3>3. QED
      BY <1>4, <3>1, <3>2 DEF RecoverEnd
  <2>3. QED
    BY <1>1, <2>1, <2>2 DEF StoryStep, Hushed, PlanKept
<1>5. QED
  BY <1>2, <1>3, <1>4

\* The beginning and the end of a turn.
LEMMA BeginStory == ASSUME Base, Work, BeginPrompt PROVE StoryStep
<1>0. Idle /\ StoreTypeOK /\ UNCHANGED executed /\ pc' = "recv"
  BY DEF BeginPrompt, Base, Typed, Shape
<1>1. CASE UNCHANGED active /\ \E can : Fails(can)
  <2>1. ~InTurn'
    BY <1>0, <1>1 DEF InTurn, Idle
  <2>2. GoesOn
    BY <2>1, GoingOn
  <2>3. Unstarted /\ NoneCompletes /\ UNCHANGED messages
    BY <1>0, <1>1, Unchanging
  <2>4. QED
    BY <1>0, <2>2, <2>3 DEF StoryStep, Hushed, PlanKept
<1>2. CASE \E t \in Turns : BeginTurn(Self, t) /\ active' = [NoActive EXCEPT !.turn = t]
  <2>1. PICK t \in Turns : BeginTurn(Self, t) /\ active' = [NoActive EXCEPT !.turn = t]
    BY <1>2
  <2>2. Unstarted
    BY <1>0, <2>1, TransactionsNote DEF Unstarted
  <2>3. NoneCompletes
    BY <1>0, <2>1, NoneCompleted
  <2>4. ~Begun(t) /\ Says(Text("user", t))
    BY <2>1 DEF BeginTurn, CanBegin, Begun, Says
  <2>5. QED
    BY <1>0, <2>1, <2>2, <2>3, <2>4 DEF StoryStep, Opens, PlanKept
<1>3. QED
  BY <1>1, <1>2 DEF BeginPrompt

\* Ending a turn concludes its transcript.
LEMMA FinishStory == ASSUME Base, Work, Finish PROVE StoryStep
<1>0. /\ active.turn \in Turns /\ job.kind \in Terminal /\ StoreTypeOK /\ pc = "finish"
      /\ pc' \in {"recv", "stopped"} /\ UNCHANGED executed
  <2>1. pc = "finish"
    BY DEF Finish
  <2>2. active.turn \in Turns /\ job.kind \in Terminal /\ StoreTypeOK
    BY <2>1 DEF Base, Typed, Shape, MemoryTypeOK, Ending, Idle
  <2>3. pc' \in {"recv", "stopped"} /\ UNCHANGED executed
    BY DEF Finish, Leave, Halt
  <2>4. QED
    BY <2>1, <2>2, <2>3
<1>1. ~InTurn'
  <2>1. CASE active' = NoActive
    BY <2>1, GoingOn
  <2>2. CASE active' # NoActive
    <3>1. active' = active /\ job.kind # "completed"
      BY <2>2 DEF Finish, Leave, Halt
    <3>2. active.cancelled
      BY <1>0, <3>1 DEF Work, Tasked
    <3>3. QED
      BY <3>1, <3>2 DEF InTurn
  <2>3. QED
    BY <2>1, <2>2
<1>2. Unstarted /\ NoneCompletes /\ UNCHANGED messages
  <2>1. CASE UNCHANGED storeVars \/ \E can : Fails(can)
    BY <1>0, <2>1, Unchanging
  <2>2. CASE job.kind # "completed" /\ FinishWithoutMessage(Self, active.turn, job.kind)
    <3>1. SameNotes
      BY <1>0, <2>2, TransactionsNote
    <3>2. NoneCompletes
      BY <1>0, <2>2, NoneCompleted
    <3>3. QED
      BY <1>0, <2>2, <3>1, <3>2 DEF Unstarted, FinishWithoutMessage
  <2>3. QED
    BY <2>1, <2>2 DEF Finish
<1>3. GoesOn
  BY <1>1, GoingOn
<1>4. QED
  BY <1>0, <1>2, <1>3 DEF StoryStep, Hushed, PlanKept

\* The answer at the head of the mailbox is the one the turn waits for.
LEMMA Awaited ==
  ASSUME Base, Work, NEW type, Receive(type), Live(Head(mailbox).turn), type \in AnswerTypes \union {"result"}
  PROVE  /\ InTurn /\ active.turn = Head(mailbox).turn /\ active.turn \in Turns
         /\ type \in AnswerTypes => active.batch = <<>>
         /\ type = "result" => HasCurrent /\ Head(mailbox).call = Cursor.call /\ Cursor \in executed
<1>1. /\ pc = "recv" /\ mailbox # <<>> /\ Head(mailbox) \in Inputs /\ Head(mailbox).type = type
      /\ mailbox \in Seq(Inputs) /\ mailbox' = Tail(mailbox)
  BY ReceivedTyped DEF Base, Typed, MemoryTypeOK, Receive
<1>2. Head(mailbox) = mailbox[1] /\ 1 \in DOMAIN mailbox
  BY <1>1, Taken
<1>3. Head(mailbox).turn \in Turns
  BY <1>1, InputFields DEF AnswerTypes
<1>4. InTurn /\ active.turn = Head(mailbox).turn
  BY <1>1, <1>3, IdAssumption DEF InTurn, Live, Mine, Idle, Ending
<1>5. /\ type \in AnswerTypes => Answer(mailbox[1])
      /\ type = "result" => ToolAnswer(mailbox[1])
  BY <1>1, <1>2, <1>4 DEF Answer, ToolAnswer
<1>6. /\ type \in AnswerTypes => active.batch = <<>>
      /\ type = "result" => HasCurrent /\ mailbox[1].call = Cursor.call /\ Cursor \in executed
  BY <1>2, <1>4, <1>5 DEF Work, Token
<1>7. QED
  BY <1>2, <1>3, <1>4, <1>6

\* What the provider and the tool answer.
LEMMA FinalStory == ASSUME Base, Work, HandleFinal PROVE StoryStep
<1> DEFINE t == Head(mailbox).turn
<1>0. Receive("final") /\ pc = "recv" /\ StoreTypeOK /\ UNCHANGED <<executed, active>>
  BY DEF HandleFinal, Receive, Base, Typed, historyVars, actorOnly
<1>1. CASE UNCHANGED pc /\ (UNCHANGED storeVars \/ \E can : Fails(can))
  <2>1. Unstarted /\ NoneCompletes /\ UNCHANGED messages
    BY <1>0, <1>1, Unchanging
  <2>2. GoesOn
    BY <1>0, <1>1, GoingOn
  <2>3. QED
    BY <1>0, <1>1, <2>1, <2>2 DEF StoryStep, Hushed, PlanKept
<1>2. CASE Live(t) /\ CompleteTurn(Self, t) /\ End("completed", FALSE)
  <2>1. InTurn /\ active.turn = t /\ t \in Turns /\ active.batch = <<>>
    BY <1>0, <1>2, Awaited DEF AnswerTypes
  <2>2. Unstarted
    BY <1>0, <1>2, <2>1, TransactionsNote DEF Unstarted
  <2>3. pc' = "stop" /\ ~InTurn'
    BY <1>2, GoingOn DEF End
  <2>4. Says(Text("assistant", active.turn))
    BY <1>2, <2>1 DEF CompleteTurn, Says
  <2>5. \A u \in Turns : status'[u] = "completed" => status[u] = "completed" \/ Mine(u)
    BY <1>0, <1>2, <2>1 DEF CompleteTurn, StoreTypeOK, Mine
  <2>6. QED
    BY <2>1, <2>2, <2>3, <2>4, <2>5 DEF StoryStep, Concludes, PlanKept
<1>3. QED
  BY <1>1, <1>2 DEF HandleFinal

\* A batch of calls opens a round in the transcript.
LEMMA CallsStory == ASSUME Base, Work, HandleCalls PROVE StoryStep
<1> DEFINE t == Head(mailbox).turn
           cs == Head(mailbox).calls
<1>0. Receive("calls") /\ pc = "recv" /\ StoreTypeOK /\ UNCHANGED executed /\ cs \in Batches \union {<<>>}
  BY ReceivedTyped, InputFields DEF HandleCalls, Receive, Base, Typed
<1>1. CASE UNCHANGED active /\ (UNCHANGED pc \/ pc' = "stop") /\ (UNCHANGED storeVars \/ \E can : Fails(can))
  <2>1. Unstarted /\ NoneCompletes /\ UNCHANGED messages
    BY <1>0, <1>1, Unchanging
  <2>2. GoesOn
    BY <1>0, <1>1, GoingOn
  <2>3. QED
    BY <1>0, <1>1, <2>1, <2>2 DEF StoryStep, Hushed, PlanKept
<1>2. CASE /\ Live(t) /\ cs # <<>> /\ CommitAssistantToolCalls(Self, t, cs) /\ pc' = "advance"
           /\ active' = [active EXCEPT !.rounds = @ + 1, !.batch = cs, !.index = 1,
                                       !.approved = FALSE, !.awaiting = FALSE]
  <2>1. InTurn /\ active.turn = t /\ t \in Turns /\ active.batch = <<>>
    BY <1>0, <1>2, Awaited DEF AnswerTypes
  <2>2. cs \in Batches /\ cs \in Seq(Calls)
    BY <1>0, <1>2, StoreAssumption
  <2>3. SameNotes
    BY <1>0, <1>2, <2>1, <2>2, TransactionsNote
  <2>4. NoneCompletes
    BY <1>0, <1>2, StoreLeavesTurns, NoneCompleted
  <2>5. Says(Request(active.turn, cs))
    BY <1>2, <2>1 DEF CommitAssistantToolCalls, Says
  <2>6. active'.turn = active.turn /\ active'.batch = cs /\ active'.index = 1
    BY <1>2 DEF Base, Typed, MemoryTypeOK
  <2> HIDE DEF t, cs
  <2>7. QED
    BY <1>0, <1>2, <2>1, <2>2, <2>3, <2>4, <2>5, <2>6 DEF StoryStep, Asks, PlanKept, Unstarted
<1>3. QED
  BY <1>1, <1>2 DEF HandleCalls, End

\* The result of a tool settles the call that runs.
LEMMA ResultStory == ASSUME Base, Work, HandleResult PROVE StoryStep
<1> DEFINE t == Head(mailbox).turn
           c == Head(mailbox).call
<1>0. Receive("result") /\ pc = "recv" /\ StoreTypeOK /\ UNCHANGED executed /\ c \in Calls
  BY ReceivedTyped, InputFields DEF HandleResult, Receive, Base, Typed
<1>1. CASE UNCHANGED active /\ (UNCHANGED pc \/ pc' = "stop") /\ (UNCHANGED storeVars \/ \E can : Fails(can))
  <2>1. Unstarted /\ NoneCompletes /\ UNCHANGED messages
    BY <1>0, <1>1, Unchanging
  <2>2. GoesOn
    BY <1>0, <1>1, GoingOn
  <2>3. QED
    BY <1>0, <1>1, <2>1, <2>2 DEF StoryStep, Hushed, PlanKept
<1>2. CASE Live(t) /\ CommitToolResult(Self, t, c, "executed") /\ active' = CompleteCurrent /\ pc' = "advance"
  <2>1. InTurn /\ active.turn = t /\ t \in Turns /\ HasCurrent /\ c = Cursor.call /\ Cursor \in executed
    BY <1>0, <1>2, Awaited
  <2>2. "executed" \in ResultKinds
    BY DEF ResultKinds
  <2>3. SameNotes
    BY <1>0, <1>2, <2>1, <2>2, TransactionsNote
  <2>4. NoneCompletes
    BY <1>0, <1>2, StoreLeavesTurns, NoneCompleted
  <2>5. Says(Result(active.turn, Cursor.call, "executed"))
    BY <1>2, <2>1 DEF CommitToolResult, Says
  <2>6. /\ active'.turn = active.turn /\ active'.batch = active.batch /\ active'.rounds = active.rounds
        /\ active'.index = active.index + 1
    BY <1>2 DEF CompleteCurrent, Base, Typed, MemoryTypeOK
  <2> HIDE DEF t, c
  <2>7. QED
    BY <1>0, <1>2, <2>1, <2>3, <2>4, <2>5, <2>6 DEF StoryStep, Commits, PlanKept, Unstarted
<1>3. QED
  BY <1>1, <1>2 DEF HandleResult, End

\* The outcome of an approval is noted, and a refusal says so.
LEMMA OutcomeStory == ASSUME Base, Work, HandleOutcome PROVE StoryStep
<1>0. /\ Receive("outcome") /\ pc = "recv" /\ StoreTypeOK /\ UNCHANGED executed
      /\ Head(mailbox).approval \in Approvals /\ Head(mailbox).turn \in Turns
      /\ pc' \in {"recv", "advance", "reject"}
  BY ReceivedTyped, InputFields DEF HandleOutcome, Receive, Base, Typed
<1>1. SameCall /\ (active'.cancelled <=> active.cancelled)
  BY DEF HandleOutcome, SameCall, Base, Typed, MemoryTypeOK
<1>2. GoesOn
  BY <1>0, <1>1, GoingOn DEF Ending
<1>3. CASE UNCHANGED storeVars \/ \E can : Fails(can)
  <2>1. Unstarted /\ NoneCompletes /\ UNCHANGED messages
    BY <1>0, <1>3, Unchanging
  <2>2. QED
    BY <1>0, <1>2, <2>1 DEF StoryStep, Hushed, PlanKept
<1>4. CASE \E type \in {"approval.resolved", "approval.timed_out"} :
              AppendEvent(Self, ApprovalFact(type, Head(mailbox).turn, NoCall, Head(mailbox).approval))
  <2>1. PICK type \in {"approval.resolved", "approval.timed_out"} :
           AppendEvent(Self, ApprovalFact(type, Head(mailbox).turn, NoCall, Head(mailbox).approval))
    BY <1>4
  <2>2. type \in EventTypes /\ type # "tool.started"
    BY DEF EventTypes
  <2>3. ASSUME NEW t \in Turns, NEW a \in Approvals
        PROVE  ApprovalFact(type, t, NoCall, a) \in Event /\ ApprovalFact(type, t, NoCall, a).type # "tool.started"
    BY <2>2, EventKinds
  <2>4. SameNotes
    BY <1>0, <2>1, <2>3, TransactionsNote
  <2>5. NoneCompletes /\ UNCHANGED messages
    BY <1>0, <2>1, NoneCompleted DEF AppendEvent
  <2>6. QED
    BY <1>0, <1>2, <2>4, <2>5 DEF StoryStep, Hushed, PlanKept, Unstarted
<1>5. QED
  BY <1>3, <1>4 DEF HandleOutcome

\* The steps through a batch.
LEMMA NextRoundStory == ASSUME Base, Work, NextRound PROVE StoryStep
<1>1. /\ pc = "advance" /\ Live(active.turn) /\ ~HasCurrent /\ StoreTypeOK /\ UNCHANGED executed
      /\ pc' \in {"recv", "stop"} /\ (UNCHANGED storeVars \/ \E can : Fails(can))
  BY DEF NextRound, BatchDone, End, historyVars, Base, Typed
<1>2. active'.turn = active.turn /\ active'.batch = <<>> /\ active'.index = 1
  BY DEF NextRound, Base, Typed, MemoryTypeOK
<1>3. InTurn
  BY <1>1, Advancing
<1>4. Unstarted /\ NoneCompletes /\ UNCHANGED messages
  BY <1>1, Unchanging
<1>5. QED
  BY <1>1, <1>2, <1>3, <1>4 DEF StoryStep, Rounds, PlanKept

\* A start is noted before the tool runs.
LEMMA StartToolStory == ASSUME Base, Work, StartTool PROVE StoryStep
<1>1. /\ pc = "advance" /\ Live(active.turn) /\ HasCurrent /\ StoreTypeOK /\ pc' \in {"spawn", "stop"}
      /\ UNCHANGED executed
  BY DEF StartTool, End, Base, Typed, historyVars
<1>2. SameCall
  BY DEF StartTool, SameCall, Base, Typed, MemoryTypeOK
<1>3. InTurn
  BY <1>1, Advancing
<1>4. CASE AppendEvent(Self, ToolFact("tool.started", active.turn, Cursor.call))
  <2>1. NoneCompletes /\ UNCHANGED messages
    BY <1>1, <1>4, NoneCompleted DEF AppendEvent
  <2>2. QED
    BY <1>1, <1>2, <1>3, <1>4, <2>1 DEF StoryStep, Starts, PlanKept
<1>5. CASE (\E can : Fails(can)) /\ pc' = "stop"
  <2>1. Unstarted /\ NoneCompletes /\ UNCHANGED messages
    BY <1>1, <1>5, Unchanging
  <2>2. GoesOn
    BY <1>5, GoingOn
  <2>3. QED
    BY <1>5, <2>1, <2>2 DEF StoryStep, Hushed, PlanKept
<1>6. QED
  BY <1>4, <1>5 DEF StartTool, End

\* The tool runs after its start was noted.
LEMMA SpawnToolStory == ASSUME Base, Work, SpawnTool PROVE StoryStep
<1>1. /\ pc = "spawn" /\ pc' = "recv" /\ StoreTypeOK /\ HasCurrent
      /\ UNCHANGED <<storeVars, active>> /\ executed' = executed \union {Cursor}
  BY DEF SpawnTool, Base, Typed, Shape, memoryVars
<1>2. InTurn /\ SameCall
  BY <1>1, Advancing DEF SameCall
<1>3. UNCHANGED <<messages, events, status>>
  BY <1>1 DEF storeVars
<1>4. SameNotes /\ NoneCompletes
  BY <1>1, <1>3, TransactionsNote, NoneCompleted
<1>5. QED
  BY <1>1, <1>2, <1>3, <1>4 DEF StoryStep, Spawns, PlanKept

\* A question is noted before it is asked.
LEMMA AskStory == ASSUME Base, Work, AskApproval PROVE StoryStep
<1>0. pc = "advance" /\ HasCurrent /\ StoreTypeOK /\ UNCHANGED executed /\ pc' \in {"recv", "stop"}
  BY DEF AskApproval, End, Base, Typed
<1>1. PICK a \in Approvals :
         /\ active' = [active EXCEPT !.approval = a, !.awaiting = TRUE]
         /\ \/ AppendEvent(Self, ApprovalFact("approval.requested", active.turn, Cursor.call, a))
            \/ Fails(TRUE)
  BY DEF AskApproval
<1>2. SameCall /\ (active'.cancelled <=> active.cancelled)
  BY <1>1 DEF SameCall, Base, Typed, MemoryTypeOK
<1>3. GoesOn
  BY <1>0, <1>2, GoingOn DEF Ending
<1>4. CASE Fails(TRUE)
  <2>1. Unstarted /\ NoneCompletes /\ UNCHANGED messages
    BY <1>0, <1>4, Unchanging
  <2>2. QED
    BY <1>0, <1>3, <2>1 DEF StoryStep, Hushed, PlanKept
<1>5. CASE AppendEvent(Self, ApprovalFact("approval.requested", active.turn, Cursor.call, a))
  <2>1. active.turn \in Turns /\ Cursor.call \in Calls
    BY <1>0, CursorTyped DEF Base, Typed, Positions
  <2>2. "approval.requested" \in EventTypes
    BY DEF EventTypes
  <2>3. /\ ApprovalFact("approval.requested", active.turn, Cursor.call, a) \in Event
        /\ ApprovalFact("approval.requested", active.turn, Cursor.call, a).type # "tool.started"
    BY <2>1, <2>2, EventKinds
  <2>4. SameNotes
    BY <1>0, <1>5, <2>3, TransactionsNote
  <2>5. NoneCompletes /\ UNCHANGED messages
    BY <1>0, <1>5, NoneCompleted DEF AppendEvent
  <2>6. QED
    BY <1>0, <1>3, <2>4, <2>5 DEF StoryStep, Hushed, PlanKept, Unstarted
<1>6. QED
  BY <1>1, <1>4, <1>5

\* A call that is not allowed is told so, and does not run.
LEMMA RejectStory == ASSUME Base, Work, RejectTool PROVE StoryStep
<1>0. /\ pc = "reject" /\ HasCurrent /\ StoreTypeOK /\ UNCHANGED executed /\ pc' = "stop"
  BY DEF RejectTool, End, Base, Typed
<1>1. /\ active.turn \in Turns /\ Cursor.call \in Calls
  BY <1>0, CursorTyped DEF Base, Typed, Positions
<1>2. InTurn
  BY <1>0, <1>1, IdAssumption DEF InTurn, Idle, Ending, Work, Tasked
<1>3. Cursor \notin executed
  BY <1>0, <1>2 DEF Work, Token
<1>4. ~InTurn'
  BY <1>0, GoingOn
<1>5. CASE CommitToolResult(Self, active.turn, Cursor.call, "rejected")
  <2>1. "rejected" \in ResultKinds
    BY DEF ResultKinds
  <2>2. SameNotes
    BY <1>0, <1>1, <1>5, <2>1, TransactionsNote
  <2>3. NoneCompletes
    BY <1>0, <1>5, StoreLeavesTurns, NoneCompleted
  <2>4. Says(Result(active.turn, Cursor.call, "rejected")) /\ ~HasResult(Self, Cursor.call)
    BY <1>5 DEF CommitToolResult, CanCommitResult, Says
  <2>5. QED
    BY <1>0, <1>2, <1>3, <1>4, <2>2, <2>3, <2>4 DEF StoryStep, Rejects, PlanKept, Unstarted
<1>6. CASE \E can : Fails(can)
  <2>1. Unstarted /\ NoneCompletes /\ UNCHANGED messages
    BY <1>0, <1>6, Unchanging
  <2>2. GoesOn
    BY <1>4, GoingOn
  <2>3. QED
    BY <1>0, <2>1, <2>2 DEF StoryStep, Hushed, PlanKept
<1>7. QED
  BY <1>5, <1>6 DEF RejectTool

\* Every step tells the transcript one of a few things.
LEMMA StorySteps == ASSUME Base, Work, [ActorNext]_vars PROVE StoryStep
<1>1. CASE Tasks \/ Commands \/ UNCHANGED vars \/ Crash \/ HandleSubmit \/ HandleInterrupt \/ HandleClose
           \/ HandleResume \/ HandleResolve \/ HandleDelta \/ HandleWorkerEnd \/ RefuseCall \/ Stop \/ Drain
  BY <1>1, IdleStory DEF StoryStep
<1>2. CASE StartActor \/ RecoverTool \/ RecoverEnd \/ BeginPrompt \/ Finish
  BY <1>2, RecoveryStory, BeginStory, FinishStory
<1>3. CASE HandleFinal \/ HandleCalls \/ HandleResult \/ HandleOutcome
  BY <1>3, FinalStory, CallsStory, ResultStory, OutcomeStory
<1>4. CASE NextRound \/ StartTool \/ SpawnTool \/ AskApproval \/ RejectTool
  BY <1>4, NextRoundStory, StartToolStory, SpawnToolStory, AskStory, RejectStory
<1>5. QED
  BY <1>1, <1>2, <1>3, <1>4 DEF ActorNext, Handlers

-----------------------------------------------------------------------------
(* what the transcript says of a call is what happened to it *)

\* A message goes to the end of the transcript.
LEMMA Spoken ==
  ASSUME StoreTypeOK, NEW m \in Message, Says(m)
  PROVE  /\ messages[Self] \in Seq(Message) /\ Len(messages[Self]) \in Nat
         /\ DOMAIN messages[Self] = 1 .. Len(messages[Self])
         /\ DOMAIN messages'[Self] = 1 .. Len(messages[Self]) + 1
         /\ \A i \in DOMAIN messages[Self] : messages'[Self][i] = messages[Self][i]
         /\ messages'[Self][Len(messages[Self]) + 1] = m
<1>1. messages[Self] \in Seq(Message) /\ messages'[Self] = Append(messages[Self], m)
  BY ActorAssumption DEF StoreTypeOK, Says
<1>2. QED
  BY <1>1, AppendRow

\* Messages are added, never changed.
LEMMA StoryGrows ==
  ASSUME Base, StoryStep
  PROVE  \/ UNCHANGED messages
         \/ \E m \in Message : Says(m)
<1>1. active.turn \in Turns \union {NoTurn} /\ (InTurn => active.turn \in Turns)
  BY DEF InTurn, Idle, Base, Typed, MemoryTypeOK
<1>2. HasCurrent => Cursor.call \in Calls
  BY CursorTyped DEF Base, Typed, Positions
<1>3. CASE Opens
  BY <1>3, MessageKinds DEF Opens
<1>4. CASE Asks
  <2>1. Batches \subseteq Seq(Calls)
    BY StoreAssumption
  <2>2. QED
    BY <1>1, <1>4, <2>1, MessageKinds DEF Asks
<1>5. CASE Commits \/ Rejects
  BY <1>1, <1>2, <1>5, MessageKinds DEF Commits, Rejects, ResultKinds
<1>6. CASE Settles
  BY <1>6, MessageKinds, ZenonT(30) DEF Settles, ResultKinds, Base, Typed, MemoryTypeOK, Shape
<1>7. CASE Concludes
  BY <1>1, <1>7, MessageKinds DEF Concludes
<1>8. QED
  BY <1>3, <1>4, <1>5, <1>6, <1>7 DEF StoryStep, Hushed, Replans, Rounds, Starts, Spawns

\* A result that is written stays.
LEMMA ResultsStay ==
  ASSUME Base, StoryStep, NEW c, HasResult(Self, c) PROVE HasResult(Self, c)'
<1>1. CASE UNCHANGED messages
  BY <1>1 DEF HasResult
<1>2. CASE \E m \in Message : Says(m)
  BY <1>2, Spoken DEF HasResult, Base, Typed
<1>3. QED
  BY <1>1, <1>2, StoryGrows

Ran(t, c) == \E p \in executed : p.turn = t /\ p.call = c
Refusals == {"rejected", "approval_interrupted", "not_executed"}

Started(t, c) == c \in Noted(t, "tool.started")

\* The log notes the start of every call that ran, and of the one that is
\* about to run.
NotesTell ==
  /\ \A t \in Turns, c \in Calls : Ran(t, c) => Started(t, c)
  /\ pc = "spawn" => Started(active.turn, Cursor.call)

\* What was started in the active turn has its result, or is running now.
OwnResults ==
  InTurn => \A p \in executed : Mine(p.turn) => HasResult(Self, p.call) \/ (HasCurrent /\ p = Cursor)

\* A verdict is right when it is planned, and until it is written.
PlanIsRight == pc = "recover" => \A u \in plan : u.kind = "unknown" <=> Started(job.turn, u.at.call)

\* No call of the active turn was refused: a refusal ends the turn.
Unrefused ==
  \A i \in DOMAIN messages[Self] :
    messages[Self][i].kind \in Refusals => ~(InTurn /\ Mine(messages[Self][i].turn))

Truth == NotesTell /\ OwnResults /\ PlanIsRight /\ Unrefused /\ TranscriptTellsTheTruth

\* What has run stays run, and its start stays noted.
LEMMA RanStays == ASSUME StoryStep PROVE executed \subseteq executed' /\ \A t, c : Ran(t, c) => Ran(t, c)'
  BY DEF StoryStep, Hushed, Replans, Rounds, Opens, Asks, Commits, Starts, Spawns, Rejects, Settles, Concludes, Unstarted, Ran

\* Only a record of a start adds one, and only a spawn runs a tool.
LEMMA UnstartedOrStarts == ASSUME StoryStep PROVE Unstarted \/ Starts \/ Spawns
  BY DEF StoryStep, Hushed, Replans, Rounds, Opens, Asks, Commits, Rejects, Settles, Concludes

\* A record of a start adds the call at the cursor.
LEMMA StartIsNoted ==
  ASSUME Base, Starts
  PROVE  \A t \in Turns : \A c :
           Started(t, c)' <=> Started(t, c) \/ (t = active.turn /\ c = Cursor.call)
<1>1. /\ HasCurrent /\ AppendEvent(Self, ToolFact("tool.started", active.turn, Cursor.call))
  BY DEF Starts
<1>2. active.turn \in Turns /\ Cursor.call \in Calls
  BY <1>1, CursorTyped DEF Base, Typed, Positions
<1>3. PICK e \in Event : /\ e = ToolFact("tool.started", active.turn, Cursor.call)
                         /\ e.type = "tool.started" /\ e.turn = active.turn /\ e.call = Cursor.call
  <2>1. "tool.started" \in EventTypes
    BY DEF EventTypes
  <2>2. QED
    BY <1>2, <2>1, EventKinds
<1>4. events[Self] \in Seq(Event) /\ events'[Self] = Append(events[Self], e)
  BY <1>1, <1>3, ActorAssumption DEF AppendEvent, Base, Typed, StoreTypeOK
<1>5. \A t \in Turns : NotedIn(events'[Self], t, "tool.started") =
         NotedIn(events[Self], t, "tool.started") \union (IF e.turn = t /\ e.type = "tool.started" THEN {e.call} ELSE {})
  BY <1>3, <1>4, NotedGrows
<1>6. ASSUME NEW t \in Turns, NEW c
      PROVE  Started(t, c)' <=> Started(t, c) \/ (t = active.turn /\ c = Cursor.call)
  <2>1. Noted(t, "tool.started") = NotedIn(events[Self], t, "tool.started")
    BY NotedReads
  <2>2. Noted(t, "tool.started")' = NotedIn(events'[Self], t, "tool.started")
    BY DEF Noted, NotedIn, TurnEvents
  <2>3. QED
    BY <1>3, <1>5, <2>1, <2>2 DEF Started
<1>7. QED
  BY <1>6

\* A recorded start stays recorded.
LEMMA StartsStay ==
  ASSUME Base, StoryStep, NEW t \in Turns, NEW c, Started(t, c) PROVE Started(t, c)'
<1>1. CASE Unstarted \/ Spawns
  BY <1>1 DEF Unstarted, Spawns, SameNotes, Started
<1>2. CASE Starts
  BY <1>2, StartIsNoted
<1>3. QED
  BY <1>1, <1>2, UnstartedOrStarts

\* Every tool that ran had its start noted first.
LEMMA NotesStep == ASSUME Base, Work, NotesTell, [ActorNext]_vars PROVE NotesTell'
<1>1. StoryStep
  BY StorySteps
<1>2. ASSUME NEW t \in Turns, NEW c \in Calls, Ran(t, c)' PROVE Started(t, c)'
  <2>1. CASE UNCHANGED executed
    BY <1>1, <1>2, <2>1, StartsStay DEF NotesTell, Ran
  <2>2. CASE Spawns
    <3>1. HasCurrent /\ executed' = executed \union {Cursor} /\ pc = "spawn"
      BY <2>2 DEF Spawns
    <3>2. Cursor.turn = active.turn
      BY <3>1, CursorTyped DEF Base, Typed
    <3>3. Ran(t, c) \/ (t = active.turn /\ c = Cursor.call)
      BY <1>2, <3>1, <3>2 DEF Ran
    <3>4. Started(t, c)
      BY <3>1, <3>3 DEF NotesTell
    <3>5. QED
      BY <1>1, <3>4, StartsStay
  <2>3. QED
    BY <1>1, <2>1, <2>2, UnstartedOrStarts DEF Unstarted, Starts
<1>3. ASSUME pc' = "spawn" PROVE Started(active.turn, Cursor.call)'
  <2>1. CASE StartTool
    <3>1. HasCurrent /\ SameCall
      BY <2>1 DEF StartTool, SameCall, Base, Typed, MemoryTypeOK
    <3>2. active.turn \in Turns /\ Cursor.call \in Calls
      BY <3>1, CursorTyped DEF Base, Typed, Positions
    <3>3. Starts
      <4>1. /\ AppendEvent(Self, ToolFact("tool.started", active.turn, Cursor.call))
            /\ UNCHANGED executed /\ pc = "advance" /\ Live(active.turn) /\ StoreTypeOK
        BY <1>3, <2>1 DEF StartTool, End, historyVars, Base, Typed
      <4>2. InTurn
        BY <4>1, Advancing
      <4>3. NoneCompletes /\ UNCHANGED messages
        BY <4>1, NoneCompleted DEF AppendEvent
      <4>4. QED
        BY <1>3, <3>1, <4>1, <4>2, <4>3 DEF Starts, PlanKept
    <3>4. Started(active.turn, Cursor.call)' <=> (Cursor.call \in Noted(active.turn, "tool.started"))'
      BY DEF Started
    <3>5. active'.turn = active.turn /\ Cursor' = Cursor
      BY <3>1, CursorKept DEF SameCall
    <3>6. \A t \in Turns, c \in Calls : t = active.turn /\ c = Cursor.call => Started(t, c)'
      BY <3>3, StartIsNoted
    <3>7. PICK t \in Turns, c \in Calls : t = active.turn /\ c = Cursor.call
      BY <3>2
    <3>8. Started(t, c)'
      BY <3>6, <3>7
    <3>9. QED
      BY <3>5, <3>7, <3>8 DEF Started, Noted, TurnEvents
  <2>2. CASE ~StartTool
    <3>1. UNCHANGED <<pc, active>>
      BY <1>3, <2>2, OnlyStartsSpawn
    <3>2. SameCall /\ HasCurrent /\ Started(active.turn, Cursor.call)
      BY <1>3, <3>1 DEF SameCall, NotesTell, Base, Typed, Shape
    <3>3. Cursor' = Cursor
      BY <3>2, CursorKept
    <3>4. PICK t \in Turns, c \in Calls : t = active.turn /\ c = Cursor.call
      BY <3>2, CursorTyped DEF Base, Typed, Positions
    <3>5. Started(t, c)'
      BY <1>1, <3>2, <3>4, StartsStay
    <3>6. QED
      BY <3>1, <3>3, <3>4, <3>5 DEF Started, Noted, TurnEvents
  <2>3. QED
    BY <2>1, <2>2
<1>4. QED
  BY <1>2, <1>3 DEF NotesTell

\* What the active turn started has its result, or is the call at the position.
LEMMA OwnResultsStep ==
  ASSUME Base, OwnResults, StoryStep PROVE OwnResults'
<1>0. /\ \A c : HasResult(Self, c) => HasResult(Self, c)'
      /\ HasCurrent => Cursor.call \in Calls /\ active.turn \in Turns
  BY ResultsStay, CursorTyped DEF Base, Typed, Positions
<1>1. CASE ~InTurn'
  BY <1>1 DEF OwnResults
<1>2. CASE Hushed /\ InTurn'
  <2>1. InTurn /\ SameCall /\ UNCHANGED executed
    BY <1>2 DEF Hushed, GoesOn, Unstarted
  <2>2. (HasCurrent' <=> HasCurrent) /\ Cursor' = Cursor
    BY <2>1, CursorKept
  <2>3. QED
    BY <1>0, <2>1, <2>2 DEF OwnResults, Mine, SameCall
<1>3. CASE Rounds \/ Asks
  <2>1. InTurn /\ ~HasCurrent /\ UNCHANGED executed /\ active'.turn = active.turn
    BY <1>3, EmptySeq DEF Rounds, Asks, Unstarted, HasCurrent
  <2>2. QED
    BY <1>0, <2>1 DEF OwnResults, Mine
<1>4. CASE Opens
  <2>1. PICK t \in Turns : ~Begun(t) /\ active' = [NoActive EXCEPT !.turn = t]
    BY <1>4 DEF Opens
  <2>2. active'.turn = t /\ UNCHANGED executed
    BY <1>4, <2>1, NoTypes DEF NoActive, Opens, Unstarted
  <2>3. QED
    BY <2>1, <2>2 DEF OwnResults, Mine, Base, Known
<1>5. CASE Commits
  <2>1. InTurn /\ HasCurrent /\ UNCHANGED executed /\ active'.turn = active.turn
        /\ Says(Result(active.turn, Cursor.call, "executed"))
    BY <1>5 DEF Commits, Unstarted
  <2>2. PICK m \in Message : m = Result(active.turn, Cursor.call, "executed") /\ m.role = "tool" /\ m.call = Cursor.call
    BY <1>0, <2>1, MessageKinds DEF ResultKinds
  <2>3. Says(m)
    BY <2>1, <2>2
  <2>4. Len(messages[Self]) + 1 \in DOMAIN messages'[Self] /\ messages'[Self][Len(messages[Self]) + 1] = m
    BY <2>2, <2>3, Spoken DEF Base, Typed
  <2>5. PICK c \in Calls : c = Cursor.call
    BY <1>0, <2>1
  <2>6. HasResult(Self, c)'
    BY <2>2, <2>4, <2>5 DEF HasResult
  <2>7. \A p \in executed : Mine(p.turn) => HasResult(Self, p.call)'
    <3>1. ASSUME NEW p \in executed, Mine(p.turn) PROVE HasResult(Self, p.call)'
      <4>1. CASE HasResult(Self, p.call)
        BY <1>0, <4>1
      <4>2. CASE p = Cursor
        BY <2>5, <2>6, <4>2 DEF HasResult
      <4>3. QED
        BY <2>1, <3>1, <4>1, <4>2 DEF OwnResults
    <3>2. QED
      BY <3>1
  <2>8. QED
    BY <2>1, <2>7 DEF OwnResults, Mine
<1>6. CASE Starts \/ Spawns
  <2>1. InTurn /\ HasCurrent /\ SameCall /\ executed' \in {executed, executed \union {Cursor}}
    BY <1>6 DEF Starts, Spawns
  <2>2. (HasCurrent' <=> HasCurrent) /\ Cursor' = Cursor
    BY <2>1, CursorKept
  <2>3. QED
    BY <1>0, <2>1, <2>2 DEF OwnResults, Mine, SameCall
<1>7. QED
  BY <1>1, <1>2, <1>3, <1>4, <1>5, <1>6 DEF StoryStep, Replans, Rejects, Settles, Concludes

\* What the recovery writes is what the log says.
LEMMA PlanStep ==
  ASSUME Base, PlanIsRight, StoryStep PROVE PlanIsRight'
<1> SUFFICES ASSUME pc' = "recover", NEW u \in plan'
             PROVE  (u.kind = "unknown" <=> u.at.call \in Noted(job.turn, "tool.started"))'
  BY DEF PlanIsRight, Started
<1>1. CASE Replans
  <2>1. /\ plan' = PlanRecovery(job'.turn) /\ job'.turn \in Turns /\ SameNotes
    BY <1>1 DEF Replans, Unstarted
  <2>2. PICK t \in Turns : t = job'.turn
    BY <2>1
  <2>3. PICK r \in RequestedIn(t) : u = [at |-> r, kind |-> Verdict(t, r.call)]
    BY <2>1, <2>2 DEF PlanRecovery
  <2>4. u.at.call = r.call /\ u.kind = Verdict(t, r.call)
    BY <2>3
  <2>5. u.kind = "unknown" <=> u.at.call \in Noted(t, "tool.started")
    BY <2>4 DEF Verdict
  <2>6. Noted(t, "tool.started")' = Noted(t, "tool.started")
    BY <2>1 DEF SameNotes
  <2>7. QED
    BY <2>2, <2>5, <2>6 DEF Noted, TurnEvents
<1>2. CASE ~Replans
  <2>1. PlanKept
    BY <1>2 DEF StoryStep, Hushed, Rounds, Opens, Asks, Commits, Starts, Spawns, Rejects, Settles, Concludes
  <2>2. pc = "recover" /\ u \in plan /\ UNCHANGED job
    BY <2>1 DEF PlanKept
  <2>3. ~InTurn /\ job.turn \in Turns
    BY <2>2 DEF InTurn, Base, Typed, Shape
  <2>4. SameNotes
    BY <2>3, UnstartedOrStarts DEF Starts, Spawns, Unstarted
  <2>5. PICK t \in Turns : t = job.turn
    BY <2>3
  <2>6. u.kind = "unknown" <=> u.at.call \in Noted(t, "tool.started")
    BY <2>2, <2>5 DEF PlanIsRight, Started
  <2>7. Noted(t, "tool.started")' = Noted(t, "tool.started")
    BY <2>4 DEF SameNotes
  <2>8. QED
    BY <2>2, <2>5, <2>6, <2>7 DEF Noted, TurnEvents
<1>3. QED
  BY <1>1, <1>2

\* What is new in the transcript.
LEMMA NewMessage ==
  ASSUME Base, StoryStep, NEW m \in Message, Says(m)
  PROVE  \/ UNCHANGED messages
         \/ m.kind = "text"
         \/ Commits /\ m = Result(active.turn, Cursor.call, "executed")
         \/ Rejects /\ m = Result(active.turn, Cursor.call, "rejected")
         \/ Settles /\ \E u \in plan : m = Result(job.turn, u.at.call, u.kind)
<1>1. \A n \in Message : Says(n) => n = m
  <2>1. ASSUME NEW n \in Message, Says(n) PROVE n = m
    BY <2>1, Spoken DEF Base, Typed
  <2>2. QED
    BY <2>1
<1>2. active.turn \in Turns \union {NoTurn} /\ (InTurn => active.turn \in Turns)
  BY DEF InTurn, Idle, Base, Typed, MemoryTypeOK
<1>3. HasCurrent => Cursor.call \in Calls
  BY CursorTyped DEF Base, Typed, Positions
<1>4. CASE Opens
  BY <1>1, <1>4, MessageKinds DEF Opens
<1>5. CASE Asks
  <2>1. Batches \subseteq Seq(Calls)
    BY StoreAssumption
  <2>2. QED
    BY <1>1, <1>2, <1>5, <2>1, MessageKinds DEF Asks
<1>6. CASE Commits
  <2>1. Result(active.turn, Cursor.call, "executed") \in Message
    BY <1>2, <1>3, <1>6, MessageKinds DEF Commits, ResultKinds
  <2>2. QED
    BY <1>1, <1>6, <2>1 DEF Commits
<1>7. CASE Rejects
  <2>1. Result(active.turn, Cursor.call, "rejected") \in Message
    BY <1>2, <1>3, <1>7, MessageKinds DEF Rejects, ResultKinds
  <2>2. QED
    BY <1>1, <1>7, <2>1 DEF Rejects
<1>8. CASE Settles
  <2>1. PICK u \in plan : Says(Result(job.turn, u.at.call, u.kind))
    BY <1>8 DEF Settles
  <2>2. Result(job.turn, u.at.call, u.kind) \in Message
    BY <1>8, <2>1, MessageKinds, ZenonT(30) DEF Settles, ResultKinds, Base, Typed, MemoryTypeOK, Shape
  <2>3. QED
    BY <1>1, <1>8, <2>1, <2>2
<1>9. CASE Concludes
  BY <1>1, <1>2, <1>9, MessageKinds DEF Concludes
<1>10. QED
  BY <1>4, <1>5, <1>6, <1>7, <1>8, <1>9 DEF StoryStep, Hushed, Replans, Rounds, Starts, Spawns

\* A message of the transcript is of a turn that was begun.
LEMMA MessagesTyped ==
  ASSUME Base, NEW i \in DOMAIN messages[Self]
  PROVE  /\ messages[Self][i] \in Message /\ messages[Self][i].turn \in Turns
         /\ Begun(messages[Self][i].turn)
<1>1. messages[Self] \in Seq(Message) /\ Self \in Sessions
  BY ActorAssumption DEF Base, Typed, StoreTypeOK
<1>2. messages[Self][i] \in Message
  BY <1>1
<1>3. QED
  BY <1>1, <1>2 DEF Message, Base, StoreInv, TurnBlocks, Begun

\* Every message was there before, or is the one the step adds.
LEMMA OldOrNew ==
  ASSUME Base, StoryStep, NEW i \in DOMAIN messages'[Self]
  PROVE  \/ i \in DOMAIN messages[Self] /\ messages'[Self][i] = messages[Self][i]
         \/ \E m \in Message : Says(m) /\ i = Len(messages[Self]) + 1 /\ messages'[Self][i] = m
<1>1. CASE UNCHANGED messages
  BY <1>1
<1>2. CASE \E m \in Message : Says(m)
  BY <1>2, Spoken DEF Base, Typed
<1>3. QED
  BY <1>1, <1>2, StoryGrows

\* The active turn goes on, ends, or is a new one.
LEMMA SameOrNew ==
  ASSUME Base, StoryStep, InTurn', NEW t \in Turns, Begun(t), active'.turn = t
  PROVE  InTurn /\ active.turn = t /\ ~Rejects /\ ~Settles
<1>1. CASE Opens
  BY <1>1, NoTypes DEF Opens, NoActive
<1>2. QED
  BY <1>1 DEF StoryStep, Hushed, Replans, Rounds, Asks, Commits, Starts, Spawns, Rejects, Settles, Concludes, GoesOn, SameCall

\* The call at the position has not been refused.
LEMMA UnrefusedStep ==
  ASSUME Base, Unrefused, StoryStep PROVE Unrefused'
<1> SUFFICES ASSUME NEW i \in DOMAIN messages'[Self], messages'[Self][i].kind \in Refusals, InTurn',
                    active'.turn = messages'[Self][i].turn
             PROVE  FALSE
  BY DEF Unrefused, Mine
<1>1. CASE i \in DOMAIN messages[Self] /\ messages'[Self][i] = messages[Self][i]
  BY <1>1, MessagesTyped, SameOrNew DEF Unrefused, Mine
<1>2. CASE \E m \in Message : Says(m) /\ messages'[Self][i] = m
  <2>1. PICK m \in Message : Says(m) /\ messages'[Self][i] = m
    BY <1>2
  <2>2. CASE UNCHANGED messages
    <3>1. Says(m) /\ UNCHANGED messages => FALSE
      BY Spoken DEF Base, Typed
    <3>2. QED
      BY <2>1, <2>2, <3>1
  <2>3. CASE Rejects \/ Settles
    BY <2>3 DEF Rejects, Settles
  <2>4. CASE m.kind = "text"
    BY <2>1, <2>4 DEF Refusals
  <2>5. CASE Commits /\ m = Result(active.turn, Cursor.call, "executed")
    <3>1. HasCurrent /\ active.turn \in Turns /\ Cursor.call \in Calls
      BY <2>5, CursorTyped DEF Commits, Base, Typed, Positions
    <3>2. m.kind = "executed"
      BY <2>5, <3>1, MessageKinds DEF ResultKinds
    <3>3. QED
      BY <2>1, <3>2 DEF Refusals
  <2>6. QED
    BY <2>1, <2>2, <2>3, <2>4, <2>5, NewMessage
<1>3. QED
  BY <1>1, <1>2, OldOrNew

\* What a message says, for one message.
Told(m) ==
  /\ m.kind = "executed" => Ran(m.turn, m.call)
  /\ m.kind = "unknown" => Started(m.turn, m.call)
  /\ m.kind \in Refusals => ~Ran(m.turn, m.call)

\* The truth of a transcript is that of its messages.
LEMMA ToldAll == TranscriptTellsTheTruth <=> \A i \in DOMAIN messages[Self] : Told(messages[Self][i])
  BY DEF TranscriptTellsTheTruth, Told, Ran, Started, Refusals

\* A message that was true stays true.
LEMMA ToldStays ==
  ASSUME Base, Truth, StoryStep, NEW i \in DOMAIN messages[Self], NEW m, m = messages[Self][i], Told(m)
  PROVE  Told(m)'
<1>1. executed \subseteq executed' /\ (Ran(m.turn, m.call) => Ran(m.turn, m.call)')
  BY RanStays
<1>2. m.kind = "unknown" => Started(m.turn, m.call)'
  <2>1. ASSUME m.kind = "unknown" PROVE Started(m.turn, m.call)'
    <3>1. PICK t \in Turns : t = m.turn
      BY MessagesTyped
    <3>2. PICK c : c = m.call
      OBVIOUS
    <3>3. Started(t, c)
      BY <2>1, <3>1, <3>2 DEF Told
    <3>4. Started(t, c)'
      BY <3>3, StartsStay
    <3>5. QED
      BY <3>1, <3>2, <3>4 DEF Started
  <2>2. QED
    BY <2>1
<1>3. CASE UNCHANGED executed
  BY <1>2, <1>3 DEF Told, Ran
<1>4. CASE Spawns
  <2>1. InTurn /\ HasCurrent /\ executed' = executed \union {Cursor}
    BY <1>4 DEF Spawns
  <2>2. Cursor.turn = active.turn
    BY <2>1, CursorTyped DEF Base, Typed
  <2>3. m.kind \in Refusals => m.turn # active.turn
    BY <2>1 DEF Truth, Unrefused, Mine
  <2>4. m.kind \in Refusals => (Ran(m.turn, m.call)' => Ran(m.turn, m.call))
    BY <2>1, <2>2, <2>3 DEF Ran
  <2>5. QED
    BY <1>1, <1>2, <2>4 DEF Told
<1>5. QED
  BY <1>3, <1>4, UnstartedOrStarts DEF Unstarted, Starts

\* A message that is written is true.
LEMMA ToldNew ==
  ASSUME Base, Truth, StoryStep, NEW m \in Message, Says(m) PROVE Told(m)'
<1>0. HasCurrent => /\ Cursor.turn = active.turn /\ active.turn \in Turns /\ Cursor.call \in Calls
  BY CursorTyped DEF Base, Typed, Positions
<1>1. CASE UNCHANGED messages
  <2>1. FALSE
    BY <1>1, Spoken DEF Base, Typed
  <2>2. QED
    BY <2>1
<1>2. CASE m.kind = "text"
  BY <1>2 DEF Told, Refusals
<1>3. CASE Commits /\ m = Result(active.turn, Cursor.call, "executed")
  <2>1. HasCurrent /\ Cursor \in executed
    BY <1>3 DEF Commits
  <2>2. m.kind = "executed" /\ m.turn = active.turn /\ m.call = Cursor.call
    BY <1>0, <1>3, <2>1, MessageKinds DEF ResultKinds
  <2>3. Ran(m.turn, m.call)
    BY <1>0, <2>1, <2>2 DEF Ran
  <2>4. QED
    BY <2>2, <2>3, RanStays DEF Told, Refusals
<1>4. CASE Rejects /\ m = Result(active.turn, Cursor.call, "rejected")
  <2>1. HasCurrent /\ InTurn /\ Cursor \notin executed /\ ~HasResult(Self, Cursor.call) /\ UNCHANGED executed
    BY <1>4 DEF Rejects, Unstarted
  <2>2. m.kind = "rejected" /\ m.turn = active.turn /\ m.call = Cursor.call
    BY <1>0, <1>4, <2>1, MessageKinds DEF ResultKinds
  <2>3. ~Ran(m.turn, m.call)
    <3>1. ASSUME NEW p \in executed, p.turn = m.turn, p.call = m.call PROVE FALSE
      <4>1. HasResult(Self, p.call) \/ p = Cursor
        BY <2>1, <2>2, <3>1 DEF Truth, OwnResults, Mine
      <4>2. QED
        BY <2>1, <2>2, <3>1, <4>1 DEF HasResult
    <3>2. QED
      BY <3>1 DEF Ran
  <2>4. QED
    BY <2>1, <2>2, <2>3 DEF Told, Ran
<1>5. CASE Settles /\ \E u \in plan : m = Result(job.turn, u.at.call, u.kind)
  <2>1. PICK u \in plan : m = Result(job.turn, u.at.call, u.kind)
    BY <1>5
  <2>2. pc = "recover" /\ job.turn \in Turns /\ UNCHANGED executed
    BY <1>5 DEF Settles, Unstarted, Base, Typed, Shape
  <2>3. u.at.call \in Calls /\ u.kind \in Verdicts
    BY DEF Base, Typed, MemoryTypeOK
  <2>4. m.kind = u.kind /\ m.turn = job.turn /\ m.call = u.at.call
    <3>1. u.kind \in ResultKinds
      BY <2>3 DEF ResultKinds
    <3>2. PICK t \in Turns, c \in Calls, k \in ResultKinds : t = job.turn /\ c = u.at.call /\ k = u.kind
      BY <2>2, <2>3, <3>1
    <3>3. m = Result(t, c, k)
      BY <2>1, <3>2
    <3>4. QED
      BY <3>2, <3>3, MessageKinds
  <2>5. u.kind = "unknown" <=> Started(job.turn, u.at.call)
    BY <2>2 DEF Truth, PlanIsRight
  <2>6. ~Started(job.turn, u.at.call) => ~Ran(job.turn, u.at.call)
    BY <2>2, <2>3 DEF Truth, NotesTell
  <2>7. PICK t \in Turns, c \in Calls : t = job.turn /\ c = u.at.call
    BY <2>2, <2>3
  <2>8. Started(t, c) => Started(t, c)'
    BY StartsStay
  <2>9. m.kind = "unknown" => Started(m.turn, m.call)'
    BY <2>4, <2>5, <2>7, <2>8 DEF Started
  <2>10. m.kind # "unknown" => ~Ran(m.turn, m.call)'
    BY <2>2, <2>4, <2>5, <2>6 DEF Ran
  <2>11. m.kind # "executed" /\ "unknown" \notin Refusals
    BY <2>3, <2>4 DEF Verdicts, Refusals
  <2>12. QED
    BY <2>9, <2>10, <2>11 DEF Told, Refusals
<1>6. QED
  BY <1>1, <1>2, <1>3, <1>4, <1>5, NewMessage

\* Every step keeps the transcript true.
LEMMA TruthStep == ASSUME Base, Work, Truth, [ActorNext]_vars PROVE Truth'
<1>1. StoryStep
  BY StorySteps
<1>2. NotesTell' /\ OwnResults' /\ PlanIsRight' /\ Unrefused'
  BY <1>1, NotesStep, OwnResultsStep, PlanStep, UnrefusedStep DEF Truth
<1>3. \A i \in DOMAIN messages[Self] : Told(messages[Self][i])
  BY ToldAll DEF Truth
<1>4. ASSUME NEW i \in DOMAIN messages'[Self] PROVE Told(messages[Self][i])'
  <2>1. CASE i \in DOMAIN messages[Self] /\ messages'[Self][i] = messages[Self][i]
    <3>1. PICK m : m = messages[Self][i]
      OBVIOUS
    <3>2. Told(m)'
      BY <1>1, <1>3, <2>1, <3>1, ToldStays
    <3>3. QED
      BY <2>1, <3>1, <3>2 DEF Told, Ran, Started
  <2>2. CASE \E m \in Message : Says(m) /\ messages'[Self][i] = m
    <3>1. PICK m \in Message : Says(m) /\ messages'[Self][i] = m
      BY <2>2
    <3>2. Told(m)'
      BY <1>1, <3>1, ToldNew
    <3>3. QED
      BY <3>1, <3>2 DEF Told, Ran, Started
  <2>3. QED
    BY <1>1, <2>1, <2>2, OldOrNew
<1>5. TranscriptTellsTheTruth'
  BY <1>4 DEF TranscriptTellsTheTruth, Told, Ran, Started, Refusals
<1>6. QED
  BY <1>2, <1>5 DEF Truth

\* What the transcript says of a call is what happened to it.
THEOREM TranscriptsTellTheTruth == ActorSpec => []TranscriptTellsTheTruth
<1>1. ActorInit => Truth
  <2> SUFFICES ASSUME ActorInit PROVE Truth
    OBVIOUS
  <2>1. /\ executed = {} /\ pc = "stopped" /\ Idle
        /\ messages[Self] = <<>> /\ events[Self] = <<>>
    BY ActorAssumption DEF ActorInit, StoreInit, NoActive, Idle
  <2>2. \A t : Noted(t, "tool.started") = {}
    BY <2>1, EmptySeq DEF Noted, TurnEvents
  <2>3. DOMAIN messages[Self] = {}
    BY <2>1, EmptySeq
  <2>4. QED
    BY <2>1, <2>2, <2>3 DEF Truth, NotesTell, OwnResults, PlanIsRight, Unrefused, TranscriptTellsTheTruth, Ran, InTurn
<1>2. Base /\ Work /\ Truth /\ [ActorNext]_vars => Truth'
  BY TruthStep
<1>3. Truth => TranscriptTellsTheTruth
  BY DEF Truth
<1>4. QED
  BY <1>1, <1>2, <1>3, BaseInvariant, WorkInvariant, PTL DEF ActorSpec

-----------------------------------------------------------------------------
(* a completed turn has all its answers *)

AnsweredAt(i, c) ==
  \E j \in DOMAIN messages[Self] :
    j > i /\ messages[Self][j].turn = messages[Self][i].turn /\ messages[Self][j].call = c

InBatch(c) == \E k \in DOMAIN active.batch : k >= active.index /\ active.batch[k] = c

\* What was asked for in the active turn is answered, or is still to come.
AskedFor ==
  InTurn =>
    /\ active.index # 0
    /\ \A i \in DOMAIN messages[Self] : Mine(messages[Self][i].turn) =>
         \A c \in ToSet(messages[Self][i].calls) : AnsweredAt(i, c) \/ InBatch(c)

Answered == AskedFor /\ CompletedTurnIsAnswered

\* The answers stay where they are.
LEMMA AnswersAreKept ==
  ASSUME Base, StoryStep, NEW i \in DOMAIN messages[Self], NEW c, AnsweredAt(i, c)
  PROVE  /\ i \in DOMAIN messages'[Self] /\ messages'[Self][i] = messages[Self][i]
         /\ AnsweredAt(i, c)'
<1>1. CASE UNCHANGED messages
  BY <1>1 DEF AnsweredAt
<1>2. CASE \E m \in Message : Says(m)
  <2>1. PICK m \in Message : Says(m)
    BY <1>2
  <2>2. \A j \in DOMAIN messages[Self] : j \in DOMAIN messages'[Self] /\ messages'[Self][j] = messages[Self][j]
    BY <2>1, Spoken DEF Base, Typed
  <2>3. QED
    BY <2>2 DEF AnsweredAt
<1>3. QED
  BY <1>1, <1>2, StoryGrows

\* Only apply_tool_calls writes a message that asks for something.
LEMMA SilentMessage ==
  ASSUME Base, StoryStep, ~Asks, NEW m \in Message, Says(m)
  PROVE  ToSet(m.calls) = {}
<1>1. active.turn \in Turns \union {NoTurn} /\ (InTurn => active.turn \in Turns)
  BY DEF InTurn, Idle, Base, Typed, MemoryTypeOK
<1>2. HasCurrent => Cursor.call \in Calls
  BY CursorTyped DEF Base, Typed, Positions
<1>3. \A n \in Message : Says(n) => n = m
  <2>1. ASSUME NEW n \in Message, Says(n) PROVE n = m
    BY <2>1, Spoken DEF Base, Typed
  <2>2. QED
    BY <2>1
<1>4. m.calls = <<>>
  <2>1. CASE UNCHANGED messages
    <3>1. FALSE
      BY <2>1, Spoken DEF Base, Typed
    <3>2. QED
      BY <3>1
  <2>2. CASE Opens
    BY <1>3, <2>2, MessageKinds DEF Opens
  <2>3. CASE Commits \/ Rejects
    <3>1. \A k \in ResultKinds : Result(active.turn, Cursor.call, k) \in Message /\ Result(active.turn, Cursor.call, k).calls = <<>>
      BY <1>1, <1>2, <2>3, MessageKinds DEF Commits, Rejects
    <3>2. QED
      BY <1>3, <2>3, <3>1 DEF Commits, Rejects, ResultKinds
  <2>4. CASE Settles
    <3>1. PICK u \in plan : Says(Result(job.turn, u.at.call, u.kind))
      BY <2>4 DEF Settles
    <3>2. job.turn \in Turns /\ u.at.call \in Calls /\ u.kind \in ResultKinds
      BY <2>4, <3>1 DEF Settles, ResultKinds, Base, Typed, MemoryTypeOK, Shape
    <3>3. Result(job.turn, u.at.call, u.kind) \in Message /\ Result(job.turn, u.at.call, u.kind).calls = <<>>
      BY <3>2, MessageKinds
    <3>4. QED
      BY <1>3, <3>1, <3>3
  <2>5. CASE Concludes
    BY <1>1, <1>3, <2>5, MessageKinds DEF Concludes
  <2>6. QED
    BY <2>1, <2>2, <2>3, <2>4, <2>5 DEF StoryStep, Hushed, Replans, Rounds, Starts, Spawns
<1>5. QED
  BY <1>4, EmptySeq DEF ToSet

\* The batch under the cursor.
LEMMA BatchTyped ==
  ASSUME Base
  PROVE  /\ active.batch \in Seq(Calls) /\ active.index \in Nat /\ Len(active.batch) \in Nat
         /\ DOMAIN active.batch = 1 .. Len(active.batch)
<1>1. active.batch \in Seq(Calls) /\ active.index \in Nat
  BY StoreAssumption, EmptySeq DEF Base, Typed, MemoryTypeOK
<1>2. QED
  BY <1>1

\* With no call at the position, every call of the turn has its result.
LEMMA NothingToCome ==
  ASSUME Base, AskedFor, InTurn, ~HasCurrent, NEW c PROVE ~InBatch(c)
<1>1. active.index # 0
  BY DEF AskedFor
<1>2. QED
  BY <1>1, BatchTyped DEF InBatch, HasCurrent

\* What is asked of a message that was there before.
LEMMA OldAsked ==
  ASSUME Base, AskedFor, StoryStep, InTurn',
         NEW i \in DOMAIN messages[Self], Mine(messages[Self][i].turn)',
         messages'[Self][i] = messages[Self][i], NEW c \in ToSet(messages[Self][i].calls)
  PROVE  AnsweredAt(i, c)' \/ InBatch(c)'
<1>0. Begun(messages[Self][i].turn) /\ messages[Self][i].turn \in Turns /\ active'.turn = messages[Self][i].turn
  BY MessagesTyped DEF Mine
<1>1. InTurn /\ Mine(messages[Self][i].turn) /\ ~Rejects /\ ~Settles
  BY <1>0, SameOrNew DEF Mine
<1>2. AnsweredAt(i, c) \/ InBatch(c)
  BY <1>1 DEF AskedFor
<1>3. CASE AnsweredAt(i, c)
  BY <1>3, AnswersAreKept
<1>4. CASE ~AnsweredAt(i, c) /\ InBatch(c)
  <2>1. HasCurrent
    BY <1>1, <1>4, NothingToCome
  <2>2. active.batch # <<>>
    BY <2>1, EmptySeq DEF HasCurrent
  <2>3. PICK k \in DOMAIN active.batch : k >= active.index /\ active.batch[k] = c
    BY <1>4 DEF InBatch
  <2>4. CASE SameCall
    BY <2>3, <2>4 DEF SameCall, InBatch
  <2>5. CASE Commits
    <3>1. /\ active'.batch = active.batch /\ active'.index = active.index + 1
          /\ Says(Result(active.turn, Cursor.call, "executed"))
      BY <2>5 DEF Commits
    <3>2. CASE k = active.index
      <4>1. Cursor.call = c /\ active.turn \in Turns /\ c \in Calls
        BY <2>1, <2>3, <3>2, CursorTyped DEF Base, Typed, Positions
      <4>2. PICK m \in Message : Says(m) /\ m.turn = active.turn /\ m.call = c
        BY <3>1, <4>1, MessageKinds DEF ResultKinds
      <4>3. /\ DOMAIN messages[Self] = 1 .. Len(messages[Self]) /\ Len(messages[Self]) \in Nat
            /\ Len(messages[Self]) + 1 \in DOMAIN messages'[Self]
            /\ messages'[Self][Len(messages[Self]) + 1] = m
        BY <4>2, Spoken DEF Base, Typed
      <4>4. messages'[Self][i].turn = active.turn
        BY <1>1 DEF Mine
      <4>5. AnsweredAt(i, c)'
        BY <4>2, <4>3, <4>4 DEF AnsweredAt
      <4>6. QED
        BY <4>5
    <3>3. CASE k # active.index
      BY <2>3, <3>1, <3>3, BatchTyped DEF InBatch
    <3>4. QED
      BY <3>2, <3>3
  <2>6. ~Replans /\ ~Rounds /\ ~Opens /\ ~Asks /\ ~Concludes
    <3>1. ~Opens
      BY <1>0, NoTypes DEF Opens, NoActive
    <3>2. QED
      BY <2>1, <2>2, <3>1 DEF Replans, Rounds, Asks, Concludes
  <2>7. QED
    BY <1>1, <2>4, <2>5, <2>6 DEF StoryStep, Hushed, Starts, Spawns, GoesOn
<1>5. QED
  BY <1>2, <1>3, <1>4

\* The cursor starts at 1 and goes up.
LEMMA IndexStep == ASSUME Base, AskedFor, StoryStep, InTurn' PROVE active'.index # 0
<1>1. CASE Opens
  BY <1>1 DEF Opens, NoActive
<1>2. CASE Commits
  BY <1>2, BatchTyped DEF Commits
<1>3. QED
  BY <1>1, <1>2 DEF StoryStep, Hushed, Replans, Rounds, Asks, Starts, Spawns, Rejects, Settles, Concludes, GoesOn, SameCall, AskedFor

\* The calls of a running turn that have no result are in its batch.
LEMMA AskedForStep == ASSUME Base, AskedFor, StoryStep PROVE AskedFor'
<1> SUFFICES ASSUME InTurn', NEW i \in DOMAIN messages'[Self], Mine(messages[Self][i].turn)',
                    NEW c \in ToSet(messages'[Self][i].calls)
             PROVE  AnsweredAt(i, c)' \/ InBatch(c)'
  BY IndexStep DEF AskedFor
<1>1. CASE i \in DOMAIN messages[Self] /\ messages'[Self][i] = messages[Self][i]
  BY <1>1, OldAsked
<1>2. CASE \E m \in Message : Says(m) /\ messages'[Self][i] = m
  <2>1. PICK m \in Message : Says(m) /\ messages'[Self][i] = m
    BY <1>2
  <2>2. Asks
    BY <2>1, SilentMessage
  <2>3. PICK cs \in Batches : Says(Request(active.turn, cs)) /\ active'.batch = cs /\ active'.index = 1 /\ InTurn
    BY <2>2 DEF Asks
  <2>4. cs \in Seq(Calls) /\ active.turn \in Turns
    BY <2>3, StoreAssumption DEF InTurn, Idle, Base, Typed, MemoryTypeOK
  <2>5. Request(active.turn, cs) \in Message /\ Request(active.turn, cs).calls = cs
    BY <2>4, MessageKinds
  <2>6. m = Request(active.turn, cs)
    BY <2>1, <2>3, <2>5, Spoken DEF Base, Typed
  <2>7. PICK k \in DOMAIN cs : c = cs[k]
    BY <2>1, <2>5, <2>6 DEF ToSet
  <2>8. k >= 1
    BY <2>4, <2>7
  <2>9. QED
    BY <2>3, <2>7, <2>8 DEF InBatch
<1>3. QED
  BY <1>1, <1>2, OldOrNew

\* No call of a completed turn is left without a result.
LEMMA AnsweredStep ==
  ASSUME Base, AskedFor, CompletedTurnIsAnswered, StoryStep PROVE CompletedTurnIsAnswered'
<1> SUFFICES ASSUME NEW t \in Turns, status'[t] = "completed",
                    NEW i \in DOMAIN messages'[Self], messages'[Self][i].turn = t,
                    NEW c \in ToSet(messages'[Self][i].calls)
             PROVE  \E j \in DOMAIN messages'[Self] :
                      j > i /\ messages'[Self][j].turn = t /\ messages'[Self][j].call = c
  BY DEF CompletedTurnIsAnswered
<1>0. status[t] = "completed" \/ (Concludes /\ Mine(t))
  BY DEF StoryStep, Hushed, Replans, Rounds, Opens, Asks, Commits, Starts, Spawns, Rejects, Settles, Concludes, NoneCompletes
<1>1. CASE i \in DOMAIN messages[Self] /\ messages'[Self][i] = messages[Self][i]
  <2>1. AnsweredAt(i, c)
    <3>1. CASE status[t] = "completed"
      BY <1>1, <3>1 DEF CompletedTurnIsAnswered, AnsweredAt
    <3>2. CASE Concludes /\ Mine(t)
      <4>1. InTurn /\ ~HasCurrent
        BY <3>2, EmptySeq DEF Concludes, HasCurrent
      <4>2. AnsweredAt(i, c) \/ InBatch(c)
        BY <1>1, <3>2, <4>1 DEF AskedFor
      <4>3. QED
        BY <4>1, <4>2, NothingToCome
    <3>3. QED
      BY <1>0, <3>1, <3>2
  <2>2. AnsweredAt(i, c)'
    BY <1>1, <2>1, AnswersAreKept
  <2>3. QED
    BY <2>2 DEF AnsweredAt
<1>2. CASE \E m \in Message : Says(m) /\ messages'[Self][i] = m
  <2>1. PICK m \in Message : Says(m) /\ messages'[Self][i] = m
    BY <1>2
  <2>2. Asks
    BY <2>1, SilentMessage
  <2>3. PICK cs \in Batches : Says(Request(active.turn, cs)) /\ InTurn
    BY <2>2 DEF Asks
  <2>4. cs \in Seq(Calls) /\ active.turn \in Turns
    BY <2>3, StoreAssumption DEF InTurn, Idle, Base, Typed, MemoryTypeOK
  <2>5. Request(active.turn, cs) \in Message /\ Request(active.turn, cs).turn = active.turn
    BY <2>4, MessageKinds
  <2>6. m = Request(active.turn, cs)
    BY <2>1, <2>3, <2>5, Spoken DEF Base, Typed
  <2>7. Mine(t) /\ status[t] = "running"
    BY <2>1, <2>3, <2>5, <2>6 DEF Mine, InTurn, Ending, Base, RegistersAgree, ActiveIsTheRunningTurn, RunningIn
  <2>8. ~Concludes
    <3>1. Concludes => ~InTurn'
      BY DEF Concludes
    <3>2. status'[t] = "completed" => status[t] = "completed"
      BY <2>2 DEF Asks, NoneCompletes
    <3>3. QED
      BY <2>7, <3>2
  <2>9. QED
    BY <1>0, <2>7, <2>8
<1>3. QED
  BY <1>1, <1>2, OldOrNew

\* A completed turn left no call of its assistant messages unanswered.
THEOREM CompletedTurnsAreAnswered == ActorSpec => []CompletedTurnIsAnswered
<1>1. ActorInit => Answered
  <2> SUFFICES ASSUME ActorInit PROVE Answered
    OBVIOUS
  <2>1. messages[Self] = <<>> /\ active = NoActive /\ Idle
    BY ActorAssumption DEF ActorInit, StoreInit, NoActive, Idle
  <2>2. DOMAIN messages[Self] = {}
    BY <2>1, EmptySeq
  <2>3. QED
    BY <2>1, <2>2 DEF Answered, AskedFor, InTurn, CompletedTurnIsAnswered
<1>2. Base /\ Work /\ Answered /\ [ActorNext]_vars => Answered'
  BY StorySteps, AskedForStep, AnsweredStep DEF Answered
<1>3. Answered => CompletedTurnIsAnswered
  BY DEF Answered
<1>4. QED
  BY <1>1, <1>2, <1>3, BaseInvariant, WorkInvariant, PTL DEF ActorSpec
==============================================================================
