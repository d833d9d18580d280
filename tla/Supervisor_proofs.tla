--------------------------- MODULE Supervisor_proofs ---------------------------
(***************************************************************************)
(* Proofs about the supervisor, for any number of sessions, actors and     *)
(* callers and any mailbox capacity.                                       *)
(***************************************************************************)
EXTENDS Supervisor, SequenceTheorems, TLAPS

-----------------------------------------------------------------------------
(* type correctness *)

\* Taking a caller's name off a command leaves it a command.
LEMMA DisownTyped ==
  ASSUME NEW c \in Callers
  PROVE  /\ \A m \in Requests : Disown(m, c) \in Requests
         /\ Disown(Nothing, c) = Nothing
<1>1. ASSUME NEW m \in Requests
      PROVE  Disown(m, c) \in Requests
  BY DEF Disown, Requests
<1>2. Disown(Nothing, c) = Nothing
  BY SupervisorAssumption DEF Disown, Nothing
<1>3. QED
  BY <1>1, <1>2

\* A mailbox whose commands are rewritten one by one is as long as before.
LEMMA RewriteTyped ==
  ASSUME NEW q \in Seq(Requests), NEW c \in Callers
  PROVE  LET r == [i \in DOMAIN q |-> Disown(q[i], c)]
         IN  r \in Seq(Requests) /\ Len(r) = Len(q)
<1> DEFINE r == [i \in DOMAIN q |-> Disown(q[i], c)]
<1>1. Len(q) \in Nat /\ DOMAIN q = 1 .. Len(q) /\ \A i \in DOMAIN q : q[i] \in Requests
  BY LenProperties, ElementOfSeq
<1>2. r \in [1 .. Len(q) -> Requests]
  BY <1>1, DisownTyped
<1>3. r \in Seq(Requests)
  BY <1>1, <1>2, SeqDef
<1>4. Len(r) = Len(q)
  BY <1>1, <1>2, <1>3, LenProperties
<1>5. QED
  BY <1>3, <1>4

\* Posting is the only way a mailbox grows, and it needs room.
LEMMA PostTyped ==
  ASSUME SupervisorTypeOK, NEW a \in Actors, NEW c \in Callers,
         NEW type \in {"call", "close"}, Room(a), Post(c, a, type)
  PROVE  mailbox' \in [Actors -> Seq(Requests)] /\ \A b \in Actors : Len(mailbox'[b]) <= Capacity
<1> DEFINE m == [from |-> c, type |-> type]
<1>1. m \in Requests
  BY DEF Requests
<1>2. Append(mailbox[a], m) \in Seq(Requests) /\ Len(Append(mailbox[a], m)) = Len(mailbox[a]) + 1
  BY <1>1, AppendProperties DEF SupervisorTypeOK
<1>3. Len(mailbox[a]) \in Nat /\ Len(mailbox[a]) < Capacity
  BY LenProperties DEF SupervisorTypeOK, Room
<1>4. Len(Append(mailbox[a], m)) <= Capacity
  BY <1>2, <1>3, SupervisorAssumption
<1>5. mailbox' = [mailbox EXCEPT ![a] = Append(mailbox[a], m)]
  BY DEF Post
<1>6. QED
  BY <1>2, <1>4, <1>5 DEF SupervisorTypeOK

LEMMA ReapTyped ==
  managed \in [Sessions -> Actors \union {NoActor}]
    => Reaped \in [Sessions -> Actors \union {NoActor}]
BY DEF Reaped

\* The steps of a caller.
LEMMA CallerTypeStep ==
  ASSUME SupervisorTypeOK, NEW c \in Callers, CallerBegins(c) \/ CallerGoesOn(c) \/ Abort(c)
  PROVE  SupervisorTypeOK'
<1> USE DEF SupervisorTypeOK
<1>1. ASSUME NEW s \in Sessions, Begin(c), Start(c, s) \/ Lookup(c, s),
             UNCHANGED <<mailbox, serving, state, target, reply>>
      PROVE  SupervisorTypeOK'
  <2>1. ops' \in 0 .. MaxOps
    BY <1>1, SupervisorAssumption DEF Begin
  <2>2. /\ managed' \in [Sessions -> Actors \union {NoActor}]
        /\ home' \in [Actors -> Sessions \union {NoSession}]
        /\ life' \in [Actors -> Lives]
        /\ handle' \in [Callers -> Actors \union {NoActor}]
    <3>1. Reaped \in [Sessions -> Actors \union {NoActor}]
      BY ReapTyped
    <3>2. CASE Lookup(c, s)
      <4>1. Reaped[s] \in Actors \union {NoActor}
        BY <3>1
      <4>2. handle' \in [Callers -> Actors \union {NoActor}]
        BY <3>2, <4>1 DEF Lookup
      <4>3. QED
        BY <3>1, <3>2, <4>2 DEF Lookup
    <3>3. CASE Start(c, s)
      <4>1. CASE managed' = Reaped /\ UNCHANGED <<home, life, handle>>
        BY <3>1, <4>1
      <4>2. ASSUME NEW a \in Actors, life' = [life EXCEPT ![a] = "running"],
                   home' = [home EXCEPT ![a] = s], managed' = [Reaped EXCEPT ![s] = a],
                   handle' = [handle EXCEPT ![c] = a]
            PROVE  /\ managed' \in [Sessions -> Actors \union {NoActor}]
                   /\ home' \in [Actors -> Sessions \union {NoSession}]
                   /\ life' \in [Actors -> Lives]
                   /\ handle' \in [Callers -> Actors \union {NoActor}]
        BY <3>1, <4>2 DEF Lives
      <4>3. QED
        BY <3>3, <4>1, <4>2 DEF Start
    <3>4. QED
      BY <1>1, <3>2, <3>3
  <2>3. QED
    BY <1>1, <2>1, <2>2
<1>2. ASSUME NEW s \in Sessions, RemoveEntry(c, s)
      PROVE  SupervisorTypeOK'
  <2>1. ops' \in 0 .. MaxOps
    BY <1>2, SupervisorAssumption DEF RemoveEntry, Begin
  <2>2. /\ managed' \in [Sessions -> Actors \union {NoActor}]
        /\ state' \in [Callers -> {"idle", "waiting", "removing", "closing", "joining"}]
        /\ target' \in [Callers -> Actors \union {NoActor}]
    BY <1>2, ReapTyped DEF RemoveEntry
  <2>3. QED
    BY <1>2, <2>1, <2>2 DEF RemoveEntry, actorVars
<1>3. ASSUME NEW type \in {"call", "close"}, Dispatch(c, type)
      PROVE  SupervisorTypeOK'
  <2>1. ops' \in 0 .. MaxOps
    BY <1>3, SupervisorAssumption DEF Dispatch, Begin
  <2>2. handle[c] \in Actors
    BY <1>3 DEF Dispatch
  <2>3. mailbox' \in [Actors -> Seq(Requests)] /\ \A b \in Actors : Len(mailbox'[b]) <= Capacity
    BY <1>3, <2>2, PostTyped DEF Dispatch
  <2>4. QED
    BY <1>3, <2>1, <2>3 DEF Dispatch
<1>4. CASE RemoveSend(c)
  <2>1. CASE Open(target[c]) /\ Room(target[c]) /\ Post(c, target[c], "close")
             /\ reply' = [reply EXCEPT ![c] = "-"]
    <3>1. CASE target[c] \in Actors
      <4>1. mailbox' \in [Actors -> Seq(Requests)] /\ \A b \in Actors : Len(mailbox'[b]) <= Capacity
        BY <2>1, <3>1, PostTyped
      <4>2. QED
        BY <1>4, <2>1, <4>1 DEF RemoveSend
    <3>2. CASE target[c] \notin Actors
      <4>1. mailbox' = mailbox
        BY <2>1, <3>2 DEF Post
      <4>2. QED
        BY <1>4, <2>1, <4>1 DEF RemoveSend
    <3>3. QED
      BY <3>1, <3>2
  <2>2. CASE reply' = [reply EXCEPT ![c] = "stopped"] /\ UNCHANGED mailbox
    BY <1>4, <2>2 DEF RemoveSend
  <2>3. QED
    BY <1>4, <2>1, <2>2 DEF RemoveSend
<1>5. CASE Return(c) \/ Join(c)
  BY <1>5 DEF Return, Join, actorVars
<1>6. CASE Abort(c)
  <2>1. mailbox' \in [Actors -> Seq(Requests)] /\ \A a \in Actors : Len(mailbox'[a]) <= Capacity
    BY <1>6, RewriteTyped DEF Abort
  <2>2. serving' \in [Actors -> Requests \union {Nothing}]
    BY <1>6, DisownTyped DEF Abort
  <2>3. QED
    BY <1>6, <2>1, <2>2 DEF Abort
<1>7. QED
  BY <1>1, <1>2, <1>3, <1>4, <1>5, <1>6 DEF CallerBegins, CallerGoesOn, GetOrStart, GetRunning

\* The steps of an actor.
LEMMA ActorTypeStep ==
  ASSUME SupervisorTypeOK, NEW a \in Actors, ActorSteps(a)
  PROVE  SupervisorTypeOK'
<1> USE DEF SupervisorTypeOK
<1>1. CASE Take(a)
  <2>1. /\ Head(mailbox[a]) \in Requests /\ Tail(mailbox[a]) \in Seq(Requests)
        /\ Len(Tail(mailbox[a])) = Len(mailbox[a]) - 1 /\ Len(mailbox[a]) \in Nat
    BY <1>1, HeadTailProperties, LenProperties DEF Take
  <2>2. Len(Tail(mailbox[a])) <= Capacity
    BY <2>1, SupervisorAssumption
  <2>3. QED
    BY <1>1, <2>1, <2>2 DEF Take, callerVars
<1>2. CASE Answer(a)
  <2>1. life' \in [Actors -> Lives] /\ reply' \in [Callers -> {"-", "answered", "stopped"}]
        /\ serving' \in [Actors -> Requests \union {Nothing}]
    BY <1>2 DEF Answer, Lives
  <2>2. QED
    BY <1>2, <2>1 DEF Answer
<1>3. CASE Drop(a)
  <2>1. <<>> \in Seq(Requests) /\ Len(<<>>) = 0
    BY EmptySeq
  <2>2. mailbox' \in [Actors -> Seq(Requests)] /\ \A b \in Actors : Len(mailbox'[b]) <= Capacity
    BY <1>3, <2>1, SupervisorAssumption DEF Drop, DropsMailbox
  <2>3. life' \in [Actors -> Lives] /\ reply' \in [Callers -> {"-", "answered", "stopped"}]
    BY <1>3 DEF Drop, DropsMailbox, Lives
  <2>4. QED
    BY <1>3, <2>2, <2>3 DEF Drop
<1>4. CASE Finish(a)
  BY <1>4 DEF Finish, callerVars, Lives
<1>5. QED
  BY <1>1, <1>2, <1>3, <1>4 DEF ActorSteps

LEMMA SupervisorTypeInit == SupervisorInit => SupervisorTypeOK
<1> SUFFICES ASSUME SupervisorInit
             PROVE  SupervisorTypeOK
  OBVIOUS
<1>1. <<>> \in Seq(Requests) /\ Len(<<>>) = 0
  BY EmptySeq
<1>2. QED
  BY <1>1, SupervisorAssumption DEF SupervisorInit, SupervisorTypeOK, Lives

LEMMA SupervisorTypeStep == SupervisorTypeOK /\ [SupervisorNext]_vars => SupervisorTypeOK'
<1> SUFFICES ASSUME SupervisorTypeOK, [SupervisorNext]_vars
             PROVE  SupervisorTypeOK'
  OBVIOUS
<1>1. CASE UNCHANGED vars
  BY <1>1 DEF vars, actorVars, callerVars, SupervisorTypeOK
<1>2. CASE SupervisorNext
  BY <1>2, CallerTypeStep, ActorTypeStep DEF SupervisorNext
<1>3. QED
  BY <1>1, <1>2

\* The supervisor's data keep their types, and no mailbox ever holds more
\* commands than the channel of supervisor.rs:27 has places.
THEOREM SupervisorTyped == SupervisorSpec => []SupervisorTypeOK
<1>1. SupervisorInit => SupervisorTypeOK
  BY SupervisorTypeInit
<1>2. SupervisorTypeOK /\ [SupervisorNext]_vars => SupervisorTypeOK'
  BY SupervisorTypeStep
<1>3. QED
  BY <1>1, <1>2, PTL DEF SupervisorSpec

-----------------------------------------------------------------------------
(* no task is lost sight of *)

\* Every task that has not finished is in the map or awaited by a remove; and
\* only an actor in its loop works on a command, so Answer wakes none that had
\* finished.
Registered ==
  /\ \A a \in Actors : Unfinished(a) => home[a] \in Sessions
  /\ ActorsAreAccountedFor
  /\ \A a \in Actors : serving[a] # Nothing => life[a] = "running"

Shapes ==
  /\ managed \in [Sessions -> Actors \union {NoActor}]
  /\ home \in [Actors -> Sessions \union {NoSession}]
  /\ life \in [Actors -> Lives]
  /\ serving \in [Actors -> Requests \union {Nothing}]
  /\ state \in [Callers -> {"idle", "waiting", "removing", "closing", "joining"}]
  /\ target \in [Callers -> Actors \union {NoActor}]

\* What a remove may never do: stop waiting for a task that still runs.
KeepsWaiting ==
  \A c \in Callers, a \in Actors : Awaits(c, a) /\ Unfinished(a) => Awaits(c, a)'

\* At the start no task exists.
LEMMA RegisteredInit == SupervisorInit => Registered
BY DEF SupervisorInit, Registered, ActorsAreAccountedFor, Unfinished

\* reap_stale takes out finished actors only.
LEMMA ReapKeeps ==
  ASSUME Shapes, Registered
  PROVE  /\ Reaped \in [Sessions -> Actors \union {NoActor}]
         /\ \A a \in Actors : Unfinished(a) =>
              Reaped[home[a]] = a \/ \E c \in Callers : Awaits(c, a)
<1>1. Reaped \in [Sessions -> Actors \union {NoActor}]
  BY ReapTyped DEF Shapes
<1>2. ASSUME NEW a \in Actors, Unfinished(a), managed[home[a]] = a
      PROVE  Reaped[home[a]] = a
  <2>1. home[a] \in Sessions /\ ~Stale(managed[home[a]])
    BY <1>2 DEF Registered, Stale, Unfinished
  <2>2. QED
    BY <1>2, <2>1 DEF Reaped
<1>3. QED
  BY <1>1, <1>2 DEF Registered, ActorsAreAccountedFor

\* A step that lets the tasks and the map be, or only reaps it, and abandons
\* no awaited task.
LEMMA RegisteredQuiet ==
  ASSUME Shapes, Registered, KeepsWaiting, managed' \in {managed, Reaped},
         UNCHANGED <<home, life>>, \A a \in Actors : serving'[a] # Nothing => serving[a] # Nothing
  PROVE  Registered'
<1>1. ASSUME NEW a \in Actors, Unfinished(a)'
      PROVE  (managed[home[a]] = a \/ \E c \in Callers : Awaits(c, a))'
  <2>1. Unfinished(a) /\ home'[a] = home[a]
    BY <1>1 DEF Unfinished
  <2>2. managed'[home[a]] = a \/ \E c \in Callers : Awaits(c, a)
    BY <2>1, ReapKeeps DEF Registered, ActorsAreAccountedFor
  <2>3. QED
    BY <2>1, <2>2 DEF KeepsWaiting
<1>2. \A a \in Actors : Unfinished(a)' => (home[a] \in Sessions)'
  BY DEF Registered, Unfinished
<1>3. \A a \in Actors : serving'[a] # Nothing => life'[a] = "running"
  BY DEF Registered
<1>4. QED
  BY <1>1, <1>2, <1>3 DEF Registered, ActorsAreAccountedFor

\* A new actor takes a free entry, so it displaces no unfinished one.
LEMMA RegisteredStart ==
  ASSUME NEW c \in Callers, NEW s \in Sessions, Shapes, Registered, Start(c, s),
         UNCHANGED <<serving, state, target>>
  PROVE  Registered'
<1>1. KeepsWaiting
  BY DEF KeepsWaiting, Awaits, Removes
<1>2. CASE managed' = Reaped /\ UNCHANGED <<home, life, handle>>
  BY <1>1, <1>2, RegisteredQuiet
<1>3. ASSUME NEW a \in Actors,
             life[a] = "none", life' = [life EXCEPT ![a] = "running"],
             home' = [home EXCEPT ![a] = s], managed' = [Reaped EXCEPT ![s] = a]
      PROVE  Registered'
  <2>1. ASSUME NEW b \in Actors, Unfinished(b)'
        PROVE  /\ (home[b] \in Sessions)'
               /\ (managed[home[b]] = b \/ \E d \in Callers : Awaits(d, b))'
    <3>1. CASE b = a
      BY <1>3, <3>1, ReapKeeps DEF Shapes
    <3>2. CASE b # a
      <4>1. /\ Unfinished(b) /\ home'[b] = home[b] /\ home[b] \in Sessions
            /\ Reaped[home[b]] = b \/ \E d \in Callers : Awaits(d, b)
        BY <1>3, <2>1, <3>2, ReapKeeps DEF Shapes, Registered, Unfinished
      <4>2. CASE Reaped[home[b]] = b
        <5>1. home[b] # s
          BY <4>2, SupervisorAssumption DEF Start, Unmanaged
        <5>2. QED
          BY <1>3, <4>1, <4>2, <5>1, ReapKeeps
      <4>3. CASE \E d \in Callers : Awaits(d, b)
        BY <1>1, <4>1, <4>3 DEF KeepsWaiting
      <4>4. QED
        BY <4>1, <4>2, <4>3
    <3>3. QED
      BY <3>1, <3>2
  <2>2. \A b \in Actors : serving'[b] # Nothing => life'[b] = "running"
    BY <1>3 DEF Shapes, Registered
  <2>3. QED
    BY <2>1, <2>2 DEF Registered, ActorsAreAccountedFor
<1>4. QED
  BY <1>2, <1>3 DEF Start

\* remove takes an entry out and waits for its actor from then on.
LEMMA RegisteredRemove ==
  ASSUME NEW c \in Callers, NEW s \in Sessions, Shapes, Registered, RemoveEntry(c, s)
  PROVE  Registered'
<1>1. UNCHANGED <<home, life, serving>> /\ managed' = [Reaped EXCEPT ![s] = NoActor]
  BY DEF RemoveEntry, actorVars
<1>2. KeepsWaiting
  <2>1. state[c] = "idle"
    BY DEF RemoveEntry, Begin
  <2>2. \A d \in Callers : d # c => state'[d] = state[d] /\ target'[d] = target[d]
    BY DEF RemoveEntry, Shapes
  <2>3. QED
    BY <2>1, <2>2 DEF KeepsWaiting, Awaits, Removes
<1>3. ASSUME NEW a \in Actors, Unfinished(a)
      PROVE  (managed[home[a]] = a \/ \E d \in Callers : Awaits(d, a))'
  <2>1. home'[a] = home[a] /\ home[a] \in Sessions
    BY <1>1, <1>3 DEF Registered
  <2>2. CASE \E d \in Callers : Awaits(d, a)
    BY <1>2, <1>3, <2>2 DEF KeepsWaiting
  <2>3. CASE Reaped[home[a]] = a /\ home[a] = s
    <3>1. Reaped[s] # NoActor
      BY <2>3, SupervisorAssumption
    <3>2. state'[c] = "removing" /\ target'[c] = a
      BY <2>3, <3>1 DEF RemoveEntry, Shapes
    <3>3. QED
      BY <3>2 DEF Awaits, Removes
  <2>4. CASE Reaped[home[a]] = a /\ home[a] # s
    BY <1>1, <2>1, <2>4, ReapKeeps
  <2>5. QED
    BY <1>3, <2>2, <2>3, <2>4, ReapKeeps
<1>4. QED
  BY <1>1, <1>3 DEF Registered, ActorsAreAccountedFor, Unfinished

LEMMA RegisteredCaller ==
  ASSUME NEW c \in Callers, Shapes, Registered, CallerBegins(c) \/ CallerGoesOn(c) \/ Abort(c)
  PROVE  Registered'
<1>1. ASSUME NEW s \in Sessions, GetOrStart(c, s) \/ GetRunning(c, s)
      PROVE  Registered'
  <2>1. UNCHANGED <<serving, state, target>>
    BY <1>1 DEF GetOrStart, GetRunning
  <2>2. CASE Lookup(c, s)
    <3>1. KeepsWaiting
      BY <2>1 DEF KeepsWaiting, Awaits, Removes
    <3>2. QED
      BY <2>1, <2>2, <3>1, RegisteredQuiet DEF Lookup
  <2>3. QED
    BY <1>1, <2>1, <2>2, RegisteredStart DEF GetOrStart, GetRunning
<1>2. ASSUME NEW s \in Sessions, RemoveEntry(c, s)
      PROVE  Registered'
  BY <1>2, RegisteredRemove
<1>3. ASSUME NEW type \in {"call", "close"}, Dispatch(c, type)
      PROVE  Registered'
  <2>1. KeepsWaiting
    BY <1>3 DEF Dispatch, Begin, Shapes, KeepsWaiting, Awaits, Removes
  <2>2. QED
    BY <1>3, <2>1, RegisteredQuiet DEF Dispatch
<1>4. CASE CallerGoesOn(c)
  <2>1. UNCHANGED <<managed, home, life, serving, target>>
    BY <1>4 DEF CallerGoesOn, RemoveSend, Return, Join, actorVars
  <2>2. KeepsWaiting
    <3>1. \A d \in Callers : d # c => state'[d] = state[d]
      BY <1>4 DEF CallerGoesOn, RemoveSend, Return, Join, Shapes
    <3>2. \A a \in Actors : Awaits(c, a) /\ Unfinished(a) => Removes(c)'
      BY <1>4 DEF CallerGoesOn, RemoveSend, Return, Join, Shapes, Awaits, Removes, Unfinished
    <3>3. QED
      BY <2>1, <3>1, <3>2 DEF KeepsWaiting, Awaits, Removes
  <2>3. QED
    BY <2>1, <2>2, RegisteredQuiet
<1>5. CASE Abort(c)
  <2>1. UNCHANGED <<managed, home, life, target>>
    BY <1>5 DEF Abort
  <2>2. KeepsWaiting
    BY <1>5 DEF Abort, Shapes, KeepsWaiting, Awaits, Removes
  <2>3. ASSUME NEW a \in Actors, serving'[a] # Nothing
        PROVE  serving[a] # Nothing
    BY <1>5, <2>3, DisownTyped DEF Abort
  <2>4. QED
    BY <2>1, <2>2, <2>3, RegisteredQuiet
<1>6. QED
  BY <1>1, <1>2, <1>3, <1>4, <1>5 DEF CallerBegins

\* Close makes an actor leave its loop; its entry stays until it is finished.
LEMMA RegisteredActor ==
  ASSUME NEW a \in Actors, Shapes, Registered, ActorSteps(a)
  PROVE  Registered'
<1>1. UNCHANGED <<managed, home, state, target>>
  BY DEF ActorSteps, Take, Answer, Drop, Finish, callerVars
<1>2. \A b \in Actors : b # a => life'[b] = life[b] /\ serving'[b] = serving[b]
  BY DEF ActorSteps, Take, Answer, Drop, Finish, Shapes
<1>3. /\ Unfinished(a)' => Unfinished(a)
      /\ serving'[a] # Nothing => life'[a] = "running"
  <2>1. CASE Take(a)
    BY <2>1 DEF Take, Takes, Unfinished
  <2>2. CASE Answer(a)
    BY <2>2 DEF Answer, Shapes, Registered, Unfinished
  <2>3. CASE Drop(a)
    BY <2>3 DEF Drop, Shapes, Unfinished
  <2>4. CASE Finish(a)
    BY <2>4 DEF Finish, Shapes, Registered, Unfinished
  <2>5. QED
    BY <2>1, <2>2, <2>3, <2>4 DEF ActorSteps
<1>4. \A b \in Actors : Unfinished(b)' => Unfinished(b)
  BY <1>2, <1>3 DEF Unfinished
<1>5. \A b \in Actors : serving'[b] # Nothing => life'[b] = "running"
  BY <1>2, <1>3 DEF Registered
<1>6. QED
  BY <1>1, <1>4, <1>5 DEF Registered, ActorsAreAccountedFor, Awaits, Removes

LEMMA RegisteredStep ==
  ASSUME SupervisorTypeOK, Registered, [SupervisorNext]_vars
  PROVE  Registered'
<1>1. Shapes
  BY DEF Shapes, SupervisorTypeOK
<1>2. CASE UNCHANGED vars
  BY <1>2 DEF vars, actorVars, callerVars, Registered, ActorsAreAccountedFor, Unfinished, Awaits, Removes
<1>3. CASE SupervisorNext
  BY <1>1, <1>3, RegisteredCaller, RegisteredActor DEF SupervisorNext
<1>4. QED
  BY <1>2, <1>3

\* No task is lost sight of: whatever callers look up, start, close, remove or
\* give up, an actor that has not finished is the one its session's entry
\* names, or a remove still waits for it.
THEOREM NoTaskIsLost == SupervisorSpec => []ActorsAreAccountedFor
<1>1. SupervisorInit => Registered
  BY RegisteredInit
<1>2. SupervisorTypeOK /\ Registered /\ [SupervisorNext]_vars => Registered'
  BY RegisteredStep
<1>3. Registered => ActorsAreAccountedFor
  BY DEF Registered
<1>4. QED
  BY <1>1, <1>2, <1>3, SupervisorTyped, PTL DEF SupervisorSpec

-----------------------------------------------------------------------------
(* one writer per session *)

NobodyRemoves == \A c \in Callers : ~Removes(c)

LEMMA NobodyBeginsToRemove ==
  ASSUME ~CanRemove, SupervisorTypeOK, NobodyRemoves, [SupervisorNext]_vars
  PROVE  NobodyRemoves'
<1>1. state \in [Callers -> {"idle", "waiting", "removing", "closing", "joining"}]
  BY DEF SupervisorTypeOK
<1>2. CASE UNCHANGED vars
  BY <1>2 DEF vars, callerVars, NobodyRemoves, Removes
<1>3. ASSUME NEW c \in Callers, CallerBegins(c) \/ CallerGoesOn(c) \/ Abort(c)
      PROVE  NobodyRemoves'
  <2>1. \A d \in Callers : d # c => state'[d] = state[d]
    BY <1>1, <1>3 DEF CallerBegins, GetOrStart, GetRunning, RemoveEntry, Dispatch, CallerGoesOn,
      RemoveSend, Return, Join, Abort
  <2>2. ~Removes(c)'
    BY <1>1, <1>3 DEF CallerBegins, GetOrStart, GetRunning, RemoveEntry, Dispatch, CallerGoesOn,
      RemoveSend, Return, Join, Abort, NobodyRemoves, Removes
  <2>3. QED
    BY <2>1, <2>2 DEF NobodyRemoves, Removes
<1>4. ASSUME NEW a \in Actors, ActorSteps(a)
      PROVE  NobodyRemoves'
  BY <1>4 DEF ActorSteps, Take, Answer, Drop, Finish, callerVars, NobodyRemoves, Removes
<1>5. QED
  BY <1>2, <1>3, <1>4 DEF SupervisorNext

\* As long as nobody uses remove, a session never has two actors whose tasks
\* run at the same time, hence one writer: the promise of supervisor.rs:4.
THEOREM OneWriterPerSession ==
  ASSUME ~CanRemove
  PROVE  SupervisorSpec => []OneActorPerSession
<1>1. SupervisorInit => NobodyRemoves
  BY DEF SupervisorInit, NobodyRemoves, Removes
<1>2. SupervisorTypeOK /\ NobodyRemoves /\ [SupervisorNext]_vars => NobodyRemoves'
  BY NobodyBeginsToRemove
<1>3. NobodyRemoves /\ ActorsAreAccountedFor => OneActorPerSession
  BY DEF NobodyRemoves, ActorsAreAccountedFor, OneActorPerSession, Awaits
<1>4. QED
  BY <1>1, <1>2, <1>3, SupervisorTyped, NoTaskIsLost, PTL DEF SupervisorSpec

-----------------------------------------------------------------------------
(* no live actor is out of reach *)

\* A caller has at most one command out, at the actor it awaits it from, and
\* while it is out nobody has answered.
Expects(c, a, m) ==
  /\ state[c] \in {"waiting", "closing"} /\ reply[c] = "-" /\ target[c] = a
  /\ state[c] = "closing" => m.type = "close"

CommandsAreAwaited ==
  /\ \A a \in Actors, c \in Callers : \A i \in DOMAIN mailbox[a] :
       mailbox[a][i].from = c => Expects(c, a, mailbox[a][i])
  /\ \A a \in Actors, c \in Callers : serving[a].from = c => Expects(c, a, serving[a])
  /\ \A a \in Actors, c \in Callers : \A i, j \in DOMAIN mailbox[a] :
       mailbox[a][i].from = c /\ mailbox[a][j].from = c => i = j
  /\ \A a \in Actors, c \in Callers : \A i \in DOMAIN mailbox[a] :
       mailbox[a][i].from = c => serving[a].from # c

TargetsExist ==
  /\ \A s \in Sessions : managed[s] \in Actors => life[managed[s]] # "none"
  /\ \A c \in Callers : Removes(c) => target[c] \in Actors /\ life[target[c]] # "none"

\* A remove that has heard of its Close has closed the actor.
ClosingIsHeard ==
  \A c \in Callers : state[c] = "closing" /\ reply[c] # "-" => life[target[c]] # "running"

WillClose(c, a) == state[c] \in {"removing", "closing"} /\ target[c] = a

LiveInv ==
  /\ SupervisorTypeOK /\ Registered
  /\ CommandsAreAwaited /\ TargetsExist /\ ClosingIsHeard /\ LiveActorsAreReachable

LEMMA LiveInit == SupervisorInit => LiveInv
<1> SUFFICES ASSUME SupervisorInit
             PROVE  LiveInv
  OBVIOUS
<1>1. SupervisorTypeOK /\ Registered
  BY SupervisorTypeInit, RegisteredInit
<1>2. CommandsAreAwaited
  BY SupervisorAssumption DEF SupervisorInit, CommandsAreAwaited, Nothing
<1>3. TargetsExist /\ ClosingIsHeard /\ LiveActorsAreReachable
  BY SupervisorAssumption
     DEF SupervisorInit, TargetsExist, ClosingIsHeard, LiveActorsAreReachable, Removes
<1>4. QED
  BY <1>1, <1>2, <1>3 DEF LiveInv

\* Nobody's command is out when it posts one.
LEMMA PostAwaited ==
  ASSUME SupervisorTypeOK, CommandsAreAwaited, NEW c \in Callers, NEW a \in Actors,
         NEW type \in {"call", "close"}, Post(c, a, type), UNCHANGED serving,
         state[c] \in {"idle", "removing"},
         reply' = [reply EXCEPT ![c] = "-"], target'[c] = a,
         state'[c] = "waiting" \/ (state'[c] = "closing" /\ type = "close"),
         \A d \in Callers \ {c} : state'[d] = state[d] /\ target'[d] = target[d]
  PROVE  CommandsAreAwaited'
<1> DEFINE m == [from |-> c, type |-> type]
<1>1. /\ mailbox' = [mailbox EXCEPT ![a] = Append(mailbox[a], m)]
      /\ mailbox \in [Actors -> Seq(Requests)] /\ reply \in [Callers -> {"-", "answered", "stopped"}]
  BY DEF Post, SupervisorTypeOK
<1>2. m.from = c /\ m.type = type
  OBVIOUS
<1> HIDE DEF m
<1>3. ASSUME NEW b \in Actors, NEW i \in DOMAIN mailbox'[b]
      PROVE  \/ i \in DOMAIN mailbox[b] /\ mailbox'[b][i] = mailbox[b][i]
             \/ b = a /\ i = Len(mailbox[a]) + 1 /\ mailbox'[b][i] = m
  BY <1>1
<1>4. /\ \A b \in Actors : \A i \in DOMAIN mailbox[b] : mailbox[b][i].from # c
      /\ \A b \in Actors : serving[b].from # c
  BY DEF CommandsAreAwaited, Expects
<1>5. /\ \A d \in Callers \ {c} : state'[d] = state[d] /\ target'[d] = target[d] /\ reply'[d] = reply[d]
      /\ reply'[c] = "-"
  BY <1>1
<1>7. ASSUME NEW b \in Actors, NEW d \in Callers, NEW i \in DOMAIN mailbox'[b],
             mailbox'[b][i].from = d
      PROVE  Expects(d, b, mailbox[b][i])' /\ serving'[b].from # d
  <2>1. CASE i \in DOMAIN mailbox[b] /\ mailbox'[b][i] = mailbox[b][i]
    <3>1. d # c /\ Expects(d, b, mailbox[b][i]) /\ serving[b].from # d
      BY <1>4, <1>7, <2>1 DEF CommandsAreAwaited
    <3>2. QED
      BY <1>5, <2>1, <3>1 DEF Expects
  <2>2. CASE b = a /\ i = Len(mailbox[a]) + 1 /\ mailbox'[b][i] = m
    BY <1>2, <1>4, <1>5, <1>7, <2>2 DEF Expects
  <2>3. QED
    BY <1>3, <2>1, <2>2
<1>8. ASSUME NEW b \in Actors, NEW d \in Callers, serving'[b].from = d
      PROVE  Expects(d, b, serving[b])'
  BY <1>4, <1>5, <1>8 DEF CommandsAreAwaited, Expects
<1>9. ASSUME NEW b \in Actors, NEW d \in Callers, NEW i \in DOMAIN mailbox'[b],
             NEW j \in DOMAIN mailbox'[b], mailbox'[b][i].from = d, mailbox'[b][j].from = d
      PROVE  i = j
  BY <1>2, <1>3, <1>4, <1>9 DEF CommandsAreAwaited
<1>10. QED
  BY <1>7, <1>8, <1>9 DEF CommandsAreAwaited

\* What a caller awaits stays out while neither side moves.
LEMMA StillAwaited ==
  ASSUME CommandsAreAwaited, UNCHANGED <<mailbox, serving>>,
         \A d \in Callers : state[d] \in {"waiting", "closing"} /\ reply[d] = "-" =>
           state'[d] = state[d] /\ target'[d] = target[d] /\ reply'[d] = reply[d]
  PROVE  CommandsAreAwaited'
<1>1. ASSUME NEW d \in Callers, NEW a \in Actors, NEW i \in DOMAIN mailbox'[a], mailbox'[a][i].from = d
      PROVE  Expects(d, a, mailbox[a][i])'
  BY <1>1 DEF CommandsAreAwaited, Expects
<1>2. ASSUME NEW d \in Callers, NEW a \in Actors, serving'[a].from = d
      PROVE  Expects(d, a, serving[a])'
  BY <1>2 DEF CommandsAreAwaited, Expects
<1>3. QED
  BY <1>1, <1>2 DEF CommandsAreAwaited

\* A command whose caller was aborted is nobody's.
LEMMA AbortAwaited ==
  ASSUME SupervisorTypeOK, CommandsAreAwaited, NEW c \in Callers, Abort(c)
  PROVE  CommandsAreAwaited'
<1>1. \A d \in Callers \ {c} : state'[d] = state[d] /\ target'[d] = target[d] /\ reply'[d] = reply[d]
  BY DEF Abort, SupervisorTypeOK
<1>2. ASSUME NEW m \in Requests \union {Nothing}, NEW d \in Callers, Disown(m, c).from = d
      PROVE  d # c /\ Disown(m, c) = m /\ m.from = d
  BY <1>2, SupervisorAssumption DEF Disown, Requests, Nothing
<1>3. ASSUME NEW a \in Actors, NEW i \in DOMAIN mailbox'[a], NEW d \in Callers, mailbox'[a][i].from = d
      PROVE  i \in DOMAIN mailbox[a] /\ mailbox'[a][i] = mailbox[a][i] /\ d # c
  <2>1. i \in DOMAIN mailbox[a] /\ mailbox'[a][i] = Disown(mailbox[a][i], c)
    BY <1>3 DEF Abort
  <2>2. mailbox[a][i] \in Requests
    BY <2>1, ElementOfSeq, LenProperties DEF SupervisorTypeOK
  <2>3. QED
    BY <1>2, <1>3, <2>1, <2>2
<1>4. ASSUME NEW a \in Actors, NEW d \in Callers, serving'[a].from = d
      PROVE  serving'[a] = serving[a] /\ d # c
  BY <1>2, <1>4 DEF Abort, SupervisorTypeOK
<1>5. ASSUME NEW d \in Callers, NEW a \in Actors, NEW i \in DOMAIN mailbox'[a], mailbox'[a][i].from = d
      PROVE  Expects(d, a, mailbox[a][i])' /\ serving'[a].from # d
  BY <1>1, <1>3, <1>4, <1>5 DEF CommandsAreAwaited, Expects
<1>6. ASSUME NEW d \in Callers, NEW a \in Actors, serving'[a].from = d
      PROVE  Expects(d, a, serving[a])'
  BY <1>1, <1>4, <1>6 DEF CommandsAreAwaited, Expects
<1>7. ASSUME NEW d \in Callers, NEW a \in Actors, NEW i \in DOMAIN mailbox'[a], NEW j \in DOMAIN mailbox'[a],
             mailbox'[a][i].from = d, mailbox'[a][j].from = d
      PROVE  i = j
  BY <1>3, <1>7 DEF CommandsAreAwaited
<1>8. QED
  BY <1>5, <1>6, <1>7 DEF CommandsAreAwaited

\* A command is taken once.
LEMMA TakeAwaited ==
  ASSUME SupervisorTypeOK, CommandsAreAwaited, NEW a \in Actors, Take(a)
  PROVE  CommandsAreAwaited'
<1>1. UNCHANGED <<state, target, reply>>
  BY DEF Take, callerVars
<1>2. mailbox[a] \in Seq(Requests) /\ mailbox[a] # <<>>
  BY DEF Take, SupervisorTypeOK
<1>3. /\ serving' = [serving EXCEPT ![a] = mailbox[a][1]]
      /\ 1 \in DOMAIN mailbox[a]
      /\ mailbox' = [mailbox EXCEPT ![a] = Tail(mailbox[a])]
  BY <1>2 DEF Take
<1>4. ASSUME NEW i \in DOMAIN Tail(mailbox[a])
      PROVE  i # 0 /\ i \in Nat /\ i + 1 \in DOMAIN mailbox[a] /\ Tail(mailbox[a])[i] = mailbox[a][i + 1]
  BY <1>2
<1>5. ASSUME NEW b \in Actors, NEW i \in DOMAIN mailbox'[b]
      PROVE  \/ b # a /\ i \in DOMAIN mailbox[b] /\ mailbox'[b][i] = mailbox[b][i]
             \/ b = a /\ i \in Nat /\ i # 0 /\ i + 1 \in DOMAIN mailbox[b] /\ mailbox'[b][i] = mailbox[b][i + 1]
  BY <1>3, <1>4 DEF SupervisorTypeOK
<1>6. \A b \in Actors : b # a => serving'[b] = serving[b]
  BY <1>3 DEF SupervisorTypeOK
<1>7. serving'[a] = mailbox[a][1]
  BY <1>3 DEF SupervisorTypeOK
<1>8. ASSUME NEW d \in Callers, NEW b \in Actors, NEW i \in DOMAIN mailbox'[b], mailbox'[b][i].from = d
      PROVE  Expects(d, b, mailbox[b][i])' /\ serving'[b].from # d
  <2>1. CASE b # a /\ i \in DOMAIN mailbox[b] /\ mailbox'[b][i] = mailbox[b][i]
    BY <1>1, <1>6, <1>8, <2>1 DEF CommandsAreAwaited, Expects
  <2>2. CASE b = a /\ i \in Nat /\ i # 0 /\ i + 1 \in DOMAIN mailbox[b] /\ mailbox'[b][i] = mailbox[b][i + 1]
    <3>1. i + 1 # 1
      BY <2>2
    <3>2. mailbox[a][1].from # d
      BY <1>3, <1>8, <2>2, <3>1 DEF CommandsAreAwaited
    <3>3. Expects(d, b, mailbox[b][i + 1])
      BY <1>8, <2>2 DEF CommandsAreAwaited
    <3>4. QED
      BY <1>1, <1>7, <2>2, <3>2, <3>3 DEF Expects
  <2>3. QED
    BY <1>5, <2>1, <2>2
<1>9. ASSUME NEW d \in Callers, NEW b \in Actors, serving'[b].from = d
      PROVE  Expects(d, b, serving[b])'
  <2>1. CASE b = a
    BY <1>1, <1>3, <1>7, <1>9, <2>1 DEF CommandsAreAwaited, Expects
  <2>2. CASE b # a
    BY <1>1, <1>6, <1>9, <2>2 DEF CommandsAreAwaited, Expects
  <2>3. QED
    BY <2>1, <2>2
<1>10. ASSUME NEW d \in Callers, NEW b \in Actors, NEW i \in DOMAIN mailbox'[b], NEW j \in DOMAIN mailbox'[b],
              mailbox'[b][i].from = d, mailbox'[b][j].from = d
       PROVE  i = j
  <2>1. CASE b # a
    BY <1>5, <1>10, <2>1 DEF CommandsAreAwaited
  <2>2. CASE b = a
    <3>1. /\ i \in Nat /\ i + 1 \in DOMAIN mailbox[b] /\ mailbox[b][i + 1].from = d
          /\ j \in Nat /\ j + 1 \in DOMAIN mailbox[b] /\ mailbox[b][j + 1].from = d
      BY <1>5, <1>10, <2>2
    <3>2. i + 1 = j + 1
      BY <3>1 DEF CommandsAreAwaited
    <3>3. QED
      BY <3>1, <3>2
  <2>3. QED
    BY <2>1, <2>2
<1>11. QED
  BY <1>8, <1>9, <1>10 DEF CommandsAreAwaited

\* Answering ends what its caller awaits, and a Close ends the loop first.
LEMMA AnswerAwaited ==
  ASSUME SupervisorTypeOK, CommandsAreAwaited, NEW a \in Actors, Answer(a)
  PROVE  CommandsAreAwaited'
<1>1. UNCHANGED <<state, target, mailbox>>
  BY DEF Answer
<1>2. \A d \in Callers : d # serving[a].from => reply'[d] = reply[d]
  BY DEF Answer
<1>3. ASSUME NEW d \in Callers, NEW b \in Actors, NEW i \in DOMAIN mailbox[b], mailbox[b][i].from = d
      PROVE  d # serving[a].from
  <2>1. target[d] = b
    BY <1>3 DEF CommandsAreAwaited, Expects
  <2>2. serving[a].from = d => target[d] = a
    BY DEF CommandsAreAwaited, Expects
  <2>3. serving[b].from # d
    BY <1>3 DEF CommandsAreAwaited
  <2>4. QED
    BY <2>1, <2>2, <2>3
<1>4. \A b \in Actors : b # a => serving'[b] = serving[b]
  BY DEF Answer, SupervisorTypeOK
<1>5. serving'[a].from \notin Callers
  BY SupervisorAssumption DEF Answer, SupervisorTypeOK, Nothing
<1>6. ASSUME NEW d \in Callers, NEW b \in Actors, NEW i \in DOMAIN mailbox'[b], mailbox'[b][i].from = d
      PROVE  Expects(d, b, mailbox[b][i])' /\ serving'[b].from # d
  <2>1. /\ i \in DOMAIN mailbox[b] /\ mailbox[b][i].from = d /\ mailbox'[b][i] = mailbox[b][i]
        /\ reply'[d] = reply[d]
    BY <1>1, <1>2, <1>3, <1>6
  <2>2. Expects(d, b, mailbox[b][i]) /\ serving[b].from # d
    BY <2>1 DEF CommandsAreAwaited
  <2>3. serving'[b].from # d
    BY <1>4, <1>5, <2>2
  <2>4. QED
    BY <1>1, <2>1, <2>2, <2>3 DEF Expects
<1>7. ASSUME NEW d \in Callers, NEW b \in Actors, serving'[b].from = d
      PROVE  Expects(d, b, serving[b])'
  <2>1. b # a /\ serving'[b] = serving[b]
    BY <1>4, <1>5, <1>7
  <2>2. Expects(d, b, serving[b])
    BY <1>7, <2>1 DEF CommandsAreAwaited
  <2>3. d # serving[a].from
    BY <2>1, <2>2 DEF CommandsAreAwaited, Expects
  <2>4. QED
    BY <1>1, <1>2, <2>1, <2>2, <2>3 DEF Expects
<1>8. QED
  BY <1>1, <1>6, <1>7 DEF CommandsAreAwaited

\* The commands in a dropped mailbox are all heard of.
LEMMA DropAwaited ==
  ASSUME SupervisorTypeOK, CommandsAreAwaited, NEW a \in Actors, Drop(a)
  PROVE  CommandsAreAwaited'
<1>1. UNCHANGED <<state, target, serving>>
  BY DEF Drop
<1>2. /\ mailbox'[a] = <<>> /\ \A b \in Actors : b # a => mailbox'[b] = mailbox[b]
      /\ serving[a].from \notin Callers
  BY SupervisorAssumption DEF Drop, DropsMailbox, SupervisorTypeOK, Nothing
<1>3. ASSUME NEW d \in Callers, ~\E i \in DOMAIN mailbox[a] : mailbox[a][i].from = d
      PROVE  reply'[d] = reply[d]
  BY <1>3 DEF Drop, DropsMailbox
<1>4. ASSUME NEW d \in Callers, target[d] # a
      PROVE  reply'[d] = reply[d]
  BY <1>3, <1>4 DEF CommandsAreAwaited, Expects
<1>5. ASSUME NEW d \in Callers, NEW b \in Actors, NEW i \in DOMAIN mailbox'[b], mailbox'[b][i].from = d
      PROVE  Expects(d, b, mailbox[b][i])' /\ serving'[b].from # d
  <2>1. b # a /\ i \in DOMAIN mailbox[b] /\ mailbox'[b][i] = mailbox[b][i] /\ mailbox[b][i].from = d
    BY <1>2, <1>5
  <2>2. Expects(d, b, mailbox[b][i]) /\ serving[b].from # d
    BY <2>1 DEF CommandsAreAwaited
  <2>3. QED
    BY <1>1, <1>4, <2>1, <2>2 DEF Expects
<1>6. ASSUME NEW d \in Callers, NEW b \in Actors, serving'[b].from = d
      PROVE  Expects(d, b, serving[b])'
  <2>1. b # a /\ serving'[b] = serving[b] /\ Expects(d, b, serving[b])
    BY <1>1, <1>2, <1>6 DEF CommandsAreAwaited
  <2>2. QED
    BY <1>1, <1>4, <2>1 DEF Expects
<1>7. ASSUME NEW d \in Callers, NEW b \in Actors, NEW i \in DOMAIN mailbox'[b], NEW j \in DOMAIN mailbox'[b],
             mailbox'[b][i].from = d, mailbox'[b][j].from = d
      PROVE  i = j
  BY <1>2, <1>7 DEF CommandsAreAwaited
<1>8. QED
  BY <1>5, <1>6, <1>7 DEF CommandsAreAwaited

\* What the rest of the invariant reads.
LiveMap == TargetsExist /\ ClosingIsHeard /\ LiveActorsAreReachable

\* A step that starts no task, moves no entry but a finished one's, and breaks
\* off no remove before its Close is heard.
LEMMA LiveQuiet ==
  ASSUME Shapes, Registered, LiveMap, managed' \in {managed, Reaped}, UNCHANGED <<home, target>>,
         \A a \in Actors : /\ life'[a] = "running" => life[a] = "running"
                           /\ life[a] # "none" => life'[a] # "none",
         \A c \in Callers : Removes(c)' => Removes(c),
         \A c \in Callers, a \in Actors :
           WillClose(c, a) /\ life'[a] = "running" => state'[c] \in {"removing", "closing"},
         ClosingIsHeard'
  PROVE  LiveMap'
<1>1. ASSUME NEW s \in Sessions, managed'[s] \in Actors
      PROVE  managed[s] = managed'[s]
  BY <1>1, SupervisorAssumption DEF Reaped
<1>2. TargetsExist'
  BY <1>1 DEF LiveMap, TargetsExist, Removes
<1>3. ASSUME NEW a \in Actors, life'[a] = "running"
      PROVE  managed'[home'[a]] = a
               \/ \E c \in Callers : state'[c] \in {"removing", "closing"} /\ target'[c] = a
  <2>1. life[a] = "running" /\ home[a] \in Sessions
    BY <1>3 DEF Registered, Unfinished
  <2>2. CASE managed[home[a]] = a
    BY <2>1, <2>2 DEF Reaped, Stale
  <2>3. CASE \E c \in Callers : WillClose(c, a)
    BY <1>3, <2>3 DEF WillClose
  <2>4. QED
    BY <2>1, <2>2, <2>3 DEF LiveMap, LiveActorsAreReachable, WillClose
<1>4. QED
  BY <1>2, <1>3 DEF LiveMap, LiveActorsAreReachable

\* A new actor is in the map, and displaces no live one.
LEMMA LiveStart ==
  ASSUME NEW c \in Callers, NEW s \in Sessions, Shapes, Registered, LiveMap, Start(c, s),
         UNCHANGED <<state, target, reply>>
  PROVE  LiveMap'
<1>1. CASE managed' = Reaped /\ UNCHANGED <<home, life, handle>>
  BY <1>1, LiveQuiet DEF LiveMap, ClosingIsHeard, Removes, WillClose
<1>2. ASSUME NEW a \in Actors,
             life[a] = "none", life' = [life EXCEPT ![a] = "running"],
             home' = [home EXCEPT ![a] = s], managed' = [Reaped EXCEPT ![s] = a]
      PROVE  LiveMap'
  <2>1. life'[a] = "running" /\ \A b \in Actors : b # a => life'[b] = life[b]
    BY <1>2 DEF Shapes
  <2>2. TargetsExist'
    <3>1. ASSUME NEW t \in Sessions, managed'[t] \in Actors
          PROVE  life'[managed'[t]] # "none"
      <4>1. CASE t = s
        BY <1>2, <2>1, <4>1, ReapKeeps
      <4>2. CASE t # s
        <5>1. managed'[t] = Reaped[t]
          BY <1>2, <4>2, ReapKeeps
        <5>2. managed'[t] = managed[t]
          BY <3>1, <5>1, SupervisorAssumption DEF Reaped
        <5>3. QED
          BY <2>1, <3>1, <5>2 DEF LiveMap, TargetsExist
      <4>3. QED
        BY <4>1, <4>2
    <3>2. QED
      BY <2>1, <3>1 DEF LiveMap, TargetsExist, Removes
  <2>3. ClosingIsHeard'
    BY <1>2, <2>1 DEF LiveMap, ClosingIsHeard, TargetsExist, Removes
  <2>4. ASSUME NEW b \in Actors, life'[b] = "running"
        PROVE  managed'[home'[b]] = b
                 \/ \E d \in Callers : state'[d] \in {"removing", "closing"} /\ target'[d] = b
    <3>1. CASE b = a
      BY <1>2, <3>1, ReapKeeps DEF Shapes
    <3>2. CASE b # a
      <4>1. life[b] = "running" /\ home'[b] = home[b] /\ home[b] \in Sessions
        BY <1>2, <2>1, <2>4, <3>2 DEF Shapes, Registered, Unfinished
      <4>2. CASE managed[home[b]] = b
        <5>1. Reaped[home[b]] = b
          BY <4>1, <4>2 DEF Reaped, Stale
        <5>2. home[b] # s
          BY <5>1, SupervisorAssumption DEF Start, Unmanaged
        <5>3. QED
          BY <1>2, <4>1, <5>1, <5>2, ReapKeeps
      <4>3. QED
        BY <4>1, <4>2 DEF LiveMap, LiveActorsAreReachable
    <3>3. QED
      BY <3>1, <3>2
  <2>5. QED
    BY <2>2, <2>3, <2>4 DEF LiveMap, LiveActorsAreReachable
<1>3. QED
  BY <1>1, <1>2 DEF Start

\* remove takes an entry out and is about to close its actor.
LEMMA LiveRemove ==
  ASSUME NEW c \in Callers, NEW s \in Sessions, Shapes, Registered, LiveMap, RemoveEntry(c, s)
  PROVE  LiveMap'
<1>1. /\ UNCHANGED <<home, life, reply>> /\ managed' = [Reaped EXCEPT ![s] = NoActor]
      /\ state[c] = "idle"
  BY DEF RemoveEntry, Begin, actorVars
<1>2. \A d \in Callers : d # c => state'[d] = state[d] /\ target'[d] = target[d]
  BY DEF RemoveEntry, Shapes
<1>3. state'[c] = "idle" \/ (state'[c] = "removing" /\ target'[c] = Reaped[s] /\ Reaped[s] # NoActor)
  BY <1>1 DEF RemoveEntry, Shapes
<1>4. \A t \in Sessions : Reaped[t] \in Actors \union {NoActor} /\ (Reaped[t] # NoActor => Reaped[t] = managed[t])
  BY ReapKeeps DEF Reaped
<1>5. TargetsExist'
  <2>1. \A t \in Sessions : managed'[t] \in Actors => life'[managed'[t]] # "none"
    BY <1>1, <1>4, ReapKeeps, SupervisorAssumption DEF LiveMap, TargetsExist
  <2>2. ASSUME NEW d \in Callers, Removes(d)'
        PROVE  target'[d] \in Actors /\ life'[target'[d]] # "none"
    BY <1>1, <1>2, <1>3, <1>4, <2>2 DEF LiveMap, TargetsExist, Removes
  <2>3. QED
    BY <2>1, <2>2 DEF TargetsExist
<1>6. ClosingIsHeard'
  BY <1>1, <1>2, <1>3 DEF LiveMap, ClosingIsHeard
<1>7. ASSUME NEW a \in Actors, life[a] = "running"
      PROVE  managed'[home[a]] = a
               \/ \E d \in Callers : state'[d] \in {"removing", "closing"} /\ target'[d] = a
  <2>1. home[a] \in Sessions
    BY <1>7 DEF Registered, Unfinished
  <2>2. CASE managed[home[a]] = a
    <3>1. Reaped[home[a]] = a
      BY <1>7, <2>1, <2>2 DEF Reaped, Stale
    <3>2. CASE home[a] = s
      <4>1. Reaped[s] # NoActor
        BY <3>1, <3>2, SupervisorAssumption
      <4>2. state'[c] = "removing" /\ target'[c] = a
        BY <3>1, <3>2, <4>1 DEF RemoveEntry, Shapes
      <4>3. QED
        BY <4>2
    <3>3. CASE home[a] # s
      BY <1>1, <2>1, <3>1, <3>3, ReapKeeps
    <3>4. QED
      BY <3>2, <3>3
  <2>3. CASE \E d \in Callers : state[d] \in {"removing", "closing"} /\ target[d] = a
    BY <1>1, <1>2, <2>3
  <2>4. QED
    BY <1>7, <2>2, <2>3 DEF LiveMap, LiveActorsAreReachable
<1>8. QED
  BY <1>1, <1>5, <1>6, <1>7 DEF LiveMap, LiveActorsAreReachable

LEMMA LiveBegin ==
  ASSUME LiveInv, Shapes, NEW c \in Callers, CallerBegins(c)
  PROVE  CommandsAreAwaited' /\ LiveMap'
<1> USE DEF LiveInv
<1>1. LiveMap
  BY DEF LiveMap
<1>2. ASSUME NEW s \in Sessions, GetOrStart(c, s) \/ GetRunning(c, s)
      PROVE  CommandsAreAwaited' /\ LiveMap'
  <2>1. UNCHANGED <<mailbox, serving, state, target, reply>>
    BY <1>2 DEF GetOrStart, GetRunning
  <2>2. ASSUME Lookup(c, s)
        PROVE  LiveMap'
    BY <1>1, <2>1, <2>2, LiveQuiet DEF Lookup, LiveMap, ClosingIsHeard, Removes, WillClose
  <2>3. LiveMap'
    BY <1>1, <1>2, <2>1, <2>2, LiveStart DEF GetOrStart, GetRunning
  <2>4. QED
    BY <2>1, <2>3, StillAwaited
<1>3. ASSUME NEW s \in Sessions, RemoveEntry(c, s)
      PROVE  CommandsAreAwaited' /\ LiveMap'
  <2>1. UNCHANGED <<mailbox, serving, reply>> /\ state[c] = "idle"
    BY <1>3 DEF RemoveEntry, Begin, actorVars
  <2>2. \A d \in Callers : d # c => state'[d] = state[d] /\ target'[d] = target[d]
    BY <1>3 DEF RemoveEntry, Shapes
  <2>3. CommandsAreAwaited'
    BY <2>1, <2>2, StillAwaited
  <2>4. QED
    BY <1>1, <1>3, <2>3, LiveRemove
<1>4. ASSUME NEW type \in {"call", "close"}, Dispatch(c, type)
      PROVE  CommandsAreAwaited' /\ LiveMap'
  <2>1. /\ handle[c] \in Actors /\ state[c] = "idle" /\ state'[c] = "waiting" /\ target'[c] = handle[c]
        /\ Post(c, handle[c], type) /\ reply' = [reply EXCEPT ![c] = "-"]
        /\ UNCHANGED <<managed, home, life, serving>>
        /\ \A d \in Callers \ {c} : state'[d] = state[d] /\ target'[d] = target[d]
    BY <1>4 DEF Dispatch, Begin, SupervisorTypeOK
  <2>2. CommandsAreAwaited'
    BY <2>1, PostAwaited
  <2>3. \A d \in Callers : d # c => reply'[d] = reply[d]
    BY <2>1
  <2>4. LiveMap'
    <3>1. TargetsExist' /\ ClosingIsHeard'
      BY <2>1, <2>3 DEF TargetsExist, ClosingIsHeard, Removes
    <3>2. LiveActorsAreReachable'
      BY <2>1 DEF LiveActorsAreReachable
    <3>3. QED
      BY <3>1, <3>2 DEF LiveMap
  <2>5. QED
    BY <2>2, <2>4
<1>5. QED
  BY <1>2, <1>3, <1>4 DEF CallerBegins

LEMMA LiveGoesOn ==
  ASSUME LiveInv, Shapes, NEW c \in Callers, CallerGoesOn(c) \/ Abort(c)
  PROVE  CommandsAreAwaited' /\ LiveMap'
<1> USE DEF LiveInv
<1>1. UNCHANGED <<managed, home, life, target>>
  BY DEF CallerGoesOn, RemoveSend, Return, Join, Abort, actorVars
<1>2. \A d \in Callers : d # c => state'[d] = state[d] /\ reply'[d] = reply[d]
  BY DEF CallerGoesOn, RemoveSend, Return, Join, Abort, SupervisorTypeOK
<1>3. LiveMap /\ \A a \in Actors : life'[a] = life[a]
  BY <1>1 DEF LiveMap
<1>4. CASE RemoveSend(c)
  <2>1. /\ state[c] = "removing" /\ state'[c] = "closing" /\ target[c] \in Actors
        /\ UNCHANGED serving
    BY <1>4 DEF RemoveSend, Shapes, TargetsExist, Removes
  <2>2. CASE Post(c, target[c], "close") /\ reply' = [reply EXCEPT ![c] = "-"]
    <3>1. CommandsAreAwaited'
      BY <1>1, <1>2, <2>1, <2>2, PostAwaited
    <3>2. reply'[c] = "-"
      BY <2>2 DEF SupervisorTypeOK
    <3>3. ClosingIsHeard'
      BY <1>1, <1>2, <3>2 DEF ClosingIsHeard
    <3>4. QED
      BY <1>1, <1>2, <1>3, <2>1, <3>1, <3>3, LiveQuiet DEF Removes, WillClose
  <2>3. CASE ~Open(target[c]) /\ UNCHANGED mailbox
    <3>1. life[target[c]] # "running"
      BY <2>3 DEF Open
    <3>2. ClosingIsHeard'
      BY <1>1, <1>2, <3>1 DEF ClosingIsHeard
    <3>3. LiveMap'
      BY <1>1, <1>2, <1>3, <2>1, <3>2, LiveQuiet DEF Removes, WillClose
    <3>4. CommandsAreAwaited'
      BY <1>1, <1>2, <2>1, <2>3, StillAwaited
    <3>5. QED
      BY <3>3, <3>4
  <2>4. QED
    BY <1>4, <2>2, <2>3 DEF RemoveSend
<1>5. CASE Return(c) \/ Join(c)
  <2>1. /\ UNCHANGED <<mailbox, serving, reply>>
        /\ \/ state[c] \in {"waiting", "closing"} /\ reply[c] # "-"
           \/ state[c] = "joining"
        /\ state'[c] \in {"joining", "idle"} /\ (state'[c] = "joining" => state[c] = "closing")
    BY <1>5 DEF Return, Join, actorVars, Shapes
  <2>2. CommandsAreAwaited'
    BY <1>1, <1>2, <2>1, StillAwaited
  <2>3. ClosingIsHeard'
    BY <1>1, <1>2, <2>1 DEF ClosingIsHeard
  <2>4. ASSUME NEW a \in Actors, WillClose(c, a), life[a] = "running"
        PROVE  FALSE
    BY <2>1, <2>4 DEF WillClose, ClosingIsHeard
  <2>5. LiveMap'
    BY <1>1, <1>2, <1>3, <2>1, <2>3, <2>4, LiveQuiet DEF Removes, WillClose
  <2>6. QED
    BY <2>2, <2>5
<1>6. CASE Abort(c)
  <2>1. state[c] = "waiting" /\ state'[c] = "idle" /\ reply' = reply
    BY <1>6 DEF Abort, Shapes
  <2>2. ClosingIsHeard'
    BY <1>1, <1>2, <2>1 DEF ClosingIsHeard
  <2>3. LiveMap'
    BY <1>1, <1>2, <1>3, <2>1, <2>2, LiveQuiet DEF Removes, WillClose
  <2>4. QED
    BY <1>6, <2>3, AbortAwaited
<1>7. QED
  BY <1>4, <1>5, <1>6 DEF CallerGoesOn

LEMMA LiveActor ==
  ASSUME LiveInv, Shapes, NEW a \in Actors, ActorSteps(a)
  PROVE  CommandsAreAwaited' /\ LiveMap'
<1> USE DEF LiveInv
<1>1. UNCHANGED <<managed, home, state, target>>
  BY DEF ActorSteps, Take, Answer, Drop, Finish, callerVars
<1>2. LiveMap
  BY DEF LiveMap
<1>3. \A b \in Actors : b # a => life'[b] = life[b]
  BY DEF ActorSteps, Take, Answer, Drop, Finish, Shapes
<1>4. (life'[a] = "running" => life[a] = "running") /\ (life[a] # "none" => life'[a] # "none")
  BY DEF ActorSteps, Take, Answer, Drop, Finish, Shapes
<1>5. CommandsAreAwaited' /\ ClosingIsHeard'
  <2>1. CASE Take(a)
    BY <2>1, TakeAwaited DEF Take, callerVars, ClosingIsHeard
  <2>2. CASE Answer(a)
    <3>1. ASSUME NEW c \in Callers, state[c] = "closing", reply'[c] # "-"
          PROVE  life'[target[c]] # "running"
      <4>1. CASE c = serving[a].from
        <5>1. Expects(c, a, serving[a])
          BY <4>1 DEF CommandsAreAwaited
        <5>2. QED
          BY <2>2, <3>1, <5>1 DEF Expects, Answer, Shapes
      <4>2. CASE c # serving[a].from
        <5>1. reply[c] # "-"
          BY <2>2, <3>1, <4>2 DEF Answer
        <5>2. target[c] \in Actors
          BY <3>1 DEF TargetsExist, Removes
        <5>3. QED
          BY <1>3, <1>4, <3>1, <5>1, <5>2 DEF ClosingIsHeard
      <4>3. QED
        BY <4>1, <4>2
    <3>2. QED
      BY <1>1, <2>2, <3>1, AnswerAwaited DEF ClosingIsHeard
  <2>3. CASE Drop(a)
    <3>1. ASSUME NEW c \in Callers, state[c] = "closing", reply'[c] # "-"
          PROVE  life'[target[c]] # "running"
      <4>1. target[c] \in Actors
        BY <3>1 DEF TargetsExist, Removes
      <4>2. CASE target[c] = a
        BY <2>3, <4>2 DEF Drop, Shapes
      <4>3. CASE target[c] # a
        <5>1. reply'[c] = reply[c]
          BY <2>3, <4>3 DEF Drop, DropsMailbox, CommandsAreAwaited, Expects
        <5>2. QED
          BY <1>3, <3>1, <4>1, <4>3, <5>1 DEF ClosingIsHeard
      <4>4. QED
        BY <4>2, <4>3
    <3>2. QED
      BY <1>1, <2>3, <3>1, DropAwaited DEF ClosingIsHeard
  <2>4. CASE Finish(a)
    <3>1. UNCHANGED <<mailbox, serving, reply>>
      BY <2>4 DEF Finish, callerVars
    <3>2. ClosingIsHeard'
      BY <1>1, <1>3, <1>4, <3>1 DEF ClosingIsHeard, TargetsExist, Removes
    <3>3. QED
      BY <1>1, <3>1, <3>2, StillAwaited
  <2>5. QED
    BY <2>1, <2>2, <2>3, <2>4 DEF ActorSteps
<1>6. LiveMap'
  BY <1>1, <1>2, <1>3, <1>4, <1>5, LiveQuiet DEF Removes, WillClose
<1>7. QED
  BY <1>5, <1>6

LEMMA LiveStep ==
  ASSUME LiveInv, [SupervisorNext]_vars
  PROVE  LiveInv'
<1>1. SupervisorTypeOK' /\ Registered' /\ Shapes
  BY SupervisorTypeStep, RegisteredStep DEF LiveInv, SupervisorTypeOK, Shapes
<1>2. CASE UNCHANGED vars
  <2>1. UNCHANGED <<managed, home, life, mailbox, serving, state, target, reply>>
    BY <1>2 DEF vars, actorVars, callerVars
  <2>2. CommandsAreAwaited'
    BY <2>1, StillAwaited DEF LiveInv
  <2>3. TargetsExist' /\ ClosingIsHeard' /\ LiveActorsAreReachable'
    BY <2>1 DEF LiveInv, TargetsExist, ClosingIsHeard, LiveActorsAreReachable, Removes
  <2>4. QED
    BY <1>1, <2>2, <2>3 DEF LiveInv
<1>3. CASE SupervisorNext
  <2>1. CommandsAreAwaited' /\ LiveMap'
    BY <1>1, <1>3, LiveBegin, LiveGoesOn, LiveActor DEF SupervisorNext
  <2>2. QED
    BY <1>1, <2>1 DEF LiveInv, LiveMap
<1>4. QED
  BY <1>2, <1>3

\* No actor is left running out of reach: whatever callers begin, give up or
\* remove, and however full its mailbox is, a running actor is in the map, or
\* the remove that took it out has still to hear of its Close.
THEOREM LiveActorsStayReachable == SupervisorSpec => []LiveActorsAreReachable
<1>1. SupervisorInit => LiveInv
  BY LiveInit
<1>2. LiveInv /\ [SupervisorNext]_vars => LiveInv'
  BY LiveStep
<1>3. LiveInv => LiveActorsAreReachable
  BY DEF LiveInv
<1>4. QED
  BY <1>1, <1>2, <1>3, PTL DEF SupervisorSpec
===============================================================================
