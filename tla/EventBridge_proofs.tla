-------------------------- MODULE EventBridge_proofs --------------------------
(***************************************************************************)
(* Proofs about the event bridges, for any number of connections, turns    *)
(* and submissions and any capacity of the queues.                         *)
(***************************************************************************)
EXTENDS EventBridge, TLAPS

-----------------------------------------------------------------------------
(* types *)

LEMMA FreshTurn ==
  ASSUME NEW S, S # {}
  PROVE  Fresh(S) \in S
  BY DEF Fresh

LEMMA Queue ==
  ASSUME NEW S, NEW q \in Seq(S)
  PROVE  /\ q # <<>> => Head(q) \in S /\ Tail(q) \in Seq(S)
         /\ \A x \in S : Append(q, x) \in Seq(S) /\ Len(Append(q, x)) = Len(q) + 1
         /\ Len(q) \in Nat
  OBVIOUS

LEMMA Taken ==
  ASSUME BridgeTypeOK, NEW type, Receive(type)
  PROVE  /\ mailbox \in Seq(Commands) /\ mailbox # <<>>
         /\ Head(mailbox).conn \in Connections /\ mailbox' \in Seq(Commands)
<1>1. mailbox \in Seq(Commands) /\ mailbox # <<>> /\ mailbox' = Tail(mailbox)
  BY DEF BridgeTypeOK, Receive
<1>2. Head(mailbox) \in Commands /\ mailbox' \in Seq(Commands)
  BY <1>1, Queue
<1>3. QED
  BY <1>1, <1>2 DEF Commands

LEMMA InitTyped == BridgeInit => BridgeTypeOK
<1> SUFFICES ASSUME BridgeInit
             PROVE  BridgeTypeOK
  OBVIOUS
<1>1. Fresh(Turns) \in Turns
  BY FreshTurn, BridgeAssumption
<1>2. NoBridge \in Bridges
  BY DEF NoBridge, Bridges
<1>3. QED
  BY <1>1, <1>2, BridgeAssumption
     DEF BridgeInit, BridgeTypeOK, Submissions, Steps, Events, Frames, Commands

LEMMA ActorTyped ==
  ASSUME BridgeTypeOK, ActorSteps \/ Delta \/ End
  PROVE  BridgeTypeOK'
<1> USE BridgeAssumption
<1>1. CASE Recover
  <2>1. running # NoTurn => [type |-> "ended", turn |-> running] \in Events
    BY DEF BridgeTypeOK, Events
  <2>2. feed \in Seq(Events) /\ (UNCHANGED feed \/ (running # NoTurn /\ feed' = Append(feed, [type |-> "ended", turn |-> running])))
    BY <1>1 DEF Recover, BridgeTypeOK, Publish
  <2>3. feed' \in Seq(Events)
    BY <2>1, <2>2, Queue
  <2>4. QED
    BY <1>1, <2>3 DEF Recover, BridgeTypeOK, clientVars, outVars
<1>2. CASE ServeResume
  <2>1. Head(mailbox).conn \in Connections /\ mailbox' \in Seq(Commands)
    BY <1>2, Taken DEF ServeResume
  <2>2. step' \in [Connections -> Steps]
    BY <1>2, <2>1 DEF ServeResume, Resume, BridgeTypeOK, Steps
  <2>3. QED
    BY <1>2, <2>1, <2>2 DEF ServeResume, BridgeTypeOK, outVars
<1>3. CASE ServeSubmit
  <2> DEFINE c == Head(mailbox).conn
  <2>1. c \in Connections /\ mailbox' \in Seq(Commands)
    BY <1>3, Taken DEF ServeSubmit
  <2>2. CASE Resume(c, "refused") /\ UNCHANGED <<running, used, feed, grant>>
    <3>1. step' \in [Connections -> Steps]
      BY <2>1, <2>2 DEF Resume, BridgeTypeOK, Steps
    <3>2. QED
      BY <1>3, <2>1, <2>2, <3>1 DEF ServeSubmit, BridgeTypeOK, outVars
  <2>3. CASE /\ Turns \ used # {} /\ Resume(c, "accepted")
             /\ LET t == Fresh(Turns \ used) IN
                /\ running' = t /\ used' = used \union {t}
                /\ Publish([type |-> "accepted", turn |-> t])
                /\ grant' = [grant EXCEPT ![c][subs[c]] = t]
    <3> DEFINE t == Fresh(Turns \ used)
    <3>1. t \in Turns /\ [type |-> "accepted", turn |-> t] \in Events
      BY <2>3, FreshTurn DEF Events
    <3>2. running' = t /\ used' = used \union {t} /\ feed' = Append(feed, [type |-> "accepted", turn |-> t])
      BY <2>3 DEF Publish
    <3>3. grant' = [grant EXCEPT ![c][subs[c]] = t]
      BY <2>3
    <3> HIDE DEF t
    <3>4. grant' \in [Connections -> [Submissions -> Turns \union {NoTurn}]]
      BY <2>1, <3>1, <3>3 DEF BridgeTypeOK
    <3>5. step' \in [Connections -> Steps]
      BY <2>1, <2>3 DEF Resume, BridgeTypeOK, Steps
    <3>6. feed' \in Seq(Events) /\ running' \in Turns /\ used' \subseteq Turns
      BY <3>1, <3>2 DEF BridgeTypeOK
    <3>7. QED
      BY <1>3, <2>1, <3>4, <3>5, <3>6 DEF ServeSubmit, BridgeTypeOK, outVars
  <2>4. QED
    BY <1>3, <2>2, <2>3 DEF ServeSubmit
<1>4. CASE Delta
  BY <1>4 DEF Delta, BridgeTypeOK, Publish, Events, clientVars, outVars
<1>5. CASE End
  BY <1>5 DEF End, BridgeTypeOK, Publish, Events, clientVars, outVars
<1>6. QED
  BY <1>1, <1>2, <1>3, <1>4, <1>5 DEF ActorSteps

\* A step of one connection: what it may touch.
LEMMA ConnectionTyped ==
  ASSUME BridgeTypeOK, NEW c \in Connections,
         UNCHANGED <<running, used, feed, deltas>>,
         actor' \in {"down", "starting", "up"},
         mailbox' \in Seq(Commands),
         step' \in [Connections -> Steps],
         subs' \in [Connections -> 0 .. MaxSubmits], UNCHANGED grant,
         bridge' \in [Connections -> [Submissions -> Bridges]],
         \/ UNCHANGED <<wire, written>>
         \/ (\E f \in Frames : Put(c, f)) /\ UNCHANGED written
         \/ /\ written[c] < Len(wire[c]) /\ written' = [written EXCEPT ![c] = @ + 1]
            /\ UNCHANGED wire
  PROVE  BridgeTypeOK'
<1>1. CASE UNCHANGED <<wire, written>>
  BY <1>1 DEF BridgeTypeOK
<1>2. CASE (\E f \in Frames : Put(c, f)) /\ UNCHANGED written
  <2>1. PICK f \in Frames : Put(c, f)
    BY <1>2
  <2>2. /\ Len(wire[c]) - written[c] < OutCapacity
        /\ wire' = [wire EXCEPT ![c] = Append(@, f)]
    BY <2>1 DEF Put
  <2>3. wire' \in [Connections -> Seq(Frames)]
    BY <2>2 DEF BridgeTypeOK
  <2>4. \A d \in Connections : /\ written[d] <= Len(wire'[d])
                               /\ Len(wire'[d]) - written[d] <= OutCapacity
    <3>1. Len(wire[c]) \in Nat /\ Len(Append(wire[c], f)) = Len(wire[c]) + 1 /\ OutCapacity \in Nat
      BY Queue, BridgeAssumption DEF BridgeTypeOK
    <3>2. \A d \in Connections : wire'[d] = IF d = c THEN Append(wire[c], f) ELSE wire[d]
      BY <2>2 DEF BridgeTypeOK
    <3>3. QED
      BY <2>2, <3>1, <3>2 DEF BridgeTypeOK
  <2>5. QED
    BY <1>2, <2>3, <2>4 DEF BridgeTypeOK
<1>3. CASE /\ written[c] < Len(wire[c]) /\ written' = [written EXCEPT ![c] = @ + 1]
           /\ UNCHANGED wire
  <2>1. /\ written' \in [Connections -> Nat]
        /\ \A d \in Connections : written'[d] = IF d = c THEN written[c] + 1 ELSE written[d]
    BY <1>3 DEF BridgeTypeOK
  <2>2. Len(wire[c]) \in Nat /\ OutCapacity \in Nat
    BY Queue, BridgeAssumption DEF BridgeTypeOK
  <2>3. QED
    BY <1>3, <2>1, <2>2 DEF BridgeTypeOK
<1>4. QED
  BY <1>1, <1>2, <1>3

\* Whoever is past its first submission has one.
Started == \A c \in Connections : step[c] \notin {"ready", "gone"} => subs[c] \in Submissions

LEMMA BridgeReplaced ==
  ASSUME BridgeTypeOK, NEW c \in Connections, NEW n, NEW b \in Bridges
  PROVE  [bridge EXCEPT ![c][n] = b] \in [Connections -> [Submissions -> Bridges]]
  BY DEF BridgeTypeOK

LEMMA DispatcherTyped ==
  ASSUME BridgeTypeOK, Started, NEW c \in Connections,
         Submit(c) \/ DispatcherSteps(c) \/ HangUp(c) \/ Write(c)
  PROVE  BridgeTypeOK'
<1>1. /\ actor \in {"down", "starting", "up"} /\ mailbox \in Seq(Commands)
      /\ step \in [Connections -> Steps] /\ subs \in [Connections -> 0 .. MaxSubmits]
      /\ bridge \in [Connections -> [Submissions -> Bridges]]
      /\ MaxSubmits \in Nat
  BY BridgeAssumption DEF BridgeTypeOK
<1>2. step[c] \notin {"ready", "gone"} =>
        subs[c] \in Submissions /\ bridge[c][subs[c]] \in Bridges
  BY <1>1 DEF Started
<1>3. \A s \in Steps : [step EXCEPT ![c] = s] \in [Connections -> Steps]
  BY <1>1
<1>4. CASE Submit(c)
  <2>1. subs' \in [Connections -> 0 .. MaxSubmits]
    BY <1>1, <1>4 DEF Submit
  <2>2. step' \in [Connections -> Steps]
    BY <1>3, <1>4 DEF Submit, Steps
  <2>3. QED
    BY <1>1, <1>4, <2>1, <2>2, ConnectionTyped DEF Submit, outVars
<1>5. CASE Spawn(c)
  <2>1. [NoBridge EXCEPT !.state = "gated", !.next = Subscribe] \in Bridges
    <3>1. Subscribe \in Nat \ {0}
      BY Queue DEF Subscribe, BridgeTypeOK
    <3>2. QED
      BY <3>1 DEF NoBridge, Bridges
  <2>2. bridge' \in [Connections -> [Submissions -> Bridges]]
    BY <1>5, <2>1, BridgeReplaced DEF Spawn
  <2>3. mailbox' \in Seq(Commands)
    BY <1>1, <1>5, Queue DEF Spawn, Commands
  <2>4. step' \in [Connections -> Steps]
    BY <1>3, <1>5 DEF Spawn, Steps
  <2>5. QED
    BY <1>1, <1>5, <2>2, <2>3, <2>4, ConnectionTyped DEF Spawn, outVars
<1>6. CASE SendSubmit(c)
  <2>1. mailbox' \in Seq(Commands)
    BY <1>1, <1>6, Queue DEF SendSubmit, Commands
  <2>2. step' \in [Connections -> Steps]
    BY <1>3, <1>6 DEF SendSubmit, Steps
  <2>3. QED
    BY <1>1, <1>6, <2>1, <2>2, ConnectionTyped DEF SendSubmit, outVars
<1>7. CASE DropGate(c)
  <2>1. bridge' \in [Connections -> [Submissions -> Bridges]]
    <3>1. [bridge[c][subs[c]] EXCEPT !.gate = "dropped", !.cancelled = TRUE] \in Bridges
      BY <1>2, <1>7 DEF DropGate, Bridges
    <3>2. QED
      BY <1>7, <3>1, BridgeReplaced DEF DropGate
  <2>2. step' \in [Connections -> Steps]
    BY <1>3, <1>7 DEF DropGate, Steps
  <2>3. QED
    BY <1>1, <1>7, <2>1, <2>2, ConnectionTyped DEF DropGate, outVars
<1>8. CASE Reply(c)
  <2>1. step' \in [Connections -> Steps]
    BY <1>3, <1>8 DEF Reply, Steps
  <2>2. [type |-> "response", sub |-> subs[c], ok |-> step[c] = "accepted"] \in Frames
    BY <1>2, <1>8 DEF Reply, Frames
  <2>3. QED
    BY <1>1, <1>8, <2>1, <2>2, ConnectionTyped DEF Reply
<1>9. CASE Release(c)
  <2>1. bridge' \in [Connections -> [Submissions -> Bridges]]
    <3>1. [bridge[c][subs[c]] EXCEPT !.gate = "open"] \in Bridges
      BY <1>2, <1>9 DEF Release, OpensGate, Bridges
    <3>2. QED
      BY <1>9, <3>1, BridgeReplaced DEF Release
  <2>2. step' \in [Connections -> Steps]
    BY <1>3, <1>9 DEF Release, Steps
  <2>3. QED
    BY <1>1, <1>9, <2>1, <2>2, ConnectionTyped DEF Release, outVars
<1>10. CASE HangUp(c)
  <2>1. step' \in [Connections -> Steps]
    BY <1>3, <1>10 DEF HangUp, Steps
  <2>2. QED
    BY <1>1, <1>10, <2>1, ConnectionTyped DEF HangUp, outVars
<1>11. CASE Write(c)
  BY <1>1, <1>11, ConnectionTyped DEF Write, clientVars
<1>12. QED
  BY <1>4, <1>5, <1>6, <1>7, <1>8, <1>9, <1>10, <1>11 DEF DispatcherSteps

LEMMA BridgesTyped ==
  ASSUME BridgeTypeOK, NEW c \in Connections, NEW n \in Submissions, BridgeSteps(c, n)
  PROVE  BridgeTypeOK'
<1> DEFINE b == bridge[c][n]
<1>1. b \in Bridges
  BY DEF BridgeTypeOK
<1>2. ASSUME NEW new \in Bridges, BridgeStep(c, n, new),
             UNCHANGED wire \/ \E f \in Frames : Put(c, f)
      PROVE  BridgeTypeOK'
  <2>1. bridge' \in [Connections -> [Submissions -> Bridges]]
    BY <1>2, BridgeReplaced DEF BridgeStep
  <2>2. /\ actor \in {"down", "starting", "up"} /\ mailbox \in Seq(Commands)
        /\ step \in [Connections -> Steps] /\ subs \in [Connections -> 0 .. MaxSubmits]
    BY DEF BridgeTypeOK
  <2>3. QED
    BY <1>2, <2>1, <2>2, ConnectionTyped DEF BridgeStep, clientVars
<1>3. CASE BridgeStops(c, n)
  <2>1. [b EXCEPT !.state = "done"] \in Bridges
    BY <1>1 DEF Bridges
  <2>2. QED
    BY <1>2, <1>3, <2>1 DEF BridgeStops
<1>4. CASE BridgeOpens(c, n)
  <2>1. [b EXCEPT !.state = "open"] \in Bridges
    BY <1>1 DEF Bridges
  <2>2. QED
    BY <1>2, <1>4, <2>1 DEF BridgeOpens
<1>5. CASE BridgeReceives(c, n)
  <2> DEFINE held == IF b.next < Oldest THEN Lagged ELSE b.next
             next == IF b.next < Oldest THEN Oldest ELSE b.next + 1
  <2>1. b.next \in Nat \ {0} /\ Lagged \in Nat
    BY <1>1 DEF Bridges, Lagged
  <2>2. Oldest \in Nat \ {0}
    BY Queue, BridgeAssumption DEF Oldest, BridgeTypeOK
  <2>3. held \in Nat /\ next \in Nat \ {0}
    BY <2>1, <2>2
  <2> HIDE DEF held, next
  <2>4. [b EXCEPT !.state = "sending", !.held = held, !.next = next] \in Bridges
    BY <1>1, <2>3 DEF Bridges
  <2>5. BridgeStep(c, n, [b EXCEPT !.state = "sending", !.held = held, !.next = next]) /\ UNCHANGED wire
    BY <1>5 DEF BridgeReceives, held, next
  <2>6. QED
    BY <1>2, <2>4, <2>5
<1>6. CASE BridgeSends(c, n)
  <2>1. AfterSending(b.held) \in {"done", "open"} /\ b.held \in Nat
    BY <1>1 DEF AfterSending, Bridges
  <2>2. [b EXCEPT !.state = AfterSending(b.held), !.held = 0] \in Bridges
    BY <1>1, <2>1 DEF Bridges
  <2>3. [type |-> "event", sub |-> n, at |-> b.held] \in Frames
    BY <2>1 DEF Frames
  <2>4. QED
    BY <1>2, <1>6, <2>2, <2>3 DEF BridgeSends
<1>7. QED
  BY <1>3, <1>4, <1>5, <1>6 DEF BridgeSteps

LEMMA StepTyped == BridgeTypeOK /\ Started /\ [BridgeNext]_vars => BridgeTypeOK'
<1> SUFFICES ASSUME BridgeTypeOK, Started, [BridgeNext]_vars
             PROVE  BridgeTypeOK'
  OBVIOUS
<1>1. CASE UNCHANGED vars
  BY <1>1 DEF vars, clientVars, outVars, BridgeTypeOK
<1>2. CASE BridgeNext
  BY <1>2, ActorTyped, DispatcherTyped, BridgesTyped DEF BridgeNext
<1>3. QED
  BY <1>1, <1>2

-----------------------------------------------------------------------------
(* the gate *)

\* A connection waits for one command at a time.
Expects(type) == IF type = "resume" THEN "resuming" ELSE "submitting"
MailboxInv ==
  /\ \A i \in DOMAIN mailbox : step[mailbox[i].conn] = Expects(mailbox[i].type)
  /\ \A i, j \in DOMAIN mailbox : mailbox[i].conn = mailbox[j].conn => i = j

Asking == {"found", "resuming", "resumed", "submitting"}

Responded(c, n, before) ==
  \E j \in 1 .. before - 1 : wire[c][j] = [type |-> "response", sub |-> n, ok |-> TRUE]

\* The gate of a submission is shut until its response is queued; before it opens the
\* bridge forwards nothing, and a submission that is still asking has no turn.
ShutUntilReplied(c, n) ==
  n > subs[c] \/ (n = subs[c] /\ step[c] \in Asking \union {"accepted", "refused", "replied"})
    => bridge[c][n].gate = "shut"
SilentWhileShut(c, n) ==
  bridge[c][n].gate = "shut" => bridge[c][n].state \notin {"open", "sending"} /\ EventsOf(c, n) = {}
TurnIsGranted(c, n) ==
  Accepted(c, n) =>
    n <= subs[c] /\ (n = subs[c] => step[c] \in {"accepted", "replied", "ready", "gone"})
TurnIsReplied(c, n) ==
  Accepted(c, n) /\ ~(n = subs[c] /\ step[c] = "accepted") => Responded(c, n, Len(wire[c]) + 1)
EventsFollow(c, n) == Accepted(c, n) => \A i \in EventsOf(c, n) : Responded(c, n, i)

SubmissionInv(c, n) ==
  /\ ShutUntilReplied(c, n) /\ SilentWhileShut(c, n)
  /\ TurnIsGranted(c, n) /\ TurnIsReplied(c, n) /\ EventsFollow(c, n)

GateInv ==
  /\ BridgeTypeOK /\ Started /\ MailboxInv
  /\ \A c \in Connections, n \in Submissions : SubmissionInv(c, n)

LEMMA InitGated == BridgeInit => GateInv
<1> SUFFICES ASSUME BridgeInit
             PROVE  GateInv
  OBVIOUS
<1>1. BridgeTypeOK
  BY InitTyped
<1>2. Started /\ MailboxInv
  BY DEF BridgeInit, Started, MailboxInv
<1>3. ASSUME NEW c \in Connections, NEW n \in Submissions
      PROVE  SubmissionInv(c, n)
  <2>1. grant[c][n] = NoTurn /\ bridge[c][n] = NoBridge /\ wire[c] = <<>>
    BY DEF BridgeInit
  <2>2. EventsOf(c, n) = {}
    BY <2>1 DEF EventsOf
  <2>3. QED
    BY <2>1, <2>2 DEF SubmissionInv, ShutUntilReplied, SilentWhileShut, TurnIsGranted, TurnIsReplied, EventsFollow, Accepted, NoBridge
<1>4. QED
  BY <1>1, <1>2, <1>3 DEF GateInv

LEMMA WireStays ==
  ASSUME NEW c, wire'[c] = wire[c]
  PROVE  /\ \A n : EventsOf(c, n)' = EventsOf(c, n)
         /\ \A n, i : Responded(c, n, i)' = Responded(c, n, i)
  BY DEF EventsOf, Responded

\* A connection that a step does not touch.
LEMMA SubmissionStays ==
  ASSUME NEW c, NEW n, SubmissionInv(c, n), wire'[c] = wire[c],
         step'[c] = step[c], subs'[c] = subs[c], grant'[c] = grant[c], bridge'[c] = bridge[c]
  PROVE  SubmissionInv(c, n)'
  BY WireStays DEF SubmissionInv, ShutUntilReplied, SilentWhileShut, TurnIsGranted, TurnIsReplied, EventsFollow, Accepted

\* The other commands still are the ones their connections wait for.
LEMMA MailboxServed ==
  ASSUME BridgeTypeOK, MailboxInv, NEW type, Receive(type),
         \A c \in Connections \ {Head(mailbox).conn} : step'[c] = step[c]
  PROVE  MailboxInv'
<1> DEFINE c == Head(mailbox).conn
<1>1. /\ mailbox \in Seq(Commands) /\ mailbox # <<>> /\ mailbox' = Tail(mailbox)
  BY Taken DEF Receive
<1>2. /\ \A i \in DOMAIN mailbox' : i + 1 \in DOMAIN mailbox /\ mailbox'[i] = mailbox[i + 1]
      /\ 1 \in DOMAIN mailbox /\ mailbox[1] = Head(mailbox)
      /\ \A i \in DOMAIN mailbox' : i \in Nat \ {0}
  BY <1>1
<1>3. \A i \in DOMAIN mailbox : mailbox[i].conn \in Connections
  <2>1. \A i \in DOMAIN mailbox : mailbox[i] \in Commands
    BY <1>1
  <2>2. QED
    BY <2>1 DEF Commands
<1>4. ASSUME NEW i \in DOMAIN mailbox'
      PROVE  step'[mailbox'[i].conn] = Expects(mailbox'[i].type)
  <2>1. mailbox[i + 1].conn # mailbox[1].conn
    BY <1>2 DEF MailboxInv
  <2>2. QED
    BY <1>2, <1>3, <2>1 DEF MailboxInv
<1>5. ASSUME NEW i \in DOMAIN mailbox', NEW j \in DOMAIN mailbox',
             mailbox'[i].conn = mailbox'[j].conn
      PROVE  i = j
  BY <1>2, <1>5 DEF MailboxInv
<1>6. QED
  BY <1>4, <1>5 DEF MailboxInv, Expects

LEMMA ActorGated ==
  ASSUME GateInv, ActorSteps \/ Delta \/ End
  PROVE  MailboxInv' /\ Started' /\ \A c \in Connections, n \in Submissions : SubmissionInv(c, n)'
<1>1. CASE Recover \/ Delta \/ End
  <2>1. UNCHANGED <<mailbox, step, subs, grant, bridge, wire>>
    BY <1>1 DEF Recover, Delta, End, clientVars, outVars
  <2>2. \A c \in Connections, n \in Submissions : SubmissionInv(c, n)'
    BY <2>1, SubmissionStays DEF GateInv
  <2>3. QED
    BY <2>1, <2>2 DEF GateInv, MailboxInv, Started
<1>2. CASE ServeResume
  <2> DEFINE c == Head(mailbox).conn
  <2>1. /\ c \in Connections /\ UNCHANGED <<subs, grant, bridge, wire>>
        /\ \E to \in {"resumed", "refused"} : step' = [step EXCEPT ![c] = to]
        /\ Receive("resume") /\ step \in [Connections -> Steps]
    BY <1>2, Taken DEF ServeResume, GateInv, Resume, outVars, BridgeTypeOK
  <2>2. step[c] = "resuming"
    <3>1. mailbox \in Seq(Commands) /\ mailbox # <<>> /\ Head(mailbox).type = "resume"
      BY <2>1, Taken DEF GateInv, Receive
    <3>2. 1 \in DOMAIN mailbox /\ mailbox[1] = Head(mailbox)
      BY <3>1
    <3>3. QED
      BY <3>1, <3>2 DEF GateInv, MailboxInv, Expects
  <2>3. \A d \in Connections \ {c} : step'[d] = step[d]
    BY <2>1
  <2>4. MailboxInv'
    BY <2>1, <2>3, MailboxServed DEF GateInv
  <2>5. Started'
    BY <2>1, <2>2, <2>3 DEF GateInv, Started
  <2>6. ASSUME NEW d \in Connections, NEW n \in Submissions
        PROVE  SubmissionInv(d, n)'
    <3>1. CASE d # c
      BY <2>1, <2>3, <3>1, SubmissionStays DEF GateInv
    <3>2. CASE d = c
      <4>1. step'[d] \in {"resumed", "refused"} /\ SubmissionInv(d, n)
        BY <2>1, <3>2 DEF GateInv
      <4>2. QED
        BY <2>1, <2>2, <3>2, <4>1, WireStays DEF SubmissionInv, ShutUntilReplied, SilentWhileShut, TurnIsGranted, TurnIsReplied, EventsFollow, Accepted, Asking
    <3>3. QED
      BY <3>1, <3>2
  <2>7. QED
    BY <2>4, <2>5, <2>6
<1>3. CASE ServeSubmit
  <2> DEFINE c == Head(mailbox).conn
  <2>1. /\ c \in Connections /\ UNCHANGED <<subs, bridge, wire>>
        /\ Receive("submit") /\ step \in [Connections -> Steps]
        /\ grant \in [Connections -> [Submissions -> Turns \union {NoTurn}]]
    BY <1>3, Taken DEF ServeSubmit, GateInv, outVars, BridgeTypeOK
  <2>2. step[c] = "submitting"
    <3>1. mailbox \in Seq(Commands) /\ mailbox # <<>> /\ Head(mailbox).type = "submit"
      BY <2>1, Taken DEF GateInv, Receive
    <3>2. 1 \in DOMAIN mailbox /\ mailbox[1] = Head(mailbox)
      BY <3>1
    <3>3. QED
      BY <3>1, <3>2 DEF GateInv, MailboxInv, Expects
  <2>3. \/ step' = [step EXCEPT ![c] = "refused"] /\ UNCHANGED grant
        \/ /\ step' = [step EXCEPT ![c] = "accepted"]
           /\ \E t \in Turns : grant' = [grant EXCEPT ![c][subs[c]] = t]
    BY <1>3, FreshTurn DEF ServeSubmit, Resume
  <2>4. \A d \in Connections \ {c} : step'[d] = step[d] /\ grant'[d] = grant[d]
    BY <2>1, <2>3
  <2>5. MailboxInv'
    BY <2>1, <2>4, MailboxServed DEF GateInv
  <2>6. Started'
    BY <2>1, <2>2, <2>3, <2>4 DEF GateInv, Started
  <2>7. ASSUME NEW d \in Connections, NEW n \in Submissions
        PROVE  SubmissionInv(d, n)'
    <3>1. CASE d # c
      BY <2>1, <2>4, <3>1, SubmissionStays DEF GateInv
    <3>2. CASE d = c
      <4>1. /\ SubmissionInv(d, n) /\ subs[d] \in Submissions /\ step[d] = "submitting"
            /\ UNCHANGED <<subs, bridge, wire>>
        BY <2>1, <2>2, <3>2 DEF GateInv, Started
      <4>2. CASE step'[d] = "refused" /\ grant'[d] = grant[d]
        BY <4>1, <4>2, WireStays DEF SubmissionInv, ShutUntilReplied, SilentWhileShut, TurnIsGranted, TurnIsReplied, EventsFollow, Accepted, Asking
      <4>3. CASE /\ step'[d] = "accepted"
                 /\ \A m \in Submissions \ {subs[d]} : grant'[d][m] = grant[d][m]
        <5>1. ShutUntilReplied(d, n)'
          BY <4>1, <4>3 DEF SubmissionInv, ShutUntilReplied, Asking
        <5>2. SilentWhileShut(d, n)'
          BY <4>1, WireStays DEF SubmissionInv, SilentWhileShut
        <5>3. CASE n = subs[d]
          <6>1. EventsOf(d, n)' = {}
            BY <4>1, <5>3, WireStays
               DEF SubmissionInv, ShutUntilReplied, SilentWhileShut, Asking
          <6>2. TurnIsGranted(d, n)' /\ TurnIsReplied(d, n)' /\ EventsFollow(d, n)'
            BY <4>1, <4>3, <5>3, <6>1 DEF TurnIsGranted, TurnIsReplied, EventsFollow, Submissions
          <6>3. QED
            BY <5>1, <5>2, <6>2 DEF SubmissionInv
        <5>4. CASE n # subs[d]
          <6>1. grant'[d][n] = grant[d][n]
            BY <4>3, <5>4
          <6>2. TurnIsGranted(d, n)' /\ TurnIsReplied(d, n)' /\ EventsFollow(d, n)'
            BY <4>1, <5>4, <6>1, WireStays
               DEF SubmissionInv, TurnIsGranted, TurnIsReplied, EventsFollow, Accepted
          <6>3. QED
            BY <5>1, <5>2, <6>2 DEF SubmissionInv
        <5>5. QED
          BY <5>3, <5>4
      <4>4. \/ step'[d] = "refused" /\ grant'[d] = grant[d]
            \/ /\ step'[d] = "accepted"
               /\ \A m \in Submissions \ {subs[d]} : grant'[d][m] = grant[d][m]
        <5>1. /\ step \in [Connections -> Steps]
              /\ grant \in [Connections -> [Submissions -> Turns \union {NoTurn}]]
              /\ \/ step' = [step EXCEPT ![d] = "refused"] /\ UNCHANGED grant
                 \/ /\ step' = [step EXCEPT ![d] = "accepted"]
                    /\ \E t \in Turns : grant' = [grant EXCEPT ![d][subs[d]] = t]
          BY <2>1, <2>3, <3>2
        <5>2. CASE step' = [step EXCEPT ![d] = "refused"] /\ UNCHANGED grant
          BY <5>1, <5>2
        <5>3. CASE /\ step' = [step EXCEPT ![d] = "accepted"]
                   /\ \E t \in Turns : grant' = [grant EXCEPT ![d][subs[d]] = t]
          BY <5>1, <5>3
        <5>4. QED
          BY <5>1, <5>2, <5>3
      <4>5. QED
        BY <4>2, <4>3, <4>4
    <3>3. QED
      BY <3>1, <3>2
  <2>8. QED
    BY <2>5, <2>6, <2>7
<1>4. QED
  BY <1>1, <1>2, <1>3 DEF ActorSteps

\* What a step of connection c may do to the others: nothing.
LEMMA OthersStay ==
  ASSUME GateInv, NEW c \in Connections, UNCHANGED grant,
         subs' = [subs EXCEPT ![c] = subs'[c]],
         step' = [step EXCEPT ![c] = step'[c]],
         bridge' = [bridge EXCEPT ![c] = bridge'[c]], wire' = [wire EXCEPT ![c] = wire'[c]],
         \A n \in Submissions : SubmissionInv(c, n)'
  PROVE  \A d \in Connections, n \in Submissions : SubmissionInv(d, n)'
<1> SUFFICES ASSUME NEW d \in Connections, NEW n \in Submissions
             PROVE  SubmissionInv(d, n)'
  OBVIOUS
<1>1. CASE d = c
  BY <1>1
<1>2. CASE d # c
  <2>1. /\ step'[d] = step[d] /\ subs'[d] = subs[d]
        /\ bridge'[d] = bridge[d] /\ wire'[d] = wire[d]
    BY <1>2 DEF GateInv, BridgeTypeOK
  <2>2. grant'[d] = grant[d] /\ SubmissionInv(d, n)
    BY DEF GateInv
  <2>3. QED
    BY <2>1, <2>2, SubmissionStays
<1>3. QED
  BY <1>1, <1>2

\* A connection that has no command in the mailbox may go on without it.
LEMMA MailboxKept ==
  ASSUME GateInv, NEW c \in Connections, step[c] \notin {"resuming", "submitting"},
         \A d \in Connections \ {c} : step'[d] = step[d], UNCHANGED mailbox
  PROVE  MailboxInv'
<1>1. \A i \in DOMAIN mailbox : mailbox[i] \in Commands
  <2>1. mailbox \in Seq(Commands)
    BY DEF GateInv, BridgeTypeOK
  <2>2. QED
    BY <2>1
<1>2. \A i \in DOMAIN mailbox : mailbox[i].conn \in Connections /\ mailbox[i].conn # c
  BY <1>1 DEF GateInv, MailboxInv, Expects, Commands
<1>3. QED
  BY <1>2 DEF GateInv, MailboxInv, Expects

LEMMA MailboxGrows ==
  ASSUME GateInv, NEW c \in Connections, step[c] \notin {"resuming", "submitting"},
         NEW type \in {"resume", "submit"}, step'[c] = Expects(type),
         \A d \in Connections \ {c} : step'[d] = step[d],
         mailbox' = Append(mailbox, [conn |-> c, type |-> type])
  PROVE  MailboxInv'
<1>1. mailbox \in Seq(Commands)
  BY DEF GateInv, BridgeTypeOK
<1>2. \A i \in DOMAIN mailbox : mailbox[i] \in Commands
  BY <1>1
<1>3. \A i \in DOMAIN mailbox : mailbox[i].conn \in Connections /\ mailbox[i].conn # c
  BY <1>2 DEF GateInv, MailboxInv, Expects, Commands
<1>4. \A i \in DOMAIN mailbox' :
        \/ i \in DOMAIN mailbox /\ mailbox'[i] = mailbox[i]
        \/ i = Len(mailbox) + 1 /\ mailbox'[i] = [conn |-> c, type |-> type]
  BY <1>1
<1>5. ASSUME NEW i \in DOMAIN mailbox'
      PROVE  step'[mailbox'[i].conn] = Expects(mailbox'[i].type)
  BY <1>3, <1>4 DEF GateInv, MailboxInv
<1>6. ASSUME NEW i \in DOMAIN mailbox', NEW j \in DOMAIN mailbox',
             mailbox'[i].conn = mailbox'[j].conn
      PROVE  i = j
  BY <1>3, <1>4, <1>6 DEF GateInv, MailboxInv
<1>7. QED
  BY <1>5, <1>6 DEF MailboxInv, Expects

LEMMA WireGrows ==
  ASSUME BridgeTypeOK, NEW c \in Connections, NEW f \in Frames, wire'[c] = Append(wire[c], f)
  PROVE  /\ Len(wire'[c]) = Len(wire[c]) + 1 /\ Len(wire[c]) \in Nat
         /\ \A i \in EventsOf(c, f.sub) : i \in 1 .. Len(wire[c])
         /\ \A n : /\ \A i \in EventsOf(c, n)' : i \in EventsOf(c, n) \/ i = Len(wire[c]) + 1
                   /\ \A i \in EventsOf(c, n) : i \in 1 .. Len(wire[c])
                   /\ f.type = "response" \/ f.sub # n => EventsOf(c, n)' = EventsOf(c, n)
                   /\ \A i \in 1 .. Len(wire[c]) + 1 : Responded(c, n, i) => Responded(c, n, i)'
                   /\ Responded(c, n, Len(wire[c]) + 1) => Responded(c, n, Len(wire[c]) + 1)'
                   /\ f = [type |-> "response", sub |-> n, ok |-> TRUE]
                        => Responded(c, n, Len(wire[c]) + 1)'
<1> DEFINE w == wire[c]
<1>1. w \in Seq(Frames)
  BY DEF BridgeTypeOK
<1>2. wire'[c] = Append(w, f)
  OBVIOUS
<1> HIDE DEF w
<1>3. /\ Len(w) \in Nat /\ DOMAIN w = 1 .. Len(w)
      /\ wire'[c] \in Seq(Frames) /\ Len(wire'[c]) = Len(w) + 1
      /\ DOMAIN wire'[c] = 1 .. Len(w) + 1
      /\ \A i \in 1 .. Len(w) : wire'[c][i] = w[i]
      /\ wire'[c][Len(w) + 1] = f
  BY <1>1, <1>2
<1>4. ASSUME NEW n
      PROVE  /\ \A i \in EventsOf(c, n)' : i \in EventsOf(c, n) \/ i = Len(wire[c]) + 1
             /\ \A i \in EventsOf(c, n) : i \in 1 .. Len(wire[c])
             /\ f.type = "response" \/ f.sub # n => EventsOf(c, n)' = EventsOf(c, n)
  BY <1>3 DEF EventsOf, w
<1>5. ASSUME NEW n
      PROVE  /\ \A i \in 1 .. Len(wire[c]) + 1 : Responded(c, n, i) => Responded(c, n, i)'
             /\ Responded(c, n, Len(wire[c]) + 1) => Responded(c, n, Len(wire[c]) + 1)'
             /\ f = [type |-> "response", sub |-> n, ok |-> TRUE]
                  => Responded(c, n, Len(wire[c]) + 1)'
  <2>1. \A i \in 1 .. Len(w) + 1 : Responded(c, n, i) => Responded(c, n, i)'
    <3>1. SUFFICES ASSUME NEW i \in 1 .. Len(w) + 1, Responded(c, n, i)
                   PROVE  Responded(c, n, i)'
      OBVIOUS
    <3>2. PICK j \in 1 .. i - 1 : w[j] = [type |-> "response", sub |-> n, ok |-> TRUE]
      BY <3>1 DEF Responded, w
    <3>3. wire'[c][j] = w[j]
      BY <1>3, <3>1
    <3>4. QED
      BY <3>2, <3>3 DEF Responded
  <2>2. Responded(c, n, Len(w) + 1) => Responded(c, n, Len(wire[c]) + 1)'
    <3>1. SUFFICES ASSUME Responded(c, n, Len(w) + 1)
                   PROVE  Responded(c, n, Len(wire[c]) + 1)'
      OBVIOUS
    <3>2. PICK j \in 1 .. Len(w) : w[j] = [type |-> "response", sub |-> n, ok |-> TRUE]
      BY <1>3, <3>1 DEF Responded, w
    <3>3. wire'[c][j] = w[j] /\ j \in 1 .. (Len(wire'[c]) + 1) - 1
      BY <1>3
    <3>4. QED
      BY <3>2, <3>3 DEF Responded
  <2>3. f = [type |-> "response", sub |-> n, ok |-> TRUE] => Responded(c, n, Len(wire[c]) + 1)'
    <3>1. Len(w) + 1 \in 1 .. (Len(wire'[c]) + 1) - 1 /\ wire'[c][Len(w) + 1] = f
      BY <1>3
    <3>2. QED
      BY <3>1 DEF Responded
  <2>4. QED
    BY <2>1, <2>2, <2>3 DEF w
<1>6. QED
  BY <1>3, <1>4, <1>5 DEF w

\* A step that queues nothing and grants nothing, for a submission it is not about ...
LEMMA OldSubmissionStays ==
  ASSUME NEW c, NEW n, SubmissionInv(c, n), n # subs[c], subs'[c] = subs[c],
         bridge'[c][n] = bridge[c][n], grant'[c] = grant[c], wire'[c] = wire[c]
  PROVE  SubmissionInv(c, n)'
<1>1. ShutUntilReplied(c, n)' /\ TurnIsGranted(c, n)'
  <2>1. ShutUntilReplied(c, n)'
    BY DEF SubmissionInv, ShutUntilReplied
  <2>2. TurnIsGranted(c, n)'
    BY DEF SubmissionInv, TurnIsGranted, Accepted
  <2>3. QED
    BY <2>1, <2>2
<1>2. SilentWhileShut(c, n)'
  BY WireStays DEF SubmissionInv, SilentWhileShut
<1>3. TurnIsReplied(c, n)' /\ EventsFollow(c, n)'
  BY WireStays DEF SubmissionInv, TurnIsReplied, EventsFollow, Accepted
<1>4. QED
  BY <1>1, <1>2, <1>3 DEF SubmissionInv

\* ... and for the one it is about.
LEMMA SubmissionMoves ==
  ASSUME NEW c, NEW n \in Nat, SubmissionInv(c, n), n = subs[c], subs'[c] = subs[c],
         grant'[c] = grant[c], wire'[c] = wire[c], step[c] \notin {"accepted"},
         step'[c] \in Asking \union {"refused", "replied"} => bridge'[c][n].gate = "shut",
         step'[c] # "accepted",
         bridge'[c][n].gate = "shut"
           => bridge[c][n].gate = "shut" /\ bridge'[c][n].state \notin {"open", "sending"},
         step[c] \in {"replied", "ready", "gone"} => step'[c] \in {"replied", "ready", "gone"}
  PROVE  SubmissionInv(c, n)'
<1>1. ShutUntilReplied(c, n)'
  BY DEF ShutUntilReplied
<1>2. TurnIsGranted(c, n)'
  BY DEF SubmissionInv, TurnIsGranted, Accepted
<1>3. SilentWhileShut(c, n)'
  BY WireStays DEF SubmissionInv, SilentWhileShut
<1>4. TurnIsReplied(c, n)' /\ EventsFollow(c, n)'
  BY WireStays DEF SubmissionInv, TurnIsReplied, EventsFollow, Accepted
<1>5. QED
  BY <1>1, <1>2, <1>3, <1>4 DEF SubmissionInv

LEMMA DispatcherGated ==
  ASSUME GateInv, NEW c \in Connections, DispatcherSteps(c) \/ Submit(c) \/ HangUp(c) \/ Write(c)
  PROVE  MailboxInv' /\ Started' /\ \A d \in Connections, n \in Submissions : SubmissionInv(d, n)'
<1> DEFINE At(n) == SubmissionInv(c, n)
<1>1. /\ step \in [Connections -> Steps] /\ subs \in [Connections -> 0 .. MaxSubmits]
      /\ bridge \in [Connections -> [Submissions -> Bridges]]
      /\ wire \in [Connections -> Seq(Frames)]
      /\ BridgeTypeOK /\ MailboxInv /\ Started /\ \A n \in Submissions : At(n)
  BY DEF GateInv, BridgeTypeOK
<1>2. MaxSubmits \in Nat /\ subs[c] \in 0 .. MaxSubmits /\ DOMAIN bridge[c] = Submissions
  BY <1>1, BridgeAssumption
<1>3. step[c] \notin {"ready", "gone"} => subs[c] \in Submissions
  BY <1>1 DEF Started
<1>4. CASE Submit(c)
  <2>1. /\ step[c] = "ready" /\ step' = [step EXCEPT ![c] = "found"]
        /\ subs' = [subs EXCEPT ![c] = subs[c] + 1] /\ subs[c] < MaxSubmits
        /\ UNCHANGED <<mailbox, grant, bridge, wire>>
    BY <1>4 DEF Submit, outVars
  <2>2. step'[c] = "found" /\ subs'[c] = subs[c] + 1
    BY <1>1, <2>1
  <2>3. ASSUME NEW n \in Submissions
        PROVE  SubmissionInv(c, n)'
    <3>1. At(n) /\ n \in Nat
      BY <1>1 DEF Submissions
    <3>2. SubmissionInv(c, n)'
      <4>1. ShutUntilReplied(c, n)' /\ SilentWhileShut(c, n)'
        <5>1. n > subs[c] + 1 \/ n = subs[c] + 1 => n > subs[c]
          BY <1>2, <3>1
        <5>2. ShutUntilReplied(c, n)'
          BY <2>1, <2>2, <3>1, <5>1 DEF SubmissionInv, ShutUntilReplied
        <5>3. SilentWhileShut(c, n)'
          BY <2>1, <3>1, WireStays DEF SubmissionInv, SilentWhileShut
        <5>4. QED
          BY <5>2, <5>3
      <4>2. TurnIsGranted(c, n)'
        BY <1>2, <2>1, <2>2, <3>1 DEF SubmissionInv, TurnIsGranted, Accepted
      <4>3. TurnIsReplied(c, n)' /\ EventsFollow(c, n)'
        <5>1. Accepted(c, n)' = Accepted(c, n) /\ step[c] # "accepted"
          BY <2>1 DEF Accepted
        <5>2. TurnIsReplied(c, n) /\ EventsFollow(c, n)
          BY <3>1 DEF SubmissionInv
        <5>3. QED
          BY <2>1, <5>1, <5>2, WireStays DEF TurnIsReplied, EventsFollow
      <4>4. QED
        BY <4>1, <4>2, <4>3 DEF SubmissionInv
    <3>3. QED
      BY <3>2
  <2>4. MailboxInv'
    BY <1>1, <2>1, MailboxKept
  <2>5. Started'
    BY <1>1, <1>2, <2>1 DEF Started, Submissions
  <2>6. \A d \in Connections, n \in Submissions : SubmissionInv(d, n)'
    BY <1>1, <2>1, <2>2, <2>3, OthersStay
  <2>7. QED
    BY <2>4, <2>5, <2>6
<1>5. CASE Spawn(c)
  <2> DEFINE b == [NoBridge EXCEPT !.state = "gated", !.next = Subscribe]
  <2>1. /\ step[c] = "found" /\ step' = [step EXCEPT ![c] = "resuming"]
        /\ mailbox' = Append(mailbox, [conn |-> c, type |-> "resume"])
        /\ bridge' = [bridge EXCEPT ![c][subs[c]] = b]
        /\ UNCHANGED <<subs, grant, wire>>
    BY <1>5 DEF Spawn, outVars
  <2>2. b.state = "gated" /\ b.gate = "shut"
    BY DEF NoBridge
  <2> HIDE DEF b
  <2>3. /\ step'[c] = "resuming" /\ bridge'[c][subs[c]] = b
        /\ \A n \in Submissions \ {subs[c]} : bridge'[c][n] = bridge[c][n]
    BY <1>1, <1>3, <2>1
  <2>4. ASSUME NEW n \in Submissions
        PROVE  SubmissionInv(c, n)'
    <3>1. CASE n = subs[c]
      <4>1. bridge[c][n].gate = "shut" /\ n \in Nat /\ At(n)
        BY <1>1, <1>3, <2>1, <3>1 DEF SubmissionInv, ShutUntilReplied, Asking, Submissions
      <4>2. bridge'[c][n].gate = "shut" /\ bridge'[c][n].state = "gated"
        BY <2>2, <2>3, <3>1
      <4>3. QED
        BY <2>1, <2>3, <3>1, <4>1, <4>2, SubmissionMoves
    <3>2. CASE n # subs[c]
      BY <1>1, <2>1, <2>3, <3>2, OldSubmissionStays
    <3>3. QED
      BY <3>1, <3>2
  <2>5. MailboxInv'
    BY <1>1, <2>1, <2>3, MailboxGrows DEF Expects
  <2>6. Started'
    BY <1>1, <1>3, <2>1 DEF Started
  <2>7. \A d \in Connections, n \in Submissions : SubmissionInv(d, n)'
    BY <1>1, <2>1, <2>3, <2>4, OthersStay
  <2>8. QED
    BY <2>5, <2>6, <2>7
<1>6. CASE SendSubmit(c)
  <2>1. /\ step[c] = "resumed" /\ step' = [step EXCEPT ![c] = "submitting"]
        /\ mailbox' = Append(mailbox, [conn |-> c, type |-> "submit"])
        /\ UNCHANGED <<subs, grant, wire, bridge>>
    BY <1>6 DEF SendSubmit, outVars
  <2>2. step'[c] = "submitting"
    BY <1>1, <2>1
  <2>3. ASSUME NEW n \in Submissions
        PROVE  SubmissionInv(c, n)'
    <3>1. CASE n = subs[c]
      <4>1. bridge[c][n].gate = "shut" => bridge[c][n].state \notin {"open", "sending"}
        BY <1>1 DEF SubmissionInv, SilentWhileShut
      <4>2. step'[c] \in Asking => bridge[c][n].gate = "shut"
        BY <1>1, <2>1, <3>1 DEF SubmissionInv, ShutUntilReplied, Asking
      <4>3. n \in Nat /\ At(n)
        BY <1>1 DEF Submissions
      <4>4. step'[c] \notin {"refused", "replied"} /\ step'[c] # "accepted" /\ step[c] # "accepted"
        BY <2>1, <2>2
      <4>5. QED
        BY <2>1, <2>2, <3>1, <4>1, <4>2, <4>3, <4>4, SubmissionMoves
    <3>2. CASE n # subs[c]
      BY <1>1, <2>1, <3>2, OldSubmissionStays
    <3>3. QED
      BY <3>1, <3>2
  <2>4. MailboxInv'
    BY <1>1, <2>1, <2>2, MailboxGrows DEF Expects
  <2>5. Started'
    BY <1>1, <1>3, <2>1 DEF Started
  <2>6. \A d \in Connections, n \in Submissions : SubmissionInv(d, n)'
    BY <1>1, <2>1, <2>2, <2>3, OthersStay
  <2>7. QED
    BY <2>4, <2>5, <2>6
<1>7. CASE DropGate(c)
  <2> DEFINE b == [bridge[c][subs[c]] EXCEPT !.gate = "dropped", !.cancelled = TRUE]
  <2>1. /\ step[c] = "refused" /\ step' = [step EXCEPT ![c] = "sorry"]
        /\ bridge' = [bridge EXCEPT ![c][subs[c]] = b]
        /\ UNCHANGED <<mailbox, subs, grant, wire>>
    BY <1>7 DEF DropGate, outVars
  <2>2. b.gate = "dropped"
    BY <1>1, <1>3, <2>1 DEF Bridges
  <2> HIDE DEF b
  <2>3. /\ step'[c] = "sorry" /\ bridge'[c][subs[c]] = b
        /\ \A n \in Submissions \ {subs[c]} : bridge'[c][n] = bridge[c][n]
    BY <1>1, <1>3, <2>1
  <2>4. ASSUME NEW n \in Submissions
        PROVE  SubmissionInv(c, n)'
    <3>1. CASE n = subs[c]
      BY <1>1, <1>2, <2>1, <2>2, <2>3, <3>1, WireStays DEF SubmissionInv, ShutUntilReplied, SilentWhileShut, TurnIsGranted, TurnIsReplied, EventsFollow, Accepted, Asking
    <3>2. CASE n # subs[c]
      BY <1>1, <2>1, <2>3, <3>2, OldSubmissionStays
    <3>3. QED
      BY <3>1, <3>2
  <2>5. MailboxInv'
    BY <1>1, <2>1, MailboxKept
  <2>6. Started'
    BY <1>1, <1>3, <2>1 DEF Started
  <2>7. \A d \in Connections, n \in Submissions : SubmissionInv(d, n)'
    BY <1>1, <2>1, <2>3, <2>4, OthersStay
  <2>8. QED
    BY <2>5, <2>6, <2>7
<1>8. CASE Reply(c)
  <2> DEFINE f == [type |-> "response", sub |-> subs[c], ok |-> step[c] = "accepted"]
  <2>1. /\ \/ step[c] = "accepted" /\ step' = [step EXCEPT ![c] = "replied"]
           \/ step[c] = "sorry" /\ step' = [step EXCEPT ![c] = "ready"]
        /\ wire' = [wire EXCEPT ![c] = Append(wire[c], f)]
        /\ UNCHANGED <<mailbox, subs, grant, bridge>>
    BY <1>8 DEF Reply, Put
  <2>2. f \in Frames /\ f.type = "response"
    BY <1>3, <2>1 DEF Frames
  <2>3. step[c] = "accepted" => f = [type |-> "response", sub |-> subs[c], ok |-> TRUE]
    OBVIOUS
  <2> HIDE DEF f
  <2>4. /\ wire'[c] = Append(wire[c], f)
        /\ \/ step[c] = "accepted" /\ step'[c] = "replied"
           \/ step[c] = "sorry" /\ step'[c] = "ready"
    BY <1>1, <2>1
  <2>5. ASSUME NEW n \in Submissions
        PROVE  SubmissionInv(c, n)'
    <3>1. /\ EventsOf(c, n)' = EventsOf(c, n)
          /\ \A i \in EventsOf(c, n) : i \in 1 .. Len(wire[c])
          /\ \A i \in 1 .. Len(wire[c]) + 1 : Responded(c, n, i) => Responded(c, n, i)'
          /\ Responded(c, n, Len(wire[c]) + 1) => Responded(c, n, Len(wire[c]) + 1)'
          /\ step[c] = "accepted" /\ n = subs[c] => Responded(c, n, Len(wire[c]) + 1)'
          /\ Len(wire[c]) \in Nat
      BY <1>1, <2>2, <2>3, <2>4, WireGrows
    <3>2. ShutUntilReplied(c, n)' /\ SilentWhileShut(c, n)' /\ TurnIsGranted(c, n)'
      BY <1>1, <2>1, <2>4, <3>1
         DEF SubmissionInv, ShutUntilReplied, SilentWhileShut, TurnIsGranted, Accepted, Asking
    <3>3. TurnIsReplied(c, n)'
      BY <1>1, <2>1, <2>4, <3>1 DEF SubmissionInv, TurnIsReplied, Accepted
    <3>4. EventsFollow(c, n)'
      BY <1>1, <2>1, <3>1 DEF SubmissionInv, EventsFollow, Accepted
    <3>5. QED
      BY <3>2, <3>3, <3>4 DEF SubmissionInv
  <2>6. MailboxInv'
    BY <1>1, <2>1, MailboxKept
  <2>7. Started'
    BY <1>1, <1>3, <2>1 DEF Started
  <2>8. \A d \in Connections, n \in Submissions : SubmissionInv(d, n)'
    BY <1>1, <2>1, <2>4, <2>5, OthersStay
  <2>9. QED
    BY <2>6, <2>7, <2>8
<1>9. CASE Release(c)
  <2> DEFINE b == [bridge[c][subs[c]] EXCEPT !.gate = "open"]
  <2>1. /\ step[c] = "replied" /\ step' = [step EXCEPT ![c] = "ready"]
        /\ bridge' = [bridge EXCEPT ![c][subs[c]] = b]
        /\ UNCHANGED <<mailbox, subs, grant, wire>>
    BY <1>9 DEF Release, OpensGate, outVars
  <2>2. b.gate = "open"
    BY <1>1, <1>3, <2>1 DEF Bridges
  <2> HIDE DEF b
  <2>3. /\ step'[c] = "ready" /\ bridge'[c][subs[c]] = b
        /\ \A n \in Submissions \ {subs[c]} : bridge'[c][n] = bridge[c][n]
    BY <1>1, <1>3, <2>1
  <2>4. ASSUME NEW n \in Submissions
        PROVE  SubmissionInv(c, n)'
    <3>1. CASE n = subs[c]
      BY <1>1, <1>2, <2>1, <2>2, <2>3, <3>1, WireStays DEF SubmissionInv, ShutUntilReplied, SilentWhileShut, TurnIsGranted, TurnIsReplied, EventsFollow, Accepted, Asking
    <3>2. CASE n # subs[c]
      BY <1>1, <2>1, <2>3, <3>2, OldSubmissionStays
    <3>3. QED
      BY <3>1, <3>2
  <2>5. MailboxInv'
    BY <1>1, <2>1, MailboxKept
  <2>6. Started'
    BY <1>1, <1>3, <2>1 DEF Started
  <2>7. \A d \in Connections, n \in Submissions : SubmissionInv(d, n)'
    BY <1>1, <2>1, <2>3, <2>4, OthersStay
  <2>8. QED
    BY <2>5, <2>6, <2>7
<1>10. CASE HangUp(c)
  <2>1. /\ step[c] = "ready" /\ step' = [step EXCEPT ![c] = "gone"]
        /\ UNCHANGED <<mailbox, subs, grant, bridge, wire>>
    BY <1>10 DEF HangUp, outVars
  <2>2. step'[c] = "gone"
    BY <1>1, <2>1
  <2>3. ASSUME NEW n \in Submissions
        PROVE  SubmissionInv(c, n)'
    <3>1. CASE n = subs[c]
      <4>1. bridge[c][n].gate = "shut" => bridge[c][n].state \notin {"open", "sending"}
        BY <1>1 DEF SubmissionInv, SilentWhileShut
      <4>2. step'[c] \in Asking => bridge[c][n].gate = "shut"
        BY <1>1, <2>1, <3>1 DEF SubmissionInv, ShutUntilReplied, Asking
      <4>3. n \in Nat /\ At(n)
        BY <1>1 DEF Submissions
      <4>4. step'[c] \notin {"refused", "replied"} /\ step'[c] # "accepted" /\ step[c] # "accepted"
        BY <2>1, <2>2
      <4>5. QED
        BY <2>1, <2>2, <3>1, <4>1, <4>2, <4>3, <4>4, SubmissionMoves
    <3>2. CASE n # subs[c]
      BY <1>1, <2>1, <3>2, OldSubmissionStays
    <3>3. QED
      BY <3>1, <3>2
  <2>4. MailboxInv'
    BY <1>1, <2>1, MailboxKept
  <2>5. Started'
    BY <1>1, <2>1 DEF Started
  <2>6. \A d \in Connections, n \in Submissions : SubmissionInv(d, n)'
    BY <1>1, <2>1, <2>2, <2>3, OthersStay
  <2>7. QED
    BY <2>4, <2>5, <2>6
<1>11. CASE Write(c)
  <2>1. UNCHANGED <<mailbox, step, subs, grant, bridge, wire>>
    BY <1>11 DEF Write, clientVars
  <2>2. \A d \in Connections, n \in Submissions : SubmissionInv(d, n)'
    BY <2>1, SubmissionStays DEF GateInv
  <2>3. QED
    BY <1>1, <2>1, <2>2 DEF MailboxInv, Started
<1>12. QED
  BY <1>4, <1>5, <1>6, <1>7, <1>8, <1>9, <1>10, <1>11 DEF DispatcherSteps

\* A bridge only moves on once its gate is open, and then its response is queued.
LEMMA BridgesGated ==
  ASSUME GateInv, NEW c \in Connections, NEW n \in Submissions, BridgeSteps(c, n)
  PROVE  MailboxInv' /\ Started' /\ \A d \in Connections, m \in Submissions : SubmissionInv(d, m)'
<1> DEFINE b == bridge[c][n]
<1>1. /\ bridge \in [Connections -> [Submissions -> Bridges]] /\ b \in Bridges
      /\ wire \in [Connections -> Seq(Frames)] /\ step \in [Connections -> Steps]
      /\ subs \in [Connections -> 0 .. MaxSubmits]
      /\ BridgeTypeOK /\ \A m \in Submissions : SubmissionInv(c, m)
  BY DEF GateInv, BridgeTypeOK
<1>2. UNCHANGED <<mailbox, step, subs, grant>>
  BY DEF BridgeSteps, BridgeStops, BridgeOpens, BridgeReceives, BridgeSends, BridgeStep, clientVars
<1>3. MailboxInv' /\ Started'
  BY <1>2 DEF GateInv, MailboxInv, Started
<1>4. b.state \in {"open", "sending"} => b.gate # "shut"
  BY <1>1 DEF SubmissionInv, SilentWhileShut
\* a step that queues nothing
<1>5. ASSUME NEW new \in Bridges, bridge' = [bridge EXCEPT ![c][n] = new], UNCHANGED wire,
             new.gate = b.gate, new.state \in {"open", "sending"} => b.gate # "shut"
      PROVE  \A d \in Connections, m \in Submissions : SubmissionInv(d, m)'
  <2>1. ASSUME NEW m \in Submissions
        PROVE  SubmissionInv(c, m)'
    <3>1. /\ bridge'[c][m].gate = bridge[c][m].gate
          /\ bridge'[c][m].gate = "shut" =>
               \/ bridge'[c][m].state = bridge[c][m].state
               \/ bridge'[c][m].state \notin {"open", "sending"}
      BY <1>1, <1>5
    <3>2. SubmissionInv(c, m)
      BY <1>1
    <3>3. ShutUntilReplied(c, m)'
      BY <1>2, <3>1, <3>2 DEF SubmissionInv, ShutUntilReplied
    <3>4. SilentWhileShut(c, m)'
      BY <1>5, <3>1, <3>2, WireStays DEF SubmissionInv, SilentWhileShut
    <3>5. TurnIsGranted(c, m)'
      BY <1>2, <3>2 DEF SubmissionInv, TurnIsGranted, Accepted
    <3>6. TurnIsReplied(c, m)' /\ EventsFollow(c, m)'
      BY <1>2, <1>5, <3>2, WireStays DEF SubmissionInv, TurnIsReplied, EventsFollow, Accepted
    <3>7. QED
      BY <3>3, <3>4, <3>5, <3>6 DEF SubmissionInv
  <2>2. /\ step' = [step EXCEPT ![c] = step'[c]] /\ subs' = [subs EXCEPT ![c] = subs'[c]]
        /\ wire' = [wire EXCEPT ![c] = wire'[c]]
    BY <1>1, <1>2, <1>5
  <2>3. bridge' = [bridge EXCEPT ![c] = bridge'[c]]
    BY <1>1, <1>5
  <2>4. QED
    BY <1>2, <2>1, <2>2, <2>3, OthersStay
<1>6. CASE BridgeStops(c, n)
  <2> DEFINE new == [b EXCEPT !.state = "done"]
  <2>1. new \in Bridges /\ new.gate = b.gate /\ new.state = "done"
    BY <1>1 DEF Bridges
  <2>2. bridge' = [bridge EXCEPT ![c][n] = new] /\ UNCHANGED wire
    BY <1>6 DEF BridgeStops, BridgeStep
  <2> HIDE DEF new
  <2>3. QED
    BY <1>3, <1>5, <2>1, <2>2
<1>7. CASE BridgeOpens(c, n)
  <2> DEFINE new == [b EXCEPT !.state = "open"]
  <2>1. new \in Bridges /\ new.gate = b.gate /\ b.gate # "shut"
    BY <1>1, <1>7 DEF Bridges, BridgeOpens
  <2>2. bridge' = [bridge EXCEPT ![c][n] = new] /\ UNCHANGED wire
    BY <1>7 DEF BridgeOpens, BridgeStep
  <2> HIDE DEF new
  <2>3. QED
    BY <1>3, <1>5, <2>1, <2>2
<1>8. CASE BridgeReceives(c, n)
  <2> DEFINE held == IF b.next < Oldest THEN Lagged ELSE b.next
             next == IF b.next < Oldest THEN Oldest ELSE b.next + 1
             new == [b EXCEPT !.state = "sending", !.held = held, !.next = next]
  <2>1. b.next \in Nat \ {0} /\ Lagged \in Nat
    BY <1>1 DEF Bridges, Lagged
  <2>2. Oldest \in Nat \ {0}
    BY <1>1, Queue, BridgeAssumption DEF Oldest, BridgeTypeOK
  <2>3. held \in Nat /\ next \in Nat \ {0}
    BY <2>1, <2>2
  <2>4. bridge' = [bridge EXCEPT ![c][n] = new] /\ UNCHANGED wire
    BY <1>8 DEF BridgeReceives, BridgeStep
  <2> HIDE DEF held, next
  <2>5. new \in Bridges /\ new.gate = b.gate /\ b.gate # "shut"
    BY <1>1, <1>4, <1>8, <2>3 DEF Bridges, BridgeReceives
  <2> HIDE DEF new
  <2>6. QED
    BY <1>3, <1>5, <2>4, <2>5
<1>9. CASE BridgeSends(c, n)
  <2> DEFINE f == [type |-> "event", sub |-> n, at |-> b.held]
             new == [b EXCEPT !.state = AfterSending(b.held), !.held = 0]
  <2>1. f \in Frames /\ f.type = "event" /\ f.sub = n
    BY <1>1 DEF Frames, Bridges
  <2>2. new.gate = b.gate /\ b.gate # "shut"
    BY <1>1, <1>4, <1>9 DEF Bridges, BridgeSends
  <2>3. /\ bridge' = [bridge EXCEPT ![c][n] = new]
        /\ wire' = [wire EXCEPT ![c] = Append(wire[c], f)]
    BY <1>9 DEF BridgeSends, BridgeStep, Put
  <2> HIDE DEF f, new
  <2>4. /\ wire'[c] = Append(wire[c], f)
        /\ bridge'[c][n] = new /\ \A m \in Submissions \ {n} : bridge'[c][m] = bridge[c][m]
    BY <1>1, <2>3
  <2>5. ASSUME NEW m \in Submissions
        PROVE  SubmissionInv(c, m)'
    <3>1. SubmissionInv(c, m)
      BY <1>1
    <3>2. bridge'[c][m].gate = bridge[c][m].gate
      BY <2>2, <2>4
    <3>3. /\ \A i \in EventsOf(c, m)' : i \in EventsOf(c, m) \/ i = Len(wire[c]) + 1
          /\ \A i \in EventsOf(c, m) : i \in 1 .. Len(wire[c])
          /\ m # n => EventsOf(c, m)' = EventsOf(c, m)
          /\ \A i \in 1 .. Len(wire[c]) + 1 : Responded(c, m, i) => Responded(c, m, i)'
          /\ Responded(c, m, Len(wire[c]) + 1) => Responded(c, m, Len(wire[c]) + 1)'
          /\ Len(wire[c]) \in Nat
      BY <1>1, <2>1, <2>4, WireGrows
    <3>4. ShutUntilReplied(c, m)'
      BY <1>2, <3>1, <3>2 DEF SubmissionInv, ShutUntilReplied
    <3>5. SilentWhileShut(c, m)'
      <4>1. CASE m = n
        BY <2>2, <3>2, <4>1 DEF SilentWhileShut
      <4>2. CASE m # n
        BY <2>4, <3>1, <3>3, <4>2 DEF SubmissionInv, SilentWhileShut
      <4>3. QED
        BY <4>1, <4>2
    <3>6. TurnIsGranted(c, m)'
      BY <1>2, <3>1 DEF SubmissionInv, TurnIsGranted, Accepted
    <3>7. TurnIsReplied(c, m)'
      BY <1>2, <3>1, <3>3 DEF SubmissionInv, TurnIsReplied, Accepted
    <3>8. EventsFollow(c, m)'
      <4>1. SUFFICES ASSUME Accepted(c, m), NEW i \in EventsOf(c, m)'
                     PROVE  Responded(c, m, i)'
        BY <1>2 DEF EventsFollow, Accepted
      <4>2. CASE i \in EventsOf(c, m)
        BY <3>1, <3>3, <4>1, <4>2 DEF SubmissionInv, EventsFollow
      <4>3. CASE i \notin EventsOf(c, m)
        <5>1. i = Len(wire[c]) + 1 /\ m = n
          BY <3>3, <4>3
        <5>2. Responded(c, m, Len(wire[c]) + 1)
          BY <2>2, <3>1, <4>1, <5>1 DEF SubmissionInv, ShutUntilReplied, TurnIsReplied
        <5>3. QED
          BY <3>3, <5>1, <5>2
      <4>4. QED
        BY <4>2, <4>3
    <3>9. QED
      BY <3>4, <3>5, <3>6, <3>7, <3>8 DEF SubmissionInv
  <2>6. /\ step' = [step EXCEPT ![c] = step'[c]] /\ subs' = [subs EXCEPT ![c] = subs'[c]]
        /\ wire' = [wire EXCEPT ![c] = wire'[c]]
    BY <1>1, <1>2, <2>3
  <2>7. bridge' = [bridge EXCEPT ![c] = bridge'[c]]
    BY <1>1, <2>3
  <2>8. QED
    BY <1>2, <1>3, <2>5, <2>6, <2>7, OthersStay
<1>10. QED
  BY <1>6, <1>7, <1>8, <1>9 DEF BridgeSteps

LEMMA StepGated == GateInv /\ [BridgeNext]_vars => GateInv'
<1> SUFFICES ASSUME GateInv, [BridgeNext]_vars
             PROVE  GateInv'
  OBVIOUS
<1>1. BridgeTypeOK'
  BY StepTyped DEF GateInv
<1>2. MailboxInv' /\ Started' /\ \A c \in Connections, n \in Submissions : SubmissionInv(c, n)'
  <2>1. CASE UNCHANGED vars
    <3>1. UNCHANGED <<mailbox, step, subs, grant, bridge, wire>>
      BY <2>1 DEF vars, clientVars, outVars
    <3>2. \A c \in Connections, n \in Submissions : SubmissionInv(c, n)'
      BY <3>1, SubmissionStays DEF GateInv
    <3>3. QED
      BY <3>1, <3>2 DEF GateInv, MailboxInv, Started
  <2>2. CASE BridgeNext
    BY <2>2, ActorGated, DispatcherGated, BridgesGated DEF BridgeNext
  <2>3. QED
    BY <2>1, <2>2
<1>3. QED
  BY <1>1, <1>2 DEF GateInv

LEMMA Invariance == BridgeSpec => []GateInv
  BY InitGated, StepGated, PTL DEF BridgeSpec

-----------------------------------------------------------------------------
(* theorems *)

\* Nothing leaves the queues' bounds or the steps of dispatcher and bridges, with any number
\* of connections: a connection's queue never holds more than its capacity.
THEOREM BridgeTyped == BridgeSpec => []BridgeTypeOK
<1>1. GateInv => BridgeTypeOK
  BY DEF GateInv
<1>2. QED
  BY <1>1, Invariance, PTL

\* The response to an accepted prompt.submit is queued before every event its bridge
\* forwards, however the events of the turn, the reply and the bridges of the other
\* submissions interleave (the gate of stdio.rs and event_bridge.rs).
THEOREM ResponsesComeFirst == BridgeSpec => []ResponseFirst
<1>1. GateInv => ResponseFirst
  BY DEF GateInv, SubmissionInv, EventsFollow, Responded, ResponseFirst
<1>2. QED
  BY <1>1, Invariance, PTL
=============================================================================
