----------------------------- MODULE EventBridge -----------------------------
(***************************************************************************)
(* How the events of one session reach the clients of sagent-rpc           *)
(* (transport/event_bridge.rs and stdio.rs): every prompt.submit           *)
(* subscribes to the session, starts a bridge task behind a gate, submits, *)
(* queues the response and opens the gate; the bridge copies events into   *)
(* the connection's outbound queue until a terminal one.  The session's    *)
(* events are a tokio broadcast: publishing never waits, and a subscriber  *)
(* that falls behind by more than the channel holds skips what it missed.  *)
(*                                                                         *)
(* The actor is reduced to what it publishes: the failure of a turn a      *)
(* restart left behind, and accepted, delta and ended of its own turns.    *)
(* Requests that are refused before the subscription leave no trace here.  *)
(***************************************************************************)
EXTENDS Naturals, Sequences

CONSTANTS
  Connections, Turns, NoTurn,
  Reading,      \* connections whose client reads what is written
  Window,       \* EVENT_CAPACITY
  OutCapacity,  \* OUTBOUND_CHANNEL_CAPACITY
  LeftOver,     \* whether a restart may have left a running turn
  MaxSubmits, MaxDeltas  \* bounds of the exploration

ASSUME BridgeAssumption ==
  /\ NoTurn \notin Turns /\ Reading \subseteq Connections
  /\ {Window, OutCapacity} \subseteq Nat \ {0} /\ {MaxSubmits, MaxDeltas} \subseteq Nat
  /\ LeftOver \in BOOLEAN /\ Turns # {}

VARIABLES
  actor,    \* "down", "starting" or "up"
  running,  \* the session's running turn
  used,     \* turns that were ever begun
  mailbox,  \* commands of the connections, in order
  feed,     \* everything published; subscribers hold positions in it
  step,     \* what a connection's dispatcher does next
  subs,     \* number of the connection's current submission
  grant,    \* the turn a submission was given
  bridge,   \* the bridge of every submission
  wire,     \* frames queued for a connection
  written,  \* how many of them were written out
  deltas

clientVars == <<step, subs, grant>>
outVars == <<wire, written>>
vars == <<actor, running, used, mailbox, feed, clientVars, bridge, outVars, deltas>>

-----------------------------------------------------------------------------
Submissions == 1 .. MaxSubmits
Events == [type : {"accepted", "delta", "ended"}, turn : Turns]
Commands == [conn : Connections, type : {"resume", "submit"}]
Lagged == 0

\* A frame names the submission it belongs to; an event also its place in the
\* feed, or Lagged.
Frames ==
  [type : {"response"}, sub : Submissions, ok : BOOLEAN]
    \union [type : {"event"}, sub : Submissions, at : Nat]

Steps == {"ready", "found", "resuming", "resumed", "submitting", "accepted", "refused", "sorry",
          "replied", "gone"}
Bridges ==
  [state : {"none", "gated", "open", "sending", "done"}, gate : {"shut", "open", "dropped"},
   cancelled : BOOLEAN, next : Nat \ {0}, held : Nat]
NoBridge == [state |-> "none", gate |-> "shut", cancelled |-> FALSE, next |-> 1, held |-> 0]

BridgeTypeOK ==
  /\ actor \in {"down", "starting", "up"}
  /\ running \in Turns \union {NoTurn} /\ used \subseteq Turns
  /\ mailbox \in Seq(Commands)
  /\ feed \in Seq(Events)
  /\ step \in [Connections -> Steps]
  /\ subs \in [Connections -> 0 .. MaxSubmits]
  /\ grant \in [Connections -> [Submissions -> Turns \union {NoTurn}]]
  /\ bridge \in [Connections -> [Submissions -> Bridges]]
  /\ wire \in [Connections -> Seq(Frames)]
  /\ written \in [Connections -> Nat]
  /\ \A c \in Connections : written[c] <= Len(wire[c]) /\ Len(wire[c]) - written[c] <= OutCapacity
  /\ deltas \in 0 .. MaxDeltas

\* Turn ids are new and nothing depends on which one is taken.
Fresh(ids) == CHOOSE t \in ids : TRUE

BridgeInit ==
  /\ actor = "down"
  /\ running \in {NoTurn} \union (IF LeftOver THEN {Fresh(Turns)} ELSE {}) /\ used = {running} \ {NoTurn}
  /\ mailbox = <<>> /\ feed = <<>>
  /\ step = [c \in Connections |-> "ready"] /\ subs = [c \in Connections |-> 0]
  /\ grant = [c \in Connections |-> [n \in Submissions |-> NoTurn]]
  /\ bridge = [c \in Connections |-> [n \in Submissions |-> NoBridge]]
  /\ wire = [c \in Connections |-> <<>>] /\ written = [c \in Connections |-> 0]
  /\ deltas = IF running = NoTurn THEN MaxDeltas ELSE 0  \* bound: not with a turn left over

-----------------------------------------------------------------------------
(* the actor *)

Publish(e) == feed' = Append(feed, e)

Recover ==
  /\ actor = "starting" /\ actor' = "up" /\ running' = NoTurn
  /\ IF running = NoTurn THEN UNCHANGED feed ELSE Publish([type |-> "ended", turn |-> running])
  /\ UNCHANGED <<used, mailbox, clientVars, bridge, outVars, deltas>>

Receive(type) ==
  /\ actor = "up" /\ mailbox # <<>> /\ Head(mailbox).type = type
  /\ mailbox' = Tail(mailbox)
Resume(c, to) == step' = [step EXCEPT ![c] = to]

\* A command that found the mailbox full counts as one that is refused.
ServeResume ==
  /\ Receive("resume")
  /\ \E to \in {"resumed", "refused"} : Resume(Head(mailbox).conn, to)
  /\ UNCHANGED <<actor, running, used, feed, subs, grant, bridge, outVars, deltas>>

\* submit_prompt: Busy, an error, or a turn; the events come before the reply.
ServeSubmit ==
  /\ Receive("submit")
  /\ LET c == Head(mailbox).conn IN
     \/ Resume(c, "refused") /\ UNCHANGED <<running, used, feed, grant>>
     \/ /\ running = NoTurn /\ Turns \ used # {}
        /\ LET t == Fresh(Turns \ used) IN
           /\ running' = t /\ used' = used \union {t}
           /\ Publish([type |-> "accepted", turn |-> t])
           /\ grant' = [grant EXCEPT ![c][subs[c]] = t]
        /\ Resume(c, "accepted")
  /\ UNCHANGED <<actor, subs, bridge, outVars, deltas>>

Delta ==
  /\ actor = "up" /\ running # NoTurn /\ deltas > 0 /\ deltas' = deltas - 1
  /\ Publish([type |-> "delta", turn |-> running])
  /\ UNCHANGED <<actor, running, used, mailbox, clientVars, bridge, outVars>>

End ==
  /\ actor = "up" /\ running # NoTurn /\ running' = NoTurn
  /\ Publish([type |-> "ended", turn |-> running])
  /\ UNCHANGED <<actor, used, mailbox, clientVars, bridge, outVars, deltas>>

-----------------------------------------------------------------------------
(* the dispatcher of a connection: dispatch_prompt_request *)

Ends(f) == f.type = "event" /\ f.at # Lagged /\ feed[f.at].type = "ended"
Delivered(c) == {wire[c][i] : i \in 1 .. written[c]}

\* mutant: one queue for all connections
PutShared(c, f) ==
  /\ \A d \in Connections : Len(wire[d]) - written[d] < OutCapacity
  /\ wire' = [wire EXCEPT ![c] = Append(@, f)]

\* Queue a frame, once there is room.
Put(c, f) ==
  /\ Len(wire[c]) - written[c] < OutCapacity
  /\ wire' = [wire EXCEPT ![c] = Append(@, f)]

Subscribe == Len(feed) + 1

\* get_or_start, whose actor begins with its recovery at once.
Submit(c) ==
  /\ step[c] = "ready" /\ subs[c] < MaxSubmits
  /\ step' = [step EXCEPT ![c] = "found"]
  /\ subs' = [subs EXCEPT ![c] = @ + 1]
  /\ actor' = IF actor = "down" THEN "starting" ELSE actor
  /\ UNCHANGED <<running, used, mailbox, feed, grant, bridge, outVars, deltas>>

Spawn(c) ==
  /\ step[c] = "found" /\ step' = [step EXCEPT ![c] = "resuming"]
  /\ bridge' = [bridge EXCEPT ![c][subs[c]] = [NoBridge EXCEPT !.state = "gated", !.next = Subscribe]]
  /\ mailbox' = Append(mailbox, [conn |-> c, type |-> "resume"])
  /\ UNCHANGED <<actor, running, used, feed, subs, grant, outVars, deltas>>

SendSubmit(c) ==
  /\ step[c] = "resumed" /\ step' = [step EXCEPT ![c] = "submitting"]
  /\ mailbox' = Append(mailbox, [conn |-> c, type |-> "submit"])
  /\ UNCHANGED <<actor, running, used, feed, subs, grant, bridge, outVars, deltas>>

\* The gate of a refused submission is dropped when its error is returned,
\* before the response is queued: it cancels the bridge and drops the sender.
DropGate(c) ==
  /\ step[c] = "refused" /\ step' = [step EXCEPT ![c] = "sorry"]
  /\ bridge' = [bridge EXCEPT ![c][subs[c]] = [@ EXCEPT !.gate = "dropped", !.cancelled = TRUE]]
  /\ UNCHANGED <<actor, running, used, mailbox, feed, subs, grant, outVars, deltas>>

\* mutant: the gate is opened before the response is queued
OpensEarly == {"accepted", "replied"}

OpensGate == {"replied"}

Reply(c) ==
  /\ \/ step[c] = "accepted" /\ step' = [step EXCEPT ![c] = "replied"]
     \/ step[c] = "sorry" /\ step' = [step EXCEPT ![c] = "ready"]
  /\ Put(c, [type |-> "response", sub |-> subs[c], ok |-> step[c] = "accepted"])
  /\ UNCHANGED <<actor, running, used, mailbox, feed, subs, grant, bridge, written, deltas>>

Release(c) ==
  /\ step[c] \in OpensGate /\ step' = [step EXCEPT ![c] = "ready"]
  /\ bridge' = [bridge EXCEPT ![c][subs[c]] = [@ EXCEPT !.gate = "open"]]
  /\ UNCHANGED <<actor, running, used, mailbox, feed, subs, grant, outVars, deltas>>

\* End of input: the dispatcher has drained its requests and the connection is
\* cancelled; the writer drains the queue and ends with its last sender.
HangUp(c) ==
  /\ step[c] = "ready" /\ step' = [step EXCEPT ![c] = "gone"]
  /\ UNCHANGED <<actor, running, used, mailbox, feed, subs, grant, bridge, outVars, deltas>>

Write(c) ==
  /\ written[c] < Len(wire[c]) /\ written' = [written EXCEPT ![c] = @ + 1]
  /\ UNCHANGED <<actor, running, used, mailbox, feed, clientVars, bridge, wire, deltas>>

-----------------------------------------------------------------------------
(* a bridge *)

\* mutant: the bridge's token is not a child of the connection's
CancelledAlone(c, n) == bridge[c][n].cancelled

Cancelled(c, n) == bridge[c][n].cancelled \/ step[c] = "gone"

BridgeStep(c, n, b) ==
  /\ bridge' = [bridge EXCEPT ![c][n] = b]
  /\ UNCHANGED <<actor, running, used, mailbox, feed, clientVars, written, deltas>>

\* select! at the gate, and at the subscription: a cancelled bridge may take
\* the other branch when that is ready too.
BridgeStops(c, n) ==
  /\ bridge[c][n].state \in {"gated", "open"} /\ Cancelled(c, n)
  /\ BridgeStep(c, n, [bridge[c][n] EXCEPT !.state = "done"]) /\ UNCHANGED wire

BridgeOpens(c, n) ==
  /\ bridge[c][n].state = "gated" /\ bridge[c][n].gate # "shut"
  /\ BridgeStep(c, n, [bridge[c][n] EXCEPT !.state = "open"]) /\ UNCHANGED wire

Oldest == IF Len(feed) > Window THEN Len(feed) - Window + 1 ELSE 1

IsTerminal(at) == at # Lagged /\ feed[at].type = "ended"

\* mutant: the loop is left on a terminal event before it is sent
EndSwallowed(c, n) ==
  LET b == bridge[c][n] IN
  /\ b.state = "open" /\ b.next <= Len(feed)
  /\ BridgeStep(c, n, [b EXCEPT !.state = IF IsTerminal(b.next) THEN "done" ELSE "sending",
                                !.held = b.next, !.next = @ + 1])
  /\ UNCHANGED wire

BridgeReceives(c, n) ==
  LET b == bridge[c][n] IN
  /\ b.state = "open" /\ b.next <= Len(feed)
  /\ BridgeStep(c, n, [b EXCEPT !.state = "sending",
                                !.held = IF b.next < Oldest THEN Lagged ELSE b.next,
                                !.next = IF b.next < Oldest THEN Oldest ELSE b.next + 1])
  /\ UNCHANGED wire

AfterSending(at) == IF IsTerminal(at) THEN "done" ELSE "open"

BridgeSends(c, n) ==
  /\ bridge[c][n].state = "sending"
  /\ Put(c, [type |-> "event", sub |-> n, at |-> bridge[c][n].held])
  /\ BridgeStep(c, n, [bridge[c][n] EXCEPT !.state = AfterSending(bridge[c][n].held), !.held = 0])

-----------------------------------------------------------------------------
ActorSteps == Recover \/ ServeResume \/ ServeSubmit
DispatcherSteps(c) == Spawn(c) \/ SendSubmit(c) \/ DropGate(c) \/ Reply(c) \/ Release(c)
BridgeSteps(c, n) ==
  BridgeStops(c, n) \/ BridgeOpens(c, n) \/ BridgeReceives(c, n) \/ BridgeSends(c, n)

BridgeNext ==
  \/ ActorSteps \/ Delta \/ End
  \/ \E c \in Connections :
       \/ Submit(c) \/ DispatcherSteps(c) \/ HangUp(c) \/ Write(c)
       \/ \E n \in Submissions : BridgeSteps(c, n)

BridgeSpec == BridgeInit /\ [][BridgeNext]_vars

\* Tasks that can go on do.  Clients read only if they are in Reading, and
\* nothing is assumed of turns, which may run for ever.
BridgeFairSpec ==
  /\ BridgeSpec
  /\ WF_vars(ActorSteps)
  /\ \A c \in Connections :
       /\ WF_vars(DispatcherSteps(c))
       /\ \A n \in Submissions : WF_vars(BridgeSteps(c, n))
  /\ \A c \in Reading : WF_vars(Write(c))

-----------------------------------------------------------------------------
(* properties *)

Accepted(c, n) == grant[c][n] # NoTurn
EventsOf(c, n) == {i \in DOMAIN wire[c] : wire[c][i].type = "event" /\ wire[c][i].sub = n}
HasLagged(c, n) == \E i \in EventsOf(c, n) : wire[c][i].at = Lagged

\* The response to a submission that was accepted comes before every event
\* its bridge forwards, although the turn publishes before the reply is sent.
ResponseFirst ==
  \A c \in Connections, n \in Submissions : Accepted(c, n) =>
    \A i \in EventsOf(c, n) :
      \E j \in 1 .. i - 1 : wire[c][j] = [type |-> "response", sub |-> n, ok |-> TRUE]

\* A submission is answered, however little the other clients of the session
\* read: what piles up for them holds up neither the actor nor this queue.
EverySubmitIsAnswered ==
  \A c \in Reading : step[c] \in {"found", "resuming", "submitting"} ~> step[c] \in {"ready", "gone"}

\* The failure of a turn that a restart left behind is published without its
\* beginning; the bridge of the first submission takes it for the end of its own.
NothingWasLeft ==
  \A i \in DOMAIN feed : feed[i].type = "ended" =>
    \E j \in 1 .. i - 1 : feed[j] = [type |-> "accepted", turn |-> feed[i].turn]

\* A client that stays and reads sees how its turn ended, or that it lagged,
\* whatever the other clients of the session do, unless a restart left a turn.
EndIsShown ==
  \A c \in Reading, n \in Submissions :
    Accepted(c, n) /\ NothingWasLeft /\
    (\E i \in DOMAIN feed : feed[i] = [type |-> "ended", turn |-> grant[c][n]])
      ~> \/ step[c] = "gone" \/ HasLagged(c, n)
         \/ \E f \in Delivered(c) : Ends(f) /\ feed[f.at].turn = grant[c][n]

\* After the end of input the writer ends: no bridge keeps its queue open and
\* what was queued is written.
Closed(c) ==
  /\ written[c] = Len(wire[c])
  /\ \A n \in Submissions : bridge[c][n].state \in {"none", "done"}
HangUpDrains == \A c \in Reading : step[c] = "gone" ~> Closed(c)
=============================================================================
