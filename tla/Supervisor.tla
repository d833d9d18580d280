------------------------------ MODULE Supervisor ------------------------------
(***************************************************************************)
(* The supervisor and the handles it gives out                             *)
(* (crates/sagent-runtime/src/supervisor.rs): the map from sessions to     *)
(* actors, the bounded mailbox of every actor, the one-shot reply of every *)
(* command, and the callers of get_or_start, get_running, remove and of    *)
(* the handle's operations.                                                *)
(*                                                                         *)
(* The map is locked for the length of one operation and never across an   *)
(* await, so each operation on it is one action.  What an actor does with  *)
(* a command is SessionActor's; here it takes the command, answers it, and *)
(* ends after a Close: it leaves its loop, its mailbox is dropped, and only *)
(* then does the runtime report the task as finished.  On the              *)
(* multi-threaded runtime of sagent-rpc these are steps of their own.      *)
(***************************************************************************)
EXTENDS Naturals, Sequences

CONSTANTS
  Sessions, Actors, Callers,
  NoSession, NoActor, NoCaller,
  Capacity,     \* MAILBOX_CAPACITY
  CanRemove,    \* whether callers use remove
  MaxOps        \* bound of the exploration

ASSUME SupervisorAssumption ==
  /\ NoSession \notin Sessions /\ NoActor \notin Actors /\ NoCaller \notin Callers
  /\ Capacity \in Nat \ {0} /\ MaxOps \in Nat /\ CanRemove \in BOOLEAN

VARIABLES
  managed,   \* the map: the actor of each session
  home,      \* the session an actor was created for
  life,      \* how far the task of an actor has come
  mailbox,
  serving,   \* the command an actor is working on
  state,     \* what a caller awaits
  target,    \* the actor it awaits it from
  handle,    \* the handle a caller holds
  reply,     \* content of the caller's one-shot channel
  ops        \* operations the callers may still begin

actorVars == <<life, mailbox, serving>>
callerVars == <<state, target, handle, reply>>
vars == <<managed, home, actorVars, callerVars, ops>>

-----------------------------------------------------------------------------
Lives == {"none", "running", "leaving", "dropped", "finished"}
Requests == [from : Callers \union {NoCaller}, type : {"call", "close"}]
Nothing == [from |-> NoCaller, type |-> "-"]

SupervisorTypeOK ==
  /\ managed \in [Sessions -> Actors \union {NoActor}]
  /\ home \in [Actors -> Sessions \union {NoSession}]
  /\ life \in [Actors -> Lives]
  /\ mailbox \in [Actors -> Seq(Requests)]
  /\ \A a \in Actors : Len(mailbox[a]) <= Capacity
  /\ serving \in [Actors -> Requests \union {Nothing}]
  /\ state \in [Callers -> {"idle", "waiting", "removing", "closing", "joining"}]
  /\ target \in [Callers -> Actors \union {NoActor}]
  /\ handle \in [Callers -> Actors \union {NoActor}]
  /\ reply \in [Callers -> {"-", "answered", "stopped"}]
  /\ ops \in 0 .. MaxOps

SupervisorInit ==
  /\ managed = [s \in Sessions |-> NoActor]
  /\ home = [a \in Actors |-> NoSession]
  /\ life = [a \in Actors |-> "none"]
  /\ mailbox = [a \in Actors |-> <<>>]
  /\ serving = [a \in Actors |-> Nothing]
  /\ state = [c \in Callers |-> "idle"]
  /\ target = [c \in Callers |-> NoActor]
  /\ handle = [c \in Callers |-> NoActor]
  /\ reply = [c \in Callers |-> "-"]
  /\ ops = MaxOps

-----------------------------------------------------------------------------
(* the map *)

\* mutant: an actor that left its loop is taken for finished
StaleWhenClosed(a) == a # NoActor /\ life[a] \in {"leaving", "dropped", "finished"}

Stale(a) == a # NoActor /\ life[a] = "finished"

\* reap_stale
Reaped == [s \in Sessions |-> IF Stale(managed[s]) THEN NoActor ELSE managed[s]]

Begin(c) == state[c] = "idle" /\ ops > 0 /\ ops' = ops - 1

\* mutant: an actor is started whatever the map says
UnmanagedAlways(s) == TRUE

Unmanaged(s) == Reaped[s] = NoActor

\* start_locked, which fails when the store cannot be opened.
Start(c, s) ==
  /\ Unmanaged(s)
  /\ \/ \E a \in Actors :
          /\ life[a] = "none" /\ life' = [life EXCEPT ![a] = "running"]
          /\ home' = [home EXCEPT ![a] = s]
          /\ managed' = [Reaped EXCEPT ![s] = a]
          /\ handle' = [handle EXCEPT ![c] = a]
     \/ managed' = Reaped /\ UNCHANGED <<home, life, handle>>

Lookup(c, s) ==
  /\ managed' = Reaped
  /\ handle' = [handle EXCEPT ![c] = IF Reaped[s] = NoActor THEN @ ELSE Reaped[s]]
  /\ UNCHANGED <<home, life>>

GetOrStart(c, s) ==
  /\ Begin(c)
  /\ Start(c, s) \/ (Reaped[s] # NoActor /\ Lookup(c, s))
  /\ UNCHANGED <<mailbox, serving, state, target, reply>>

GetRunning(c, s) ==
  /\ Begin(c) /\ Lookup(c, s)
  /\ UNCHANGED <<mailbox, serving, state, target, reply>>

\* remove, as far as the lock is held: the entry goes first.
RemoveEntry(c, s) ==
  /\ CanRemove /\ Begin(c)
  /\ managed' = [Reaped EXCEPT ![s] = NoActor]
  /\ IF Reaped[s] = NoActor
     THEN UNCHANGED <<state, target>>
     ELSE /\ state' = [state EXCEPT ![c] = "removing"]
          /\ target' = [target EXCEPT ![c] = Reaped[s]]
  /\ UNCHANGED <<home, actorVars, handle, reply>>

-----------------------------------------------------------------------------
(* commands *)

Open(a) == life[a] \in {"running", "leaving"}

Room(a) == Len(mailbox[a]) < Capacity
Post(c, a, type) == mailbox' = [mailbox EXCEPT ![a] = Append(@, [from |-> c, type |-> type])]

\* dispatch: a full or closed mailbox refuses at once and nothing changes.
Dispatch(c, type) ==
  /\ Begin(c) /\ handle[c] # NoActor
  /\ Open(handle[c]) /\ Room(handle[c]) /\ Post(c, handle[c], type)
  /\ state' = [state EXCEPT ![c] = "waiting"]
  /\ target' = [target EXCEPT ![c] = handle[c]]
  /\ reply' = [reply EXCEPT ![c] = "-"]
  /\ UNCHANGED <<managed, home, life, serving, handle>>

\* remove awaits room for its Close, or finds the mailbox dropped.
RemoveSend(c) ==
  /\ state[c] = "removing" /\ state' = [state EXCEPT ![c] = "closing"]
  /\ \/ /\ Open(target[c]) /\ Room(target[c]) /\ Post(c, target[c], "close")
        /\ reply' = [reply EXCEPT ![c] = "-"]
     \/ /\ ~Open(target[c])
        /\ reply' = [reply EXCEPT ![c] = "stopped"] /\ UNCHANGED mailbox
  /\ UNCHANGED <<managed, home, life, serving, target, handle, ops>>

\* The awaited reply is there; remove goes on to await the task.
Return(c) ==
  /\ state[c] \in {"waiting", "closing"} /\ reply[c] # "-"
  /\ state' = [state EXCEPT ![c] = IF @ = "closing" THEN "joining" ELSE "idle"]
  /\ UNCHANGED <<managed, home, actorVars, target, handle, reply, ops>>

Join(c) ==
  /\ state[c] = "joining" /\ life[target[c]] = "finished"
  /\ state' = [state EXCEPT ![c] = "idle"]
  /\ UNCHANGED <<managed, home, actorVars, target, handle, reply, ops>>

\* A connection breaks and the task that awaited a reply is aborted; the
\* command stays in the mailbox.  remove is not used by the transports.
Disown(m, c) == IF m.from = c THEN [m EXCEPT !.from = NoCaller] ELSE m

Abort(c) ==
  /\ state[c] = "waiting" /\ state' = [state EXCEPT ![c] = "idle"]
  /\ mailbox' = [a \in Actors |-> [i \in DOMAIN mailbox[a] |-> Disown(mailbox[a][i], c)]]
  /\ serving' = [a \in Actors |-> Disown(serving[a], c)]
  /\ UNCHANGED <<managed, home, life, target, handle, reply, ops>>

-----------------------------------------------------------------------------
(* an actor, as its supervisor sees it *)

Takes(a) == life[a] = "running"

Take(a) ==
  /\ Takes(a) /\ serving[a] = Nothing /\ mailbox[a] # <<>>
  /\ serving' = [serving EXCEPT ![a] = Head(mailbox[a])]
  /\ mailbox' = [mailbox EXCEPT ![a] = Tail(@)]
  /\ UNCHANGED <<managed, home, life, callerVars, ops>>

\* handle_input: the reply is sent before the loop is left.
Answer(a) ==
  /\ serving[a] # Nothing /\ serving' = [serving EXCEPT ![a] = Nothing]
  /\ reply' = [c \in Callers |-> IF c = serving[a].from THEN "answered" ELSE reply[c]]
  /\ life' = [life EXCEPT ![a] = IF serving[a].type = "close" THEN "leaving" ELSE @]
  /\ UNCHANGED <<managed, home, mailbox, state, target, handle, ops>>

\* mutant: the receiver outlives the loop
KeepsMailbox(a) == UNCHANGED <<mailbox, reply>>

\* Dropping the receiver drops the commands in it, and their reply senders.
DropsMailbox(a) ==
  /\ mailbox' = [mailbox EXCEPT ![a] = <<>>]
  /\ reply' = [c \in Callers |->
                 IF \E i \in DOMAIN mailbox[a] : mailbox[a][i].from = c THEN "stopped" ELSE reply[c]]

Drop(a) ==
  /\ life[a] = "leaving" /\ serving[a] = Nothing
  /\ life' = [life EXCEPT ![a] = "dropped"]
  /\ DropsMailbox(a)
  /\ UNCHANGED <<managed, home, serving, state, target, handle, ops>>

Finish(a) ==
  /\ life[a] = "dropped" /\ life' = [life EXCEPT ![a] = "finished"]
  /\ UNCHANGED <<managed, home, mailbox, serving, callerVars, ops>>

-----------------------------------------------------------------------------
CallerBegins(c) ==
  \/ \E s \in Sessions : GetOrStart(c, s) \/ GetRunning(c, s) \/ RemoveEntry(c, s)
  \/ \E type \in {"call", "close"} : Dispatch(c, type)
CallerGoesOn(c) == RemoveSend(c) \/ Return(c) \/ Join(c)
ActorSteps(a) == Take(a) \/ Answer(a) \/ Drop(a) \/ Finish(a)

SupervisorNext ==
  \/ \E c \in Callers : CallerBegins(c) \/ CallerGoesOn(c) \/ Abort(c)
  \/ \E a \in Actors : ActorSteps(a)

SupervisorSpec == SupervisorInit /\ [][SupervisorNext]_vars

\* Tasks that can go on do; nothing is assumed of what callers begin.
SupervisorFairSpec ==
  /\ SupervisorSpec
  /\ \A c \in Callers : WF_vars(CallerGoesOn(c))
  /\ \A a \in Actors : WF_vars(ActorSteps(a))

-----------------------------------------------------------------------------
(* properties *)

Unfinished(a) == life[a] \notin {"none", "finished"}
Removes(c) == state[c] \in {"removing", "closing", "joining"}
Awaits(c, a) == Removes(c) /\ target[c] = a

\* A task that has not finished is either the one its session's entry names or
\* one that a remove took out and still waits for; so a second actor exists
\* only beside a remove, and without remove a session has one writer.
ActorsAreAccountedFor ==
  \A a \in Actors : Unfinished(a) => managed[home[a]] = a \/ \E c \in Callers : Awaits(c, a)

\* Nothing but Close ends an actor, so one that nobody can find any more would
\* run, and write, for ever: a running actor is in the map, or a remove that
\* took it out is about to close it.
LiveActorsAreReachable ==
  \A a \in Actors : life[a] = "running" =>
    managed[home[a]] = a \/ \E c \in Callers : state[c] \in {"removing", "closing"} /\ target[c] = a

\* Every caller gets an answer or an error, also when the actor ends between
\* its command and the reply, or when remove meets a full mailbox.
EveryCallReturns == \A c \in Callers : state[c] # "idle" ~> state[c] = "idle"

-----------------------------------------------------------------------------
(* what the documentation says and the code does not do *)

\* supervisor.rs:4: a session has one actor at a time, hence one writer.
OneActorPerSession ==
  \A a, b \in Actors : Unfinished(a) /\ Unfinished(b) /\ home[a] = home[b] => a = b
=============================================================================
