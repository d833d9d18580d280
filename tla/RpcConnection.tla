---------------------------- MODULE RpcConnection ----------------------------
(***************************************************************************)
(* The connections of sagent-rpc: the reader, dispatcher and writer tasks  *)
(* of a stdio or WebSocket connection and the task that joins them         *)
(* (transport/stdio.rs, websocket.rs), the gate and the dispatch of the    *)
(* protocol (sagent-protocol), and the handlers of the profile's service   *)
(* (sagent-protocol/src/service).                                          *)
(*                                                                         *)
(* All requests name one session.  Its actor is what a connection sees of  *)
(* Supervisor and SessionActor: up or not, one turn at a time, and the     *)
(* approval capability Resume leaves in it.  The bridges that carry events *)
(* are EventBridge; here they take no room in the outbound queue.          *)
(***************************************************************************)
EXTENDS Naturals, Sequences, FiniteSets

CONSTANTS
  Connections,
  InCapacity,   \* REQUEST_CHANNEL_CAPACITY
  OutCapacity,  \* OUTBOUND_CHANNEL_CAPACITY
  Used,         \* methods the clients call, besides client.hello
  MaxFrames, MaxFaults, MaxCloses  \* bounds of the exploration

Reads        == {"gateway.ping", "config.read", "session.list", "session.resume"}
Interactive  == {"session.create", "prompt.submit", "session.interrupt", "session.events.since"}
Answering    == {"approval.respond"}
REGISTERED_METHODS == Reads \union {"client.hello"} \union Interactive \union Answering

ASSUME RpcAssumption ==
  /\ {InCapacity, OutCapacity} \subseteq Nat \ {0}
  /\ Used \subseteq (REGISTERED_METHODS \ {"client.hello"}) \union {"unknown"}
  /\ {MaxFrames, MaxFaults, MaxCloses} \subseteq Nat

VARIABLES
  transport, providerReady,   \* fixed when the process starts
  attentive,                  \* the clients that take what is written as long as they listen
  talks, listens,             \* the client still sends; it still takes what is written
  standing,                   \* history: what the hellos it sent so far entitle it to
  reader, inbox, disp, outbox, writer, main, cancelled,
  access,                     \* ConnectionAccess
  owed,                       \* history: ids of frames owed a reply that was not written yet
  misplaced,                  \* history: a reply was written that was not the next one owed
  sessions,                   \* sessions in the store; requests name the first
  actor,                      \* the session's actor
  arrived, closes, faults

clientVars  == <<talks, listens, standing, arrived, closes>>
taskVars    == <<reader, inbox, disp, outbox, writer, main, cancelled>>
replyVars   == <<owed, misplaced>>
profileVars == <<transport, providerReady, attentive>>
runtimeVars == <<sessions, actor>>
vars == <<profileVars, clientVars, taskVars, replyVars, access, runtimeVars, faults>>

-----------------------------------------------------------------------------
NoClient == "none"

\* ConnectionAccess.require for the class of a method.  Unknown methods have no
\* class, so that a typing error is not hidden behind the handshake.
Gate(client, method) ==
  CASE method \in Interactive \union Answering /\ client = NoClient -> "handshake_required"
    [] method \in Answering /\ client = "plain"                     -> "capability_not_granted"
    [] OTHER                                                        -> "none"

\* mutant: no handler asks for the capability
RefusalUngated(client, f) ==
  IF f.fault = "garbage" THEN "parse_error"
  ELSE IF f.fault = "version" THEN "invalid_request"
  ELSE IF f.method = "unknown" THEN "method_not_found"
  ELSE IF f.fault = "params" THEN "invalid_params"
  ELSE IF f.fault = "protocol" THEN "unsupported_protocol_version" ELSE "none"

\* The order of the checks every handler begins with.
Refusal(client, f) ==
  IF f.fault = "garbage" THEN "parse_error"
  ELSE IF f.fault = "version" THEN "invalid_request"
  ELSE IF Gate(client, f.method) # "none" THEN Gate(client, f.method)
  ELSE IF f.method = "unknown" THEN "method_not_found"
  ELSE IF f.fault = "params" THEN "invalid_params"
  ELSE IF f.fault = "protocol" THEN "unsupported_protocol_version" ELSE "none"

GateErrors == {"handshake_required", "capability_not_granted"}

\* A frame: a request, with an id or as a notification, or bytes that are none.
\* Only hellos are told apart when they arrive: which method another request
\* names, and what is wrong with it, is chosen when the dispatcher looks.
\* A frame keeps what the hellos before it entitled its connection to (history).
Frames(n, due) ==
  [kind : {"request"}, id : {n}, wants : BOOLEAN, hello : {NoClient}, standing : {due}]
    \union [kind : {"hello"}, id : {n}, wants : BOOLEAN,
            hello : {NoClient, "plain", "interactive"}, standing : {due}]
    \union [kind : {"garbage"}, id : {0}, wants : {TRUE}, hello : {NoClient}, standing : {due}]

\* The requests a frame may turn out to be.
Parsed(frame, methods, errors) ==
  [id : {frame.id}, wants : {frame.wants}, hello : {frame.hello}, standing : {frame.standing},
   method : methods, fault : errors]
Requests(frame) ==
  CASE frame.kind = "request" -> Parsed(frame, Used, {"none", "version", "params"})
    [] frame.kind = "hello" ->
         Parsed(frame, {"client.hello"},
                IF frame.hello = NoClient THEN {"version", "params", "protocol"} ELSE {"none"})
    [] frame.kind = "garbage" -> Parsed(frame, {"none"}, {"garbage"})

Idle  == [at |-> "recv"]
Ended == [at |-> "ok"]
Gone  == [at |-> "gone"]

\* JsonRpcResponse: success or failure under the id of the request; due is what
\* the gate owes the request by its place in the stream.
Reply(f, error) ==
  [id |-> f.id, error |-> error, accepted |-> FALSE,
   due |-> IF f.fault \in {"garbage", "version"} THEN "none" ELSE Gate(f.standing, f.method)]

NoTurn(a) == [a EXCEPT !.running = FALSE, !.asked = FALSE]
NoActor == [up |-> FALSE, interactive |-> TRUE, running |-> FALSE, asked |-> FALSE]

-----------------------------------------------------------------------------
Init ==
  /\ transport \in {"stdio", "websocket"} /\ providerReady \in BOOLEAN
  /\ attentive \in SUBSET Connections
  /\ \E first \in Connections :
       talks = [c \in Connections |-> transport = "websocket" \/ c = first]
  /\ listens = talks
  /\ standing = [c \in Connections |-> NoClient]
  /\ reader = [c \in Connections |-> IF talks[c] THEN "run" ELSE "gone"]
  /\ writer = reader
  /\ inbox = [c \in Connections |-> <<>>] /\ outbox = inbox /\ owed = inbox /\ misplaced = FALSE
  /\ disp = [c \in Connections |-> IF talks[c] THEN Idle ELSE Gone]
  /\ main = [c \in Connections |-> IF talks[c] THEN "select" ELSE "closed"]
  /\ cancelled = [c \in Connections |-> FALSE]
  /\ access = standing
  /\ sessions \in {0, 1} /\ actor = NoActor
  /\ arrived = 0 /\ closes = 0 /\ faults = 0

-----------------------------------------------------------------------------
\* The client.  On stdio it may close either pipe; a WebSocket closes as a whole.
StopsTalking(c) ==
  /\ talks[c] /\ main[c] # "closed" /\ closes < MaxCloses /\ closes' = closes + 1
  /\ talks' = [talks EXCEPT ![c] = FALSE]
  /\ listens' = IF transport = "websocket" THEN [listens EXCEPT ![c] = FALSE] ELSE listens
  /\ UNCHANGED <<standing, arrived, taskVars, replyVars, profileVars, access, runtimeVars, faults>>

StopsListening(c) ==
  /\ transport = "stdio" /\ listens[c] /\ main[c] # "closed" /\ closes < MaxCloses /\ closes' = closes + 1
  /\ listens' = [listens EXCEPT ![c] = FALSE]
  /\ UNCHANGED <<talks, standing, arrived, taskVars, replyVars, profileVars, access, runtimeVars, faults>>

\* reader_loop takes a frame: garbage is answered in its place in the queue.
Receive(c) ==
  /\ reader[c] = "run" /\ talks[c] /\ Len(inbox[c]) < InCapacity /\ arrived < MaxFrames
  /\ arrived' = arrived + 1
  /\ \E f \in Frames(arrived + 1, standing[c]) :
       /\ inbox' = [inbox EXCEPT ![c] = Append(@, f)]
       /\ owed' = IF f.wants THEN [owed EXCEPT ![c] = Append(@, f.id)] ELSE owed
       /\ standing' = IF f.hello # NoClient THEN [standing EXCEPT ![c] = f.hello] ELSE standing
  /\ UNCHANGED <<talks, listens, closes, reader, disp, outbox, writer, main, cancelled, misplaced,
                 profileVars, access, runtimeVars, faults>>

ReaderEnds(c) ==
  /\ reader[c] = "run"
  /\ ~talks[c] \/ cancelled[c]
  /\ reader' = [reader EXCEPT ![c] = "ok"]
  /\ UNCHANGED <<clientVars, inbox, disp, outbox, writer, main, cancelled, replyVars, profileVars,
                 access, runtimeVars, faults>>

\* A read error, a connection that is reset.
Fault == faults < MaxFaults /\ faults' = faults + 1

ReaderFails(c) ==
  /\ reader[c] = "run" /\ Fault
  /\ reader' = [reader EXCEPT ![c] = "err"]
  /\ UNCHANGED <<clientVars, inbox, disp, outbox, writer, main, cancelled, replyVars, profileVars,
                 access, runtimeVars>>

-----------------------------------------------------------------------------
\* dispatcher_loop: one request at a time, to its reply.
FinishAlways(c, f, reply) ==  \* mutant: notifications are answered too
  disp' = [disp EXCEPT ![c] = [at |-> "send", reply |-> reply]]

Finish(c, f, reply) ==
  disp' = [disp EXCEPT ![c] = IF f.wants THEN [at |-> "send", reply |-> reply] ELSE Idle]

Take(c, f) ==
  /\ disp[c].at = "recv" /\ inbox[c] # <<>>
  /\ inbox' = [inbox EXCEPT ![c] = Tail(@)]

Passes(c, f, methods) ==
  Take(c, f) /\ f.method \in methods /\ Refusal(access[c], f) = "none"

dispOthers == <<reader, outbox, writer, main, cancelled, replyVars, clientVars, profileVars>>

Refuse(c, f) ==
  /\ Take(c, f)
  /\ LET error == Refusal(access[c], f) IN error # "none" /\ Finish(c, f, Reply(f, error))
  /\ UNCHANGED <<dispOthers, access, runtimeVars, faults>>

Hello(c, f) ==
  /\ Passes(c, f, {"client.hello"})
  /\ access' = [access EXCEPT ![c] = f.hello]
  /\ Finish(c, f, Reply(f, "none"))
  /\ UNCHANGED <<dispOthers, runtimeVars, faults>>

\* Reads of the snapshot taken at start, and of the store.
Read(c, f) ==
  /\ Passes(c, f, Reads)
  /\ Finish(c, f, Reply(f, IF f.method = "session.resume" /\ sessions = 0
                           THEN "session_not_found" ELSE "none"))
  /\ UNCHANGED <<dispOthers, access, runtimeVars, faults>>

\* The store cannot be read: the session is looked up before anything else.
StoreFails(c, f) ==
  /\ Passes(c, f, REGISTERED_METHODS \ {"client.hello", "gateway.ping", "config.read", "session.create"})
  /\ f.method = "prompt.submit" => providerReady
  /\ Fault /\ Finish(c, f, Reply(f, "store_unavailable"))
  /\ UNCHANGED <<dispOthers, access, runtimeVars>>

\* create_session writes through one storage and reads the row back through
\* another; either may fail.  No actor is started.
Create(c, f) ==
  /\ Passes(c, f, {"session.create"})
  /\ \/ sessions' = sessions + 1 /\ Finish(c, f, Reply(f, "none")) /\ UNCHANGED faults
     \/ /\ sessions' \in {sessions, sessions + 1} /\ Fault
        /\ Finish(c, f, Reply(f, "store_unavailable"))
  /\ UNCHANGED <<dispOthers, access, actor>>

\* events_since: the page, then the latest sequence, in two queries; either may
\* fail.
ReadPage(c, f) ==
  /\ Passes(c, f, {"session.events.since"})
  /\ IF sessions = 0 THEN Finish(c, f, Reply(f, "session_not_found"))
     ELSE disp' = [disp EXCEPT ![c] = [at |-> "latest", frame |-> f, reply |-> <<>>]]
  /\ UNCHANGED <<dispOthers, access, runtimeVars, faults>>

ReadLatest(c) ==
  /\ disp[c].at = "latest"
  /\ \/ Finish(c, disp[c].frame, Reply(disp[c].frame, "none")) /\ UNCHANGED faults
     \/ Finish(c, disp[c].frame, Reply(disp[c].frame, "store_unavailable")) /\ Fault
  /\ UNCHANGED <<inbox, dispOthers, access, runtimeVars>>

-----------------------------------------------------------------------------
\* dispatch_prompt_request: the actor is found or started, told of this
\* connection's capability, and given the prompt, with an await between each.
StartPrompt(c, f) ==
  /\ Passes(c, f, {"prompt.submit"})
  /\ CASE ~providerReady -> Finish(c, f, Reply(f, "runtime_unavailable")) /\ UNCHANGED actor
       [] providerReady /\ sessions = 0 ->
            Finish(c, f, Reply(f, "session_not_found")) /\ UNCHANGED actor
       [] OTHER ->
            /\ actor' = [actor EXCEPT !.up = TRUE]
            /\ disp' = [disp EXCEPT ![c] = [at |-> "resume", frame |-> f, reply |-> <<>>]]
  /\ UNCHANGED <<dispOthers, access, sessions, faults>>

ResumeActor(c) ==
  /\ disp[c].at = "resume" /\ actor.up
  /\ actor' = [actor EXCEPT !.interactive = access[c] = "interactive"]
  /\ disp' = [disp EXCEPT ![c] = [at |-> "submit", frame |-> @.frame, reply |-> <<>>]]
  /\ UNCHANGED <<inbox, dispOthers, access, sessions, faults>>

\* The actor has stopped, or its mailbox is full.
ActorRefuses(c) ==
  /\ disp[c].at \in {"resume", "submit", "control"}
  /\ Finish(c, disp[c].frame, Reply(disp[c].frame, "runtime_unavailable"))
  /\ UNCHANGED <<inbox, dispOthers, access, runtimeVars, faults>>

\* The actor cannot write: a submission begins nothing; an interrupt has stopped the
\* tasks of its turn, the request for an approval among them, and leaves it running.
ActorCannotWrite(c) ==
  /\ actor.up /\ Fault
  /\ \/ disp[c].at = "submit" /\ ~actor.running /\ UNCHANGED actor
     \/ /\ disp[c].at = "control" /\ disp[c].frame.method = "session.interrupt"
        /\ actor.running /\ actor' = [actor EXCEPT !.asked = FALSE]
  /\ Finish(c, disp[c].frame, Reply(disp[c].frame, "store_unavailable"))
  /\ UNCHANGED <<inbox, dispOthers, access, sessions>>

SubmitPrompt(c) ==
  /\ disp[c].at = "submit" /\ actor.up
  /\ LET f == disp[c].frame IN
     IF actor.running THEN Finish(c, f, Reply(f, "session_busy")) /\ UNCHANGED actor
     ELSE /\ actor' = [actor EXCEPT !.running = TRUE]
          /\ Finish(c, f, [Reply(f, "none") EXCEPT !.accepted = TRUE])
  /\ UNCHANGED <<inbox, dispOthers, access, sessions, faults>>

\* dispatch_control_request: active_handle never starts an actor.
Control(c, f) ==
  /\ Passes(c, f, {"session.interrupt", "approval.respond"})
  /\ CASE sessions = 0 -> Finish(c, f, Reply(f, "session_not_found"))
       [] sessions # 0 /\ ~actor.up -> Finish(c, f, Reply(f, "no_active_turn"))
       [] OTHER -> disp' = [disp EXCEPT ![c] = [at |-> "control", frame |-> f, reply |-> <<>>]]
  /\ UNCHANGED <<dispOthers, access, runtimeVars, faults>>

ControlActor(c) ==
  /\ disp[c].at = "control" /\ actor.up
  /\ LET f == disp[c].frame IN
     CASE f.method = "session.interrupt" /\ actor.running ->
            /\ actor' = NoTurn(actor)
            /\ Finish(c, f, Reply(f, "none"))
       [] f.method = "approval.respond" /\ actor.asked ->
            actor' = [actor EXCEPT !.asked = FALSE] /\ Finish(c, f, Reply(f, "none"))
       [] OTHER -> Finish(c, f, Reply(f, "no_active_turn")) /\ UNCHANGED actor
  /\ UNCHANGED <<inbox, dispOthers, access, sessions, faults>>

\* The reply is queued; without a writer the dispatcher is done, except that the
\* handler of prompts queues the reply of a turn itself and goes on.
SendReply(c) ==
  /\ disp[c].at = "send"
  /\ IF writer[c] = "run"
     THEN /\ Len(outbox[c]) < OutCapacity
          /\ outbox' = [outbox EXCEPT ![c] = Append(@, disp[c].reply.id)]
          /\ disp' = [disp EXCEPT ![c] = Idle]
     ELSE /\ disp' = [disp EXCEPT ![c] = IF disp[c].reply.accepted THEN Idle ELSE Ended]
          /\ UNCHANGED outbox
  /\ UNCHANGED <<clientVars, reader, inbox, writer, main, cancelled, replyVars, profileVars, access,
                 runtimeVars, faults>>

DispatcherEnds(c) ==
  /\ disp[c].at = "recv"
  /\ (inbox[c] = <<>> /\ reader[c] # "run") \/ cancelled[c]
  /\ disp' = [disp EXCEPT ![c] = Ended]
  /\ UNCHANGED <<inbox, dispOthers, access, runtimeVars, faults>>

\* writer_loop.  stdio drains its queue whatever is cancelled; a WebSocket's
\* select! may take the cancellation with frames still queued.  A frame leaves the
\* queue here when it is written, which a client that does not read may put off.
Write(c) ==
  /\ writer[c] = "run" /\ outbox[c] # <<>>
  /\ outbox' = [outbox EXCEPT ![c] = Tail(@)]
  /\ IF listens[c]
     THEN /\ misplaced' = (misplaced \/ owed[c] = <<>> \/ Head(owed[c]) # Head(outbox[c]))
          /\ owed' = [owed EXCEPT ![c] = IF @ = <<>> THEN @ ELSE Tail(@)]
          /\ UNCHANGED writer
     ELSE writer' = [writer EXCEPT ![c] = "err"] /\ UNCHANGED replyVars
  /\ UNCHANGED <<clientVars, reader, inbox, disp, main, cancelled, profileVars, access,
                 runtimeVars, faults>>

WriterEnds(c) ==
  /\ writer[c] = "run"
  /\ \/ outbox[c] = <<>> /\ disp[c].at \in {"ok", "gone"} /\ cancelled[c]
     \/ transport = "websocket" /\ cancelled[c]
  /\ writer' = [writer EXCEPT ![c] = "ok"]
  /\ UNCHANGED <<clientVars, reader, inbox, disp, outbox, main, cancelled, replyVars, profileVars,
                 access, runtimeVars, faults>>

-----------------------------------------------------------------------------
\* run, serve_connection: the task that joins the three.
Over(task) == task \in {"ok", "err"}
Abort(task) == IF task = "run" THEN "gone" ELSE task

\* Leaving drops whatever is still queued.
Close(c) ==
  /\ main' = [main EXCEPT ![c] = "closed"] /\ cancelled' = [cancelled EXCEPT ![c] = TRUE]
  /\ reader' = [reader EXCEPT ![c] = Abort(@)] /\ writer' = [writer EXCEPT ![c] = Abort(@)]
  /\ disp' = [disp EXCEPT ![c] = Gone]
  /\ inbox' = [inbox EXCEPT ![c] = <<>>] /\ outbox' = [outbox EXCEPT ![c] = <<>>]
  /\ access' = [access EXCEPT ![c] = NoClient]

mainOthers == <<clientVars, replyVars, profileVars, runtimeVars, faults>>

JoinWriter(c) ==
  /\ main[c] \in {"select", "await_writer"} /\ Over(writer[c])
  /\ Close(c)
  /\ UNCHANGED mainOthers

JoinReader(c) ==
  /\ main[c] \in {"select", "await_reader"} /\ Over(reader[c])
  /\ IF reader[c] = "err" THEN Close(c)
     ELSE /\ main' = [main EXCEPT ![c] = IF @ = "select" THEN "await_dispatcher" ELSE "await_writer"]
          /\ cancelled' = [cancelled EXCEPT ![c] = main[c] = "await_reader"]
          /\ UNCHANGED <<reader, inbox, disp, outbox, writer, access>>
  /\ UNCHANGED mainOthers

\* mutant: nobody tells the writer that no more replies will come
JoinDispatcherQuietly(c) ==
  /\ main[c] \in {"select", "await_dispatcher"} /\ disp[c].at = "ok"
  /\ IF main[c] = "select" /\ transport = "stdio"
     THEN main' = [main EXCEPT ![c] = "await_reader"] /\ UNCHANGED reader
     ELSE /\ main' = [main EXCEPT ![c] = "await_writer"]
          /\ reader' = [reader EXCEPT ![c] = Abort(@)]
  /\ UNCHANGED <<inbox, disp, outbox, writer, cancelled, access, mainOthers>>

\* The dispatcher stops early only when nobody takes its replies.  stdio then
\* waits for its reader; a WebSocket aborts it.
JoinDispatcher(c) ==
  /\ main[c] \in {"select", "await_dispatcher"} /\ disp[c].at = "ok"
  /\ IF main[c] = "select" /\ transport = "stdio"
     THEN main' = [main EXCEPT ![c] = "await_reader"] /\ UNCHANGED <<cancelled, reader>>
     ELSE /\ main' = [main EXCEPT ![c] = "await_writer"]
          /\ cancelled' = [cancelled EXCEPT ![c] = TRUE]
          /\ reader' = [reader EXCEPT ![c] = Abort(@)]
  /\ UNCHANGED <<inbox, disp, outbox, writer, access, mainOthers>>

-----------------------------------------------------------------------------
\* The session's actor.
actorOthers == <<profileVars, clientVars, taskVars, replyVars, access, sessions>>

TurnEnds ==
  /\ actor.running
  /\ actor' = NoTurn(actor)
  /\ UNCHANGED <<actorOthers, faults>>

Asks ==
  /\ actor.running /\ actor.interactive /\ ~actor.asked
  /\ actor' = [actor EXCEPT !.asked = TRUE]
  /\ UNCHANGED <<actorOthers, faults>>

ActorStops ==
  /\ actor.up /\ Fault
  /\ actor' = NoActor
  /\ UNCHANGED actorOthers

-----------------------------------------------------------------------------
Heads(c) == IF inbox[c] = <<>> THEN {} ELSE Requests(Head(inbox[c]))

Handle(c) ==
  \/ \E f \in Heads(c) :
       \/ Refuse(c, f) \/ Hello(c, f) \/ Read(c, f) \/ StoreFails(c, f) \/ Create(c, f)
       \/ ReadPage(c, f) \/ StartPrompt(c, f) \/ Control(c, f)
  \/ ReadLatest(c) \/ ResumeActor(c) \/ SubmitPrompt(c) \/ ControlActor(c)
  \/ ActorRefuses(c) \/ ActorCannotWrite(c)
  \/ SendReply(c) \/ DispatcherEnds(c)

Writes(c) == Write(c) \/ WriterEnds(c)
Joins(c)  == JoinWriter(c) \/ JoinReader(c) \/ JoinDispatcher(c)
Client(c) == StopsTalking(c) \/ StopsListening(c)
Actor     == TurnEnds \/ Asks \/ ActorStops

Next ==
  \/ \E c \in Connections :
       Client(c) \/ Receive(c) \/ ReaderEnds(c) \/ ReaderFails(c) \/ Handle(c) \/ Writes(c) \/ Joins(c)
  \/ Actor

\* The writer does not wait for the client.
WriterRuns(c) == c \in attentive \/ ~listens[c] \/ outbox[c] = <<>>

\* Every task of a connection that can run is run.
Fairness == \A c \in Connections :
  /\ WF_vars(ReaderEnds(c)) /\ WF_vars(Handle(c)) /\ WF_vars(Joins(c))
  /\ WF_vars(WriterRuns(c) /\ Writes(c))

Spec == Init /\ [][Next]_vars /\ Fairness

-----------------------------------------------------------------------------
Handling(c) == disp[c].at \in {"latest", "resume", "submit", "control"}

\* The replies on their way to the client, and the frames that were read and not
\* replied to.
Replies(c) == outbox[c] \o (IF disp[c].at = "send" THEN <<disp[c].reply.id>> ELSE <<>>)
Waiting(c) == (IF Handling(c) THEN <<disp[c].frame>> ELSE <<>>) \o inbox[c]

\* How many of the first n frames want a reply.
Wanted(frames, n) == Cardinality({i \in 1 .. n : frames[i].wants})

\* The ids owed are those of the replies, then those of the frames that want one.
AreOwed(ids, replies, frames) ==
  /\ Len(ids) = Len(replies) + Wanted(frames, Len(frames))
  /\ \A i \in DOMAIN replies : ids[i] = replies[i]
  /\ \A i \in DOMAIN frames :
       frames[i].wants => ids[Len(replies) + Wanted(frames, i)] = frames[i].id

\* dispatch.rs:115: a request with an id is answered exactly once and a
\* notification never, in the order the frames came in, whichever handler takes
\* them and whatever it awaits; a connection that goes away loses only a tail.
RepliesFollowRequests ==
  /\ ~misplaced
  /\ \A c \in Connections :
       disp[c].at \notin {"ok", "gone"} /\ writer[c] = "run" =>
         AreOwed(owed[c], Replies(c), Waiting(c))

\* A request meets the capability of the last good hello sent before it on its
\* own connection: later hellos, failed ones and other connections change nothing.
GateFollowsTheStream == \A c \in Connections :
  /\ disp[c].at = "send" =>
       LET r == disp[c].reply IN r.due # "none" \/ r.error \in GateErrors => r.error = r.due
  /\ Handling(c) => Gate(disp[c].frame.standing, disp[c].frame.method) = "none"

\* The writer is in the middle of a frame for a client that keeps its end open and
\* does not read.
Stuck(c) == writer[c] = "run" /\ ~WriterRuns(c)

\* When the input of a connection ends or a task fails it is closed, unless a stdio
\* dispatcher notices the dead writer before the joining task does, which then waits
\* for the end of the input; and on stdio everything that was read before a good end
\* of the input is answered and written, unless the client closed its end.  A client
\* that stops reading for good holds up the end of its own connection.
ConnectionEnds == \A c \in Connections :
  /\ Over(reader[c]) \/ Over(writer[c]) ~>
       \/ main[c] = "closed"
       \/ transport = "stdio" /\ main[c] = "await_reader" /\ talks[c]
       \/ []Stuck(c)
  /\ transport = "stdio" /\ reader[c] = "ok" ~> owed[c] = <<>> \/ ~listens[c] \/ []Stuck(c)
=============================================================================
