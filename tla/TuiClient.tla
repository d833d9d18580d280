------------------------------ MODULE TuiClient ------------------------------
(***************************************************************************)
(* sagent-tui and its connection to the sagent-rpc child process: the      *)
(* terminal loop (terminal.rs, main.rs), the controller and the reducer    *)
(* (app/), and the RPC client with its reader and writer tasks             *)
(* (rpc/client.rs).                                                        *)
(*                                                                         *)
(* The terminal loop is one task: while it awaits a response it neither    *)
(* reads keys nor takes events off the incoming queue.  So there is at     *)
(* most one request at a time, and the pending table holds one waiter.     *)
(*                                                                         *)
(* The child is reduced to what a client sees of it: it answers requests   *)
(* in order, sends the events of a turn after the response that began it   *)
(* (EventBridge), and may die at any moment; what its store holds outlives *)
(* it.  There is one session.                                              *)
(***************************************************************************)
EXTENDS Naturals, Sequences, FiniteSets

CONSTANTS
  InboundCapacity,  \* INBOUND_CAPACITY
  PageLimit,        \* RESUME_MESSAGE_LIMIT
  EventLimit,       \* limit of session.events.since
  MaxTurns, MaxDeltas, MaxRefusals, MaxDeaths, MaxInterrupts  \* bounds of the exploration

ASSUME TuiAssumption ==
  /\ {InboundCapacity, PageLimit, EventLimit, MaxTurns} \subseteq Nat \ {0}
  /\ {MaxDeltas, MaxRefusals, MaxDeaths, MaxInterrupts} \subseteq Nat

VARIABLES
  ui,          \* what the terminal task is at, and the call it makes
  pending,     \* whether the call's waiter is in the pending table
  reply,       \* what the waiter was sent
  outbound,    \* requests queued for the writer
  incoming,    \* notifications queued for the terminal loop
  cancelled,   \* the connection's cancellation token
  reader, writer,
  session, transcript, checkpoint,   \* active_session and what the screen shows of it
  active, stream, stopping,          \* active_turn, its stream_text and interrupt_pending
  overlay, composer,
  child,       \* "up" or "down"
  store,       \* visible messages of the session, in order
  running,     \* the turn the child executes
  said,        \* deltas published of every turn
  asked,       \* the approval of the running turn: "no", "open" or "closed"
  stdin, stdout,
  refused,     \* history: a snapshot was refused on this connection
  late,        \* history: the waiter was registered when every sweep was over
  begun, refusals, deaths, interrupts

clientVars == <<pending, reply, outbound, incoming, cancelled, reader, writer>>
screenVars == <<session, transcript, checkpoint, active, stream, stopping, overlay, composer>>
childVars  == <<child, store, running, said, asked, begun>>
pipeVars   == <<stdin, stdout>>
historyVars == <<refused, late>>
boundVars  == <<refusals, deaths, interrupts>>
vars == <<ui, clientVars, screenVars, childVars, pipeVars, historyVars, boundVars>>

-----------------------------------------------------------------------------
NoTurn == 0
Turns  == 1 .. MaxTurns

Calls == {"hello", "list", "create", "resume", "restore", "events", "submit", "interrupt", "respond"}

\* Frames of stdout: an event of a turn, or a response to a call.
Event(kind, t)        == [type |-> kind, turn |-> t]
Response(call, ok)    == [type |-> "response", turn |-> NoTurn, call |-> call, ok |-> ok,
                          page |-> <<>>, latest |-> 0, more |-> FALSE]
Failed(call)          == Response(call, FALSE)
NoReply               == Event("none", NoTurn)
ReadyEvent            == Event("ready", NoTurn)
Disconnected          == Event("disconnected", NoTurn)

NoOverlay    == [kind |-> "none", turn |-> NoTurn, busy |-> FALSE]
Picker(busy) == [kind |-> "picker", turn |-> NoTurn, busy |-> busy]
Dialogue(t)  == [kind |-> "approval", turn |-> t, busy |-> FALSE]

\* Lock or unlock the picker: set_picker_loading.
Loading(busy) == IF overlay.kind = "picker" THEN [overlay EXCEPT !.busy = busy] ELSE overlay

Call(c) == ui' = [at |-> "insert", call |-> c]
Loop    == ui' = [at |-> "loop", call |-> "none"]

\* shutdown: the tasks are aborted, the table is failed, and the child exits at
\* the end of its stdin or is killed.
Shutdown ==
  /\ pending' = FALSE /\ reply' = NoReply /\ cancelled' = TRUE
  /\ outbound' = <<>> /\ incoming' = <<>>
  /\ reader' = [at |-> "gone", frame |-> Disconnected] /\ writer' = "gone"
  /\ child' = "down" /\ running' = NoTurn /\ asked' = "no"
  /\ stdin' = <<>> /\ stdout' = <<>>

Exit == ui' = [at |-> "exited", call |-> "none"] /\ Shutdown

-----------------------------------------------------------------------------
Init ==
  /\ ui = [at |-> "spawn", call |-> "none"]
  /\ pending = FALSE /\ reply = NoReply /\ cancelled = FALSE
  /\ outbound = <<>> /\ incoming = <<>>
  /\ reader = [at |-> "gone", frame |-> Disconnected] /\ writer = "gone"
  /\ session = FALSE /\ transcript = <<>> /\ checkpoint = 0
  /\ active = NoTurn /\ stream = 0 /\ stopping = FALSE
  /\ overlay = NoOverlay /\ composer = FALSE
  /\ child = "down" /\ store = <<>> /\ running = NoTurn
  /\ said = [t \in Turns |-> 0] /\ asked = "no"
  /\ stdin = <<>> /\ stdout = <<>>
  /\ refused = FALSE /\ late = FALSE /\ begun = 0 /\ refusals = 0 /\ deaths = 0 /\ interrupts = 0

\* spawn: a new child, new pipes, new tables, new tasks.
Spawn ==
  /\ ui.at = "spawn"
  /\ ui' = [at |-> "ready", call |-> "none"]
  /\ child' = "up" /\ stdin' = <<>> /\ stdout' = <<ReadyEvent>>
  /\ pending' = FALSE /\ reply' = NoReply /\ cancelled' = FALSE
  /\ outbound' = <<>> /\ incoming' = <<>>
  /\ reader' = [at |-> "read", frame |-> Disconnected] /\ writer' = "recv"
  /\ refused' = FALSE /\ late' = FALSE
  /\ UNCHANGED <<screenVars, store, running, said, asked, begun, boundVars>>

\* wait_for_ready: other events are passed over; a failure or five seconds
\* without the event end the program.
WaitForReady ==
  /\ ui.at = "ready"
  /\ \/ /\ incoming # <<>> /\ Head(incoming) = ReadyEvent
        /\ incoming' = Tail(incoming) /\ Call("hello")
        /\ UNCHANGED <<pending, reply, outbound, cancelled, reader, writer, child, running,
                       asked, pipeVars>>
     \/ incoming = <<>> /\ Exit
     \/ incoming # <<>> /\ Head(incoming) = Disconnected /\ Exit
  /\ UNCHANGED <<screenVars, store, said, begun, historyVars, boundVars>>

-----------------------------------------------------------------------------
\* request: the waiter is put into the table, then the request is queued; a
\* writer that has stopped takes the waiter out again.
Insert ==
  /\ ui.at = "insert"
  /\ pending' = TRUE /\ reply' = NoReply
  /\ ui' = [ui EXCEPT !.at = "send"]
  /\ late' = (cancelled /\ reader.at # "sweep" /\ writer # "sweep")
  /\ UNCHANGED <<outbound, incoming, cancelled, reader, writer, screenVars, childVars,
                 pipeVars, refused, boundVars>>

Send ==
  /\ ui.at = "send"
  /\ ui' = [ui EXCEPT !.at = "await"]
  /\ IF writer = "gone"
     THEN pending' = FALSE /\ reply' = Failed(ui.call) /\ UNCHANGED outbound
     ELSE outbound' = Append(outbound, ui.call) /\ UNCHANGED <<pending, reply>>
  /\ UNCHANGED <<incoming, cancelled, reader, writer, screenVars, childVars,
                 pipeVars, historyVars, boundVars>>

\* mutant: the table is left as it is
FailNothing == UNCHANGED <<pending, reply>>

\* fail_pending: everything in the table is told, whatever it waits for.
FailPending ==
  /\ pending' = FALSE
  /\ reply' = IF pending THEN Failed(ui.call) ELSE reply

\* writer_loop, and its half of disconnect.  select! takes either branch when
\* both are ready, so a request may still go out after a cancellation.
WriterTakes ==
  /\ writer = "recv" /\ outbound # <<>>
  /\ writer' = "write"
  /\ UNCHANGED <<ui, pending, reply, outbound, incoming, cancelled, reader, screenVars,
                 childVars, pipeVars, historyVars, boundVars>>

WriterWrites ==
  /\ writer = "write"
  /\ outbound' = Tail(outbound)
  /\ IF child = "up"
     THEN stdin' = Append(stdin, Head(outbound)) /\ writer' = "recv" /\ UNCHANGED cancelled
     ELSE writer' = "sweep" /\ cancelled' = TRUE /\ UNCHANGED stdin
  /\ UNCHANGED <<ui, pending, reply, incoming, reader, screenVars, childVars, stdout,
                 historyVars, boundVars>>

WriterStops ==
  /\ writer = "recv" /\ cancelled
  /\ writer' = "gone" /\ outbound' = <<>>
  /\ UNCHANGED <<ui, pending, reply, incoming, cancelled, reader, screenVars, childVars,
                 pipeVars, historyVars, boundVars>>

WriterSweeps ==
  /\ writer = "sweep" /\ writer' = "report"
  /\ FailPending
  /\ UNCHANGED <<ui, outbound, incoming, cancelled, reader, screenVars, childVars, pipeVars,
                 historyVars, boundVars>>

WriterReports ==
  /\ writer = "report" /\ Len(incoming) < InboundCapacity
  /\ writer' = "gone" /\ outbound' = <<>>
  /\ incoming' = Append(incoming, Disconnected)
  /\ UNCHANGED <<ui, pending, reply, cancelled, reader, screenVars, childVars, pipeVars,
                 historyVars, boundVars>>

-----------------------------------------------------------------------------
\* reader_loop.  A response wakes the waiter in the table; one that nobody
\* waits for, and the end of the stream, end the connection.
ReaderReads ==
  /\ reader.at = "read"
  /\ IF stdout # <<>>
     THEN /\ stdout' = Tail(stdout)
          /\ LET frame == Head(stdout) IN
             CASE frame.type # "response" ->
                    /\ reader' = [at |-> "push", frame |-> frame]
                    /\ UNCHANGED <<pending, reply, cancelled>>
               [] frame.type = "response" /\ pending ->
                    /\ pending' = FALSE /\ reply' = frame
                    /\ UNCHANGED <<reader, cancelled>>
               [] OTHER ->
                    /\ reader' = [reader EXCEPT !.at = "sweep"] /\ cancelled' = TRUE
                    /\ UNCHANGED <<pending, reply>>
     ELSE /\ child = "down"
          /\ reader' = [reader EXCEPT !.at = "sweep"] /\ cancelled' = TRUE
          /\ UNCHANGED <<stdout, pending, reply>>
  /\ UNCHANGED <<ui, outbound, incoming, writer, screenVars, childVars, stdin, historyVars, boundVars>>

\* mutant: a full queue loses the event
ReaderDrops ==
  /\ reader.at = "push"
  /\ incoming' = IF Len(incoming) < InboundCapacity THEN Append(incoming, reader.frame) ELSE incoming
  /\ reader' = [at |-> "read", frame |-> Disconnected]
  /\ UNCHANGED <<ui, pending, reply, outbound, cancelled, writer, screenVars, childVars,
                 pipeVars, historyVars, boundVars>>

ReaderPushes ==
  /\ reader.at = "push" /\ Len(incoming) < InboundCapacity
  /\ incoming' = Append(incoming, reader.frame)
  /\ reader' = [at |-> "read", frame |-> Disconnected]
  /\ UNCHANGED <<ui, pending, reply, outbound, cancelled, writer, screenVars, childVars,
                 pipeVars, historyVars, boundVars>>

ReaderStops ==
  /\ reader.at = "read" /\ cancelled
  /\ reader' = [reader EXCEPT !.at = "gone"]
  /\ UNCHANGED <<ui, pending, reply, outbound, incoming, cancelled, writer, screenVars,
                 childVars, pipeVars, historyVars, boundVars>>

ReaderSweeps ==
  /\ reader.at = "sweep" /\ reader' = [reader EXCEPT !.at = "report"]
  /\ FailPending
  /\ UNCHANGED <<ui, outbound, incoming, cancelled, writer, screenVars, childVars, pipeVars,
                 historyVars, boundVars>>

ReaderReports ==
  /\ reader.at = "report" /\ Len(incoming) < InboundCapacity
  /\ reader' = [reader EXCEPT !.at = "gone"]
  /\ incoming' = Append(incoming, Disconnected)
  /\ UNCHANGED <<ui, pending, reply, outbound, cancelled, writer, screenVars, childVars,
                 pipeVars, historyVars, boundVars>>

-----------------------------------------------------------------------------
\* The terminal loop takes the notifications: handle_rpc_event.  Events of a
\* turn the screen does not show change nothing.
ShowsDialogueOf(t) == overlay.kind = "approval" /\ overlay.turn = t

TakeDelta(t) ==
  /\ stream' = IF active = t THEN stream + 1 ELSE stream
  /\ UNCHANGED <<ui, overlay>>

\* mutant: the end of a turn is shown, but no snapshot is asked for
TakeEndQuietly(t) ==
  /\ overlay' = IF ShowsDialogueOf(t) THEN NoOverlay ELSE overlay
  /\ UNCHANGED <<ui, stream>>

TakeEnd(t) ==
  /\ IF active = t
     THEN /\ overlay' = IF ShowsDialogueOf(t) THEN NoOverlay ELSE overlay
          /\ Call("resume")
     ELSE UNCHANGED <<ui, overlay>>
  /\ UNCHANGED stream

TakeRequested(t) ==
  /\ overlay' = Dialogue(t)
  /\ UNCHANGED <<ui, stream>>

TakeResolved(t) ==
  /\ overlay' = IF ShowsDialogueOf(t) THEN NoOverlay ELSE overlay
  /\ UNCHANGED <<ui, stream>>

TakeEvent ==
  /\ ui.at = "loop" /\ incoming # <<>> /\ Head(incoming) # Disconnected
  /\ incoming' = Tail(incoming)
  /\ LET event == Head(incoming) IN
     CASE event.type = "delta"                -> TakeDelta(event.turn)
       [] event.type \in {"complete", "end"}  -> TakeEnd(event.turn)
       [] event.type = "requested"            -> TakeRequested(event.turn)
       [] event.type = "resolved"             -> TakeResolved(event.turn)
  /\ UNCHANGED <<pending, reply, outbound, cancelled, reader, writer, session, transcript,
                 checkpoint, active, stopping, composer, childVars, pipeVars, historyVars, boundVars>>

\* The connection is lost, or the child is seen to have exited, which is
\* looked at before the queue: RpcDisconnected, shutdown, and a new child.
Reconnect ==
  /\ ui.at = "loop"
  /\ incoming = <<>> \/ Head(incoming) # Disconnected => child = "down"
  /\ ui' = [at |-> "spawn", call |-> "none"] /\ Shutdown
  /\ active' = NoTurn /\ stream' = 0 /\ stopping' = FALSE
  /\ UNCHANGED <<session, transcript, checkpoint, overlay, composer, store, said,
                 begun, historyVars, boundVars>>

-----------------------------------------------------------------------------
\* Keys: key_action and handle_action.
Type ==
  /\ ui.at = "loop" /\ overlay.kind = "none" /\ ~composer /\ begun < MaxTurns
  /\ composer' = TRUE
  /\ UNCHANGED <<ui, clientVars, session, transcript, checkpoint, active, stream, stopping,
                 overlay, childVars, pipeVars, historyVars, boundVars>>

SubmitPrompt ==
  /\ ui.at = "loop" /\ overlay.kind = "none"
  /\ session /\ active = NoTurn /\ composer
  /\ Call("submit")
  /\ UNCHANGED <<clientVars, screenVars, childVars, pipeVars, historyVars, boundVars>>

Interrupt ==
  /\ ui.at = "loop" /\ overlay.kind = "none" /\ active # NoTurn /\ ~stopping
  /\ interrupts < MaxInterrupts /\ interrupts' = interrupts + 1
  /\ Call("interrupt")
  /\ UNCHANGED <<clientVars, screenVars, childVars, pipeVars, historyVars, refusals, deaths>>

Decide ==
  /\ ui.at = "loop" /\ overlay.kind = "approval" /\ ~overlay.busy
  /\ overlay' = [overlay EXCEPT !.busy = TRUE]
  /\ Call("respond")
  /\ UNCHANGED <<clientVars, session, transcript, checkpoint, active, stream, stopping,
                 composer, childVars, pipeVars, historyVars, boundVars>>

\* The picker: select a listed session or create one; both end in a resume.
Pick ==
  /\ ui.at = "loop" /\ overlay = Picker(FALSE)
  /\ \/ overlay' = Loading(TRUE) /\ \E c \in {"resume", "create"} : Call(c)
     \/ overlay' = NoOverlay /\ UNCHANGED ui
  /\ UNCHANGED <<clientVars, session, transcript, checkpoint, active, stream, stopping,
                 composer, childVars, pipeVars, historyVars, boundVars>>

\* q; Ctrl-C only where no turn is shown.  A dialogue has no such key.
Quit ==
  /\ ui.at = "loop" /\ overlay.kind # "approval"
  /\ Exit
  /\ UNCHANGED <<screenVars, store, said, begun, historyVars, boundVars>>

-----------------------------------------------------------------------------
\* What the controller makes of a response: one operator per call.  SessionResumed
\* replaces the transcript by the page and forgets the active turn.
Page  == SubSeq(store, 1, IF Len(store) < PageLimit THEN Len(store) ELSE PageLimit)

\* mutant: the dialogue of a lost connection is kept
ResumedBehindDialogue ==
  /\ session' = TRUE /\ transcript' = reply.page
  /\ overlay' = IF overlay.kind = "approval" THEN overlay ELSE NoOverlay
  /\ active' = NoTurn /\ stream' = 0 /\ stopping' = FALSE
  /\ UNCHANGED <<checkpoint, composer, refused>>

Resumed ==
  /\ session' = TRUE /\ transcript' = reply.page
  /\ overlay' = NoOverlay
  /\ active' = NoTurn /\ stream' = 0 /\ stopping' = FALSE
  /\ UNCHANGED <<checkpoint, composer, refused>>

OperationFailed ==
  /\ overlay' = Loading(FALSE)
  /\ UNCHANGED <<session, transcript, checkpoint, active, stream, stopping, composer>>

HelloDone ==
  /\ IF session THEN Call("restore") /\ UNCHANGED overlay
                ELSE Call("list") /\ overlay' = Picker(TRUE)
  /\ UNCHANGED <<session, transcript, checkpoint, active, stream, stopping, composer, refused>>

ListDone ==
  /\ Loop /\ overlay' = Picker(FALSE)
  /\ UNCHANGED <<session, transcript, checkpoint, active, stream, stopping, composer, refused>>

CreateDone ==
  IF reply.ok
  THEN Call("resume") /\ overlay' = Loading(TRUE)
       /\ UNCHANGED <<session, transcript, checkpoint, active, stream, stopping, composer, refused>>
  ELSE Loop /\ OperationFailed /\ UNCHANGED refused

ResumeDone ==
  /\ Loop
  /\ IF reply.ok THEN Resumed ELSE OperationFailed /\ refused' = TRUE

\* restore_active_session reads the persisted events whether the snapshot came
\* or not.
RestoreDone ==
  /\ Call("events")
  /\ IF reply.ok THEN Resumed ELSE OperationFailed /\ refused' = TRUE

\* replay_persisted_events: the checkpoint goes to the latest sequence, past
\* what a page left out.
EventsDone ==
  /\ checkpoint' = IF checkpoint < reply.latest THEN reply.latest ELSE checkpoint
  /\ IF reply.more THEN Call("events") ELSE Loop
  /\ UNCHANGED <<session, transcript, active, stream, stopping, overlay, composer, refused>>

SubmitDone ==
  /\ Loop /\ UNCHANGED refused
  /\ IF reply.ok
     THEN /\ active' = reply.turn /\ stream' = 0 /\ stopping' = FALSE /\ composer' = FALSE
          /\ UNCHANGED <<session, transcript, checkpoint, overlay>>
     ELSE OperationFailed

InterruptDone ==
  /\ Loop /\ UNCHANGED refused
  /\ IF reply.ok
     THEN stopping' = (active # NoTurn)
          /\ UNCHANGED <<session, transcript, checkpoint, active, stream, overlay, composer>>
     ELSE OperationFailed

RespondDone ==
  /\ Loop /\ UNCHANGED refused
  /\ overlay' = IF ~reply.ok /\ overlay.kind = "approval" THEN [overlay EXCEPT !.busy = FALSE]
                ELSE overlay
  /\ UNCHANGED <<session, transcript, checkpoint, active, stream, stopping, composer>>

Answered == ui.at = "await" /\ reply # NoReply

Done ==
  /\ Answered
  /\ reply' = NoReply
  /\ ui.call = "hello" \/ ui.call = "events" => reply.ok
  /\ CASE ui.call = "hello"     -> HelloDone
       [] ui.call = "list"      -> ListDone
       [] ui.call = "create"    -> CreateDone
       [] ui.call = "resume"    -> ResumeDone
       [] ui.call = "restore"   -> RestoreDone
       [] ui.call = "events"    -> EventsDone
       [] ui.call = "submit"    -> SubmitDone
       [] ui.call = "interrupt" -> InterruptDone
       [] ui.call = "respond"   -> RespondDone
  /\ UNCHANGED <<pending, outbound, incoming, cancelled, reader, writer, childVars, pipeVars, late, boundVars>>

\* A refused hello and a refused events.since end the program: connect and
\* restore_active_session pass the error on.
GivesUp ==
  /\ Answered /\ ~reply.ok /\ ui.call \in {"hello", "events"}
  /\ Exit
  /\ UNCHANGED <<screenVars, store, said, begun, historyVars, boundVars>>

-----------------------------------------------------------------------------
\* The child, as its stdio transport shows it.
Answer(frame) == stdin' = Tail(stdin) /\ stdout' = Append(stdout, frame)
Serving(calls) == child = "up" /\ stdin # <<>> /\ Head(stdin) \in calls

\* Any request may be refused: the store is unavailable, the session is busy.
ChildRefuses ==
  /\ Serving(Calls) /\ refusals < MaxRefusals /\ refusals' = refusals + 1
  /\ Answer(Response(Head(stdin), FALSE))
  /\ UNCHANGED <<ui, clientVars, screenVars, childVars, historyVars, deaths, interrupts>>

\* Snapshots come from the store: the first page of what is visible, and the
\* events behind the checkpoint with the latest sequence there is.
ChildReads ==
  /\ Serving({"hello", "list", "create", "resume", "restore", "events"})
  /\ LET call == Head(stdin)
         latest == Len(store)
         last == IF checkpoint + EventLimit < latest THEN checkpoint + EventLimit ELSE latest
     IN Answer(CASE call \in {"resume", "restore"} -> [Response(call, TRUE) EXCEPT !.page = Page]
                 [] call = "events" -> [Response(call, TRUE) EXCEPT !.latest = latest, !.more = last < latest]
                 [] OTHER -> Response(call, TRUE))
  /\ UNCHANGED <<ui, clientVars, screenVars, childVars, historyVars, boundVars>>

\* prompt.submit: the response goes out before any event of the turn.
ChildSubmits ==
  /\ Serving({"submit"})
  /\ IF running = NoTurn /\ begun < MaxTurns
     THEN /\ begun' = begun + 1 /\ running' = begun + 1
          /\ store' = Append(store, [turn |-> begun + 1, role |-> "user"])
          /\ Answer([Response("submit", TRUE) EXCEPT !.turn = begun + 1])
     ELSE Answer(Response("submit", FALSE)) /\ UNCHANGED <<begun, running, store>>
  /\ UNCHANGED <<ui, clientVars, screenVars, child, said, asked, historyVars, boundVars>>

ChildInterrupts ==
  /\ Serving({"interrupt"})
  /\ Answer(Response("interrupt", running # NoTurn))
  /\ UNCHANGED <<ui, clientVars, screenVars, childVars, historyVars, boundVars>>

\* approval.respond: the resolution is published by another task than the one
\* that answers.
ChildResolves ==
  /\ Serving({"respond"})
  /\ IF asked = "open"
     THEN /\ asked' = "closed" /\ stdin' = Tail(stdin)
          /\ \E first \in BOOLEAN :
               stdout' = stdout \o IF first
                 THEN <<Response("respond", TRUE), Event("resolved", running)>>
                 ELSE <<Event("resolved", running), Response("respond", TRUE)>>
     ELSE Answer(Response("respond", FALSE)) /\ UNCHANGED asked
  /\ UNCHANGED <<ui, clientVars, screenVars, child, store, running, said, begun, historyVars, boundVars>>

Publish(frames) == stdout' = stdout \o frames /\ UNCHANGED stdin

ChildSays ==
  /\ child = "up" /\ running # NoTurn /\ asked # "open" /\ said[running] < MaxDeltas
  /\ said' = [said EXCEPT ![running] = @ + 1]
  /\ Publish(<<Event("delta", running)>>)
  /\ UNCHANGED <<ui, clientVars, screenVars, child, store, running, asked, begun, historyVars, boundVars>>

ChildAsks ==
  /\ child = "up" /\ running # NoTurn /\ asked = "no"
  /\ asked' = "open" /\ Publish(<<Event("requested", running)>>)
  /\ UNCHANGED <<ui, clientVars, screenVars, child, store, running, said, begun, historyVars, boundVars>>

ApprovalExpires ==
  /\ child = "up" /\ asked = "open"
  /\ asked' = "closed" /\ Publish(<<Event("resolved", running)>>)
  /\ UNCHANGED <<ui, clientVars, screenVars, child, store, running, said, begun, historyVars, boundVars>>

\* The final message and the end of the turn are committed together and
\* published one after the other; an interrupted or failed turn has no message.
TurnEnds ==
  /\ child = "up" /\ running # NoTurn
  /\ \/ /\ asked # "open"
        /\ store' = Append(store, [turn |-> running, role |-> "assistant"])
        /\ Publish(<<Event("complete", running), Event("end", running)>>)
     \/ Publish(<<Event("end", running)>>) /\ UNCHANGED store
  /\ running' = NoTurn /\ asked' = "no"
  /\ UNCHANGED <<ui, clientVars, screenVars, child, said, begun, historyVars, boundVars>>

ChildDies ==
  /\ child = "up" /\ deaths < MaxDeaths /\ deaths' = deaths + 1
  /\ child' = "down" /\ running' = NoTurn /\ asked' = "no"
  /\ UNCHANGED <<ui, clientVars, screenVars, store, said, begun, pipeVars, historyVars, refusals, interrupts>>

-----------------------------------------------------------------------------
Client == Insert \/ Send \/ Done \/ GivesUp
Writer == WriterTakes \/ WriterWrites \/ WriterStops \/ WriterSweeps \/ WriterReports
Reader == ReaderReads \/ ReaderPushes \/ ReaderStops \/ ReaderSweeps \/ ReaderReports
Keys   == Type \/ SubmitPrompt \/ Interrupt \/ Decide \/ Pick \/ Quit
Serve  == ChildReads \/ ChildSubmits \/ ChildInterrupts \/ ChildResolves \/ ChildRefuses
Turn   == ChildSays \/ ChildAsks \/ ApprovalExpires \/ TurnEnds

Next ==
  \/ Spawn \/ WaitForReady \/ Client \/ TakeEvent \/ Reconnect \/ Keys
  \/ Writer \/ Reader \/ Serve \/ Turn \/ ChildDies

\* Tasks that can run are run, and a live child answers.  The terminal loop
\* empties the queue before it looks at a key, so taking events is not starved
\* by keys.
Fairness ==
  /\ WF_vars(Spawn) /\ WF_vars(WaitForReady) /\ WF_vars(Client)
  /\ SF_vars(TakeEvent) /\ SF_vars(Reconnect)
  /\ WF_vars(Writer) /\ WF_vars(Reader) /\ WF_vars(Serve)

Spec == Init /\ [][Next]_vars /\ Fairness

-----------------------------------------------------------------------------
\* The state is well-typed.
TuiTypeOK ==
  /\ ui.at \in {"spawn", "ready", "insert", "send", "await", "loop", "exited"}
  /\ ui.call \in Calls \union {"none"}
  /\ {pending, cancelled, session, stopping, composer, refused, late} \subseteq BOOLEAN
  /\ reader.at \in {"read", "push", "sweep", "report", "gone"}
  /\ writer \in {"recv", "write", "sweep", "report", "gone"}
  /\ Len(incoming) <= InboundCapacity
  /\ {active, running} \subseteq Turns \union {NoTurn}
  /\ overlay.kind \in {"none", "picker", "approval"}
  /\ child \in {"up", "down"} /\ asked \in {"no", "open", "closed"}

\* Everything on its way from the child to the terminal loop, in order.
Pipe == incoming \o (IF reader.at = "push" THEN <<reader.frame>> ELSE <<>>) \o stdout

InFlight(t) == Cardinality({i \in DOMAIN Pipe : Pipe[i] = Event("delta", t)})

\* What the screen shows of the turn in progress is what the child published
\* of it, less what is still under way: full queues, requests under way and
\* the events of other turns neither lose a fragment nor add one.
StreamIsWhole ==
  active # NoTurn /\ ui.at # "exited" => stream + InFlight(active) = said[active]

\* The data keep their types, and the screen tells what the child said.
ScreenIsTrue == TuiTypeOK /\ StreamIsWhole

\* A dialogue the user faces asks for the turn on the screen; only a refused
\* snapshot can leave one of a lost connection there.
DialogueIsLive ==
  ui.at = "loop" /\ overlay.kind = "approval" => active = overlay.turn \/ refused

Flooded == reader.at = "push" /\ Len(incoming) = InboundCapacity

\* The end of a turn reaches the screen, whichever of its two events comes
\* through and whatever request is under way: the turn does not stay there, and
\* with it the refusal to submit, unless the snapshot was refused.
EndLeavesTheScreen ==
  \A t \in Turns :
    active = t /\ running # t ~> active # t \/ refused \/ ui.at = "exited" \/ Flooded \/ late

\* A request whose waiter was registered in time ends, by its response or with
\* the connection, except when the reader is held up by a full queue that only
\* the requester empties.
WaiterIsWoken == ui.at = "await" /\ ~late ~> ui.at # "await" \/ Flooded
=============================================================================
