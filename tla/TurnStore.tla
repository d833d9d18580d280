------------------------------ MODULE TurnStore ------------------------------
(***************************************************************************)
(* The SQLite tables a turn lives in (crates/sagent-store,                 *)
(* sqlite/session/turns.rs and events.rs): turns, messages, daemon_events  *)
(* and session_generations.  Every operator below the line "transactions"  *)
(* is one transaction of the store: it either has the whole effect written *)
(* here or, when its guard is false or the database fails, none of it.     *)
(* Session rows exist before any turn does (session creation is external). *)
(*                                                                         *)
(* Spec lets an arbitrary client call the operations in any order, so what *)
(* it satisfies is what the store promises whoever calls it; the           *)
(* SessionActor module calls the same operators in the order the runtime   *)
(* does.                                                                   *)
(***************************************************************************)
EXTENDS RuntimeIds

CONSTANTS
  Schemas,      \* (system hash, tool schema hash) pairs of a generation
  Batches,      \* the call lists an assistant message may carry
  NoSchema

ASSUME StoreAssumption ==
  /\ NoSchema \notin Schemas
  /\ Batches \subseteq Seq(Calls)

VARIABLES
  status,       \* turns.status, "none" while the row does not exist
  owner,        \* turns.session_id
  messages,     \* the messages table, per session, in id order
  events,       \* daemon_events, per session, in sequence order
  generation    \* session_generations row 0 of the session

storeVars == <<status, owner, messages, events, generation>>

-----------------------------------------------------------------------------
Terminal == {"completed", "interrupted", "failed"}
Status == {"none", "running"} \union Terminal

\* What display_metadata says of a tool result: a real one, one written for a
\* refused call, or one of the three verdicts of the restart recovery.
Verdicts == {"unknown", "approval_interrupted", "not_executed"}
ResultKinds == {"executed", "rejected"} \union Verdicts

Message ==
  [role : {"user", "assistant", "tool"}, turn : Turns, calls : Seq(Calls),
   call : Calls \union {NoCall}, kind : ResultKinds \union {"text"}]

EventTypes ==
  {"turn.started", "message.committed", "tool.started", "tool.completed",
   "approval.requested", "approval.resolved", "approval.timed_out",
   "turn.completed", "turn.interrupted", "turn.failed"}

Event ==
  [type : EventTypes, turn : Turns, role : {"user", "assistant", "tool", "-"},
   calls : Seq(Calls), call : Calls \union {NoCall},
   approval : Approvals \union {NoApproval}]

Text(r, t)          == [role |-> r, turn |-> t, calls |-> <<>>, call |-> NoCall, kind |-> "text"]
Request(t, cs)      == [Text("assistant", t) EXCEPT !.calls = cs]
Result(t, c, k)     == [Text("tool", t) EXCEPT !.call = c, !.kind = k]

Fact(type, t)       == [type |-> type, turn |-> t, role |-> "-", calls |-> <<>>,
                        call |-> NoCall, approval |-> NoApproval]
Committed(m)        == [Fact("message.committed", m.turn)
                          EXCEPT !.role = m.role, !.calls = m.calls, !.call = m.call]
ToolFact(type, t, c) == [Fact(type, t) EXCEPT !.call = c]

ApprovalFact(type, t, c, a) == [Fact(type, t) EXCEPT !.call = c, !.approval = a]

\* The events append_event is called with.
Appendable(t) ==
  {ToolFact("tool.started", t, c) : c \in Calls}
    \union {ApprovalFact("approval.requested", t, c, a) : c \in Calls, a \in Approvals}
    \union {ApprovalFact(type, t, NoCall, a) :
              type \in {"approval.resolved", "approval.timed_out"}, a \in Approvals}

StoreTypeOK ==
  /\ status \in [Turns -> Status]
  /\ owner \in [Turns -> Sessions \union {NoSession}]
  /\ messages \in [Sessions -> Seq(Message)]
  /\ events \in [Sessions -> Seq(Event)]
  /\ generation \in [Sessions -> Schemas \union {NoSchema}]

StoreInit ==
  /\ status = [t \in Turns |-> "none"]
  /\ owner = [t \in Turns |-> NoSession]
  /\ messages = [s \in Sessions |-> <<>>]
  /\ events = [s \in Sessions |-> <<>>]
  /\ generation = [s \in Sessions |-> NoSchema]

RunningIn(s, t) == status[t] = "running" /\ owner[t] = s

\* Every tool message of the session, of this turn or an earlier one, counts.
HasResult(s, c) ==
  \E i \in DOMAIN messages[s] : messages[s][i].role = "tool" /\ messages[s][i].call = c

-----------------------------------------------------------------------------
(* transactions *)

CreateGeneration(s, h) ==
  /\ generation[s] = NoSchema
  /\ generation' = [generation EXCEPT ![s] = h]
  /\ UNCHANGED <<status, owner, messages, events>>

\* mutant: begin_turn without the running-turn query
BeginUnchecked(s, t) == generation[s] # NoSchema /\ status[t] = "none"

CanBegin(s, t) ==
  /\ generation[s] # NoSchema
  /\ status[t] = "none"
  /\ \A u \in Turns : ~RunningIn(s, u)

BeginTurn(s, t) ==
  /\ CanBegin(s, t)
  /\ status' = [status EXCEPT ![t] = "running"]
  /\ owner' = [owner EXCEPT ![t] = s]
  /\ messages' = [messages EXCEPT ![s] = Append(@, Text("user", t))]
  /\ events' = [events EXCEPT ![s] =
                  Append(Append(@, Fact("turn.started", t)), Committed(Text("user", t)))]
  /\ UNCHANGED generation

CommitAssistantToolCalls(s, t, cs) ==
  /\ RunningIn(s, t)
  /\ messages' = [messages EXCEPT ![s] = Append(@, Request(t, cs))]
  /\ events' = [events EXCEPT ![s] = Append(@, Committed(Request(t, cs)))]
  /\ UNCHANGED <<status, owner, generation>>

\* mutant: no message.committed event
ResultEventOnly(log, t, c, k) == Append(log, ToolFact("tool.completed", t, c))

CanCommitResult(s, t, c) == RunningIn(s, t) /\ ~HasResult(s, c)

ResultEvents(log, t, c, k) ==
  Append(Append(log, ToolFact("tool.completed", t, c)), Committed(Result(t, c, k)))

CommitToolResult(s, t, c, k) ==
  /\ CanCommitResult(s, t, c)
  /\ messages' = [messages EXCEPT ![s] = Append(@, Result(t, c, k))]
  /\ events' = [events EXCEPT ![s] = ResultEvents(@, t, c, k)]
  /\ UNCHANGED <<status, owner, generation>>

CanComplete(s, t) == RunningIn(s, t)

CompleteTurn(s, t) ==
  /\ CanComplete(s, t)
  /\ status' = [status EXCEPT ![t] = "completed"]
  /\ messages' = [messages EXCEPT ![s] = Append(@, Text("assistant", t))]
  /\ events' = [events EXCEPT ![s] =
                  Append(Append(@, Committed(Text("assistant", t))), Fact("turn.completed", t))]
  /\ UNCHANGED <<owner, generation>>

TerminalEvent(k) == IF k = "interrupted" THEN "turn.interrupted" ELSE "turn.failed"

CanFinish(s, t) == RunningIn(s, t)

FinishWithoutMessage(s, t, k) ==
  /\ CanFinish(s, t)
  /\ status' = [status EXCEPT ![t] = k]
  /\ events' = [events EXCEPT ![s] = Append(@, Fact(TerminalEvent(k), t))]
  /\ UNCHANGED <<owner, messages, generation>>

\* append_event checks neither that the turn runs nor that it exists.
AppendEvent(s, e) ==
  /\ events' = [events EXCEPT ![s] = Append(@, e)]
  /\ UNCHANGED <<status, owner, messages, generation>>

-----------------------------------------------------------------------------
(* any caller, any order *)

CallerGenerates == \E s \in Sessions, h \in Schemas : CreateGeneration(s, h)
CallerBegins    == \E s \in Sessions, t \in Turns : BeginTurn(s, t)
CallerAsks      == \E s \in Sessions, t \in Turns, cs \in Batches : CommitAssistantToolCalls(s, t, cs)
CallerAnswers   == \E s \in Sessions, t \in Turns, c \in Calls, k \in ResultKinds : CommitToolResult(s, t, c, k)
CallerCompletes == \E s \in Sessions, t \in Turns : CompleteTurn(s, t)
CallerFinishes  == \E s \in Sessions, t \in Turns, k \in {"interrupted", "failed"} : FinishWithoutMessage(s, t, k)
CallerNotes     == \E s \in Sessions, t \in Turns : \E e \in Appendable(t) : AppendEvent(s, e)

StoreNext ==
  \/ CallerGenerates \/ CallerBegins \/ CallerAsks \/ CallerAnswers
  \/ CallerCompletes \/ CallerFinishes \/ CallerNotes

StoreSpec == StoreInit /\ [][StoreNext]_storeVars

-----------------------------------------------------------------------------
(* what the store promises, whoever calls it *)

\* A session never has two running turns: begin_turn is the only writer of
\* "running" and get_running_turn refuses to recover a session with two.
AtMostOneRunning ==
  \A s \in Sessions : \A t, u \in Turns : RunningIn(s, t) /\ RunningIn(s, u) => t = u

\* The messages of a turn are contiguous in its session: the user message
\* opens a block that no message of another turn interrupts, although every
\* message is a transaction of its own.
TurnsDoNotInterleave ==
  \A s \in Sessions : \A i, j, k \in DOMAIN messages[s] :
    i < j /\ j < k /\ messages[s][i].turn = messages[s][k].turn
      => messages[s][j].turn = messages[s][i].turn

\* A provider call id has one tool message in a session, however often a
\* worker's answer or a recovery verdict for it is delivered.
OneResultPerCall ==
  \A s \in Sessions : \A i, j \in DOMAIN messages[s] :
    /\ messages[s][i].role = "tool" /\ messages[s][j].role = "tool"
    /\ messages[s][i].call = messages[s][j].call
    => i = j

IsCommit(e) == e.type = "message.committed"

\* How many of the first n events commit a message.
CommitsIn(log, n) == Cardinality({i \in 1 .. n : IsCommit(log[i])})

Mirrors(log, rows) ==
  /\ CommitsIn(log, Len(log)) = Len(rows)
  /\ \A i \in DOMAIN log : IsCommit(log[i]) => log[i] = Committed(rows[CommitsIn(log, i)])

\* The restart recovery reads the event log only, so the message.committed
\* events must spell out the messages table row by row, in order.
LogMirrorsTranscript == \A s \in Sessions : Mirrors(events[s], messages[s])

\* A turn that reached an outcome keeps it, and no message of it is ever
\* committed afterwards: late results and second endings are refused.
EndedTurnIsSealed ==
  [][/\ \A t \in Turns : status[t] \in Terminal => status'[t] = status[t]
     /\ \A s \in Sessions :
          messages'[s] # messages[s]
            => status[messages'[s][Len(messages'[s])].turn] \notin Terminal]_storeVars
=============================================================================
