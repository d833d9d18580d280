----------------------------- MODULE SessionActor -----------------------------
(***************************************************************************)
(* The actor that owns one session (crates/sagent-runtime/src/actor): it   *)
(* takes inputs from a bounded mailbox one at a time, is the only writer   *)
(* of the session's rows, and supervises the tasks of the running turn:    *)
(* one provider worker, one tool, one approval waiter.                     *)
(*                                                                         *)
(* A handler is split at its store transactions and at its one await       *)
(* (stop_worker), because a crash, a failing write or a task can come in   *)
(* between; `pc` says where the actor stands:                              *)
(*   recover   run(), before the loop: settling the turn a restart left    *)
(*   recv      waiting for the next input                                  *)
(*   begin     submit_prompt, the generation being there                   *)
(*   advance   advance_tool_batch                                          *)
(*   spawn     start_tool_plan, the start being recorded                   *)
(*   reject    fail_current_tool                                           *)
(*   stop, drain, finish   the three parts of ending the active turn       *)
(*   stopped   no actor runs (Close, a crash, or not started yet)          *)
(* ActiveTurn.terminal is left out: it is set only after `active` has been *)
(* taken out of the actor for good.                                        *)
(***************************************************************************)
EXTENDS TurnStore, ApprovalManager, SequencesExt

CONSTANTS
  Self,          \* the session
  Risk,          \* classify_tool: "allow", "ask" or "deny", per call
  KeyOf,         \* the policy key of a call that needs an approval
  MaxRounds,     \* max_tool_rounds
  Capacity,      \* MAILBOX_CAPACITY
  ReuseCallIds,  \* whether the model repeats call ids within a session
  ProviderConfigured,  \* ModelRuntime::Provider or Unconfigured
  NoPosition,
  \* bounds of the exploration
  MaxFaults, MaxCrashes, MaxCommands, MaxDeltas

ASSUME ActorAssumption ==
  /\ Self \in Sessions
  /\ Risk \in [Calls -> {"allow", "ask", "deny"}]
  /\ KeyOf \in [Calls -> Keys]
  /\ MaxRounds \in Nat \ {0}
  /\ Capacity \in Nat \ {0}
  /\ {ReuseCallIds, ProviderConfigured} \subseteq BOOLEAN
  /\ {MaxFaults, MaxCrashes, MaxCommands, MaxDeltas} \subseteq Nat

VARIABLES
  pc,
  job,          \* the turn being recovered or ended, and how
  plan,         \* what is left of RecoveryPlan.unresolved_tools
  active,       \* ActiveTurn
  interactive,  \* policy.interactive_approval
  schema,       \* the hashes of this process's prompt and tool registry
  mailbox,
  workers,      \* provider tasks, <<turn, round>>
  tools,        \* tool tasks, by the position they execute
  executed,     \* history: positions a tool was ever spawned for
  subject,      \* history: the position an approval was asked for
  heard,        \* history: the last event published about a turn
  told,         \* history: the last event published about an approval
  lost,         \* history: turns whose recovery was given up
  faults, crashes, commands, deltas

taskVars == <<workers, tools>>
historyVars == <<executed, subject, heard, told, lost>>
boundVars == <<faults, crashes, commands, deltas>>
memoryVars == <<job, plan, active, interactive>>
vars == <<storeVars, approvalVars, pc, memoryVars, schema, mailbox,
          taskVars, historyVars, boundVars>>

-----------------------------------------------------------------------------
(* state *)

Pcs == {"stopped", "recover", "recv", "begin", "advance", "spawn", "reject", "stop", "drain",
        "finish"}

NoActive == [turn |-> NoTurn, cancelled |-> FALSE, rounds |-> 0, batch |-> <<>>, index |-> 1,
             approved |-> FALSE, approval |-> NoApproval, awaiting |-> FALSE]
NoJob == [turn |-> NoTurn, kind |-> "-", exit |-> FALSE]

Idle == active.turn = NoTurn
Mine(t) == active.turn = t
Live(t) == Mine(t) /\ ~active.cancelled

\* PendingToolBatch::current, and what identifies that call for good.
HasCurrent == active.index \in DOMAIN active.batch
Position(t, r, i, c) == [turn |-> t, round |-> r, index |-> i, call |-> c]
Cursor ==
  IF HasCurrent THEN Position(active.turn, active.rounds, active.index, active.batch[active.index])
                ELSE NoPosition
WorkerHandle == <<active.turn, active.rounds>>

Positions == [turn : Turns, round : 1 .. MaxRounds, index : Nat, call : Calls]
Inputs ==
  [type : {"submit", "interrupt", "close"}]
    \union [type : {"resume"}, interactive : BOOLEAN]
    \union [type : {"resolve"}, approval : Approvals, decision : Decisions]
    \union [type : {"delta", "final", "failed", "cancelled", "exited"}, turn : Turns]
    \union [type : {"calls"}, turn : Turns, calls : Batches \union {<<>>}]
    \union [type : {"result"}, turn : Turns, call : Calls]
    \union [type : {"outcome"}, turn : Turns, approval : Approvals, outcome : Outcomes]

ActorTypeOK ==
  /\ StoreTypeOK /\ ApprovalTypeOK
  /\ pc \in Pcs
  /\ job \in [turn : Turns \union {NoTurn}, kind : Terminal \union {"-"}, exit : BOOLEAN]
  /\ plan \subseteq [at : [event : Nat, slot : Nat, call : Calls], kind : Verdicts]
  /\ active \in [turn : Turns \union {NoTurn}, cancelled : BOOLEAN, rounds : 0 .. MaxRounds,
                 batch : Batches \union {<<>>}, index : Nat, approved : BOOLEAN,
                 approval : Approvals \union {NoApproval}, awaiting : BOOLEAN]
  /\ interactive \in BOOLEAN
  /\ schema \in Schemas
  /\ mailbox \in Seq(Inputs) /\ Len(mailbox) <= Capacity
  /\ workers \subseteq Turns \X (0 .. MaxRounds)
  /\ tools \subseteq Positions /\ executed \subseteq Positions
  /\ subject \in [Approvals -> Positions \union {NoPosition}]
  /\ heard \in [Turns -> {"-", "open"} \union Terminal]
  /\ told \in [Approvals -> {"-", "requested", "resolved", "timed_out"}]
  /\ lost \subseteq Turns
  /\ faults \in 0 .. MaxFaults /\ crashes \in 0 .. MaxCrashes
  /\ commands \in 0 .. MaxCommands /\ deltas \in 0 .. MaxDeltas

ActorInit ==
  /\ StoreInit /\ ApprovalInit
  /\ pc = "stopped" /\ job = NoJob /\ plan = {} /\ active = NoActive /\ interactive = TRUE
  /\ schema \in Schemas
  /\ mailbox = <<>> /\ workers = {} /\ tools = {}
  /\ executed = {}
  /\ subject = [a \in Approvals |-> NoPosition]
  /\ heard = [t \in Turns |-> "-"]
  /\ told = [a \in Approvals |-> "-"]
  /\ lost = {}
  /\ faults = MaxFaults /\ crashes = MaxCrashes
  /\ commands = MaxCommands /\ deltas = MaxDeltas

-----------------------------------------------------------------------------
(* helpers *)

\* A store call that returns an error and changes nothing: because its own
\* condition does not hold, or because the database fails.
Fails(can) ==
  /\ IF can THEN faults > 0 /\ faults' = faults - 1 ELSE UNCHANGED faults
  /\ UNCHANGED storeVars

Publish(t, what) == heard' = [heard EXCEPT ![t] = what]

Receive(type) ==
  /\ pc = "recv" /\ mailbox # <<>> /\ Head(mailbox).type = type
  /\ mailbox' = Tail(mailbox)

Room == pc # "stopped" /\ Len(mailbox) < Capacity
Post(m) == Room /\ mailbox' = Append(mailbox, m)

\* interrupt_active_for_turn, fail_active and the end of complete_active.
End(kind, exit) ==
  /\ pc' = "stop"
  /\ job' = [turn |-> active.turn, kind |-> kind, exit |-> exit]

\* The actor is dropped: mailbox, approvals and tasks go with it.
Halt ==
  /\ pc' = "stopped" /\ job' = NoJob /\ plan' = {} /\ active' = NoActive /\ interactive' = TRUE
  /\ mailbox' = <<>> /\ workers' = {} /\ tools' = {}
  /\ pending' = {} /\ alwaysRules' = {} /\ due' = {}
  /\ rules' = [s \in Sessions |-> {}]
  /\ finished' = [a \in Approvals |-> "-"]
  /\ delivered' = [a \in Approvals |-> "-"]
  /\ waiter' = [a \in Approvals |-> "none"]
  /\ UNCHANGED <<request, executed, subject, told, lost>>

-----------------------------------------------------------------------------
(* start and recovery *)

\* The turn's events, by their place in the session's log.
TurnEvents(t) == {i \in DOMAIN events[Self] : events[Self][i].turn = t}
Noted(t, type) == {events[Self][i].call : i \in {j \in TurnEvents(t) : events[Self][j].type = type}}

\* The calls the turn's assistant messages ask for: where, and which.
RequestedIn(t) ==
  UNION {{[event |-> i, slot |-> k, call |-> events[Self][i].calls[k]] :
            k \in DOMAIN events[Self][i].calls} :
         i \in {j \in TurnEvents(t) : events[Self][j].role = "assistant"}}

\* pending_approvals: the resolution names the approval, and takes the call
\* that approval was asked for off the set.
StillAsked(t, c) ==
  LET log == events[Self]
      Asks(i, a) == log[i].type = "approval.requested" /\ log[i].call = c /\ log[i].approval = a
  IN \E i \in TurnEvents(t) :
       /\ Asks(i, log[i].approval)
       /\ \A j \in TurnEvents(t) :
            j > i /\ log[j].type \in {"approval.resolved", "approval.timed_out"}
              => \A k \in TurnEvents(t) : k < j => ~Asks(k, log[j].approval)

\* mutant: tool.started is not looked at
VerdictUnstarted(t, c) ==
  IF StillAsked(t, c) THEN "approval_interrupted" ELSE "not_executed"

Verdict(t, c) ==
  IF c \in Noted(t, "tool.started") THEN "unknown"
  ELSE IF StillAsked(t, c) THEN "approval_interrupted" ELSE "not_executed"

PlanRecovery(t) ==
  {[at |-> r, kind |-> Verdict(t, r.call)] :
     r \in {q \in RequestedIn(t) : q.call \notin Noted(t, "tool.completed")}}

\* The calls are settled in the order they were asked for.
FirstOf(u, todo) ==
  \A v \in todo :
    \/ u.at.event < v.at.event
    \/ u.at.event = v.at.event /\ u.at.slot <= v.at.slot

\* SessionActor::new.  A running turn that cannot be read is reported without
\* a turn id, and the actor takes inputs all the same.
StartActor ==
  /\ pc = "stopped"
  /\ \/ /\ \A t \in Turns : ~RunningIn(Self, t)
        /\ pc' = "recv" /\ UNCHANGED <<job, plan, lost, faults>>
     \/ \E t \in Turns :
          /\ RunningIn(Self, t)
          /\ pc' = "recover" /\ job' = [NoJob EXCEPT !.turn = t] /\ plan' = PlanRecovery(t)
          /\ UNCHANGED <<lost, faults>>
     \/ /\ Fails(TRUE)
        /\ lost' = lost \union {t \in Turns : RunningIn(Self, t)}
        /\ pc' = "recv" /\ UNCHANGED <<job, plan>>
  /\ UNCHANGED <<storeVars, approvalVars, active, interactive, schema, mailbox,
                 taskVars, executed, subject, heard, told, crashes, commands, deltas>>

\* The actor gives recovery up, or has completed it, and starts the loop.
LeaveRecovery ==
  pc' = "recv" /\ job' = NoJob /\ plan' = {} /\ Publish(job.turn, "failed")
GiveUp == LeaveRecovery /\ lost' = lost \union {job.turn}

RecoverTool ==
  /\ pc = "recover"
  /\ \E u \in plan :
       /\ FirstOf(u, plan)
       /\ \/ /\ CommitToolResult(Self, job.turn, u.at.call, u.kind)
             /\ Publish(job.turn, "open")
             /\ plan' = plan \ {u}
             /\ UNCHANGED <<pc, job, lost, faults>>
          \/ Fails(CanCommitResult(Self, job.turn, u.at.call)) /\ GiveUp
  /\ UNCHANGED <<approvalVars, active, interactive, schema, mailbox, taskVars,
                 executed, subject, told, crashes, commands, deltas>>

RecoverEnd ==
  /\ pc = "recover" /\ plan = {}
  /\ \/ /\ FinishWithoutMessage(Self, job.turn, "failed")
        /\ LeaveRecovery /\ UNCHANGED <<lost, faults>>
     \/ Fails(CanFinish(Self, job.turn)) /\ GiveUp
  /\ UNCHANGED <<approvalVars, active, interactive, schema, mailbox, taskVars,
                 executed, subject, told, crashes, commands, deltas>>

-----------------------------------------------------------------------------
(* commands *)

\* SessionHandle::dispatch: try_send, refused when the mailbox is full.  A
\* user resolves what was announced; a prompt needs an unused turn id (bound).
FreshTurns == Cardinality({t \in Turns : status[t] = "none"})
PromptsInFlight ==
  Len(SelectSeq(mailbox, LAMBDA m : m.type = "submit")) + (IF pc = "begin" THEN 1 ELSE 0)

Command(m) ==
  /\ commands > 0 /\ commands' = commands - 1
  /\ Post(m)
  /\ UNCHANGED <<storeVars, approvalVars, pc, memoryVars, schema, taskVars, historyVars,
                 faults, crashes, deltas>>

SendSubmit    == PromptsInFlight < FreshTurns /\ Command([type |-> "submit"])
SendInterrupt == Command([type |-> "interrupt"])
SendClose     == Command([type |-> "close"])
SendResume    == \E b \in BOOLEAN : Command([type |-> "resume", interactive |-> b])
SendResolve   == \E a \in Approvals, d \in Decisions :
                   told[a] # "-" /\ Command([type |-> "resolve", approval |-> a, decision |-> d])

actorOnly == <<active, interactive, schema>>

\* submit_prompt up to ensure_generation: Busy, RequiresTransition, a store
\* that cannot be read or written, or a generation to begin the turn in.
HandleSubmit ==
  /\ Receive("submit")
  /\ \/ /\ ~Idle \/ generation[Self] \notin {NoSchema, schema}
        /\ UNCHANGED <<pc, storeVars, faults>>
     \/ Idle /\ Fails(TRUE) /\ UNCHANGED pc
     \/ /\ Idle
        /\ CreateGeneration(Self, schema) \/ (generation[Self] = schema /\ UNCHANGED storeVars)
        /\ pc' = "begin" /\ UNCHANGED faults
  /\ UNCHANGED <<approvalVars, memoryVars, schema, taskVars, historyVars, crashes, commands, deltas>>

\* persist_prompt_start, start_prompt_worker, install_active_turn,
\* publish_prompt_events.
BeginPrompt ==
  /\ pc = "begin" /\ pc' = "recv"
  /\ \/ \E t \in Turns :
          /\ BeginTurn(Self, t)
          /\ active' = [NoActive EXCEPT !.turn = t]
          /\ workers' = workers \union (IF ProviderConfigured THEN {<<t, 0>>} ELSE {})
          /\ Publish(t, "open")
          /\ UNCHANGED faults
     \/ /\ Fails(\A t \in Turns : ~RunningIn(Self, t))
        /\ UNCHANGED <<active, workers, heard>>
  /\ UNCHANGED <<approvalVars, job, plan, interactive, schema, mailbox, tools,
                 executed, subject, told, lost, crashes, commands, deltas>>

\* mutant: only the token is cancelled, the worker is trusted to report back
InterruptCancelsOnly ==
  /\ Receive("interrupt")
  /\ active' = [active EXCEPT !.cancelled = ~Idle]
  /\ UNCHANGED <<storeVars, approvalVars, pc, job, plan, interactive, schema, taskVars,
                 historyVars, boundVars>>

HandleInterrupt ==
  /\ Receive("interrupt")
  /\ IF Idle THEN UNCHANGED <<pc, job>> ELSE End("interrupted", FALSE)
  /\ UNCHANGED <<storeVars, approvalVars, plan, actorOnly, taskVars, historyVars, boundVars>>

\* Close of an idle session leaves the loop at once.
HandleClose ==
  /\ pc = "recv" /\ mailbox # <<>> /\ Head(mailbox).type = "close"
  /\ IF Idle
     THEN Halt /\ UNCHANGED heard
     ELSE /\ End("interrupted", TRUE)
          /\ mailbox' = Tail(mailbox)
          /\ UNCHANGED <<approvalVars, plan, active, interactive, taskVars, historyVars>>
  /\ UNCHANGED <<storeVars, schema, boundVars>>

HandleResume ==
  /\ Receive("resume")
  /\ interactive' = Head(mailbox).interactive
  /\ UNCHANGED <<storeVars, approvalVars, pc, job, plan, active, schema, taskVars,
                 historyVars, boundVars>>

HandleResolve ==
  /\ Receive("resolve")
  /\ IF active.awaiting
     THEN Resolve(Self, active.turn, Head(mailbox).approval, Head(mailbox).decision)
     ELSE UNCHANGED approvalVars
  /\ UNCHANGED <<storeVars, pc, memoryVars, schema, taskVars, historyVars, boundVars>>

-----------------------------------------------------------------------------
(* provider and tool events *)

\* mutant: no check that the turn is the active one
DeltaUnchecked ==
  /\ Receive("delta")
  /\ Publish(Head(mailbox).turn, "open")
  /\ UNCHANGED <<storeVars, approvalVars, pc, memoryVars, schema, taskVars,
                 executed, subject, told, lost, boundVars>>

HandleDelta ==
  /\ Receive("delta")
  /\ IF Live(Head(mailbox).turn) THEN Publish(Head(mailbox).turn, "open") ELSE UNCHANGED heard
  /\ UNCHANGED <<storeVars, approvalVars, pc, memoryVars, schema, taskVars,
                 executed, subject, told, lost, boundVars>>

\* complete_active up to complete_turn; when that fails the turn stays
\* active, with no worker left.
HandleFinal ==
  /\ Receive("final")
  /\ LET t == Head(mailbox).turn IN
     \/ ~Live(t) /\ UNCHANGED <<storeVars, pc, job, faults>>
     \/ Live(t) /\ CompleteTurn(Self, t) /\ End("completed", FALSE) /\ UNCHANGED faults
     \/ Live(t) /\ Fails(CanComplete(Self, t)) /\ UNCHANGED <<pc, job>>
  /\ UNCHANGED <<approvalVars, plan, actorOnly, taskVars, historyVars, crashes, commands, deltas>>

\* mutant: the exit of a worker is not a reason to end the turn
EndsByMessage(type, t) == type \in {"failed", "cancelled"} /\ Mine(t)

\* Failed and Cancelled end the turn even when it is already cancelled;
\* WorkerExited does not.
EndsBy(type, t) ==
  \/ type \in {"failed", "cancelled"} /\ Mine(t)
  \/ type = "exited" /\ Live(t)

HandleWorkerEnd ==
  /\ \E type \in {"failed", "cancelled", "exited"} :
       /\ Receive(type)
       /\ IF EndsBy(type, Head(mailbox).turn)
          THEN End(IF type = "cancelled" THEN "interrupted" ELSE "failed", FALSE)
          ELSE UNCHANGED <<pc, job>>
  /\ UNCHANGED <<storeVars, approvalVars, plan, actorOnly, taskVars, historyVars, boundVars>>

\* apply_tool_calls up to the commit; the empty list also stands for a list
\* the dispatcher refuses.
HandleCalls ==
  /\ Receive("calls")
  /\ LET t == Head(mailbox).turn
         cs == Head(mailbox).calls
         acceptable == active.rounds < MaxRounds /\ cs # <<>>
     IN
     \/ ~Live(t) /\ UNCHANGED <<storeVars, pc, job, active, heard, faults>>
     \/ /\ Live(t) /\ ~acceptable /\ End("failed", FALSE)
        /\ UNCHANGED <<storeVars, active, heard, faults>>
     \/ /\ Live(t) /\ acceptable
        /\ CommitAssistantToolCalls(Self, t, cs)
        /\ active' = [active EXCEPT !.rounds = @ + 1, !.batch = cs, !.index = 1,
                                    !.approved = FALSE, !.awaiting = FALSE]
        /\ Publish(t, "open")
        /\ pc' = "advance" /\ UNCHANGED <<job, faults>>
     \/ /\ Live(t) /\ acceptable
        /\ Fails(RunningIn(Self, t)) /\ End("failed", FALSE)
        /\ UNCHANGED <<active, heard>>
  /\ UNCHANGED <<approvalVars, plan, interactive, schema, taskVars,
                 executed, subject, told, lost, crashes, commands, deltas>>

\* mutant: the approval is kept for the next call
KeepApproval == [active EXCEPT !.index = @ + 1]

\* complete_current moves the cursor and takes the one-time approval back.
CompleteCurrent == [active EXCEPT !.index = @ + 1, !.approved = FALSE]

\* apply_tool_results up to the commit.
HandleResult ==
  /\ Receive("result")
  /\ LET t == Head(mailbox).turn
         c == Head(mailbox).call
         expected == HasCurrent /\ active.batch[active.index] = c
     IN
     \/ ~Live(t) /\ UNCHANGED <<storeVars, pc, job, active, heard, faults>>
     \/ /\ Live(t) /\ ~expected /\ End("failed", FALSE)
        /\ UNCHANGED <<storeVars, active, heard, faults>>
     \/ /\ Live(t) /\ expected
        /\ CommitToolResult(Self, t, c, "executed")
        /\ active' = CompleteCurrent
        /\ Publish(t, "open")
        /\ pc' = "advance" /\ UNCHANGED <<job, faults>>
     \/ /\ Live(t) /\ expected
        /\ Fails(CanCommitResult(Self, t, c)) /\ End("failed", FALSE)
        /\ UNCHANGED <<active, heard>>
  /\ UNCHANGED <<approvalVars, plan, interactive, schema, taskVars,
                 executed, subject, told, lost, crashes, commands, deltas>>

\* handle_approval_outcome.  The resolution is published first, and a failure
\* to record it is ignored.
HandleOutcome ==
  /\ Receive("outcome")
  /\ LET t == Head(mailbox).turn
         a == Head(mailbox).approval
         o == Head(mailbox).outcome
         ours == Mine(t) /\ active.approval = a
         fact == IF o = "timed_out" THEN "timed_out" ELSE "resolved"
         type == IF o = "timed_out" THEN "approval.timed_out" ELSE "approval.resolved"
     IN
     \/ ~ours /\ UNCHANGED <<storeVars, approvalVars, pc, active, heard, told, faults>>
     \/ /\ ours
        /\ IF o \in {"timed_out", "cancelled"} THEN Expire(a) ELSE UNCHANGED approvalVars
        /\ active' = [active EXCEPT !.approval = NoApproval,
                                    !.approved = @ \/ o \in Granted,
                                    !.awaiting = o \notin Granted]
        /\ IF o = "cancelled"
           THEN UNCHANGED <<storeVars, pc, heard, told, faults>>
           ELSE /\ Publish(t, "open") /\ told' = [told EXCEPT ![a] = fact]
                /\ pc' = IF o \in Granted THEN "advance" ELSE "reject"
                /\ \/ /\ AppendEvent(Self, ApprovalFact(type, t, NoCall, a))
                      /\ UNCHANGED faults
                   \/ Fails(TRUE)
  /\ UNCHANGED <<job, plan, interactive, schema, taskVars, executed, subject,
                 lost, crashes, commands, deltas>>

-----------------------------------------------------------------------------
(* advance_tool_batch *)

\* validate_messages: apart from tool results, two neighbours never have the
\* same role.
ValidContext(ms) ==
  \A i \in 1 .. Len(ms) - 1 : ms[i].role = ms[i + 1].role => ms[i].role = "tool"

\* mutant: off by one at the end of the batch
BatchDoneEarly == active.batch # <<>> /\ active.index >= Len(active.batch)

BatchDone == active.batch # <<>> /\ ~HasCurrent

\* An approval given for this call, the policy, or a standing rule lets it run.
MayRun ==
  LET c == active.batch[active.index] IN
  \/ active.approved
  \/ Risk[c] = "allow"
  \/ Risk[c] = "ask" /\ IsAllowed(Self, KeyOf[c])

MustAsk == Risk[active.batch[active.index]] = "ask" /\ ~MayRun

\* start_next_provider_round: the whole session history is sent.
NextRound ==
  /\ pc = "advance" /\ Live(active.turn) /\ BatchDone
  /\ active' = [active EXCEPT !.batch = <<>>, !.index = 1]
  /\ \/ /\ ValidContext(messages[Self])
        /\ workers' = workers \union {WorkerHandle}
        /\ pc' = "recv" /\ UNCHANGED <<job, storeVars, faults>>
     \/ /\ Fails(ValidContext(messages[Self]))
        /\ End("failed", FALSE) /\ UNCHANGED workers
  /\ UNCHANGED <<approvalVars, plan, interactive, schema, mailbox, tools, historyVars,
                 crashes, commands, deltas>>

\* start_tool_plan up to the commit: tool.started is recorded before the tool
\* is spawned.
StartTool ==
  /\ pc = "advance" /\ Live(active.turn) /\ HasCurrent /\ MayRun
  /\ active' = [active EXCEPT !.awaiting = FALSE]
  /\ \/ /\ AppendEvent(Self, ToolFact("tool.started", active.turn, Cursor.call))
        /\ pc' = "spawn" /\ UNCHANGED <<job, faults>>
     \/ Fails(TRUE) /\ End("failed", FALSE)
  /\ UNCHANGED <<approvalVars, plan, interactive, schema, mailbox, taskVars, historyVars,
                 crashes, commands, deltas>>

\* The rest of start_tool_plan: the start is published and the tool spawned.
\* A crash before it leaves a recorded start of a tool that never ran.
SpawnTool ==
  /\ pc = "spawn" /\ pc' = "recv"
  /\ tools' = tools \union {Cursor}
  /\ executed' = executed \union {Cursor}
  /\ Publish(active.turn, "open")
  /\ UNCHANGED <<storeVars, approvalVars, memoryVars, schema, mailbox, workers, subject, told, lost,
                 boundVars>>

\* handle_approval_required: register, spawn the waiter, record, announce.
AskApproval ==
  /\ pc = "advance" /\ Live(active.turn) /\ HasCurrent /\ MustAsk /\ interactive
  /\ \E a \in Approvals :
       LET c == Cursor.call IN
       /\ request[a] = NoRequest
       /\ Register(a, [session |-> Self, turn |-> active.turn, key |-> KeyOf[c]])
       /\ subject' = [subject EXCEPT ![a] = Cursor]
       /\ active' = [active EXCEPT !.approval = a, !.awaiting = TRUE]
       /\ \/ /\ AppendEvent(Self, ApprovalFact("approval.requested", active.turn, c, a))
             /\ Publish(active.turn, "open") /\ told' = [told EXCEPT ![a] = "requested"]
             /\ pc' = "recv" /\ UNCHANGED <<job, faults>>
          \/ /\ Fails(TRUE) /\ End("failed", FALSE)
             /\ UNCHANGED <<heard, told>>
  /\ UNCHANGED <<plan, interactive, schema, mailbox, taskVars, executed, lost,
                 crashes, commands, deltas>>

\* A call nobody may approve: the policy denies it, or no client can answer.
RefuseCall ==
  /\ pc = "advance" /\ Live(active.turn) /\ HasCurrent /\ ~MayRun /\ (MustAsk => ~interactive)
  /\ pc' = "reject"
  /\ UNCHANGED <<storeVars, approvalVars, memoryVars, schema, mailbox, taskVars, historyVars, boundVars>>

\* fail_current_tool: the call gets a result that says why it never ran.
RejectTool ==
  /\ pc = "reject" /\ HasCurrent
  /\ \/ /\ CommitToolResult(Self, active.turn, Cursor.call, "rejected")
        /\ Publish(active.turn, "open") /\ UNCHANGED faults
     \/ /\ Fails(CanCommitResult(Self, active.turn, Cursor.call))
        /\ UNCHANGED heard
  /\ End("failed", FALSE)
  /\ UNCHANGED <<approvalVars, plan, actorOnly, mailbox, taskVars, executed, subject, told, lost,
                 crashes, commands, deltas>>

-----------------------------------------------------------------------------
(* ending the active turn *)

\* Cancel what depends on the turn; a completed one is only tidied up.
Stop ==
  /\ pc = "stop" /\ pc' = "drain"
  /\ active' = [active EXCEPT !.cancelled = @ \/ job.kind # "completed"]
  /\ CancelForTurn(active.turn)
  /\ UNCHANGED <<storeVars, job, plan, interactive, schema, mailbox, taskVars,
                 historyVars, boundVars>>

\* stop_worker: the tool has ended or is aborted after three seconds; the
\* provider task is aborted but not awaited, so its last event may still
\* come; the waiter is aborted.
Drain ==
  /\ pc = "drain" /\ pc' = "finish"
  /\ tools' = tools \ {Cursor}
  /\ workers' \in {workers, workers \ {WorkerHandle}}
  /\ waiter' = [a \in Approvals |-> IF a = active.approval THEN "none" ELSE waiter[a]]
  /\ active' = [active EXCEPT !.approval = NoApproval]
  /\ UNCHANGED <<storeVars, managerVars, due, job, plan, interactive, schema, mailbox,
                 historyVars, boundVars>>

\* mutant: the turn is left whatever became of the write
LeaveForgetful(next) ==
  IF job.exit
  THEN Halt
  ELSE /\ pc' = "recv" /\ job' = NoJob /\ active' = NoActive
       /\ UNCHANGED <<approvalVars, plan, interactive, mailbox, taskVars, executed, subject, told, lost>>

\* Back to the mailbox with `next` as the active turn, or out of the loop when
\* Close asked for it, whatever became of the turn.
Leave(next) ==
  IF job.exit
  THEN Halt
  ELSE /\ pc' = "recv" /\ job' = NoJob /\ active' = next
       /\ UNCHANGED <<approvalVars, plan, interactive, mailbox, taskVars, executed, subject, told, lost>>

\* A failing write leaves the cancelled turn active, without any task.
Finish ==
  /\ pc = "finish"
  /\ \/ /\ \/ job.kind = "completed" /\ UNCHANGED storeVars
           \/ job.kind # "completed" /\ FinishWithoutMessage(Self, active.turn, job.kind)
        /\ Leave(NoActive)
        /\ Publish(active.turn, job.kind) /\ UNCHANGED faults
     \/ /\ job.kind # "completed" /\ Fails(CanFinish(Self, active.turn))
        /\ Leave(active)
        /\ UNCHANGED heard
  /\ UNCHANGED <<schema, crashes, commands, deltas>>

-----------------------------------------------------------------------------
(* the tasks, the clock, the process *)

TaskStep == UNCHANGED <<storeVars, pc, memoryVars, schema, historyVars, faults, crashes, commands>>

Cancelled(t) == ~Live(t)

ProviderStreams ==
  \E w \in workers :
    /\ deltas > 0 /\ deltas' = deltas - 1
    /\ Post([type |-> "delta", turn |-> w[1]])
    /\ UNCHANGED <<approvalVars, taskVars>> /\ TaskStep

Fresh(b) == \A m \in ToSet(messages[Self]) : ToSet(m.calls) \intersect ToSet(b) = {}
Offered == {b \in Batches : ReuseCallIds \/ Fresh(b)}

\* The one event a provider task ends with, and for a task that panics the
\* monitor's, which is aborted together with the task.
Answers(t) ==
  {[type |-> k, turn |-> t] :
     k \in {"final", "failed", IF Cancelled(t) THEN "cancelled" ELSE "exited"}}
    \union {[type |-> "calls", turn |-> t, calls |-> b] : b \in Offered \union {<<>>}}

ProviderEnds(w) ==
  /\ w \in workers /\ workers' = workers \ {w}
  /\ \E m \in Answers(w[1]) : Post(m)
  /\ UNCHANGED <<approvalVars, tools, deltas>> /\ TaskStep

ToolEnds(p) ==
  /\ p \in tools /\ tools' = tools \ {p}
  /\ Post([type |-> "result", turn |-> p.turn, call |-> p.call])
  /\ UNCHANGED <<approvalVars, workers, deltas>> /\ TaskStep

WaiterEnds(a) ==
  /\ \E o \in Outcomes :
       /\ WaiterReturns(a, Cancelled(request[a].turn), o)
       /\ Post([type |-> "outcome", turn |-> request[a].turn, approval |-> a, outcome |-> o])
  /\ UNCHANGED <<taskVars, deltas>> /\ TaskStep

DeadlineOf(a) ==
  DeadlinePasses(a) /\ UNCHANGED <<mailbox, taskVars, deltas>> /\ TaskStep

\* The process ends, and the next one may have another prompt or registry.
Crash ==
  /\ pc # "stopped" /\ crashes > 0 /\ crashes' = crashes - 1
  /\ Halt /\ schema' \in Schemas
  /\ UNCHANGED <<storeVars, heard, faults, commands, deltas>>

-----------------------------------------------------------------------------
Commands == SendSubmit \/ SendInterrupt \/ SendClose \/ SendResume \/ SendResolve

Handlers ==
  \/ RecoverTool \/ RecoverEnd
  \/ HandleSubmit \/ BeginPrompt \/ HandleInterrupt \/ HandleClose \/ HandleResume \/ HandleResolve
  \/ HandleDelta \/ HandleFinal \/ HandleWorkerEnd \/ HandleCalls \/ HandleResult \/ HandleOutcome
  \/ NextRound \/ StartTool \/ SpawnTool \/ AskApproval \/ RefuseCall \/ RejectTool
  \/ Stop \/ Drain \/ Finish

Tasks ==
  \/ ProviderStreams \/ (\E w \in workers : ProviderEnds(w)) \/ (\E p \in tools : ToolEnds(p))
  \/ \E a \in Approvals : WaiterEnds(a) \/ DeadlineOf(a)

ActorNext == StartActor \/ Commands \/ Handlers \/ Tasks \/ Crash

ActorSpec == ActorInit /\ [][ActorNext]_vars

-----------------------------------------------------------------------------
(* fairness *)

\* The loop runs while there is something to do; timers fire; a tool that was
\* started returns or is cancelled; a waiter that can return does.  Nothing
\* is assumed of the provider, whose stream has no timeout.
RuntimeFairness ==
  /\ WF_vars(Handlers)
  /\ WF_vars(\E p \in tools : ToolEnds(p))
  /\ \A a \in Approvals : WF_vars(WaiterEnds(a)) /\ WF_vars(DeadlineOf(a))

ActorFairSpec == ActorSpec /\ RuntimeFairness

-----------------------------------------------------------------------------
(* properties *)

\* The turn the actor works on is the running turn of the store, until its
\* outcome is written; and while the actor waits for an input there is no
\* other one: memory and database never disagree on which turn is running.
ActiveIsTheRunningTurn ==
  \A t \in Turns :
    /\ pc \notin {"stopped", "recover"} /\ RunningIn(Self, t) => Mine(t) \/ t \in lost
    /\ Mine(t) /\ ~(pc \in {"stop", "drain", "finish"} /\ job.kind = "completed")
         => RunningIn(Self, t)

\* The data keep their types, and memory and database tell one story.
ActorIsConsistent == ActorTypeOK /\ ActiveIsTheRunningTurn

\* No task outlives its turn: a running tool is the one at the cursor and a
\* waiting approval is the one the turn waits for, so neither can act on, or
\* answer for, a turn that was ended.
NoTaskOutlivesItsTurn ==
  /\ tools \subseteq {Cursor}
  /\ \A a \in Approvals : waiter[a] = "waiting" => a = active.approval
  /\ pending \subseteq {active.approval}

\* A tool is spawned only if the policy allows the call outright, a standing
\* rule covers it, or a user granted this very call: an approval given once is
\* not carried over to the next call or the next round.  And no position of a
\* batch is spawned twice, whatever is answered late, asked again or recovered.
ToolsRunAuthorised ==
  [][\A p \in tools' \ tools :
       /\ p \notin executed
       /\ \/ Risk[p.call] = "allow"
          \/ /\ Risk[p.call] = "ask"
             /\ \/ IsAllowed(Self, KeyOf[p.call])
                \/ \E a \in Approvals : subject[a] = p /\ delivered[a] \in Granted]_vars

\* What the transcript says of a call is what happened to it: a result stands
\* for an execution, and a refusal or the verdict "not executed" for none, in
\* whatever process the call ran.  The verdict "unknown" stands for a start
\* that was recorded; whether the tool ran after that nobody can tell, a crash
\* comes before the spawn as well as after it.
TranscriptTellsTheTruth ==
  \A i \in DOMAIN messages[Self] :
    LET m == messages[Self][i]
        ran == \E p \in executed : p.turn = m.turn /\ p.call = m.call
    IN  /\ m.kind = "executed" => ran
        /\ m.kind = "unknown" => m.call \in Noted(m.turn, "tool.started")
        /\ m.kind \in {"rejected", "approval_interrupted", "not_executed"} => ~ran

\* A completed turn left no call of its assistant messages unanswered.
CompletedTurnIsAnswered ==
  \A t \in Turns : status[t] = "completed" =>
    \A i \in DOMAIN messages[Self] : messages[Self][i].turn = t =>
      \A c \in ToSet(messages[Self][i].calls) :
        \E j \in DOMAIN messages[Self] :
          j > i /\ messages[Self][j].turn = t /\ messages[Self][j].call = c

\* The actor implements the contract its clients rely on: a terminal event is
\* published only for the outcome in the store, and after it nothing more is
\* published about the turn, no late delta either.  A turn whose recovery was
\* given up is announced without being ended, see lost.
Contract == INSTANCE TurnContract WITH
  outcome <- status,
  announced <- [t \in Turns |-> IF heard[t] \in Terminal /\ t \notin lost THEN heard[t] ELSE "-"]
KeepsTheContract == Contract!ContractSpec

InMailbox(type) == \E i \in DOMAIN mailbox : mailbox[i].type = type

\* An interrupt that was taken into the mailbox ends the turn that is active,
\* even when the provider never answers, unless the store fails.
InterruptEndsTheTurn ==
  \A t \in Turns :
    Mine(t) /\ InMailbox("interrupt") ~> status[t] # "running" \/ faults < MaxFaults

\* A turn never waits for anything but its provider: whatever answers, events
\* and approvals come late, in a full mailbox or not at all, a running turn is
\* ended or has a provider call out, unless the store fails.  As the rounds
\* are bounded, every turn ends when the provider always answers.
TurnAwaitsOnlyItsProvider ==
  \A t \in Turns :
    status[t] = "running" ~>
      status[t] # "running" \/ (\E w \in workers : w[1] = t) \/ faults < MaxFaults

-----------------------------------------------------------------------------
(* what the documentation says and the code does not do *)

\* rust-fourth-phase-4.6-plan.md:320: after the recovery of a restart a new
\* prompt can begin.
RecoveryFreesTheSession ==
  pc = "recv" /\ Idle => \A t \in Turns : ~RunningIn(Self, t)
=============================================================================
