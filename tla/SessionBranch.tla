---------------------------- MODULE SessionBranch ----------------------------
(***************************************************************************)
(* Rewind, restore, compaction and retry of a session's messages           *)
(* (crates/sagent-store/src/sqlite/session/transactions.rs with branch.rs  *)
(* and context.rs).  Rows are never deleted: a row of the session is the   *)
(* position of its role in `role`, in the order of the autoincremented id, *)
(* and the transactions only move rows in and out of the active branch and *)
(* keep the counter in the session's row up to date.  One session stands   *)
(* for all, since every statement is restricted to one.                    *)
(*                                                                         *)
(* Clients (command line, terminal, a model call between prepare_retry and *)
(* apply_retry) hold checkpoints for as long as they like and use them in  *)
(* any order, next to other clients that append.                           *)
(***************************************************************************)
EXTENDS Naturals, Sequences, FiniteSets

CONSTANTS
  MaxMessages, \* bound: rows in the session
  MaxTickets   \* bound: checkpoints of each kind that clients hold

ASSUME BranchAssumption == MaxMessages \in Nat /\ MaxTickets \in Nat

VARIABLES
  role,          \* the role of every row, in id order
  active,        \* rows with active = 1
  compacted,     \* rows with compacted = 1
  messageCount,  \* sessions.message_count
  rewinds,       \* RewindCheckpoints handed out
  retries        \* targets of the RetryCheckpoints handed out

branchVars == <<role, active, compacted, messageCount, rewinds, retries>>

-----------------------------------------------------------------------------
\* Messages of tools count as neither and behave like an answer that is
\* never the target of a retry.
Roles == {"user", "assistant"}
Rows == 1 .. Len(role)

\* What one append, replacement or compaction writes.
RowLists == {<<>>} \union {<<r>> : r \in Roles} \union {<<q, r>> : q \in Roles, r \in Roles}

\* SELECT MAX(id) ... AND active = 1, with 0 for no row
HeadOf(branch) ==
  IF branch = {} THEN 0 ELSE CHOOSE i \in branch : \A j \in branch : j <= i

RewindCheckpoints == [target : Nat \ {0}, head : Nat]

BranchTypeOK ==
  /\ role \in Seq(Roles) /\ Len(role) <= MaxMessages
  /\ active \in SUBSET Rows
  /\ compacted \in SUBSET Rows
  /\ messageCount \in Nat
  /\ rewinds \in SUBSET RewindCheckpoints
  /\ retries \in SUBSET Rows

BranchInit ==
  /\ role = <<>>
  /\ active = {} /\ compacted = {}
  /\ messageCount = 0
  /\ rewinds = {} /\ retries = {}

-----------------------------------------------------------------------------
(* transactions; one that is refused changes nothing *)

HasRoom(batch) == Len(role) + Len(batch) <= MaxMessages

NewRows(batch) == Len(role) + 1 .. Len(role) + Len(batch)

\* append_message, append_messages: the counter is incremented, not recounted
AppendMessages(batch) ==
  /\ batch # <<>> /\ HasRoom(batch)
  /\ role' = role \o batch
  /\ active' = active \union NewRows(batch)
  /\ messageCount' = messageCount + Len(batch)
  /\ UNCHANGED <<compacted, rewinds, retries>>

\* mutant: the rows are counted before the update
RecountEarly == messageCount' = Cardinality(active)

Recount == messageCount' = Cardinality(active')

TicketFor(m) == [target |-> m, head |-> HeadOf(active')]

\* The target has to be a message of the user, not an active one.
RewindToMessage(m) ==
  /\ role[m] = "user"
  /\ active' = {i \in active : i < m}
  /\ Recount
  /\ rewinds' = rewinds \union {TicketFor(m)}
  /\ Cardinality(rewinds') <= MaxTickets
  /\ UNCHANGED <<role, compacted, retries>>

\* Every inactive row from m on comes back, archived ones too.
Revive(m) ==
  /\ active' = active \union m .. Len(role)
  /\ Recount
  /\ UNCHANGED <<role, compacted, rewinds, retries>>

\* mutant: the head is not compared
RestoreBlind(ticket) == Revive(ticket.target)

RestoreRewound(ticket) ==
  /\ HeadOf(active) = ticket.head
  /\ Revive(ticket.target)

RestoreRewoundFrom(m) ==
  /\ m \notin active
  /\ HeadOf(active) < m
  /\ Revive(m)

\* SET compacted = 0 WHERE active = 1
Unarchive(rows) == compacted \ rows

ReplaceActiveMessages(batch) ==
  /\ HasRoom(batch)
  /\ role' = role \o batch
  /\ active' = NewRows(batch)
  /\ compacted' = Unarchive(active)
  /\ messageCount' = Len(batch)
  /\ UNCHANGED <<rewinds, retries>>

ArchiveAndCompact(batch) ==
  /\ batch # <<>> /\ HasRoom(batch)
  /\ role' = role \o batch
  /\ active' = NewRows(batch)
  /\ compacted' = compacted \union active
  /\ messageCount' = Len(batch)
  /\ UNCHANGED <<rewinds, retries>>

\* Only the latest answer; the checkpoint's expected head is its target.
PrepareRetry(m) ==
  /\ role[m] = "assistant" /\ m \in active
  /\ HeadOf(active) = m
  /\ retries' = retries \union {m}
  /\ Cardinality(retries') <= MaxTickets
  /\ UNCHANGED <<role, active, compacted, messageCount, rewinds>>

\* mutant: only the target is checked, not the head
StillLatestUnchecked(m) == m \in active

StillLatest(m) == HeadOf(active) = m /\ m \in active

ApplyRetry(m) ==
  /\ StillLatest(m) /\ role[m] = "assistant"
  /\ HasRoom(<<"assistant">>)
  /\ role' = Append(role, "assistant")
  /\ active' = (active \ {m}) \union {Len(role) + 1}
  /\ compacted' = Unarchive({m})
  /\ Recount
  /\ UNCHANGED <<rewinds, retries>>

-----------------------------------------------------------------------------
Appends  == \E batch \in RowLists : AppendMessages(batch)
Rewinds  == \E m \in Rows : RewindToMessage(m)
Restores == \/ \E ticket \in rewinds : RestoreRewound(ticket)
            \/ \E m \in Rows : RestoreRewoundFrom(m)
Rewrites == \E batch \in RowLists : ReplaceActiveMessages(batch) \/ ArchiveAndCompact(batch)
Retries  == \/ \E m \in Rows : PrepareRetry(m)
            \/ \E m \in retries : ApplyRetry(m)

BranchNext == Appends \/ Rewinds \/ Restores \/ Rewrites \/ Retries

BranchSpec == BranchInit /\ [][BranchNext]_branchVars

-----------------------------------------------------------------------------
(* properties *)

\* message_count, which lists and limits rely on, is the number of active
\* rows, although some transactions increment it, some recount and some set
\* it to what they wrote.
CountIsActive == messageCount = Cardinality(active)

\* New input is never merged under an old branch: a row that comes back comes
\* back behind every row that was active, whatever was appended, rewound,
\* restored or retried since its checkpoint was taken.
NewInputIsNeverMerged ==
  [][\A i \in active' \ active : \A j \in active : j < i]_branchVars

\* The active branch loses rows only from its end: when a rewind, a retry
\* that was prepared long ago or a replacement takes a row out, no older row
\* behind it stays, so nobody's later input is answered by a context it was
\* not written for.
LosesOnlyItsTail ==
  [][\A i \in active \ active' : \A j \in active' : j \in active => j < i]_branchVars
=============================================================================
