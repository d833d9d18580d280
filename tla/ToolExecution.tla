---------------------------- MODULE ToolExecution ----------------------------
(***************************************************************************)
(* The tools at work: from the calls of the model to their results         *)
(* (tooling/dispatch.rs, approval_policy.rs, worker/tool.rs), with what    *)
(* they do to the workspace they share (workspace.rs, read_file.rs,        *)
(* write_file.rs) and to the processes they start (terminal.rs,            *)
(* process.rs).                                                            *)
(*                                                                         *)
(* Every session of the daemon runs one call at a time; all of them work   *)
(* on one file, `file`, of one workspace.  A file is an inode: a writer    *)
(* fills its own and then gives it the name; a reader keeps the inode it   *)
(* has opened.  The user changes the file behind their backs.  Processes   *)
(* are those of a POSIX host.                                              *)
(***************************************************************************)
EXTENDS ToolOutput

CONSTANTS Sessions,
          Requests,     \* calls the model may ask for
          UserLines,    \* the files of the user: lines, by length
          MaxBytes,     \* max_file_bytes and max_content_bytes, in lines
          MaxEdits      \* bound: how often the user changes the file

ASSUME ToolAssumption ==
    /\ MaxBytes \in Nat \ {0}
    /\ MaxEdits \in Nat

Absent == "absent"
UserFiles == DOMAIN UserLines

\* What requests say of texts, pages and outputs are numbers of the right kind; a
\* character has some width.
ASSUME RequestAssumption ==
    /\ \A i \in UserFiles : UserLines[i] \in Seq(Nat)
    /\ \A c \in Requests :
         /\ c.tool = "write_file" => c.lines \in Seq(Nat)
         /\ c.tool = "read_file" => {c.page.offset, c.page.limit} \subseteq Nat
         /\ c.tool = "terminal" => {c.out, c.err, c.limit} \subseteq Nat /\ c.width \in Nat \ {0}

\* A file of the user is none of a call's.
ASSUME InodeAssumption ==
    /\ Sessions \cap UserFiles = {}
    /\ Absent \notin Sessions \cup UserFiles

Inodes == Sessions \cup UserFiles

VARIABLES
    call,       \* the call of each session
    phase,      \* where it stands
    cancelled,  \* the token of its turn
    result,     \* the ToolResult, once there is one
    file,       \* the inode that carries the name, or Absent
    content,    \* the lines written into each inode so far
    temporary,  \* sessions whose temporary sibling exists
    unremoved,  \* history: sessions that failed to remove theirs
    got,        \* what a reader has read: the inode it opened and the lines
    tree,       \* the processes of a terminal call that are alive
    active,     \* ProcessSupervisor.active
    edits,      \* changes the user made (bound)
    committed   \* history: the writes that reached the name

vars == <<call, phase, cancelled, result, file, content, temporary, unremoved, got, tree,
          active, edits, committed>>
disk == <<file, content, temporary, unremoved, edits, committed>>
processes == <<tree, active>>

Text(inode) == IF inode \in UserFiles THEN UserLines[inode] ELSE call[inode].lines

NoResult == [kind |-> "none"]
Unopened == [inode |-> Absent, lines |-> 0]

Init ==
    /\ call \in [Sessions -> Requests]
    /\ phase = [s \in Sessions |-> "planning"]
    /\ cancelled = [s \in Sessions |-> FALSE]
    /\ result = [s \in Sessions |-> NoResult]
    /\ file \in {Absent} \cup UserFiles
    /\ content = [i \in Inodes |-> IF i \in UserFiles THEN Len(UserLines[i]) ELSE 0]
    /\ temporary = {}
    /\ unremoved = {}
    /\ got = [s \in Sessions |-> Unopened]
    /\ tree = [s \in Sessions |-> {}]
    /\ active = {}
    /\ edits = 0
    /\ committed = {}

-----------------------------------------------------------------------------
(* Before a tool starts *)

Go(s, to) == phase' = [phase EXCEPT ![s] = to] /\ UNCHANGED result

Return(s, kind) ==
    /\ phase' = [phase EXCEPT ![s] = "returned"]
    /\ result' = [result EXCEPT ![s] = [kind |-> kind]]

\* ToolDispatcher::plan, then classify_tool: what may start, what must be asked for.
Plan(s) ==
    /\ phase[s] = "planning"
    /\ LET c == call[s]
       IN  IF c.tool \notin DOMAIN Permission THEN Return(s, "unknown_tool")
           ELSE IF c.tool = "terminal" /\ c.risk = "deny" THEN Return(s, "policy_denied")
           ELSE IF \/ c.tool = "write_file"
                   \/ c.tool = "terminal" /\ c.risk = "ask"
           THEN Go(s, "asking")
           ELSE Go(s, "ready")
    /\ UNCHANGED <<call, cancelled, disk, got, processes>>

\* The answer of the user (ApprovalManager has the whole of it).
Answer(s, approved) ==
    /\ phase[s] = "asking"
    /\ IF approved THEN Go(s, "ready") ELSE Return(s, "denied")
    /\ UNCHANGED <<call, cancelled, disk, got, processes>>

\* execute_inner, up to the tool: a cancelled turn starts nothing, arguments that do
\* not parse are an answer to the model.
Start(s, tool) ==
    /\ phase[s] = "ready"
    /\ call[s].tool = tool
    /\ ~cancelled[s]
    /\ call[s].parses

RefuseToStart(s) ==
    /\ phase[s] = "ready"
    /\ cancelled[s] \/ ~call[s].parses
    /\ Return(s, IF cancelled[s] THEN "cancelled" ELSE "invalid_arguments")
    /\ UNCHANGED <<call, cancelled, disk, got, processes>>

-----------------------------------------------------------------------------
(* write_file *)

\* Path, size and the first look at the target.
WriteStarts(s) ==
    /\ Start(s, "write_file")
    /\ IF Len(call[s].lines) > MaxBytes THEN Return(s, "content_too_large")
       ELSE IF ~call[s].inside THEN Return(s, "path_denied")
       ELSE IF file # Absent /\ ~call[s].overwrite THEN Return(s, "already_exists")
       ELSE Go(s, "create")
    /\ UNCHANGED <<call, cancelled, disk, got, processes>>

\* create_new on the temporary sibling, whose name no other call has.
CreateTemporary(s) ==
    /\ phase[s] = "create"
    /\ temporary' = temporary \cup {s}
    /\ Go(s, "write")
    /\ UNCHANGED <<call, cancelled, file, content, unremoved, edits, committed, got,
                   processes>>

\* write_all and sync_all, each in a race with the token.
WriteSome(s) ==
    /\ phase[s] = "write"
    /\ content[s] < Len(Text(s))
    /\ content' = [content EXCEPT ![s] = @ + 1]
    /\ UNCHANGED <<call, phase, cancelled, result, file, temporary, unremoved, edits,
                   committed, got, processes>>

Synced(s) ==
    /\ phase[s] = "write"
    /\ content[s] = Len(Text(s))
    /\ Go(s, "commit")
    /\ UNCHANGED <<call, cancelled, disk, got, processes>>

\* mutant: the first look at the target is trusted
CommitBlindly(s) ==
    /\ phase[s] = "commit"
    /\ ~cancelled[s]
    /\ file' = s
    /\ committed' = committed \cup {s}
    /\ temporary' = temporary \ {s}
    /\ Go(s, "written")
    /\ UNCHANGED <<call, cancelled, content, unremoved, edits, got, processes>>

\* rename replaces whatever has the name; hard_link demands that nothing has.
Commit(s) ==
    /\ phase[s] = "commit"
    /\ ~cancelled[s]
    /\ IF call[s].overwrite \/ file = Absent
       THEN /\ file' = s
            /\ committed' = committed \cup {s}
            /\ temporary' = IF call[s].overwrite THEN temporary \ {s} ELSE temporary
            /\ Go(s, "written")
       ELSE Go(s, "exists") /\ UNCHANGED <<file, committed, temporary>>
    /\ UNCHANGED <<call, cancelled, content, unremoved, edits, got, processes>>

\* mutant: the token is looked at once more after the file has its name
StopAfterAll(s) ==
    /\ phase[s] \in {"write", "commit", "written"}
    /\ cancelled[s]
    /\ Go(s, "stopped")
    /\ UNCHANGED <<call, cancelled, disk, got, processes>>

StopWriting(s) ==
    /\ phase[s] \in {"write", "commit"}
    /\ cancelled[s]
    /\ Go(s, "stopped")
    /\ UNCHANGED <<call, cancelled, disk, got, processes>>

DiskFails(s) ==
    /\ phase[s] \in {"create", "write", "commit"}
    /\ Go(s, "failed")
    /\ UNCHANGED <<call, cancelled, disk, got, processes>>

\* Whatever came of it, the temporary sibling is to go; whether it went nobody asks.
WriteEnds(s) ==
    /\ phase[s] \in {"written", "exists", "stopped", "failed"}
    /\ \/ temporary' = temporary \ {s} /\ UNCHANGED unremoved
       \/ s \in temporary /\ unremoved' = unremoved \cup {s} /\ UNCHANGED temporary
    /\ Return(s, CASE phase[s] = "written" -> "ok"
                   [] phase[s] = "exists" -> "already_exists"
                   [] phase[s] = "stopped" -> "cancelled"
                   [] phase[s] = "failed" -> "write_failed")
    /\ UNCHANGED <<call, cancelled, file, content, edits, committed, got, processes>>

-----------------------------------------------------------------------------
(* read_file and session_search *)

\* The path is resolved and the size looked up by name.
ReadStarts(s) ==
    /\ Start(s, "read_file")
    /\ IF ~call[s].inside THEN Return(s, "path_denied")
       ELSE IF file = Absent THEN Return(s, "not_found")
       ELSE IF content[file] > MaxBytes THEN Return(s, "file_too_large")
       ELSE Go(s, "open")
    /\ UNCHANGED <<call, cancelled, disk, got, processes>>

\* By then the name may be another inode's, or nobody's.
Open(s) ==
    /\ phase[s] = "open"
    /\ IF file = Absent THEN Return(s, "read_failed") /\ UNCHANGED got
       ELSE Go(s, "read") /\ got' = [got EXCEPT ![s] = [inode |-> file, lines |-> 0]]
    /\ UNCHANGED <<call, cancelled, disk, processes>>

\* read_bytes: the limit is enforced again on what is really read.
ReadSome(s) ==
    /\ phase[s] = "read"
    /\ got[s].lines < content[got[s].inode]
    /\ got' = [got EXCEPT ![s].lines = @ + 1]
    /\ IF got[s].lines + 1 > MaxBytes THEN Return(s, "file_too_large")
       ELSE UNCHANGED <<phase, result>>
    /\ UNCHANGED <<call, cancelled, disk, processes>>

ReadEnds(s) ==
    /\ phase[s] = "read"
    /\ got[s].lines = content[got[s].inode]
    /\ phase' = [phase EXCEPT ![s] = "returned"]
    /\ result' = [result EXCEPT ![s] =
                    [kind |-> "ok", inode |-> got[s].inode, read |-> got[s].lines,
                     page |-> ReadPage(SubSeq(Text(got[s].inode), 1, got[s].lines),
                                       call[s].page)]]
    /\ UNCHANGED <<call, cancelled, disk, got, processes>>

\* The query runs on a blocking thread that cancellation leaves behind.
SearchEnds(s, found) ==
    /\ Start(s, "session_search")
    /\ Return(s, IF found THEN "ok" ELSE "search_unavailable")
    /\ UNCHANGED <<call, cancelled, disk, got, processes>>

StopReading(s) ==
    /\ phase[s] = "read"
    /\ cancelled[s]
    /\ Return(s, "cancelled")
    /\ UNCHANGED <<call, cancelled, disk, got, processes>>

-----------------------------------------------------------------------------
(* terminal *)

\* A command is a shell, which leads a process group, and at most one descendant of it.
Shell == "shell"
Descendant == "descendant"

\* Who keeps the pipes of the shell open; call[s].deaf survive a SIGTERM.
Holds(s, p) == p = Shell \/ ~call[s].redirected

\* Whom a signal to the group reaches: a descendant may have left it.
Reached(s, p) == p = Shell \/ ~call[s].detached

\* The processes of a call once its group was killed.
Survivors(s) == {p \in tree[s] : ~Reached(s, p)}

\* Limits, working directory and the risk once more; approval was given by now.
RefuseCommand(s) ==
    /\ Start(s, "terminal")
    /\ call[s].unsound # "none"
    /\ Return(s, call[s].unsound)
    /\ UNCHANGED <<call, cancelled, disk, got, processes>>

Spawn(s) ==
    /\ Start(s, "terminal") /\ call[s].unsound = "none"
    /\ tree' = [tree EXCEPT ![s] = {Shell} \cup (IF call[s].forks THEN {Descendant} ELSE {})]
    /\ active' = active \cup {s}
    /\ Go(s, "wait")
    /\ UNCHANGED <<call, cancelled, disk, got>>

SpawnFails(s) ==
    /\ Start(s, "terminal") /\ call[s].unsound = "none"
    /\ Return(s, "spawn_failed")
    /\ UNCHANGED <<call, cancelled, disk, got, processes>>

\* A process ends by itself; nothing says that it must.
Exit(s, p) ==
    /\ p \in tree[s]
    /\ tree' = [tree EXCEPT ![s] = @ \ {p}]
    /\ UNCHANGED <<call, phase, cancelled, result, disk, got, active>>

\* The three branches of the select: the shell ended, or it is told to.
ShellEnded(s) ==
    /\ phase[s] = "wait"
    /\ Shell \notin tree[s]
    /\ Go(s, "drain_exited")
    /\ UNCHANGED <<call, cancelled, disk, got, processes>>

\* terminate_tree: SIGTERM to the group, 300 ms for the shell, then SIGKILL.
Terminate(s, why) ==
    /\ phase[s] = "wait"
    /\ why = "cancelled" => cancelled[s]
    /\ tree' = [tree EXCEPT ![s] = (@ \cap call[s].deaf) \cup Survivors(s)]
    /\ Go(s, IF why = "cancelled" THEN "term_cancelled" ELSE "term_timeout")
    /\ UNCHANGED <<call, cancelled, disk, got, active>>

\* mutant: no SIGKILL
GraceIsPatient(s) ==
    /\ phase[s] \in {"term_cancelled", "term_timeout"}
    /\ Shell \notin tree[s]
    /\ Go(s, IF phase[s] = "term_cancelled" THEN "drain_cancelled" ELSE "drain_timeout")
    /\ UNCHANGED <<call, cancelled, disk, got, processes>>

GraceEnds(s) ==
    /\ phase[s] \in {"term_cancelled", "term_timeout"}
    /\ tree' = [tree EXCEPT ![s] = IF Shell \in @ THEN Survivors(s) ELSE @]
    /\ Go(s, IF phase[s] = "term_cancelled" THEN "drain_cancelled" ELSE "drain_timeout")
    /\ UNCHANGED <<call, cancelled, disk, got, active>>

Draining(s) == phase[s] \in {"drain_exited", "drain_cancelled", "drain_timeout"}
Kind(s) == CASE phase[s] = "drain_exited" -> "exited"
             [] phase[s] = "drain_cancelled" -> "cancelled"
             [] phase[s] = "drain_timeout" -> "timeout"

Finish(s, shown) ==
    /\ phase' = [phase EXCEPT ![s] = "returned"]
    /\ result' = [result EXCEPT ![s] = [kind |-> Kind(s), shown |-> shown]]

\* The pipes are read to their end ...
Drained(s) ==
    /\ Draining(s)
    /\ \A p \in tree[s] : ~Holds(s, p)
    /\ active' = active \ {s}
    /\ Finish(s, Shown(call[s]))
    /\ UNCHANGED <<call, cancelled, disk, got, tree>>

\* mutant: the pipes are given up, their holders are not
DrainGivesUp(s) ==
    /\ Draining(s)
    /\ \E p \in tree[s] : Holds(s, p)
    /\ active' = active \ {s}
    /\ Finish(s, [length |-> 0, truncated |-> TRUE])
    /\ UNCHANGED <<call, cancelled, disk, got, tree>>

\* ... or for two seconds, after which the group is killed.
DrainTimesOut(s) ==
    /\ Draining(s)
    /\ \E p \in tree[s] : Holds(s, p)
    /\ tree' = [tree EXCEPT ![s] = Survivors(s)]
    /\ active' = active \ {s}
    /\ Finish(s, [length |-> 0, truncated |-> TRUE])
    /\ UNCHANGED <<call, cancelled, disk, got>>

-----------------------------------------------------------------------------
(* The user *)

Cancel(s) ==
    /\ ~cancelled[s]
    /\ phase[s] # "returned"
    /\ cancelled' = [cancelled EXCEPT ![s] = TRUE]
    /\ UNCHANGED <<call, phase, result, disk, got, processes>>

Edit(to) ==
    /\ edits < MaxEdits
    /\ file # to
    /\ file' = to
    /\ edits' = edits + 1
    /\ UNCHANGED <<call, phase, cancelled, result, content, temporary, unremoved,
                   committed, got, processes>>

Writing(s) ==
    \/ WriteStarts(s) \/ CreateTemporary(s) \/ WriteSome(s) \/ Synced(s) \/ Commit(s)
    \/ StopWriting(s) \/ DiskFails(s) \/ WriteEnds(s)

Reading(s) ==
    \/ ReadStarts(s) \/ Open(s) \/ ReadSome(s) \/ ReadEnds(s) \/ StopReading(s)
    \/ \E found \in BOOLEAN : SearchEnds(s, found)

Commanding(s) ==
    \/ RefuseCommand(s) \/ Spawn(s) \/ SpawnFails(s) \/ ShellEnded(s)
    \/ \E why \in {"cancelled", "timeout"} : Terminate(s, why)
    \/ GraceEnds(s) \/ Drained(s) \/ DrainTimesOut(s)

Work(s) == Plan(s) \/ RefuseToStart(s) \/ Writing(s) \/ Reading(s) \/ Commanding(s)

Next ==
    \/ \E s \in Sessions :
          \/ Work(s)
          \/ \E approved \in BOOLEAN : Answer(s, approved)
          \/ \E p \in {Shell, Descendant} : Exit(s, p)
          \/ Cancel(s)
    \/ \E to \in {Absent} \cup UserFiles : Edit(to)

Spec == Init /\ [][Next]_vars

\* The daemon runs and its timers fire; commands, users and disks owe nothing.
Fairness == \A s \in Sessions : WF_vars(Work(s))

-----------------------------------------------------------------------------
(* Properties *)

Returned(s, kind) == phase[s] = "returned" /\ result[s].kind = kind

\* A write is all or nothing, and the model is told which: the name never carries a
\* file half written, "ok" is only said of a content that reached the name, and every
\* other answer, cancellation in the middle included, of one that never did
\* (write_file.rs:84-87).
WritesAreAllOrNothing ==
    /\ file \in Sessions => content[file] = Len(Text(file))
    /\ \A s \in Sessions :
         phase[s] = "returned" /\ call[s].tool = "write_file"
           => (result[s].kind = "ok" <=> s \in committed)

\* Without `overwrite` no file is ever replaced, also when two calls, or a call and the
\* user, find the name free at the same moment (write_file.rs:205).
NeverClobbers ==
    [][\A s \in Sessions :
         file' = s /\ file # s => file = Absent \/ call[s].overwrite]_vars

PageIsComplete(s) ==
    Returned(s, "ok") /\ call[s].tool = "read_file" =>
      LET r == result[s]
          asked == Asked(Text(r.inode), Normalized(call[s].page))
      IN  /\ r.read = Len(Text(r.inode))
          /\ r.read <= MaxBytes
          /\ r.page.length <= MaxOutput
          /\ ~r.page.truncated =>
               /\ r.page.lines = Len(asked)
               /\ (\A i \in DOMAIN asked : asked[i] <= MaxLine)
                    => r.page.length = Joined(Numbered(asked), Len(asked))

OutputIsComplete(s) ==
    "shown" \in DOMAIN result[s] =>
      LET c == call[s]
      IN  /\ result[s].shown.length <= c.limit
          /\ \/ result[s].shown.truncated
             \/ result[s].shown.length = CombineOutput(c.out \div c.width, c.err \div c.width)

\* A read that succeeds has read one version of the file, whole, whatever is renamed over
\* it in the meantime.  What a call shows is within its limit, and unless it is marked as
\* cut, the output of a command is shown to the last character and so is every line asked
\* for, as long as none of them exceeds MaxLine: the end of a longer line is cut without a
\* mark (read_file.rs:102-170, 246-264, terminal.rs:232-262).
NothingVanishes == \A s \in Sessions : PageIsComplete(s) /\ OutputIsComplete(s)

\* What is cut off is marked: "是否丢弃了超出上限的输出" (worker/tool.rs:31).
CutsAreMarked ==
    \A s \in Sessions :
      Returned(s, "ok") /\ call[s].tool = "read_file" /\ ~result[s].page.truncated =>
        LET asked == Asked(Text(result[s].inode), Normalized(call[s].page))
        IN  result[s].page.length = Joined(Numbered(asked), Len(asked))

\* A call that has returned leaves no entry in the table of running processes, no
\* temporary file but one that could not be removed, and no process that holds its pipes
\* but one that has left the process group (terminal.rs:222-255, process.rs:287-304,
\* write_file.rs:132).
NothingIsLeftBehind ==
    \A s \in Sessions :
      phase[s] = "returned" =>
        /\ s \in temporary => s \in unremoved
        /\ s \notin active
        /\ \A p \in tree[s] : Holds(s, p) => ~Reached(s, p)

\* A tool that may run returns, also when its command never ends and its descendants
\* neither heed a signal nor let go of the pipes (terminal.rs:236).
EveryCallEnds ==
    \A s \in Sessions : phase[s] = "ready" ~> phase[s] = "returned"

=============================================================================
