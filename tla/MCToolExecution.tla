---------------------------- MODULE MCToolExecution ----------------------------
(***************************************************************************)
(* The calls ToolExecution is checked on.                                  *)
(***************************************************************************)
EXTENDS ToolExecution

WriteFile(over, text) ==
    [tool |-> "write_file", parses |-> TRUE, inside |-> TRUE, overwrite |-> over,
     lines |-> text]
ReadFile(from, count) ==
    [tool |-> "read_file", parses |-> TRUE, inside |-> TRUE,
     page |-> [offset |-> from, limit |-> count]]
Terminal(danger, kids, survivors) ==
    [tool |-> "terminal", parses |-> TRUE, unsound |-> "none", risk |-> danger,
     forks |-> kids, redirected |-> FALSE, detached |-> FALSE, deaf |-> survivors,
     out |-> 2, err |-> 0, width |-> 1, limit |-> 12]

\* Output that fits, that does not fit, and that does not fit only with its heading; a
\* page cut to its first line, and one whose only line is cut.
MCRequests ==
    {WriteFile(TRUE, <<3>>), WriteFile(FALSE, <<3>>), WriteFile(TRUE, <<1, 1, 1>>),
     ReadFile(0, 5), ReadFile(2, 1), [ReadFile(2, 1) EXCEPT !.inside = FALSE],
     [Terminal("safe", TRUE, {Descendant}) EXCEPT !.redirected = TRUE],
     [Terminal("safe", TRUE, {Descendant}) EXCEPT !.out = 52, !.width = 4],
     [Terminal("safe", TRUE, {Shell}) EXCEPT !.detached = TRUE],
     [Terminal("ask", FALSE, {Shell}) EXCEPT !.err = 2],
     [Terminal("safe", FALSE, {}) EXCEPT !.unsound = "invalid_timeout"],
     Terminal("deny", FALSE, {}),
     [tool |-> "session_search", parses |-> TRUE],
     [tool |-> "none", parses |-> FALSE]}

\* One read.
MCRead == {ReadFile(2, 1)}

MCUserLines == [old |-> <<2, 9>>, big |-> <<1, 1, 1>>]

\* Sessions meet only at the name, and only writers change it: with two calls of which
\* neither writes, each runs as it does alone.  So one of the two sessions writes.
Writer == CHOOSE s \in Sessions : TRUE
WriterInit == Init /\ call[Writer].tool = "write_file"
WriterSpec == WriterInit /\ [][Next]_vars /\ Fairness

=============================================================================
