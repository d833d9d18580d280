------------------------------ MODULE ToolOutput ------------------------------
(***************************************************************************)
(* What the tools return to the model, measured in characters: the limit   *)
(* every ToolResult is cut to (result.rs), the pages of read_file, the     *)
(* bounded reading of the pipes of a command (process.rs) and the registry *)
(* of the built-in tools (registry.rs).                                    *)
(***************************************************************************)
EXTENDS Integers, Sequences, FiniteSetsExt

CONSTANTS Marker,      \* characters of TRUNCATION_MARKER
          Heading,     \* characters of the heading of the error stream
          MaxOutput,   \* ReadFileLimits.max_output_chars
          MaxLines,    \* ReadFileLimits.max_lines
          MaxLine      \* ReadFileLimits.max_line_chars

ASSUME OutputAssumption ==
    /\ {Marker, Heading} \subseteq Nat \ {0}
    /\ {MaxOutput, MaxLines, MaxLine} \subseteq Nat \ {0}

\* limit_content: a text too long keeps a prefix and the marker, or a prefix of the
\* marker where even that does not fit.
LimitContent(length, limit) ==
    IF length <= limit THEN [length |-> length, truncated |-> FALSE]
    ELSE IF limit <= Marker THEN [length |-> limit, truncated |-> TRUE]
    ELSE [length |-> (limit - Marker) + Marker, truncated |-> TRUE]

\* read_bounded, for characters of `width` bytes: four bytes are kept for every
\* character allowed, the rest is read and dropped.
ReadBounded(bytes, width, limit) ==
    LET kept == Min({bytes, 4 * limit})
        characters == kept \div width
    IN  [length |-> Min({characters, limit}),
         truncated |-> bytes > 4 * limit \/ characters > limit]

\* combine_output: the error stream follows the output under a heading.
CombineOutput(out, err) ==
    IF err = 0 THEN out
    ELSE IF out = 0 THEN Heading + err
    ELSE out + 1 + Heading + err

\* mutant: what the pipes were cut to counts as all there was
ShownUnmarked(c) ==
    LimitContent(CombineOutput(ReadBounded(c.out, c.width, c.limit).length,
                               ReadBounded(c.err, c.width, c.limit).length), c.limit)

\* The content of a terminal result: both pipes bounded, then the whole of it.
\* Without any output the result of a failure carries a message, left out here.
Shown(c) ==
    LET out == ReadBounded(c.out, c.width, c.limit)
        err == ReadBounded(c.err, c.width, c.limit)
        whole == LimitContent(CombineOutput(out.length, err.length), c.limit)
    IN  [whole EXCEPT !.truncated = @ \/ out.truncated \/ err.truncated]

\* ReadFileRequest::normalized
Normalized(request) ==
    [offset |-> Max({request.offset, 1}), limit |-> Min({Max({request.limit, 1}), MaxLines})]

\* The lines of a page, from its offset on.
Asked(lines, request) ==
    LET from == request.offset - 1
        count == Max({0, Min({request.limit, Len(lines) - from})})
    IN  [i \in 1 .. count |-> lines[from + i]]

\* Every line stands behind its number and a bar.
Numbered(lines) == [i \in DOMAIN lines |-> 2 + lines[i]]

\* format_page: what is asked for, each line cut to its limit, which leaves no mark.
FormatPage(lines, request) ==
    LET asked == Asked(lines, request)
    IN  Numbered([i \in DOMAIN asked |-> Min({asked[i], MaxLine})])

\* The length of the first k lines, joined.
Joined(page, k) ==
    LET length[i \in 0 .. Len(page)] ==
          IF i = 0 THEN 0 ELSE length[i - 1] + page[i] + (IF i = 1 THEN 0 ELSE 1)
    IN  length[k]

\* truncate_at_line_boundary: whole lines as long as they fit with the marker, or a
\* piece of the first.
TruncateAtLine(page) ==
    LET all == Joined(page, Len(page))
        budget == MaxOutput - Marker
        fits == {k \in 0 .. Len(page) : Joined(page, k) <= budget}
        kept == CHOOSE k \in fits : \A j \in fits : j <= k
    IN  IF all <= MaxOutput
        THEN [lines |-> Len(page), length |-> all, truncated |-> FALSE]
        ELSE IF MaxOutput <= Marker
        THEN [lines |-> 0, length |-> MaxOutput, truncated |-> TRUE]
        ELSE [lines |-> kept,
              length |-> Marker + (IF kept = 0 THEN Min({all, budget})
                                   ELSE Joined(page, kept)),
              truncated |-> TRUE]

\* What ReadFileService::read returns for a text of these lines.
ReadPage(lines, request) == TruncateAtLine(FormatPage(lines, Normalized(request)))

-----------------------------------------------------------------------------
(* The registry *)

\* builtin_registry: what each tool may do.
Permission ==
    [read_file |-> "read_only", session_search |-> "read_only",
     terminal |-> "approval_required", write_file |-> "approval_required"]

=============================================================================
