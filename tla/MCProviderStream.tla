--------------------------- MODULE MCProviderStream ---------------------------
(***************************************************************************)
(* The bodies ProviderStream is checked on: whole answers and tool calls,  *)
(* the frames servers are known to get wrong, and frames that are too big. *)
(***************************************************************************)
EXTENDS ProviderStream

Say(says) == <<Data(says), Blank>>
End(stop) == Say(<<Finish(stop)>>) \o <<Done, Blank>>
Call(index, id, name, args) == Fragment(index, id, name, args)

Answer ==
    <<Comment, Data(<<Text("x")>>), Blank, Blank>>
      \o Say(<<Text("y"), Finish("stop")>>) \o Say(<<Usage>>) \o <<Done>>

TwoCalls ==
    Say(<<Text("x"), Call(0, "a", "read", <<"open">>)>>)
      \o Say(<<Call(1, "b", "write", <<"whole">>), Call(0, None, None, <<"close">>)>>)
      \o End("tool_calls")

\* A server that numbers every call 0 but names it, and one that never gives an id.
SameIndex ==
    Say(<<Call(0, "a", "read", <<>>)>>) \o Say(<<Call(0, "b", "read", <<"open">>)>>)
      \o Say(<<Call(0, None, None, <<"close">>)>>) \o End("tool_calls")
NoIds ==
    Say(<<Call(0, None, "read", <<"open">>), Call(1, None, "write", <<"open">>)>>)
      \o Say(<<Call(1, None, None, <<"close">>), Call(0, None, None, <<"close">>)>>)
      \o End("stop")

ToolCalls(fragments) == Say(fragments) \o End("tool_calls")

MCBodies ==
    {Answer, TwoCalls, SameIndex, NoIds,
     ToolCalls(<<>>),
     ToolCalls(<<Call(0, "a", "read", <<"open">>)>>),
     ToolCalls(<<Call(0, "a", None, <<"whole">>)>>),
     ToolCalls(<<Call(0, "a", "read", <<>>), Call(0, None, "write", <<>>)>>),
     ToolCalls(<<Call(0, "a", "read", <<>>), Call(0, None, "", <<>>)>>),
     ToolCalls(<<Call(0, "a", "read", <<"open", "close">>), Call(0, "a", None, <<"whole">>)>>),
     Say(<<Text("x")>>) \o <<Done, Blank>>,
     Say(<<Text("x"), Finish("stop")>>),
     <<Data(<<Text("x")>>)>> \o End("stop"),
     <<Comment, Comment, Data(<<Text("x")>>), Blank>> \o End("length"),
     <<Comment, Comment, Comment, Data(<<Text("x")>>), Blank>> \o End("stop"),
     Say(<<Text("x")>>) \o <<Junk, Blank>> \o End("stop"),
     Say(<<Text("x"), Finish("stop")>>) \o <<Done, Comment, Comment, Comment>>}

=============================================================================
