----------------------------- MODULE MCToolLists -----------------------------
(* A plan tool whose help is broken for a while, the query tool with a      *)
(* description for both surfaces, and a tool of the embedder's.             *)
EXTENDS ToolLists

CONSTANTS plan, query, other

ListedTargets == {plan, query}
OtherTools == {other}

HelpOf(title, description, rest) ==
    [title |-> title, description |-> description, restDescription |-> rest]

SomeHelp ==
    [t \in ListedTargets |->
       IF t = plan THEN <<HelpOf("text", "text", "text"), HelpOf("text", "text", "malformed")>>
       ELSE <<HelpOf("", "text", "")>>]
==============================================================================
