------------------------------ MODULE ToolLists ------------------------------
(***************************************************************************)
(* MCP tools/list and GET /tools over the shared MCP server: HelpCache     *)
(* rewrites titles and descriptions of plan and query tools from help      *)
(* templates that are looked up per list (internal/plans/help.go,          *)
(* arazzo/toolhelp.go, arazzo/tooldoc.go, internal/api/v1/tools.go).       *)
(*                                                                         *)
(* A list holds pointers to the server's tools until a tool is cloned; GET *)
(* /tools is an MCP list that is sent over an in-memory session and then   *)
(* rewritten again for REST.  The TTL cache under the lookups is used by   *)
(* its contract (CachePromise): an answer no older than any before it.     *)
(* A text is the template it was rendered from: a field and the revision   *)
(* of the help that supplied it, 0 for the ToolDoc or built-in template.   *)
(***************************************************************************)
EXTENDS Integers, Sequences, FiniteSets, SequencesExt

CONSTANTS
    Lists,     \* list requests
    Targets,   \* plan and query tools
    Foreign,   \* tools the embedder adds to the same server
    HelpRevs   \* per target, the help its registry publishes, in order

HelpField == {"", "text", "malformed"}   \* "": no template

ASSUME ToolListsConstantsOK ==
    /\ Targets \cap Foreign = {} /\ IsFiniteSet(Targets) /\ IsFiniteSet(Foreign)
    /\ HelpRevs \in [Targets -> Seq([title : HelpField, description : HelpField,
                                     restDescription : HelpField])]

VARIABLES
    server,  \* title and description of the tools registered on the server
    revs,    \* newest revision published per target
    newest,  \* newest revision the cache has answered per target
    list     \* each request: its surface, what is left to rewrite, its entries

listVars == <<server, revs, newest, list>>

Text(field, rev) == [field |-> field, rev |-> rev]

\* RegisterMCP renders the tools with the ToolDoc templates.
Registered == [title |-> Text("title", 0), description |-> Text("description", 0)]
Embedders  == [title |-> Text("foreign", 0), description |-> Text("foreign", 0)]

\* looked and last: the revisions the request was given per tool, and the
\* last of them.
NoList == [at |-> "idle", surface |-> "mcp", todo |-> <<>>, entries |-> <<>>,
           looked |-> <<>>, last |-> <<>>]

Init ==
    /\ server = [t \in Targets |-> Registered]
    /\ revs \in [Targets -> {0}]
    /\ newest = [t \in Targets |-> 0]
    /\ list = [l \in Lists |-> NoList]

-----------------------------------------------------------------------------
(* Templates.  Help 0 is the zero ToolHelp.                                *)

Help(t, rev) == IF rev = 0 THEN [title |-> "", description |-> "", restDescription |-> ""]
                ELSE HelpRevs[t][rev]

\* Mutant of RestTemplate: an empty RESTDescription is not filled in.
RestTemplateOwn(t, rev) == Text("restDescription", IF Help(t, rev).restDescription = "" THEN 0 ELSE rev)

\* OverlayToolHelp: an empty RESTDescription uses Description.
RestTemplate(t, rev) ==
    CASE Help(t, rev).restDescription # "" -> Text("restDescription", rev)
      [] Help(t, rev).restDescription = "" /\ Help(t, rev).description # "" -> Text("description", rev)
      [] OTHER -> Text("restDescription", 0)

Template(t, rev, field) == Text(field, IF Help(t, rev)[field] = "" THEN 0 ELSE rev)

\* Every template of a tool is executed, whichever surface is listed.
Renders(t, rev) == \A field \in DOMAIN Help(t, rev) : Help(t, rev)[field] # "malformed"

\* Mutant of Rendered: the surface is ignored.
RenderedForMCP(t, rev, surface) ==
    [title |-> Template(t, rev, "title"), description |-> Template(t, rev, "description")]

Rendered(t, rev, surface) ==
    [title       |-> Template(t, rev, "title"),
     description |-> IF surface = "rest" THEN RestTemplate(t, rev)
                     ELSE Template(t, rev, "description")]

-----------------------------------------------------------------------------
(* A list.  An entry is Shared while it is the server's own tool.          *)

Shared == Text("shared", 0)
Pointer == [title |-> Shared, description |-> Shared]

Tools(l) == DOMAIN list[l].entries

\* What the encoder reads through the pointers.
Resolved(l) == [t \in Tools(l) |-> IF list[l].entries[t] = Pointer THEN server[t]
                                  ELSE list[l].entries[t]]

\* The server lists its tools and the middleware starts on them; GET /tools
\* does so inside an in-memory session.
List(l, surface) ==
    /\ list[l].at = "idle"
    /\ list' = [list EXCEPT ![l] =
         [at |-> "mcp", surface |-> surface,
          todo    |-> SetToSeq(DOMAIN server),
          entries |-> [t \in DOMAIN server |-> Pointer],
          looked  |-> [t \in DOMAIN server |-> {}],
          last    |-> [t \in DOMAIN server |-> 0]]]
    /\ UNCHANGED <<server, revs, newest>>

Next1(l) == Head(list[l].todo)

\* Go on with the next tool, having looked revision rev up for this one.
Advance(l, entry, rev) ==
    LET x == list[l]
        t == Next1(l)
    IN  list' = [list EXCEPT ![l] = [x EXCEPT
          !.todo = Tail(x.todo), !.entries = [x.entries EXCEPT ![t] = entry],
          !.looked = [x.looked EXCEPT ![t] = @ \cup {rev}], !.last = [x.last EXCEPT ![t] = rev]]]

\* Mutant of Replace: the tool is rewritten where the list points.
ReplaceInPlace(l, text, rev) ==
    LET entry == list[l].entries[Next1(l)] IN
    IF entry = Pointer
    THEN server' = [server EXCEPT ![Next1(l)] = text] /\ Advance(l, Pointer, rev)
    ELSE Advance(l, text, rev) /\ UNCHANGED server

\* The tool is cloned before its title and description are set.
Replace(l, text, rev) == Advance(l, text, rev) /\ UNCHANGED server

\* Mutant of Keep: a failure ends the rewriting.
KeepAndStop(l, rev) ==
    /\ list' = [list EXCEPT ![l] = [@ EXCEPT !.todo = <<>>,
         !.last = [t \in Tools(l) |-> IF t \in ToSet(list[l].todo) \cap Targets THEN newest[t]
                                     ELSE list[l].last[t]]]]
    /\ UNCHANGED server

Keep(l, rev) == Advance(l, list[l].entries[Next1(l)], rev) /\ UNCHANGED server

Rewriting(l) == list[l].at \in {"mcp", "rest"} /\ list[l].todo # <<>>

\* apply: HelpCache.get is a hit, a lookup, or an error with the last help or
\* none; a tool whose templates fail stays as it was listed.  The cache promises
\* what is not older than any answer given before the lookup began; newest, which
\* counts answers until it ends, leaves out that two lookups end in another order.
Rewrite(l) ==
    /\ Rewriting(l) /\ Next1(l) \in Targets
    /\ LET t == Next1(l) IN
       \E rev \in newest[t] .. revs[t] :
         /\ newest' = [newest EXCEPT ![t] = rev]
         /\ IF Renders(t, rev) THEN Replace(l, Rendered(t, rev, list[l].at), rev)
                              ELSE Keep(l, rev)
    /\ UNCHANGED revs

Skip(l) ==
    /\ Rewriting(l) /\ Next1(l) \notin Targets
    /\ list' = [list EXCEPT ![l].todo = Tail(@)]
    /\ UNCHANGED <<server, revs, newest>>

\* The result is encoded.  GET /tools decodes it and applies the REST help to
\* copies of its own.
Encode(l) ==
    /\ list[l].at \in {"mcp", "rest"} /\ list[l].todo = <<>>
    /\ list' = [list EXCEPT ![l] =
         IF list[l].at = list[l].surface
         THEN [@ EXCEPT !.at = "listed", !.entries = Resolved(l)]
         ELSE [@ EXCEPT !.at = "rest", !.entries = Resolved(l), !.todo = SetToSeq(Tools(l))]]
    /\ UNCHANGED <<server, revs, newest>>

\* The session of GET /tools fails (500), or a client goes away.
Fail(l) ==
    /\ list[l].at = "mcp"
    /\ list' = [list EXCEPT ![l].at = "failed"]
    /\ UNCHANGED <<server, revs, newest>>

-----------------------------------------------------------------------------
\* The registry publishes help; the embedder adds a tool to the server.
Publish(t) ==
    /\ revs[t] < Len(HelpRevs[t])
    /\ revs' = [revs EXCEPT ![t] = @ + 1]
    /\ UNCHANGED <<server, newest, list>>

AddTool(t) ==
    /\ t \notin DOMAIN server
    /\ server' = [s \in DOMAIN server \cup {t} |-> IF s = t THEN Embedders ELSE server[s]]
    /\ UNCHANGED <<revs, newest, list>>

Done == (\A l \in Lists : list[l].at \in {"listed", "failed"}) /\ UNCHANGED listVars

Next ==
    \/ \E t \in Targets : Publish(t)
    \/ \E t \in Foreign : AddTool(t)
    \/ \E l \in Lists :
         \/ \E surface \in {"mcp", "rest"} : List(l, surface)
         \/ Rewrite(l) \/ Skip(l) \/ Encode(l) \/ Fail(l)
    \/ Done

Spec == Init /\ [][Next]_listVars

-----------------------------------------------------------------------------
Listed(l) == list[l].at = "listed"

\* What a client is shown for a tool was registered, or rendered for its own
\* request from one revision of the help: title and description never come
\* from two revisions or from what another session made of the shared tool,
\* and a tool of the embedder's is never touched (help.go:111-140).
EntriesAreOwn ==
    \A l \in Lists : Listed(l) => \A t \in Tools(l) :
        IF t \in Foreign THEN list[l].entries[t] = Embedders
        ELSE \/ list[l].entries[t] = Registered
             \/ \E rev \in list[l].looked[t], surface \in {"mcp", "rest"} :
                  /\ surface \in {"mcp", list[l].surface}
                  /\ Renders(t, rev)
                  /\ list[l].entries[t] = Rendered(t, rev, surface)

\* A tool whose help renders shows it, in the words of the surface that was
\* asked, whatever became of the other tools and of other sessions' lists:
\* the registry's description is on both surfaces, a REST description never
\* reaches MCP, and MCP's own words reach REST only by the registry's choice.
HelpReachesItsTool ==
    \A l \in Lists : Listed(l) => \A t \in Tools(l) \cap Targets :
        LET rev == list[l].last[t]
            help == Help(t, rev)
            shown == list[l].entries[t]
        IN  Renders(t, rev) =>
              /\ shown.title.rev = IF help.title = "" THEN 0 ELSE rev
              /\ list[l].surface = "mcp" => shown.description.field = "description"
              /\ list[l].surface = "rest" /\ shown.description.field = "description"
                    => help.restDescription = ""
              /\ help.description # "" => shown.description.rev = rev
=============================================================================
