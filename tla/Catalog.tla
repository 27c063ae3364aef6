------------------------------- MODULE Catalog -------------------------------
(***************************************************************************)
(* How engine.New turns Arazzo documents into a catalog and into MCP tools *)
(* (internal/plans/catalog.go, internal/plans/mcp.go): documents are added *)
(* one by one, in the loaders' order, the latest version of every plan is  *)
(* picked, the catalog is checked against the common parameters and the    *)
(* security schemes, and the tools are registered on the MCP server.  Any  *)
(* error aborts the construction; afterwards nothing changes, and the REST *)
(* routes and OpenAPI documents (internal/plans/openapi.go,                *)
(* internal/api/v1/plans.go) are functions of the catalog.                 *)
(*                                                                         *)
(* An entry of the catalog is the number of the document it was made from. *)
(***************************************************************************)
EXTENDS Integers, Sequences

CONSTANTS
    Plans, NoPlan,        \* x-planId, and a document without
    Versions, NoVersion,  \* info.version, and a document without
    Rank,                 \* semver precedence of the valid versions: build
                          \* metadata is ignored, and 1, 1.0, 1.0.0 are equal
    Names, NoName,        \* tool names after SanitizeToolName; "" is NoName
    QueryName,            \* the rendered name of the query tool
    NameTemplates,        \* the plan tools' name templates, as functions of
                          \* plan and version
    Workflows,
    Documents,            \* what the loaders may return
    MaxDocuments,         \* bound on how many they return
    HasMatcher

ASSUME CatalogConstantsOK ==
    /\ NoPlan \notin Plans /\ NoVersion \notin Versions
    /\ DOMAIN Rank \subseteq Versions
    /\ \A v \in DOMAIN Rank : Rank[v] \in Nat
    /\ QueryName \in Names /\ NoName \notin Names
    /\ NameTemplates \subseteq [Plans \X Versions -> Names \cup {NoName}]
    /\ Documents \subseteq
         [plan : Plans \cup {NoPlan}, version : Versions \cup {NoVersion},
          workflows : SUBSET Workflows,
          fault : {"none", "parse", "validate", "collision", "schema"}]
    /\ MaxDocuments \in Nat
    /\ HasMatcher \in BOOLEAN

VARIABLES
    docs,     \* the documents, in the order of the loaders
    name,     \* the name template
    phase,    \* what engine.New is doing, "serving", or "failed"
    next,     \* the document, or the entry, that is next
    entries,  \* c.entries
    byKey,    \* c.byKey: 0 where there is no entry
    latest,   \* c.latest
    tools,    \* the MCP server's tools: 0 is the query tool, -1 none
    targets   \* HelpCache.targets, likewise

catalogVars == <<docs, name, phase, next, entries, byKey, latest, tools, targets>>

Query == 0
NoTool == -1

Key(i) == <<docs[i].plan, docs[i].version>>

Init ==
    /\ docs \in UNION {[1 .. n -> Documents] : n \in 0 .. MaxDocuments}
    /\ name \in NameTemplates
    /\ phase = "load" /\ next = 1 /\ entries = <<>>
    /\ byKey = [k \in Plans \X Versions |-> 0]
    /\ latest = [p \in Plans |-> NoVersion]
    /\ tools = [n \in Names |-> NoTool]
    /\ targets = [n \in Names |-> NoTool]

Abort ==
    /\ phase' = "failed"
    /\ UNCHANGED <<docs, name, next, entries, byKey, latest, tools, targets>>

-----------------------------------------------------------------------------
(* Load. *)

\* A loader fails, or the context ends between two documents.
LoaderFails == phase = "load" /\ Abort

\* Mutant of Skipped: so is a document that does not validate.
SkippedInvalid(d) ==
    /\ d.fault # "parse"
    /\ d.plan = NoPlan \/ d.version = NoVersion \/ d.fault = "validate"

\* A document without x-planId or version is left out with a warning, but it
\* must be parsed first.
Skipped(d) ==
    /\ d.fault # "parse"
    /\ d.plan = NoPlan \/ d.version = NoVersion

Duplicate(i) == byKey[Key(i)] # 0

Rejected(i) ==
    \/ docs[i].fault = "parse"
    \/ /\ ~Skipped(docs[i])
       /\ \/ docs[i].version \notin DOMAIN Rank
          \/ docs[i].fault = "validate"
          \/ Duplicate(i)

AddSource ==
    /\ phase = "load"
    /\ next <= Len(docs)
    /\ IF Rejected(next)
       THEN Abort
       ELSE /\ next' = next + 1
            /\ IF Skipped(docs[next])
               THEN UNCHANGED <<entries, byKey>>
               ELSE /\ entries' = Append(entries, next)
                    /\ byKey' = [byKey EXCEPT ![Key(next)] = next]
            /\ UNCHANGED <<docs, name, phase, latest, tools, targets>>

\* The loaded versions of a plan, in the order they were loaded.
VersionsOf(plan) ==
    LET vers[n \in 0 .. Len(entries)] ==
          IF n = 0 THEN <<>>
          ELSE IF docs[entries[n]].plan = plan
               THEN Append(vers[n - 1], docs[entries[n]].version) ELSE vers[n - 1]
    IN  vers[Len(entries)]

\* Mutant of PickLatest: every version is compared with its predecessor.
PickLatestOfNeighbours(vers) ==
    LET best[n \in 1 .. Len(vers)] ==
          IF n = 1 THEN 1
          ELSE IF Rank[vers[n]] > Rank[vers[n - 1]] THEN n ELSE best[n - 1]
    IN  IF vers = <<>> THEN NoVersion ELSE vers[best[Len(vers)]]

\* Every version that was loaded is semver, so pickLatest never sorts strings.
PickLatest(vers) ==
    LET best[n \in 1 .. Len(vers)] ==
          IF n = 1 THEN 1
          ELSE IF Rank[vers[n]] > Rank[vers[best[n - 1]]] THEN n ELSE best[n - 1]
    IN  IF vers = <<>> THEN NoVersion ELSE vers[best[Len(vers)]]

ComputeLatest ==
    /\ phase = "load"
    /\ next > Len(docs)
    /\ latest' = [p \in Plans |-> PickLatest(VersionsOf(p))]
    /\ phase' = "check"
    /\ UNCHANGED <<docs, name, next, entries, byKey, tools, targets>>

-----------------------------------------------------------------------------
(* engine.New goes on: collisions with CommonRESTParams and with security   *)
(* schemes, and unknown schemes in x-security, are errors.                  *)
CheckCatalog ==
    /\ phase = "check"
    /\ IF \E n \in DOMAIN entries : docs[entries[n]].fault = "collision"
       THEN Abort
       ELSE /\ phase' = "query"
            /\ UNCHANGED <<docs, name, next, entries, byKey, latest, tools, targets>>

(* RegisterMCP.  AddTool replaces a tool of the same name. *)
RegisterQuery ==
    /\ phase = "query"
    /\ phase' = "tools"
    /\ next' = 1
    /\ IF HasMatcher
       THEN /\ tools' = [tools EXCEPT ![QueryName] = Query]
            /\ targets' = [targets EXCEPT ![QueryName] = Query]
       ELSE UNCHANGED <<tools, targets>>
    /\ UNCHANGED <<docs, name, entries, byKey, latest>>

\* Mutant of NameTaken: the names that were seen are not looked at.
NameTakenNever(n) == FALSE

\* seen[name]: the entries before this one have it.
NameTaken(n) == \E m \in 1 .. n - 1 : name[Key(entries[m])] = name[Key(entries[n])]

RegisterTool ==
    LET i == entries[next]
        n == name[Key(i)]
    IN
    /\ phase = "tools"
    /\ next <= Len(entries)
    /\ IF n = NoName \/ NameTaken(next) \/ docs[i].fault = "schema"
       THEN Abort
       ELSE /\ tools' = [tools EXCEPT ![n] = i]
            /\ targets' = [targets EXCEPT ![n] = i]
            /\ next' = next + 1
            /\ UNCHANGED <<docs, name, phase, entries, byKey, latest>>

Serve ==
    /\ phase = "tools"
    /\ next > Len(entries)
    /\ phase' = "serving"
    /\ UNCHANGED <<docs, name, next, entries, byKey, latest, tools, targets>>

Next == \/ LoaderFails \/ AddSource \/ ComputeLatest
        \/ CheckCatalog \/ RegisterQuery \/ RegisterTool \/ Serve

Spec == Init /\ [][Next]_catalogVars

-----------------------------------------------------------------------------
\* Lookups, by which every request finds its plan.
Get(plan, version) == byKey[<<plan, version>>]

Latest(plan) == IF latest[plan] = NoVersion THEN 0 ELSE Get(plan, latest[plan])

VersionSegment(i) == <<"v", docs[i].version>>

GetBySegment(plan, segment) == IF segment[1] = "v" THEN Get(plan, segment[2]) ELSE 0

-----------------------------------------------------------------------------
(* The REST surface.  A path is its variable segments: plan and workflow    *)
(* for the latest version, plan, version segment and workflow otherwise;    *)
(* the address of a child document is the path without the workflow.        *)
executePath(i, w, isLatest) ==
    IF isLatest THEN <<docs[i].plan, w>> ELSE <<docs[i].plan, VersionSegment(i), w>>

\* The entry that an address names, latest or versioned: 0 is 404.
EntryAt(address) ==
    IF Len(address) = 1 THEN Latest(address[1]) ELSE GetBySegment(address[1], address[2])

\* GET /openapi/...: the paths of the child document.
OpenAPIJSON(address) ==
    LET i == EntryAt(address) IN
    IF i = 0 THEN {} ELSE {executePath(i, w, Len(address) = 1) : w \in docs[i].workflows}

\* Mutant of CatalogOpenAPIJSON: the index goes through all entries.
IndexOfEveryVersion ==
    UNION {{[doc |-> <<docs[i].plan>>, path |-> executePath(i, w, TRUE)] :
              w \in docs[i].workflows} :
           i \in {entries[n] : n \in DOMAIN entries}}

\* GET /openapi: each latest path refers to a child document.
CatalogOpenAPIJSON ==
    UNION {{[doc |-> <<plan>>, path |-> executePath(Latest(plan), w, TRUE)] :
              w \in docs[Latest(plan)].workflows} :
           plan \in {p \in Plans : latest[p] # NoVersion}}

\* POST /tools/...: the entry whose workflow runs; 0 is 404.
Executes(path) ==
    LET w == path[Len(path)]
        i == EntryAt(SubSeq(path, 1, Len(path) - 1))
    IN  IF i # 0 /\ w \in docs[i].workflows THEN i ELSE 0

-----------------------------------------------------------------------------
\* An engine serves everything it was given or is not built at all: each
\* document that names a plan and a version is the one that is found under
\* them, and none of these had a fault (catalog.go:54-132, engine.go:335-377).
ServesWhatItLoaded ==
    phase = "serving" =>
        \A i \in DOMAIN docs :
            docs[i].plan # NoPlan /\ docs[i].version # NoVersion =>
                /\ Get(docs[i].plan, docs[i].version) = i
                /\ docs[i].version \in DOMAIN Rank
                /\ docs[i].fault = "none"

\* The latest version of a plan is one that is loaded, and no loaded version
\* outranks it, in whatever order the documents came (catalog.go:191-227).
LatestIsNewest ==
    phase = "serving" =>
        \A plan \in Plans :
            IF \E v \in DOMAIN Rank : Get(plan, v) # 0
            THEN /\ Latest(plan) # 0
                 /\ \A v \in DOMAIN Rank :
                      Get(plan, v) # 0 => Rank[v] <= Rank[latest[plan]]
            ELSE Latest(plan) = 0

\* Every plan version has a tool of its own, which runs it and is documented
\* as it, and there are no other plan tools (mcp.go:70-117, help.go:82-86).
ToolsReachEntries ==
    phase = "serving" =>
        /\ \A n \in DOMAIN entries : tools[name[Key(entries[n])]] = entries[n]
        /\ \A n \in Names : tools[n] > 0 => \E m \in DOMAIN entries : entries[m] = tools[n]
        /\ targets = tools

\* Every plan version has a child document, whose paths run all its workflows,
\* and what the index refers to is in the child document it names and runs,
\* on the latest version (openapi.go:106-286, plans.go:82-103).
DocumentsReachEntries ==
    phase = "serving" =>
        /\ \A n \in DOMAIN entries :
             LET i    == entries[n]
                 doc  == <<docs[i].plan, VersionSegment(i)>>
             IN  {<<path[3], Executes(path)>> : path \in OpenAPIJSON(doc)}
                   = docs[i].workflows \X {i}
        /\ \A ref \in CatalogOpenAPIJSON :
             /\ ref.path \in OpenAPIJSON(ref.doc)
             /\ Executes(ref.path) = Latest(ref.path[1])

\* The surfaces agree with the catalog and so with each other: MCP tools and
\* their help, REST paths, and the documents that describe them.
SurfacesReachEntries == ToolsReachEntries /\ DocumentsReachEntries
=============================================================================
