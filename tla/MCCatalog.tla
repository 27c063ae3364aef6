----------------------------- MODULE MCCatalog -----------------------------
(* Catalog on a small instance. *)
EXTENDS Catalog, TLC

MCPlans == {"a", "b"}
MCVersions == {"1", "1.0.0", "1.5.0", "2.0.0", "v2.0.0"}
MCRank == "1" :> 1 @@ "1.0.0" :> 1 @@ "1.5.0" :> 2 @@ "2.0.0" :> 3

\* The default template names plan and version, others only the plan, or what
\* the query tool is called, or nothing.
MCQueryName == <<"query">>
MCNames == (MCPlans \X MCVersions) \cup {MCQueryName, <<"run">>}
MCTemplates ==
    {[k \in MCPlans \X MCVersions |-> k],
     [k \in MCPlans \X MCVersions |-> IF k[1] = "a" THEN MCQueryName ELSE k],
     [k \in MCPlans \X MCVersions |-> IF k[2] = "1" THEN NoName ELSE <<"run">>]}

\* Later versions add and drop workflows.
MCWorkflows == {"place", "confirm"}
WorkflowsOf(version) ==
    CASE version = "1.5.0" -> MCWorkflows
      [] version = "2.0.0" -> {"confirm"}
      [] OTHER             -> {"place"}

Document(plan, version, fault) ==
    [plan |-> plan, version |-> version, workflows |-> WorkflowsOf(version), fault |-> fault]

\* Good documents, and each way in which one can be skipped or refused.
MCDocuments ==
    {Document(p, v, "none") : p \in MCPlans, v \in MCVersions}
    \cup {Document(NoPlan, "1", "none"), Document("a", NoVersion, "none"),
          Document(NoPlan, "1", "parse")}
    \cup {Document("b", "1", f) : f \in {"validate", "collision", "schema"}}
=============================================================================
