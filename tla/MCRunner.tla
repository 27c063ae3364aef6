------------------------------ MODULE MCRunner ------------------------------
(* Runner on a small instance. *)
EXTENDS Runner

Ruled(in, out) == [in |-> in, out |-> out]

\* Decisions that let a call go on, change it or refuse it.  What refuses the
\* call inbound has an outbound module that is never reached; to deny and to fail
\* to decide are told apart by the reply only, so that not every pair occurs.
MCShared == <<Ruled("none", "none"), Ruled("allow", "deny"), Ruled("error", "allow")>>
MCPlan == <<Ruled("hints", "redact"), Ruled("allow", "mask"), Ruled("none", "replace"),
            Ruled("deny", "none"), Ruled("allow", "malformed"), Ruled("badhints", "deny")>>

\* x-security: (s1 and s2) or s3.
MCRequirements == {{"s1", "s2"}, {"s3"}}
MCTokens == {{}, {"s1"}, {"s1", "s2"}, {"s3"}}

\* Legal bodies, and each way a body can be refused.
MCBodies == {{}, {"status"}, {"status", "tenant"}, {"status", "trace"},
             {"status", "policyHints"}, {"status", "secrets"}, {"status", "extra"}}
=============================================================================
