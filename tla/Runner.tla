------------------------------- MODULE Runner -------------------------------
(***************************************************************************)
(* One plan's workflow behind Runner.Run and Runner.Query                  *)
(* (internal/plans/runner.go), called from REST (internal/api/v1/plans.go) *)
(* and from MCP tools (internal/plans/mcp.go).                             *)
(*                                                                         *)
(* Calls run while the shared and the plan policy are being replaced.  The *)
(* policy cache is used by its contract, which PolicyCache establishes: it *)
(* fails, or returns revisions that were current at some time.  Inputs are *)
(* functions from keys to where the value came from, outputs from fields   *)
(* to what became of the value.                                            *)
(***************************************************************************)
EXTENDS Integers, Sequences

CONSTANTS
    Calls,
    BodyKeys,        \* declared workflow inputs without an x-source
    LiftedKeys,      \* declared inputs with a REST/HTTP x-source
    RequiredKeys,    \* the lifted inputs in the schema's "required"
    UnknownKeys,     \* keys the workflow does not declare
    Scopes,
    NoToken,         \* a request without a client token
    Tokens,          \* scopes of the client tokens that requests carry
    Bodies,          \* sets of keys in the JSON objects that calls are made with
    Requirements,    \* x-security: alternatives, each a set of scopes
    HasPreprocessor, HasSecrets, HasPolicy, HasExecutor,
    SharedPolicies,  \* the shared policy's revisions, in order
    PlanPolicies,    \* the plan policy's revisions, in order
    Fields,          \* workflow outputs
    HeaderFields,    \* outputs with a REST/HTTP header x-source
    RequiredHeaders, \* those whose x-source is required
    Redacted         \* outputs named by the plan policy's redact pointers

Reserved == {"policyHints", "secrets"}
Keys     == BodyKeys \cup LiftedKeys \cup UnknownKeys \cup Reserved

ASSUME RunnerConstantsOK ==
    /\ BodyKeys \cap (LiftedKeys \cup Reserved) = {}
    /\ LiftedKeys \cap Reserved = {}
    /\ UnknownKeys \cap (BodyKeys \cup LiftedKeys \cup Reserved) = {}
    /\ RequiredKeys \subseteq LiftedKeys
    /\ Requirements \subseteq SUBSET Scopes
    /\ Tokens \subseteq SUBSET Scopes
    /\ Bodies \subseteq SUBSET Keys
    /\ RequiredHeaders \subseteq HeaderFields
    /\ HeaderFields \cup Redacted \subseteq Fields
    /\ SharedPolicies \in Seq([in  : {"none", "allow", "deny", "error"},
                               out : {"none", "allow", "deny", "error"}])
    /\ PlanPolicies \in Seq([in  : {"none", "allow", "hints", "badhints", "deny", "error"},
                             out : {"none", "allow", "replace", "redact", "mask",
                                    "malformed", "deny", "error"}])
    /\ Len(SharedPolicies) > 0 /\ Len(PlanPolicies) > 0
    /\ {HasPreprocessor, HasSecrets, HasPolicy, HasExecutor} \subseteq BOOLEAN

VARIABLES
    revs,  \* current revisions of the two policies
    pc,    \* where each call is
    call   \* its request, its locals and its reply

runnerVars == <<revs, pc, call>>

-----------------------------------------------------------------------------
Origins == {"absent", "caller", "http", "policy", "backend"}
Values  == {"absent", "clear", "blank", "null", "masked", "replaced"}

Errors == {"ErrNoExecutor", "ErrNotFound", "ErrUnauthorized", "ErrInsufficientScope",
           "ErrPolicyDenied", "ErrEmptyQuery", "ErrUnexpectedInputs", "ErrMissingInput",
           "ErrPolicyLoad", "ErrInternal", "other"}

Requests ==
    [via : {"rest", "mcp"}, query : BOOLEAN, workflow : BOOLEAN,
     token : {NoToken} \cup Tokens, body : Bodies, http : SUBSET LiftedKeys]

NoInputs  == [k \in Keys |-> "absent"]
NoOutputs == [f \in Fields |-> "absent"]
NoReply   == [err |-> "none", body |-> NoOutputs, headers |-> NoOutputs]

FromCaller(keys) == [k \in Keys |-> IF k \in keys THEN "caller" ELSE "absent"]
Present(m) == {k \in DOMAIN m : m[k] # "absent"}

\* asked: the secrets backend was called; ran: the workflow was started.
NoCall == [req |-> [via |-> "rest", query |-> FALSE, workflow |-> FALSE,
                    token |-> NoToken, body |-> {}, http |-> {}],
           inputs |-> NoInputs, outputs |-> NoOutputs, sh |-> 0, plan |-> 0,
           asked |-> FALSE, ran |-> FALSE, reply |-> NoReply]

Init ==
    /\ revs = [sh |-> 1, plan |-> 1]
    /\ pc = [c \in Calls |-> "idle"]
    /\ call = [c \in Calls |-> NoCall]

\* Go on with a record of locals, or reply with an error.
Goto(c, at, locals) ==
    /\ pc' = [pc EXCEPT ![c] = at]
    /\ call' = [call EXCEPT ![c] = locals]

Fail(c, err) ==
    /\ err \in Errors
    /\ Goto(c, "replied", [call[c] EXCEPT !.reply = [NoReply EXCEPT !.err = err]])

-----------------------------------------------------------------------------
(* execute / postQuery / the MCP tool handlers: decode, EnrichContext. *)
Arrive(c, req) ==
    /\ pc[c] = "idle"
    /\ Goto(c, "enrich", [NoCall EXCEPT !.req = req, !.inputs = FromCaller(req.body)])
    /\ UNCHANGED revs

Enrich(c) ==
    /\ pc[c] = "enrich"
    /\ \/ Goto(c, IF call[c].req.query THEN "match" ELSE "admit", call[c])
       \/ HasPreprocessor /\ Fail(c, "ErrUnauthorized")
    /\ UNCHANGED revs

\* Runner.Query: the embedder's matcher names a plan, a version, a workflow
\* and perhaps inputs of its own; data is used when it leaves them nil.
MatchPlan(c) ==
    /\ pc[c] = "match"
    /\ \/ Goto(c, "admit", call[c])
       \/ \E keys \in Bodies :
            Goto(c, "admit", [call[c] EXCEPT !.inputs = FromCaller(keys)])
       \/ \E err \in {"ErrEmptyQuery", "ErrNotFound", "other"} : Fail(c, err)
    /\ UNCHANGED revs

-----------------------------------------------------------------------------
(* The checks of Run that read only the request and the immutable catalog. *)

\* Mutant of ScopesSatisfied: one scope of an alternative is enough.
AnyScope(token) == \E req \in Requirements : req = {} \/ req \cap token # {}

ScopesSatisfied(token) == \E req \in Requirements : req \subseteq token

ScopesError(token) ==
    CASE Requirements = {}                             -> {}
      [] Requirements # {} /\ token = NoToken          -> {"ErrUnauthorized"}
      [] OTHER -> IF ScopesSatisfied(token) THEN {} ELSE {"ErrInsufficientScope"}

\* Mutant of ConsumerKeys: the schema is not stripped of the engine's inputs.
ConsumerKeysUnstripped == BodyKeys \cup LiftedKeys \cup Reserved

\* The keys of the stripped schema (stripReservedInputSchema).
ConsumerKeys == BodyKeys \cup LiftedKeys

\* Mutant of BindErrors: a lifted key in the body is overwritten.
BindErrorsMissing(inputs, http) ==
    {err \in {"ErrMissingInput"} : ~(RequiredKeys \subseteq http)}

\* mergeRESTInputs stops at the first lifted key, in schema order, that is in
\* the body, or that is required and not in the HTTP request.
BindErrors(inputs, http) ==
    {err \in {"ErrUnexpectedInputs", "ErrMissingInput"} :
       \/ /\ err = "ErrUnexpectedInputs"
          /\ LiftedKeys \cap Present(inputs) # {}
       \/ /\ err = "ErrMissingInput"
          /\ ~(RequiredKeys \subseteq http \cup Present(inputs))}

Bind(inputs, http) == [k \in Keys |-> IF k \in http THEN "http" ELSE inputs[k]]

Admit(c) ==
    LET req     == call[c].req
        given   == call[c].inputs
        lifts   == req.via = "rest"
        inputs  == IF lifts THEN Bind(given, req.http) ELSE given
        refused == CASE ~req.workflow -> {"ErrNotFound"}
                     [] req.workflow /\ ScopesError(req.token) # {} ->
                          ScopesError(req.token)
                     [] OTHER -> IF lifts THEN BindErrors(given, req.http) ELSE {}
    IN
    /\ pc[c] = "admit"
    /\ \/ \E err \in refused : Fail(c, err)
       \/ /\ refused = {}
          /\ Present(inputs) \subseteq ConsumerKeys
          /\ Goto(c, "secrets", [call[c] EXCEPT !.inputs = inputs])
       \/ /\ refused = {}
          /\ ~(Present(inputs) \subseteq ConsumerKeys)
          /\ Fail(c, "ErrUnexpectedInputs")
    /\ UNCHANGED revs

\* Run strips engine inputs that came from outside before it adds its own.
Stripped(inputs) == [k \in Keys |-> IF k \in Reserved THEN "absent" ELSE inputs[k]]

Secrets(c) ==
    /\ pc[c] = "secrets"
    /\ LET stripped == [call[c] EXCEPT !.inputs = Stripped(@), !.asked = HasSecrets] IN
         \/ ~HasSecrets /\ Goto(c, "policy", stripped)
         \/ HasSecrets /\ Goto(c, "policy", [stripped EXCEPT !.inputs["secrets"] = "backend"])
         \/ HasSecrets /\ Goto(c, "replied",
                            [stripped EXCEPT !.reply = [NoReply EXCEPT !.err = "ErrInternal"]])
    /\ UNCHANGED revs

-----------------------------------------------------------------------------
(* Policies.  Revision 0 stands for a runner without a policy cache. *)
SharedAt(rev) ==
    IF rev = 0 THEN [in |-> "none", out |-> "none"] ELSE SharedPolicies[rev]
PlanAt(rev) ==
    IF rev = 0 THEN [in |-> "none", out |-> "none"] ELSE PlanPolicies[rev]

ReplaceShared ==
    /\ revs.sh < Len(SharedPolicies)
    /\ revs' = [revs EXCEPT !.sh = @ + 1]
    /\ UNCHANGED <<pc, call>>

ReplacePlan ==
    /\ revs.plan < Len(PlanPolicies)
    /\ revs' = [revs EXCEPT !.plan = @ + 1]
    /\ UNCHANGED <<pc, call>>

GetPolicy(c) ==
    /\ pc[c] = "policy"
    /\ \/ ~HasPolicy /\ Goto(c, "inbound", call[c])
       \/ HasPolicy /\ Fail(c, "ErrPolicyLoad")
       \/ /\ HasPolicy
          /\ \E sh \in 1 .. revs.sh, plan \in 1 .. revs.plan :
               Goto(c, "inbound", [call[c] EXCEPT !.sh = sh, !.plan = plan])
    /\ UNCHANGED revs

\* What evalAllowOnly, applyInbound and applyOutbound make of a decision.
DecisionError(decision) ==
    CASE decision \in {"deny", "badhints", "malformed"} -> {"ErrPolicyDenied"}
      [] decision = "error"                             -> {"ErrPolicyLoad"}
      [] OTHER                                          -> {}

\* Mutant of DecisionError: a decision that cannot be evaluated is ignored.
DecisionErrorOpen(decision) ==
    IF decision \in {"deny", "badhints", "malformed"} THEN {"ErrPolicyDenied"} ELSE {}

\* Shared first; the plan's decision is asked only if the shared one allows.
Refused(shared, plan) ==
    IF DecisionError(shared) # {} THEN DecisionError(shared) ELSE DecisionError(plan)

\* Mutant of Refused: the plan's decision overrides the shared one.
RefusedByPlan(shared, plan) ==
    IF plan # "none" THEN DecisionError(plan) ELSE DecisionError(shared)

Hinted(inputs, decision) ==
    CASE decision = "none"  -> inputs
      [] decision = "hints" -> [inputs EXCEPT !["policyHints"] = "policy"]
      [] OTHER              -> [inputs EXCEPT !["policyHints"] = "absent"]

Inbound(c) ==
    LET shared == SharedAt(call[c].sh).in
        plan   == PlanAt(call[c].plan).in
    IN
    /\ pc[c] = "inbound"
    /\ \/ \E err \in Refused(shared, plan) : Fail(c, err)
       \/ /\ Refused(shared, plan) = {}
          /\ HasExecutor
          /\ Goto(c, "run", [call[c] EXCEPT !.inputs = Hinted(@, plan)])
       \/ /\ Refused(shared, plan) = {}
          /\ ~HasExecutor
          /\ Fail(c, "ErrNoExecutor")
    /\ UNCHANGED revs

\* libopenapi's engine and the embedder's executor: from here on, domain
\* services may have been called.
RunWorkflow(c) ==
    /\ pc[c] = "run"
    /\ \/ \E outputs \in [Fields -> {"absent", "clear", "blank"}] :
            Goto(c, "outbound", [call[c] EXCEPT !.ran = TRUE, !.outputs = outputs])
       \/ Goto(c, "replied",
               [call[c] EXCEPT !.ran = TRUE, !.reply = [NoReply EXCEPT !.err = "other"]])
    /\ UNCHANGED revs

\* Mutant of Redact: only the first pointer is applied.
RedactOne(outputs, mask) ==
    LET r == CHOOSE f \in Redacted : TRUE IN
    [outputs EXCEPT ![r] = IF @ = "absent" THEN @ ELSE mask]

Redact(outputs, mask) ==
    [f \in Fields |-> IF f \in Redacted /\ outputs[f] # "absent" THEN mask ELSE outputs[f]]

Vetted(outputs, decision) ==
    CASE decision = "redact"  -> {Redact(outputs, "null")}
      [] decision = "mask"    -> {Redact(outputs, "masked")}
      [] decision = "replace" ->
           {[f \in Fields |-> IF f \in fields THEN "replaced" ELSE "absent"] :
              fields \in SUBSET Fields}
      [] OTHER                -> {outputs}

\* Mutant of Outbound: the policy in force when the workflow ends decides.
OutboundReread(c) ==
    LET shared == SharedAt(IF HasPolicy THEN revs.sh ELSE 0).out
        plan   == PlanAt(IF HasPolicy THEN revs.plan ELSE 0).out
    IN
    /\ pc[c] = "outbound"
    /\ \/ \E err \in Refused(shared, plan) : Fail(c, err)
       \/ /\ Refused(shared, plan) = {}
          /\ \E outputs \in Vetted(call[c].outputs, plan) :
               Goto(c, "respond", [call[c] EXCEPT !.outputs = outputs])
    /\ UNCHANGED revs

Outbound(c) ==
    LET shared == SharedAt(call[c].sh).out
        plan   == PlanAt(call[c].plan).out
    IN
    /\ pc[c] = "outbound"
    /\ \/ \E err \in Refused(shared, plan) : Fail(c, err)
       \/ /\ Refused(shared, plan) = {}
          /\ \E outputs \in Vetted(call[c].outputs, plan) :
               Goto(c, "respond", [call[c] EXCEPT !.outputs = outputs])
    /\ UNCHANGED revs

-----------------------------------------------------------------------------
(* The transports.  REST moves header fields out of the body                *)
(* (SplitRESTOutputs); a field that is absent or null stays where it is, an *)
(* empty one is dropped.                                                    *)
HasValue(v) == v \notin {"absent", "null", "blank"}

\* Mutants of SplitError: a missing header is left out; it is the client's
\* fault.
SplitErrorNever(outputs) == {}
SplitErrorMissing(outputs) ==
    IF \E f \in RequiredHeaders : ~HasValue(outputs[f]) THEN {"ErrMissingInput"} ELSE {}

SplitError(outputs) ==
    IF \E f \in RequiredHeaders : ~HasValue(outputs[f]) THEN {"ErrInternal"} ELSE {}

Lifted(outputs) == {f \in HeaderFields : outputs[f] \notin {"absent", "null"}}

Respond(c) ==
    LET outputs == call[c].outputs
        rest    == call[c].req.via = "rest"
        lifted  == IF rest THEN Lifted(outputs) ELSE {}
        errs    == IF rest THEN SplitError(outputs) ELSE {}
    IN
    /\ pc[c] = "respond"
    /\ \/ \E err \in errs : Fail(c, err)
       \/ /\ errs = {}
          /\ Goto(c, "replied",
               [call[c] EXCEPT !.reply =
                 [err     |-> "none",
                  body    |-> [f \in Fields |-> IF f \in lifted THEN "absent"
                                                                ELSE outputs[f]],
                  headers |-> [f \in Fields |-> IF f \in lifted /\ HasValue(outputs[f])
                                                THEN outputs[f] ELSE "absent"]]])
    /\ UNCHANGED revs

Forget(c) ==
    /\ pc[c] = "replied"
    /\ Goto(c, "idle", NoCall)
    /\ UNCHANGED revs

\* ClassifyError: what the client is told.
Status(err) ==
    CASE err = "none"                                     -> 200
      [] err = "ErrNoExecutor"                            -> 501
      [] err = "ErrNotFound"                              -> 404
      [] err = "ErrUnauthorized"                          -> 401
      [] err \in {"ErrInsufficientScope", "ErrPolicyDenied"} -> 403
      [] err \in {"ErrPolicyLoad", "ErrInternal"}         -> 500
      [] OTHER                                            -> 400

-----------------------------------------------------------------------------
Step(c) ==
    \/ \E req \in Requests : Arrive(c, req)
    \/ Enrich(c) \/ MatchPlan(c) \/ Admit(c) \/ Secrets(c) \/ GetPolicy(c)
    \/ Inbound(c) \/ RunWorkflow(c) \/ Outbound(c) \/ Respond(c) \/ Forget(c)

Next == ReplaceShared \/ ReplacePlan \/ \E c \in Calls : Step(c)

Spec == Init /\ [][Next]_runnerVars

-----------------------------------------------------------------------------
RunnerTypeOK ==
    /\ revs.sh \in 1 .. Len(SharedPolicies) /\ revs.plan \in 1 .. Len(PlanPolicies)
    /\ \A c \in Calls :
         /\ call[c].inputs \in [Keys -> Origins]
         /\ call[c].outputs \in [Fields -> Values]
         /\ call[c].sh \in 0 .. revs.sh /\ call[c].plan \in 0 .. revs.plan
         /\ call[c].reply.err \in Errors \cup {"none"}
         /\ call[c].reply.body \in [Fields -> Values]
         /\ call[c].reply.headers \in [Fields -> Values]

\* A workflow runs only for a token that covers one x-security alternative, and
\* only if every inbound module of the revisions this call was given allowed it
\* (runner.go:121-163): the plan's decision cannot override the shared one, and
\* replacing a policy meanwhile changes nothing for the call.
Gated ==
    \A c \in Calls :
        call[c].ran =>
            /\ Requirements # {} =>
                 /\ call[c].req.token # NoToken
                 /\ \E req \in Requirements : req \subseteq call[c].req.token
            /\ HasPolicy => call[c].sh # 0 /\ call[c].plan # 0
            /\ SharedAt(call[c].sh).in \in {"none", "allow"}
            /\ PlanAt(call[c].plan).in \in {"none", "allow", "hints"}

\* What a workflow runs on: an input the caller chose is declared and, on REST,
\* not one that is bound to the HTTP request; hints come from the plan's
\* inbound policy and secrets from the backend (runner.go:125-163).
InputOrigins ==
    \A c \in Calls :
        call[c].ran =>
            /\ call[c].inputs["policyHints"] \in {"absent", "policy"}
            /\ call[c].inputs["secrets"] \in {"absent", "backend"}
            /\ \A k \in UnknownKeys : call[c].inputs[k] = "absent"
            /\ call[c].req.via = "rest" =>
                 \A k \in LiftedKeys : call[c].inputs[k] \in {"absent", "http"}

\* A workflow never runs on part of what the caller sent: a key is used or the
\* call is refused ("400 unexpected fields in inputs ... including policyHints
\* / secrets", docs/users/arazzo.md:153).
NothingDropped ==
    \A c \in Calls :
        call[c].ran /\ ~call[c].req.query =>
            \A k \in call[c].req.body : call[c].inputs[k] = "caller"

\* A call that is told it was wrong (400 with a message about its inputs, 401,
\* 404, 501, 403 for scopes) has not touched a domain service and may be sent
\* again; nor was the secrets backend asked on its behalf, except that a missing
\* executor is noticed late (public.go:29-58, runner.go:105-146).
RefusedWithoutEffect ==
    \A c \in Calls :
        call[c].reply.err \in {"ErrNoExecutor", "ErrNotFound", "ErrUnauthorized",
                               "ErrInsufficientScope", "ErrEmptyQuery",
                               "ErrUnexpectedInputs", "ErrMissingInput"}
            => /\ ~call[c].ran
               /\ call[c].reply.err # "ErrNoExecutor" => ~call[c].asked

\* Outputs that reach the client passed every outbound module of the very
\* revisions whose inbound modules admitted the call, and what the plan's
\* decision redacts is nowhere in the reply, neither in the body nor in a
\* header (runner.go:179-191, plans.go:125-143).
OutputsVetted ==
    \A c \in Calls :
        pc[c] = "replied" /\ call[c].reply.err = "none" =>
            /\ SharedAt(call[c].sh).out \in {"none", "allow"}
            /\ PlanAt(call[c].plan).out \notin {"deny", "malformed", "error"}
            /\ PlanAt(call[c].plan).out \in {"redact", "mask"} =>
                 \A f \in Redacted : /\ call[c].reply.body[f] \notin {"clear", "blank"}
                                     /\ call[c].reply.headers[f] \notin {"clear", "blank"}

\* A successful REST reply has a value in every required header, even if the
\* outbound policy replaced or masked outputs, and nothing is sent twice
\* (bind.go:84-120).
HeadersComplete ==
    \A c \in Calls :
        /\ pc[c] = "replied" /\ call[c].reply.err = "none" /\ call[c].req.via = "rest"
        => /\ \A f \in RequiredHeaders : HasValue(call[c].reply.headers[f])
           /\ \A f \in Fields : \/ call[c].reply.headers[f] = "absent"
                                \/ call[c].reply.body[f] = "absent"

=============================================================================
