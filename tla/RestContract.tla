---------------------------- MODULE RestContract ----------------------------
(***************************************************************************)
(* What an engine publishes about a workflow, and what it then does with   *)
(* calls: engine.New normalises the options, loads the document and checks *)
(* the two against each other; the OpenAPI operation and the MCP input     *)
(* schema are generated from what passed; calls that follow them, and      *)
(* calls that do not, go through scopes, binding and the closed check; and *)
(* outputs come back through outbound redaction and header lifting.        *)
(***************************************************************************)
EXTENDS InputSchemas, Redaction

CONSTANTS
    Cases,     \* workflows, with the options of their engine, the names that
               \* callers try as inputs, and what comes back
    Tokens,    \* scopes of the client's tokens
    NoToken

VARIABLES
    host,   \* the case
    stage,   \* how far engine.New got
    call    \* a call, and what became of it

restVars == <<host, stage, call>>

\* What the code finds in a case: schemas and documents of some depth, names,
\* and a mask that is a string or null.
ASSUME CasesOK ==
    \A c \in Cases :
        /\ IsSchema(c.workflow.inputs)
        /\ \/ c.workflow.out.schema = <<>>
           \/ /\ c.workflow.out.schema = <<c.workflow.out.schema[1]>>
              /\ IsSchema(c.workflow.out.schema[1])
        /\ IsDocument(c.answer.outputs) /\ c.answer.mask.kind = "leaf"
        /\ c.answer.redact \in Seq(ToSet(c.answer.redact))
        /\ \A p \in ToSet(c.answer.redact) : IsPointer(p)

Distinct(s, KeyOf(_)) == \A i, j \in DOMAIN s : i # j => KeyOf(s[i]) # KeyOf(s[j])

-----------------------------------------------------------------------------
(* Security schemes and requirements.  A requirement is a function from    *)
(* scheme names to scopes, all of which must be met; a set of requirements *)
(* offers alternatives.                                                    *)

flowFault(f) ==
    \/ f.flow \in {"implicit", "authorizationCode"} /\ ~f.authorizationURL
    \/ f.flow # "implicit" /\ ~f.tokenURL

schemeFault(s) ==
    \/ s.name = ""
    \/ CASE s.type = "http"          -> s.scheme \notin {"bearer", "basic"}
         [] s.type = "apiKey"        -> s.in \notin {"header", "query", "cookie"} \/ s.param = ""
         [] s.type = "oauth2"        -> s.flows = {} \/ \E f \in s.flows : flowFault(f)
         [] s.type = "openIdConnect" -> ~s.url
         [] OTHER                    -> TRUE

\* An unknown scheme, or for oauth2 a scope that no flow declares.
requirementFault(r, schemes) ==
    \/ r = <<>>
    \/ \E name \in DOMAIN r : \A s \in Range(schemes) :
         \/ s.name # name
         \/ s.type = "oauth2" /\ ~ r[name] \subseteq UNION {f.scopes : f \in s.flows}

NormalizeSecuritySchemes(schemes) ==
    /\ \A s \in Range(schemes) : ~schemeFault(s)
    /\ Distinct(schemes, LAMBDA s : s.name)

NormalizeSecurity(reqs, schemes) == \A r \in reqs : ~requirementFault(r, schemes)

NormalizeRESTCommonParams(common) ==
    /\ \A p \in Range(common) : p.name # "" /\ p.in \in {"header", "cookie"}
    /\ Distinct(common, LAMBDA p : restCommonParamKey(p.in, p.name))

\* The shape of x-security: "absent", "malformed", or a "list".
securityShapeFault(xsec) ==
    \/ xsec.kind = "malformed"
    \/ xsec.kind = "list" /\ \E r \in xsec.reqs : r = <<>>

\* Where a scheme puts its credentials: bearer tokens and API keys only.
LocationsOf(s) ==
    CASE s.type = "http" /\ s.scheme = "bearer" -> {restCommonParamKey("header", "Authorization")}
      [] s.type = "apiKey"                      -> {restCommonParamKey(s.in, s.param)}
      [] OTHER                                  -> {}

keysOf(params) == {restCommonParamKey(p.in, p.name) : p \in params}

lifted == splitOpenAPIInputs(host.workflow.inputs).params

-----------------------------------------------------------------------------
(* What is published.                                                      *)

operationSecurity ==
    IF host.workflow.xsec.reqs = {} THEN host.options.security ELSE host.workflow.xsec.reqs

\* The operation of OpenAPIJSON; no body is published as <<>>.
operation ==
    LET split == splitOpenAPIInputs(host.workflow.inputs)
        out   == splitOpenAPIOutputs(host.workflow.out)
    IN  [params   |-> Range(split.params) \cup Range(host.options.common),
         body     |-> IF hasJSONRequestBody(split) THEN <<split.body>> ELSE <<>>,
         headers  |-> Range(out.params),
         response |-> out.body,
         security |-> operationSecurity]

\* The schema of the workflow's inputs in the MCP tool's InputSchema.
InputSchema == nodeToJSON(host.workflow.inputs)

\* The schemas made from the document; those of common parameters are the
\* host's own.
Published ==
    Range(operation.body) \cup {p.schema : p \in Range(lifted) \cup operation.headers}
        \cup {operation.response, InputSchema}

-----------------------------------------------------------------------------
(* engine.New.                                                             *)

NoCall == [at |-> "idle"]

RestInit ==
    /\ host \in Cases
    /\ stage = "options"
    /\ call = NoCall

Unless(fault, next) ==
    /\ stage' = IF fault THEN "failed" ELSE next
    /\ UNCHANGED <<host, call>>

\* Mutant of collides: names are compared as they are spelled.
SpelledAlike(p, where) == <<p.in, p.name>> \in where

collides(p, where) == restCommonParamKey(p.in, p.name) \in where

CheckOptions ==
    LET o == host.options IN
    /\ stage = "options"
    /\ Unless(\/ ~NormalizeRESTCommonParams(o.common)
              \/ ~NormalizeSecuritySchemes(o.schemes)
              \/ ~NormalizeSecurity(o.security, o.schemes)
              \/ \E s \in Range(o.schemes) : LocationsOf(s) \cap keysOf(Range(o.common)) # {},
              "load")

LoadDocument ==
    /\ stage = "load"
    /\ Unless(\/ walkXSource(host.workflow.inputs)
              \/ outputFault(host.workflow.out)
              \/ securityShapeFault(host.workflow.xsec),
              "common")

CheckCommonParamCollisions ==
    /\ stage = "common"
    /\ Unless(\E p \in Range(lifted) : collides(p, keysOf(Range(host.options.common))), "schemes")

CheckSecurityCollisions ==
    /\ stage = "schemes"
    /\ Unless(\E s \in Range(host.options.schemes) :
                \E p \in Range(lifted) \cup Range(host.options.common) :
                    collides(p, LocationsOf(s)),
              "security")

CheckWorkflowSecurity ==
    /\ stage = "security"
    /\ Unless(\E r \in host.workflow.xsec.reqs : requirementFault(r, host.options.schemes),
              "serving")

-----------------------------------------------------------------------------
(* Calls.                                                                  *)

\* The places in a request where the operation has parameters.
Places == keysOf(operation.params)

Requests ==
    LET token == IF operation.security = {} THEN {NoToken} ELSE {NoToken} \cup Tokens IN
    [via : {"rest"}, body : SUBSET host.names, http : SUBSET Places, token : token]
        \cup [via : {"mcp"}, body : SUBSET host.names, http : {{}}, token : token]

Send ==
    /\ stage = "serving" /\ call.at = "idle"
    /\ \E req \in Requests : call' = [at |-> "sent", req |-> req]
    /\ UNCHANGED <<host, stage>>

\* The MCP SDK validates a tool's arguments before it calls the handler.
PassesSDK(req) == req.via = "mcp" => Valid(InputSchema, req.body)

scopesSatisfied(have, reqs) == \E r \in reqs : UNION Range(r) \subseteq have

checkWorkflowScopes(req) ==
    LET reqs == host.workflow.xsec.reqs IN
    IF reqs = {} THEN "none"
    ELSE IF req.token = NoToken THEN "unauthorized"
    ELSE IF scopesSatisfied(req.token, reqs) THEN "none" ELSE "insufficient"

\* restValue: a header, cookie or query value that is not blank.
Bound(req) ==
    {k \in DOMAIN lifted : restCommonParamKey(lifted[k].in, lifted[k].name) \in req.http}

mergeFault(req) ==
    \E k \in DOMAIN lifted : k \in req.body \/ (lifted[k].required /\ k \notin Bound(req))

rejectUnexpectedInputs(inputs) == ~ inputs \subseteq consumerInputKeys(InputSchema)

inputsOf(req) == req.body \cup (IF req.via = "rest" THEN Bound(req) ELSE {})

\* What Run answers before the embedder's code takes over.
refusal(req) ==
    IF ~PassesSDK(req) THEN "invalid params"
    ELSE IF checkWorkflowScopes(req) # "none" THEN checkWorkflowScopes(req)
    ELSE IF (req.via = "rest" /\ mergeFault(req)) \/ rejectUnexpectedInputs(inputsOf(req))
    THEN "bad inputs" ELSE "none"

Run ==
    /\ call.at = "sent"
    /\ call' = [at |-> IF refusal(call.req) = "none" THEN "running" ELSE "refused",
                req |-> call.req, inputs |-> inputsOf(call.req)]
    /\ UNCHANGED <<host, stage>>

HasHeader(v) == v[<<>>].kind # "leaf" \/ v[<<>>].value \notin {"null", "blank"}

IsBlank(v) == v[<<>>] = Leaf("blank")

\* The outputs by their names, each a document.
outputsOf(doc) ==
    [k \in {p[1] : p \in DOMAIN doc \ {<<>>}} |->
        [p \in {Tail(q) : q \in {r \in DOMAIN doc \ {<<>>} : r[1] = k}} |-> doc[<<k>> \o p]]]

SplitRESTOutputs(outputs) ==
    LET params == splitOpenAPIOutputs(host.workflow.out).params
        up     == {k \in DOMAIN params \cap DOMAIN outputs : HasHeader(outputs[k])}
        blank  == {k \in DOMAIN params \cap DOMAIN outputs : IsBlank(outputs[k])}
    IN  [err     |-> IF \E k \in DOMAIN params \ up : params[k].required THEN "internal" ELSE "none",
         headers |-> [k \in up |-> outputs[k]],
         body    |-> Restrict(outputs, DOMAIN outputs \ (up \cup blank))]

Refused(why) == [err |-> why, headers |-> <<>>, body |-> <<>>]

\* applyOutbound with redact and mask, then what the transport makes of it.
replyTo(req) ==
    LET answer  == host.answer
        vetted  == applyRedact(answer.outputs, answer.redact, answer.mask)
        outputs == outputsOf(vetted.doc)
        split   == SplitRESTOutputs(outputs)
    IN  IF vetted.outcome # "done" THEN Refused("denied")
        ELSE IF req.via = "mcp" THEN [err |-> "none", headers |-> <<>>, body |-> outputs]
        ELSE IF split.err # "none" THEN Refused(split.err) ELSE split

Reply ==
    /\ call.at = "running"
    /\ call' = [at |-> "replied", req |-> call.req, inputs |-> call.inputs, reply |-> replyTo(call.req)]
    /\ UNCHANGED <<host, stage>>

Forget ==
    /\ call.at \in {"refused", "replied"}
    /\ call' = NoCall
    /\ UNCHANGED <<host, stage>>

NotBuilt == stage = "failed" /\ UNCHANGED restVars

RestNext ==
    \/ CheckOptions \/ LoadDocument
    \/ CheckCommonParamCollisions \/ CheckSecurityCollisions \/ CheckWorkflowSecurity
    \/ Send \/ Run \/ Reply \/ Forget \/ NotBuilt

RestSpec == RestInit /\ [][RestNext]_restVars

-----------------------------------------------------------------------------
(* What a client may conclude from what it was shown.                      *)

Satisfied(security, token) ==
    security = {} \/ (token # NoToken /\ scopesSatisfied(token, security))

HasRequired(params, http) ==
    \A p \in params : p.required => restCommonParamKey(p.in, p.name) \in http

\* The request does what the operation, or the tool's schema, asks for.  A
\* tool's schema does not name scopes, so its caller has to have them.
Follows(req) ==
    IF req.via = "mcp"
    THEN Valid(InputSchema, req.body) /\ Satisfied(host.workflow.xsec.reqs, req.token)
    ELSE /\ HasRequired(operation.params, req.http)
         /\ Satisfied(operation.security, req.token)
         /\ IF operation.body = <<>> THEN req.body = {} ELSE Valid(operation.body[1], req.body)

\* A client that follows what was published is not told that its request was
\* wrong: the published body leaves out what binding takes from elsewhere, a
\* parameter that binding insists on is published as required, a body that is
\* needed is asked for, no scope is asked for that the operation does not name
\* (openapi.go:106-183, schema.go:143-232, runner.go:121-135, bind.go:34-53).
\* Valid reads no keyword of "other": a pattern of names at the root is published
\* as it is, and Run refuses the names that match it.
PublishedRequestsAdmitted == call.at = "refused" => ~Follows(call.req)

AsREST(inputs) ==
    [via |-> "rest", body |-> inputs \ DOMAIN lifted, token |-> call.req.token,
     http |-> keysOf({lifted[k] : k \in DOMAIN lifted \cap inputs})
                  \cup keysOf(Range(host.options.common))]

\* The two transports offer one workflow with the same inputs: what REST
\* accepts by its document passes the MCP tool's schema, and what passes that
\* schema can be sent by REST (docs/contributors/arazzo.md:144, "MCP run_*
\* still accepts the same keys").  This is so only for the schema of an object
\* that declares what it requires, without combinators at its root; with them
\* the closed root refuses, on MCP, what the branches declare, and a root that
\* asks for what it does not declare refuses everything on MCP while REST, if
\* every property was lifted, has no body to refuse (schema.go:78-94, 143-199,
\* 478-488, 532-588).
TransportsAgree ==
    /\ call.at = "running"
    /\ InputSchema[<<>>].type \in {"", "object"}
    /\ InputSchema[<<>>].required \subseteq Props(InputSchema)
    /\ \A part \in {"oneOf", "allOf", "not"} : Children(InputSchema, <<>>, part) = {}
    /\ Follows(call.req) /\ Satisfied(operation.security, call.req.token)
    => IF call.req.via = "rest" THEN Valid(InputSchema, call.inputs)
                                ELSE Follows(AsREST(call.inputs))

\* An HTTP field, header names without regard to case, has one meaning on an
\* operation that is served: a common parameter's, an input's or a
\* credential's (schema.go:426-461, security.go:244-290).  Two inputs may
\* share a field, and oauth2 and basic credentials are not compared.
FieldsMeanOneThing ==
    stage = "serving" =>
        LET common == host.options.common
            credentials == UNION {LocationsOf(s) : s \in Range(host.options.schemes)}
        IN  /\ keysOf(Range(lifted)) \cap keysOf(Range(common)) = {}
            /\ credentials \cap (keysOf(Range(lifted)) \cup keysOf(Range(common))) = {}
            /\ Distinct(common, LAMBDA p : restCommonParamKey(p.in, p.name))

\* Nothing of the engine's own shows in what is published.  Loading refuses some
\* sources, lifting takes some with their property, stripping is for the rest, and
\* schemas are taken apart and put together in between: no published schema, of
\* the body, the tool, a parameter, a header or the response, has an x-source
\* left, unless in a keyword that no walk visits, where the document's own is
\* published (other than docs/contributors/arazzo.md:144, "stripped", and
\* docs/users/arazzo.md:232, "fails catalog load").  And no reserved name is left
\* where inputs are described, in whatever combinator the document hid it
\* (schema.go:96-141, 143-232, 490-528, 592-616, 654-719, 770-970).
PublishedClean ==
    stage = "serving" =>
        /\ \A s \in Published : \A p \in DOMAIN s :
             Through(p, Visited) => s[p].source = NoSource
        /\ \A s \in Range(operation.body) \cup {InputSchema} :
             \A p \in {q \in DOMAIN s : Through(q, SameLevel)} :
                 Reserved \cap (PropsAt(s, p) \cup s[p].required) = {}

\* What a client is shown of an output, in a header or in the body.
Shown(reply, k) ==
    IF k \in DOMAIN reply.headers THEN {reply.headers[k]}
    ELSE IF k \in DOMAIN reply.body THEN {reply.body[k]} ELSE {}

\* A reply shows the outputs with the mask in exactly the places that the
\* pointers denote, whatever their order and overlap, in headers as in the
\* body; only a blank header is left out.  If one pointer makes no sense, a
\* denial is all there is, though others were applied before it
\* (policy.go:445-460, redact.go:48-182, bind.go:84-120).
RedactsAsPointed ==
    call.at = "replied" =>
        LET answer == host.answer
            After(n) == Masked(answer.outputs, SubSeq(answer.redact, 1, n), answer.mask)
            expected == outputsOf(After(Len(answer.redact)))
        IN  /\ call.reply.err = "none" => \A k \in DOMAIN outputsOf(answer.outputs) :
                 \/ Shown(call.reply, k) = {expected[k]}
                 \/ Shown(call.reply, k) = {} /\ IsBlank(expected[k])
            /\ call.reply.err = "denied" <=>
                 \E i \in DOMAIN answer.redact : Senseless(After(i - 1), answer.redact[i])
=============================================================================
