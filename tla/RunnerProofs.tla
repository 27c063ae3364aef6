---------------------------- MODULE RunnerProofs ----------------------------
(***************************************************************************)
(* Proofs about Runner for every set of calls, inputs, outputs, scopes and *)
(* policies.  A step moves one call from one place to another, or replaces *)
(* a policy; so the inductive invariant is a predicate Good(at, r) of a    *)
(* call's place and of its locals, and its proof has one lemma for each    *)
(* action, which shows that the locals it leaves are Good where it goes.   *)
(***************************************************************************)
EXTENDS Runner, TLAPS

PCs == {"idle", "enrich", "match", "admit", "secrets", "policy", "inbound", "run",
        "outbound", "respond", "replied"}

AnyRequest == Requests \cup {NoCall.req}
Inputs  == [Keys -> Origins]
Outputs == [Fields -> Values]
Reply   == [err : Errors \cup {"none"}, body : Outputs, headers : Outputs]

Locals == [req : AnyRequest, inputs : Inputs, outputs : Outputs,
           sh : 0 .. Len(SharedPolicies), plan : 0 .. Len(PlanPolicies),
           asked : BOOLEAN, ran : BOOLEAN, reply : Reply]

RevsOK ==
    revs \in [sh : 1 .. Len(SharedPolicies), plan : 1 .. Len(PlanPolicies)]

-----------------------------------------------------------------------------
(* The helpers. *)

LEMMA NoCallType == NoCall \in Locals
  BY RunnerConstantsOK
  DEF NoCall, Locals, AnyRequest, NoInputs, NoOutputs, NoReply, Inputs, Outputs, Reply,
      Origins, Values

LEMMA FailType ==
  ASSUME NEW r \in Locals, NEW err \in Errors
  PROVE  [r EXCEPT !.reply = [NoReply EXCEPT !.err = err]] \in Locals
  BY DEF Locals, NoReply, NoOutputs, Reply, Outputs, Values

LEMMA FromCallerType == \A keys : FromCaller(keys) \in Inputs
  BY DEF FromCaller, Inputs, Origins

-----------------------------------------------------------------------------
(* The invariant of one call. *)
Checked == {"secrets", "policy", "inbound", "run", "outbound", "respond"}
Late    == {"run", "outbound", "respond"}
Early   == {"idle", "enrich", "match", "admit", "secrets"}

\* Errors that tell a client that its request was wrong.
ClientErrors == {"ErrNoExecutor", "ErrNotFound", "ErrUnauthorized", "ErrInsufficientScope",
                 "ErrEmptyQuery", "ErrUnexpectedInputs", "ErrMissingInput"}

ScopesHeld(r) ==
    Requirements # {} =>
        /\ r.req.token # NoToken
        /\ \E req \in Requirements : req \subseteq r.req.token

\* What InputOrigins and NothingDropped say of the inputs.
InputsClean(r) ==
    /\ r.inputs["policyHints"] \in {"absent", "policy"}
    /\ r.inputs["secrets"] \in {"absent", "backend"}
    /\ \A k \in UnknownKeys : r.inputs[k] = "absent"
    /\ r.req.via = "rest" => \A k \in LiftedKeys : r.inputs[k] \in {"absent", "http"}

InputsKept(r) == ~r.req.query => \A k \in r.req.body : r.inputs[k] = "caller"

PolicyHeld(r) == HasPolicy => r.sh # 0 /\ r.plan # 0

InboundAllowed(r) ==
    /\ SharedAt(r.sh).in \in {"none", "allow"}
    /\ PlanAt(r.plan).in \in {"none", "allow", "hints"}

OutboundAllowed(r) ==
    /\ SharedAt(r.sh).out \in {"none", "allow"}
    /\ PlanAt(r.plan).out \notin {"deny", "malformed", "error"}

Masked(outputs, r) ==
    PlanAt(r.plan).out \in {"redact", "mask"} =>
        \A f \in Redacted : outputs[f] \notin {"clear", "blank"}

HeadersOK(r) ==
    r.req.via = "rest" =>
        /\ \A f \in RequiredHeaders : HasValue(r.reply.headers[f])
        /\ \A f \in Fields : r.reply.headers[f] = "absent" \/ r.reply.body[f] = "absent"

Good(at, r) ==
    /\ at \in {"enrich", "match", "admit"} \cup Checked => InputsKept(r)
    /\ at = "match" => r.req.query
    /\ at \in Checked => ScopesHeld(r) /\ InputsClean(r)
    /\ at \in {"inbound"} \cup Late => PolicyHeld(r)
    /\ at \in Late => InboundAllowed(r)
    /\ at = "respond" => OutboundAllowed(r) /\ Masked(r.outputs, r)
    /\ r.ran => /\ at \in {"outbound", "respond", "replied"}
                /\ ScopesHeld(r) /\ InputsClean(r) /\ InputsKept(r)
                /\ PolicyHeld(r) /\ InboundAllowed(r)
    /\ at # "replied" => r.reply.err = "none"
    /\ at = "replied" /\ r.reply.err = "none" =>
          /\ OutboundAllowed(r) /\ HeadersOK(r)
          /\ Masked(r.reply.body, r) /\ Masked(r.reply.headers, r)
    /\ at \in Early => ~r.asked
    /\ r.reply.err \in ClientErrors => ~r.ran /\ (r.reply.err # "ErrNoExecutor" => ~r.asked)

RunnerInv ==
    /\ RevsOK
    /\ pc \in [Calls -> PCs]
    /\ call \in [Calls -> Locals]
    /\ \A c \in Calls : Good(pc[c], call[c]) /\ call[c].sh <= revs.sh /\ call[c].plan <= revs.plan

-----------------------------------------------------------------------------
\* What a step of call c comes to.
Moves(c) ==
    /\ UNCHANGED revs
    /\ \E at \in PCs, r \in Locals :
         /\ Good(at, r) /\ r.sh <= revs.sh /\ r.plan <= revs.plan
         /\ Goto(c, at, r)

LEMMA MovesKeep ==
  ASSUME RunnerInv, NEW c \in Calls, Moves(c)
  PROVE  RunnerInv'
<1>1. PICK at \in PCs, r \in Locals :
        /\ Good(at, r) /\ r.sh <= revs.sh /\ r.plan <= revs.plan
        /\ Goto(c, at, r)
  BY DEF Moves
<1>2. /\ pc' = [pc EXCEPT ![c] = at]
      /\ call' = [call EXCEPT ![c] = r]
      /\ revs' = revs
  BY <1>1 DEF Goto, Moves
<1>3. pc' \in [Calls -> PCs] /\ call' \in [Calls -> Locals] /\ RevsOK'
  BY <1>2 DEF RunnerInv, RevsOK
<1>4. ASSUME NEW d \in Calls
      PROVE  (Good(pc[d], call[d]) /\ call[d].sh <= revs.sh /\ call[d].plan <= revs.plan)'
  <2>1. CASE d = c
    <3>1. pc'[d] = at /\ call'[d] = r
      BY <1>2, <2>1 DEF RunnerInv
    <3>2. QED
      BY <1>1, <1>2, <3>1 DEF Good, ScopesHeld, InputsClean, InputsKept, PolicyHeld,
         InboundAllowed, OutboundAllowed, Masked, HeadersOK
  <2>2. CASE d # c
    <3>1. pc'[d] = pc[d] /\ call'[d] = call[d]
      BY <1>2, <2>2 DEF RunnerInv
    <3>2. QED
      BY <1>2, <3>1 DEF RunnerInv, Good, ScopesHeld, InputsClean, InputsKept, PolicyHeld,
         InboundAllowed, OutboundAllowed, Masked, HeadersOK
  <2>3. QED
    BY <2>1, <2>2
<1>5. QED
  BY <1>3, <1>4 DEF RunnerInv

\* A call that fails keeps its locals.
LEMMA FailMoves ==
  ASSUME RunnerInv, NEW c \in Calls, NEW err, Fail(c, err), UNCHANGED revs,
         err \in ClientErrors =>
           ~call[c].ran /\ (err # "ErrNoExecutor" => ~call[c].asked)
  PROVE  Moves(c)
<1> DEFINE r == [call[c] EXCEPT !.reply = [NoReply EXCEPT !.err = err]]
<1>1. err \in Errors /\ Goto(c, "replied", r)
  BY DEF Fail
<1>2. call[c] \in Locals
  BY DEF RunnerInv
<1>3. r \in Locals
  BY <1>1, <1>2, FailType
<1>4. /\ r.req = call[c].req /\ r.inputs = call[c].inputs /\ r.ran = call[c].ran
      /\ r.sh = call[c].sh /\ r.plan = call[c].plan /\ r.reply.err = err
      /\ r.asked = call[c].asked
  BY <1>2 DEF Locals, NoReply
<1> HIDE DEF r
<1>5. Good("replied", r)
  BY <1>1, <1>4 DEF RunnerInv, Good, Checked, Early, Late, ScopesHeld, InputsClean, InputsKept,
     PolicyHeld, InboundAllowed, Errors
<1>6. r.sh <= revs.sh /\ r.plan <= revs.plan
  BY <1>4 DEF RunnerInv
<1>7. QED
  BY <1>1, <1>3, <1>5, <1>6 DEF Moves, PCs

-----------------------------------------------------------------------------
(* The actions, in the order in which a call meets them. *)

LEMMA ArriveMoves ==
  ASSUME RunnerInv, NEW c \in Calls, NEW req \in Requests, Arrive(c, req)
  PROVE  Moves(c)
<1> DEFINE r == [NoCall EXCEPT !.req = req, !.inputs = FromCaller(req.body)]
<1>1. r \in Locals
  <2>1. NoCall \in Locals /\ FromCaller(req.body) \in Inputs /\ req \in AnyRequest
    BY NoCallType, FromCallerType DEF AnyRequest
  <2>2. QED
    BY <2>1 DEF Locals
<1>2. /\ r.req = req /\ r.inputs = FromCaller(req.body) /\ ~r.ran /\ ~r.asked
      /\ r.sh = 0 /\ r.plan = 0 /\ r.reply.err = "none"
  BY DEF NoCall, NoReply
<1>3. \A k \in req.body : FromCaller(req.body)[k] = "caller"
  BY RunnerConstantsOK DEF Requests, FromCaller
<1>4. Goto(c, "enrich", r) /\ UNCHANGED revs
  BY DEF Arrive
<1> HIDE DEF r
<1>5. Good("enrich", r)
  BY <1>2, <1>3 DEF Good, Checked, Early, Late, InputsKept, ClientErrors
<1>6. r.sh <= revs.sh /\ r.plan <= revs.plan
  BY <1>2 DEF RunnerInv, RevsOK
<1>7. QED
  BY <1>1, <1>4, <1>5, <1>6 DEF Moves, PCs

\* A call that keeps its locals and moves among the places before the checks.
LEMMA EnrichMoves ==
  ASSUME RunnerInv, NEW c \in Calls, Enrich(c)
  PROVE  Moves(c)
<1>1. CASE Fail(c, "ErrUnauthorized")
  <2>1. ~call[c].ran /\ ~call[c].asked
    BY DEF Enrich, RunnerInv, Good, Early
  <2>2. QED
    BY <1>1, <2>1, FailMoves DEF Enrich
<1>2. CASE Goto(c, IF call[c].req.query THEN "match" ELSE "admit", call[c])
  <2>1. \A at \in {"match", "admit"} :
          (at = "match" => call[c].req.query) => Good(at, call[c])
    BY DEF Enrich, RunnerInv, Good, Checked, Early, Late
  <2>2. PICK at \in {"match", "admit"} :
          (at = "match" => call[c].req.query) /\ Goto(c, at, call[c])
    BY <1>2
  <2>3. Good(at, call[c])
    BY <2>1, <2>2
  <2>4. QED
    BY <2>2, <2>3 DEF Moves, PCs, Enrich, RunnerInv
<1>3. QED
  BY <1>1, <1>2 DEF Enrich

LEMMA MatchPlanMoves ==
  ASSUME RunnerInv, NEW c \in Calls, MatchPlan(c)
  PROVE  Moves(c)
<1>1. /\ Good("match", call[c]) /\ call[c] \in Locals /\ UNCHANGED revs
      /\ call[c].sh <= revs.sh /\ call[c].plan <= revs.plan
  BY DEF MatchPlan, RunnerInv
<1>2. /\ ~call[c].ran /\ ~call[c].asked /\ call[c].req.query
      /\ call[c].reply.err = "none"
  BY <1>1 DEF Good, Early
<1>3. CASE \E err \in {"ErrEmptyQuery", "ErrNotFound", "other"} : Fail(c, err)
  BY <1>1, <1>2, <1>3, FailMoves
<1>4. CASE \E r \in {call[c]} \cup {[call[c] EXCEPT !.inputs = FromCaller(keys)] :
                                      keys \in Bodies} : Goto(c, "admit", r)
  <2>1. PICK r \in {call[c]} \cup {[call[c] EXCEPT !.inputs = FromCaller(keys)] :
                                    keys \in Bodies} : Goto(c, "admit", r)
    BY <1>4
  <2>2. r \in Locals
    <3>1. \A keys \in Bodies : [call[c] EXCEPT !.inputs = FromCaller(keys)] \in Locals
      BY <1>1, FromCallerType DEF Locals
    <3>2. QED
      BY <1>1, <2>1, <3>1
  <2>3. /\ r.req = call[c].req /\ r.ran = call[c].ran /\ r.reply = call[c].reply
        /\ r.asked = call[c].asked /\ r.sh = call[c].sh /\ r.plan = call[c].plan
    BY <1>1, <2>1 DEF Locals
  <2>4. Good("admit", r)
    BY <1>2, <2>3 DEF Good, Checked, Early, Late, InputsKept, ClientErrors
  <2>5. QED
    BY <1>1, <2>1, <2>2, <2>3, <2>4 DEF Moves, PCs
<1>5. QED
  BY <1>3, <1>4 DEF MatchPlan

\* Only a call that the checks let through goes on, and then with inputs that
\* are declared and, on REST, bound to the HTTP request.
LEMMA AdmitMoves ==
  ASSUME RunnerInv, NEW c \in Calls, Admit(c)
  PROVE  Moves(c)
<1> DEFINE given  == call[c].inputs
           inputs == IF call[c].req.via = "rest" THEN Bind(given, call[c].req.http)
                                                 ELSE given
           r      == [call[c] EXCEPT !.inputs = inputs]
<1>1. /\ Good("admit", call[c]) /\ call[c] \in Locals /\ UNCHANGED revs
      /\ call[c].sh <= revs.sh /\ call[c].plan <= revs.plan
  BY DEF Admit, RunnerInv
<1>2. /\ ~call[c].ran /\ ~call[c].asked /\ call[c].reply.err = "none"
      /\ InputsKept(call[c])
  BY <1>1 DEF Good, Early
<1>3. CASE \E err : Fail(c, err)
  BY <1>1, <1>2, <1>3, FailMoves
<1>4. CASE ~\E err : Fail(c, err)
  <2>1. /\ ScopesError(call[c].req.token) = {}
        /\ call[c].req.via = "rest" => BindErrors(given, call[c].req.http) = {}
        /\ Present(inputs) \subseteq ConsumerKeys
        /\ Goto(c, "secrets", r)
    BY <1>4 DEF Admit
  <2>2. given \in Inputs /\ inputs \in Inputs
    BY <1>1 DEF Locals, Bind, Inputs, Origins
  <2>3. /\ r \in Locals /\ r.req = call[c].req /\ r.inputs = inputs
        /\ r.ran = call[c].ran /\ r.asked = call[c].asked /\ r.reply = call[c].reply
        /\ r.sh = call[c].sh /\ r.plan = call[c].plan
    BY <1>1, <2>2 DEF Locals
  <2>4. ScopesHeld(r)
    <3>1. SUFFICES ASSUME Requirements # {}
                   PROVE  /\ call[c].req.token # NoToken
                          /\ ScopesSatisfied(call[c].req.token)
      BY <2>3 DEF ScopesHeld, ScopesSatisfied
    <3>2. QED
      BY <2>1, <3>1 DEF ScopesError
  <2>5. ASSUME call[c].req.via = "rest"
        PROVE  \A k \in LiftedKeys : given[k] = "absent"
    <3>1. "ErrUnexpectedInputs" \notin BindErrors(given, call[c].req.http)
      BY <2>1, <2>5
    <3>2. LiftedKeys \cap Present(given) = {}
      BY <3>1 DEF BindErrors
    <3>3. QED
      BY <2>2, <3>2 DEF Present, Inputs, Keys
  <2>6. \A k \in UnknownKeys \cup Reserved : inputs[k] = "absent"
    BY <2>1, <2>2, RunnerConstantsOK DEF Present, ConsumerKeys, Inputs, Keys
  <2>7. ASSUME call[c].req.via = "rest"
        PROVE  \A k \in LiftedKeys : inputs[k] \in {"absent", "http"}
    BY <2>5, <2>7 DEF Bind, Keys
  <2>8. InputsClean(r)
    BY <2>3, <2>6, <2>7 DEF InputsClean, Reserved
  <2>9. InputsKept(r)
    <3>1. SUFFICES ASSUME ~call[c].req.query, NEW k \in call[c].req.body
                   PROVE  inputs[k] = "caller"
      BY <2>3 DEF InputsKept
    <3>2. given[k] = "caller"
      BY <1>2, <3>1 DEF InputsKept
    <3>3. k \in Keys /\ call[c].req.http \subseteq LiftedKeys
      BY <1>1, <3>1, RunnerConstantsOK DEF Locals, AnyRequest, Requests, NoCall
    <3>4. QED
      BY <2>5, <3>2, <3>3 DEF Bind
  <2> HIDE DEF r, inputs, given
  <2>10. Good("secrets", r)
    BY <1>2, <2>3, <2>4, <2>8, <2>9 DEF Good, Checked, Early, Late, ClientErrors
  <2>11. QED
    BY <1>1, <2>1, <2>3, <2>10 DEF Moves, PCs
<1>5. QED
  BY <1>3, <1>4

LEMMA SecretsMoves ==
  ASSUME RunnerInv, NEW c \in Calls, Secrets(c)
  PROVE  Moves(c)
<1> DEFINE stripped == [call[c] EXCEPT !.inputs = Stripped(@), !.asked = HasSecrets]
<1>1. /\ Good("secrets", call[c]) /\ call[c] \in Locals /\ UNCHANGED revs
      /\ call[c].sh <= revs.sh /\ call[c].plan <= revs.plan
  BY DEF Secrets, RunnerInv
<1>2. /\ ~call[c].ran /\ call[c].reply.err = "none" /\ InputsKept(call[c])
      /\ ScopesHeld(call[c]) /\ InputsClean(call[c])
  BY <1>1 DEF Good, Checked
<1>3. ASSUME NEW in \in Inputs, NEW at \in {"policy", "replied"}, NEW reply \in Reply,
             in = Stripped(call[c].inputs)
               \/ in = [Stripped(call[c].inputs) EXCEPT !["secrets"] = "backend"],
             at = "policy" => reply.err = "none",
             at = "replied" => reply.err = "ErrInternal",
             Goto(c, at, [call[c] EXCEPT !.inputs = in, !.asked = HasSecrets, !.reply = reply])
      PROVE  Moves(c)
  <2> DEFINE r == [call[c] EXCEPT !.inputs = in, !.asked = HasSecrets, !.reply = reply]
  <2>1. /\ r \in Locals /\ r.req = call[c].req /\ r.inputs = in
        /\ r.ran = call[c].ran /\ r.reply = reply
        /\ r.sh = call[c].sh /\ r.plan = call[c].plan
    BY <1>1, <1>3, RunnerConstantsOK DEF Locals
  <2>2. \A k \in Keys : k \notin Reserved => in[k] = call[c].inputs[k]
    BY <1>3 DEF Stripped, Reserved
  <2>3. /\ in["policyHints"] = "absent"
        /\ in["secrets"] \in {"absent", "backend"}
    BY <1>3 DEF Stripped, Reserved, Keys
  <2>4. InputsClean(r)
    BY <1>2, <2>1, <2>2, <2>3, RunnerConstantsOK DEF InputsClean, Keys
  <2>5. InputsKept(r)
    <3>1. SUFFICES ASSUME ~call[c].req.query, NEW k \in call[c].req.body
                   PROVE  in[k] = "caller"
      BY <2>1 DEF InputsKept
    <3>2. call[c].inputs[k] = "caller"
      BY <1>2, <3>1 DEF InputsKept
    <3>3. k \in Keys
      BY <1>1, <3>1, RunnerConstantsOK DEF Locals, AnyRequest, Requests, NoCall
    <3>4. k \notin Reserved
      BY <1>2, <3>2 DEF InputsClean, Reserved
    <3>5. QED
      BY <2>2, <3>2, <3>3, <3>4
  <2>6. ScopesHeld(r)
    BY <1>2, <2>1 DEF ScopesHeld
  <2>7. Goto(c, at, r)
    BY <1>3
  <2> HIDE DEF r
  <2>8. Good(at, r)
    BY <1>2, <1>3, <2>1, <2>4, <2>5, <2>6 DEF Good, Checked, Early, Late, ClientErrors
  <2>9. QED
    BY <1>1, <2>1, <2>7, <2>8 DEF Moves, PCs
<1>4. /\ Stripped(call[c].inputs) \in Inputs
      /\ [Stripped(call[c].inputs) EXCEPT !["secrets"] = "backend"] \in Inputs
  BY <1>1 DEF Locals, Stripped, Inputs, Origins
<1>5. /\ call[c].reply \in Reply /\ [NoReply EXCEPT !.err = "ErrInternal"] \in Reply
      /\ [NoReply EXCEPT !.err = "ErrInternal"].err = "ErrInternal"
  BY <1>1 DEF Locals, Reply, NoReply, Errors, NoOutputs, Outputs, Values
<1>6. CASE Goto(c, "policy", stripped)
  <2>1. stripped = [call[c] EXCEPT !.inputs = Stripped(call[c].inputs), !.asked = HasSecrets,
                                   !.reply = call[c].reply]
    BY <1>1 DEF Locals
  <2>2. QED
    BY <1>2, <1>3, <1>4, <1>5, <1>6, <2>1
<1>7. CASE Goto(c, "policy", [stripped EXCEPT !.inputs["secrets"] = "backend"])
  <2>1. [stripped EXCEPT !.inputs["secrets"] = "backend"] =
          [call[c] EXCEPT !.inputs = [Stripped(call[c].inputs) EXCEPT !["secrets"] = "backend"],
                          !.asked = HasSecrets, !.reply = call[c].reply]
    BY <1>1 DEF Locals
  <2>2. QED
    BY <1>2, <1>3, <1>4, <1>5, <1>7, <2>1
<1>8. CASE Goto(c, "replied", [stripped EXCEPT !.reply = [NoReply EXCEPT !.err = "ErrInternal"]])
  <2>1. [stripped EXCEPT !.reply = [NoReply EXCEPT !.err = "ErrInternal"]] =
          [call[c] EXCEPT !.inputs = Stripped(call[c].inputs), !.asked = HasSecrets,
                          !.reply = [NoReply EXCEPT !.err = "ErrInternal"]]
    BY <1>1 DEF Locals
  <2>2. QED
    BY <1>3, <1>4, <1>5, <1>8, <2>1
<1>9. QED
  BY <1>6, <1>7, <1>8 DEF Secrets

LEMMA SeqElements ==
  ASSUME NEW S, NEW s \in Seq(S)
  PROVE  Len(s) \in Nat /\ \A i \in 1 .. Len(s) : s[i] \in S
  OBVIOUS

SharedRules == [in  : {"none", "allow", "deny", "error"},
                out : {"none", "allow", "deny", "error"}]
PlanRules   == [in  : {"none", "allow", "hints", "badhints", "deny", "error"},
                out : {"none", "allow", "replace", "redact", "mask",
                       "malformed", "deny", "error"}]

LEMMA Policies ==
  /\ Len(SharedPolicies) \in Nat /\ Len(PlanPolicies) \in Nat
  /\ \A i \in 1 .. Len(SharedPolicies) : SharedPolicies[i] \in SharedRules
  /\ \A i \in 1 .. Len(PlanPolicies) : PlanPolicies[i] \in PlanRules
<1>1. SharedPolicies \in Seq(SharedRules) /\ PlanPolicies \in Seq(PlanRules)
  BY RunnerConstantsOK DEF SharedRules, PlanRules
<1>2. QED
  BY <1>1, SeqElements

LEMMA GetPolicyMoves ==
  ASSUME RunnerInv, NEW c \in Calls, GetPolicy(c)
  PROVE  Moves(c)
<1>1. /\ Good("policy", call[c]) /\ call[c] \in Locals /\ UNCHANGED revs
      /\ call[c].sh <= revs.sh /\ call[c].plan <= revs.plan
      /\ revs.sh \in 1 .. Len(SharedPolicies) /\ revs.plan \in 1 .. Len(PlanPolicies)
      /\ Len(SharedPolicies) \in Nat /\ Len(PlanPolicies) \in Nat
  BY Policies DEF GetPolicy, RunnerInv, RevsOK
<1>2. ~call[c].ran /\ call[c].reply.err = "none"
  BY <1>1 DEF Good
<1>3. CASE Fail(c, "ErrPolicyLoad")
  BY <1>1, <1>2, <1>3, FailMoves DEF ClientErrors
<1>4. CASE ~HasPolicy /\ Goto(c, "inbound", call[c])
  <2>1. Good("inbound", call[c])
    BY <1>1, <1>2, <1>4 DEF Good, Checked, Early, Late, PolicyHeld, ClientErrors
  <2>2. QED
    BY <1>1, <1>4, <2>1 DEF Moves, PCs
<1>5. CASE \E sh \in 1 .. revs.sh, plan \in 1 .. revs.plan :
             Goto(c, "inbound", [call[c] EXCEPT !.sh = sh, !.plan = plan])
  <2>1. PICK sh \in 1 .. revs.sh, plan \in 1 .. revs.plan :
          Goto(c, "inbound", [call[c] EXCEPT !.sh = sh, !.plan = plan])
    BY <1>5
  <2> DEFINE r == [call[c] EXCEPT !.sh = sh, !.plan = plan]
  <2>2. sh \in 0 .. Len(SharedPolicies) /\ plan \in 0 .. Len(PlanPolicies)
    BY <1>1
  <2>3. /\ r \in Locals /\ r.req = call[c].req /\ r.inputs = call[c].inputs
        /\ r.ran = call[c].ran /\ r.reply = call[c].reply
        /\ r.sh = sh /\ r.plan = plan
    BY <1>1, <2>2 DEF Locals
  <2> HIDE DEF r
  <2>4. Good("inbound", r)
    BY <1>1, <1>2, <2>3 DEF Good, Checked, Early, Late, PolicyHeld, ScopesHeld, InputsClean,
       InputsKept, ClientErrors
  <2>5. r.sh <= revs.sh /\ r.plan <= revs.plan
    BY <1>1, <2>3
  <2>6. Goto(c, "inbound", r)
    BY <2>1 DEF r
  <2>7. QED
    BY <1>1, <2>3, <2>4, <2>5, <2>6 DEF Moves, PCs
<1>6. QED
  BY <1>3, <1>4, <1>5 DEF GetPolicy

\* A decision is one of those that RunnerConstantsOK lists.
LEMMA DecisionType ==
  ASSUME NEW r \in Locals
  PROVE  /\ SharedAt(r.sh).in \in {"none", "allow", "deny", "error"}
         /\ SharedAt(r.sh).out \in {"none", "allow", "deny", "error"}
         /\ PlanAt(r.plan).in \in {"none", "allow", "hints", "badhints", "deny", "error"}
         /\ PlanAt(r.plan).out \in {"none", "allow", "replace", "redact", "mask",
                                    "malformed", "deny", "error"}
<1>1. SharedAt(r.sh) \in SharedRules
  <2>1. CASE r.sh = 0
    BY <2>1 DEF SharedAt, SharedRules
  <2>2. CASE r.sh # 0
    BY <2>2, Policies DEF SharedAt, Locals
  <2>3. QED
    BY <2>1, <2>2
<1>2. PlanAt(r.plan) \in PlanRules
  <2>1. CASE r.plan = 0
    BY <2>1 DEF PlanAt, PlanRules
  <2>2. CASE r.plan # 0
    BY <2>2, Policies DEF PlanAt, Locals
  <2>3. QED
    BY <2>1, <2>2
<1>3. QED
  BY <1>1, <1>2 DEF SharedRules, PlanRules

\* What is not refused was allowed by both.
LEMMA NotRefused ==
  ASSUME NEW shared, NEW plan, Refused(shared, plan) = {}
  PROVE  /\ shared \notin {"deny", "badhints", "malformed", "error"}
         /\ plan \notin {"deny", "badhints", "malformed", "error"}
  BY DEF Refused, DecisionError

LEMMA InboundMoves ==
  ASSUME RunnerInv, NEW c \in Calls, Inbound(c)
  PROVE  Moves(c)
<1> DEFINE shared == SharedAt(call[c].sh).in
           plan   == PlanAt(call[c].plan).in
           r      == [call[c] EXCEPT !.inputs = Hinted(@, plan)]
<1>1. /\ Good("inbound", call[c]) /\ call[c] \in Locals /\ UNCHANGED revs
      /\ call[c].sh <= revs.sh /\ call[c].plan <= revs.plan
  BY DEF Inbound, RunnerInv
<1>2. /\ ~call[c].ran /\ call[c].reply.err = "none"
      /\ ScopesHeld(call[c]) /\ InputsClean(call[c]) /\ PolicyHeld(call[c])
      /\ InputsKept(call[c])
  BY <1>1 DEF Good, Checked
<1>3. ASSUME NEW err \in Refused(shared, plan) \cup {"ErrNoExecutor"}, Fail(c, err)
      PROVE  Moves(c)
  <2>1. err \in {"ErrPolicyDenied", "ErrPolicyLoad", "ErrNoExecutor"}
    BY <1>3 DEF Refused, DecisionError
  <2>2. QED
    BY <1>1, <1>2, <1>3, <2>1, FailMoves DEF ClientErrors
<1>4. CASE Refused(shared, plan) = {} /\ Goto(c, "run", r)
  <2>1. Refused(shared, plan) = {} /\ Goto(c, "run", r)
    BY <1>4
  <2>2. InboundAllowed(call[c])
    BY <1>1, <2>1, NotRefused, DecisionType DEF InboundAllowed
  <2>3. /\ Hinted(call[c].inputs, plan) \in Inputs
        /\ \A k \in Keys : \/ Hinted(call[c].inputs, plan)[k] = call[c].inputs[k]
                           \/ /\ k = "policyHints"
                              /\ Hinted(call[c].inputs, plan)[k] \in {"absent", "policy"}
    BY <1>1 DEF Locals, Inputs, Origins, Hinted
  <2>4. /\ r \in Locals /\ r.req = call[c].req /\ r.inputs = Hinted(call[c].inputs, plan)
        /\ r.ran = call[c].ran /\ r.reply = call[c].reply
        /\ r.sh = call[c].sh /\ r.plan = call[c].plan
    BY <1>1, <2>3 DEF Locals
  <2> HIDE DEF r
  <2>5. InputsClean(r)
    BY <1>2, <2>3, <2>4, RunnerConstantsOK DEF InputsClean, Keys, Reserved
  <2>6. InputsKept(r)
    <3>1. SUFFICES ASSUME ~call[c].req.query, NEW k \in call[c].req.body
                   PROVE  r.inputs[k] = "caller"
      BY <2>4 DEF InputsKept
    <3>2. call[c].inputs[k] = "caller"
      BY <1>2, <3>1 DEF InputsKept
    <3>3. k \in Keys
      BY <1>1, <3>1, RunnerConstantsOK DEF Locals, AnyRequest, Requests, NoCall
    <3>4. k # "policyHints"
      BY <1>2, <3>2 DEF InputsClean
    <3>5. QED
      BY <2>3, <2>4, <3>2, <3>3, <3>4
  <2>7. ScopesHeld(r) /\ PolicyHeld(r) /\ InboundAllowed(r)
    BY <1>2, <2>2, <2>4 DEF ScopesHeld, PolicyHeld, InboundAllowed
  <2>8. Good("run", r)
    BY <1>2, <2>4, <2>5, <2>6, <2>7 DEF Good, Checked, Early, Late, ClientErrors
  <2>9. QED
    BY <1>1, <2>1, <2>4, <2>8 DEF Moves, PCs
<1>5. QED
  BY <1>3, <1>4 DEF Inbound

LEMMA RunWorkflowMoves ==
  ASSUME RunnerInv, NEW c \in Calls, RunWorkflow(c)
  PROVE  Moves(c)
<1>1. /\ Good("run", call[c]) /\ call[c] \in Locals /\ UNCHANGED revs
      /\ call[c].sh <= revs.sh /\ call[c].plan <= revs.plan
  BY DEF RunWorkflow, RunnerInv
<1>2. /\ call[c].reply.err = "none" /\ ScopesHeld(call[c]) /\ InputsClean(call[c])
      /\ PolicyHeld(call[c]) /\ InputsKept(call[c]) /\ InboundAllowed(call[c])
  BY <1>1 DEF Good, Checked, Late
<1>3. ASSUME NEW at \in {"outbound", "replied"}, NEW r \in Locals,
             r.req = call[c].req, r.inputs = call[c].inputs, r.ran,
             r.sh = call[c].sh, r.plan = call[c].plan,
             r.reply.err = IF at = "outbound" THEN "none" ELSE "other",
             Goto(c, at, r)
      PROVE  Moves(c)
  <2>1. /\ ScopesHeld(r) /\ InputsClean(r) /\ PolicyHeld(r) /\ InputsKept(r)
        /\ InboundAllowed(r)
    BY <1>2, <1>3 DEF ScopesHeld, InputsClean, PolicyHeld, InputsKept, InboundAllowed
  <2>2. Good(at, r)
    BY <1>3, <2>1 DEF Good, Checked, Early, Late, ClientErrors
  <2>3. QED
    BY <1>1, <1>3, <2>2 DEF Moves, PCs
<1>4. CASE \E outputs \in [Fields -> {"absent", "clear", "blank"}] :
             Goto(c, "outbound", [call[c] EXCEPT !.ran = TRUE, !.outputs = outputs])
  <2>1. PICK outputs \in [Fields -> {"absent", "clear", "blank"}] :
          Goto(c, "outbound", [call[c] EXCEPT !.ran = TRUE, !.outputs = outputs])
    BY <1>4
  <2>2. outputs \in Outputs
    BY DEF Outputs, Values
  <2>3. [call[c] EXCEPT !.ran = TRUE, !.outputs = outputs] \in Locals
    BY <1>1, <2>2 DEF Locals
  <2>4. QED
    BY <1>1, <1>2, <1>3, <2>1, <2>3 DEF Locals
<1>5. CASE Goto(c, "replied",
                [call[c] EXCEPT !.ran = TRUE, !.reply = [NoReply EXCEPT !.err = "other"]])
  <2>1. /\ [NoReply EXCEPT !.err = "other"] \in Reply
        /\ [NoReply EXCEPT !.err = "other"].err = "other"
    BY DEF Reply, NoReply, Errors, NoOutputs, Outputs, Values
  <2>2. [call[c] EXCEPT !.ran = TRUE, !.reply = [NoReply EXCEPT !.err = "other"]] \in Locals
    BY <1>1, <2>1 DEF Locals
  <2>3. QED
    BY <1>1, <1>3, <1>5, <2>1, <2>2 DEF Locals
<1>6. QED
  BY <1>4, <1>5 DEF RunWorkflow

\* What the decision masks is masked in whatever it leaves.
LEMMA VettedMasks ==
  ASSUME NEW r \in Locals, NEW outputs \in Vetted(r.outputs, PlanAt(r.plan).out)
  PROVE  outputs \in Outputs /\ Masked(outputs, r)
<1> DEFINE plan == PlanAt(r.plan).out
<1>1. r.outputs \in Outputs /\ Redacted \subseteq Fields
  BY RunnerConstantsOK DEF Locals
<1>2. ASSUME NEW mask \in {"null", "masked"}
      PROVE  /\ Redact(r.outputs, mask) \in Outputs
             /\ \A f \in Redacted : Redact(r.outputs, mask)[f] \notin {"clear", "blank"}
  BY <1>1 DEF Redact, Outputs, Values
<1>3. CASE plan \in {"redact", "mask"}
  <2>1. \E mask \in {"null", "masked"} : outputs = Redact(r.outputs, mask)
    BY <1>3 DEF Vetted
  <2>2. QED
    BY <1>2, <2>1 DEF Masked
<1>4. CASE plan = "replace"
  <2>1. outputs \in {[f \in Fields |-> IF f \in fields THEN "replaced" ELSE "absent"] :
                       fields \in SUBSET Fields}
    BY <1>4 DEF Vetted
  <2>2. QED
    BY <1>4, <2>1 DEF Masked, Outputs, Values
<1>5. CASE plan \notin {"redact", "mask", "replace"}
  BY <1>1, <1>5 DEF Vetted, Masked
<1>6. QED
  BY <1>3, <1>4, <1>5

LEMMA OutboundMoves ==
  ASSUME RunnerInv, NEW c \in Calls, Outbound(c)
  PROVE  Moves(c)
<1> DEFINE shared == SharedAt(call[c].sh).out
           plan   == PlanAt(call[c].plan).out
<1>1. /\ Good("outbound", call[c]) /\ call[c] \in Locals /\ UNCHANGED revs
      /\ call[c].sh <= revs.sh /\ call[c].plan <= revs.plan
  BY DEF Outbound, RunnerInv
<1>2. /\ call[c].reply.err = "none" /\ ScopesHeld(call[c]) /\ InputsClean(call[c])
      /\ PolicyHeld(call[c]) /\ InputsKept(call[c]) /\ InboundAllowed(call[c])
  BY <1>1 DEF Good, Checked, Late
<1>3. ASSUME NEW err \in Refused(shared, plan), Fail(c, err)
      PROVE  Moves(c)
  <2>1. err \in {"ErrPolicyDenied", "ErrPolicyLoad"}
    BY <1>3 DEF Refused, DecisionError
  <2>2. QED
    BY <1>1, <1>3, <2>1, FailMoves DEF ClientErrors
<1>4. ASSUME Refused(shared, plan) = {}, NEW outputs \in Vetted(call[c].outputs, plan),
             Goto(c, "respond", [call[c] EXCEPT !.outputs = outputs])
      PROVE  Moves(c)
  <2> DEFINE r == [call[c] EXCEPT !.outputs = outputs]
  <2>1. outputs \in Outputs /\ Masked(outputs, call[c])
    BY <1>1, <1>4, VettedMasks
  <2>2. /\ r \in Locals /\ r.req = call[c].req /\ r.inputs = call[c].inputs
        /\ r.ran = call[c].ran /\ r.reply = call[c].reply /\ r.outputs = outputs
        /\ r.sh = call[c].sh /\ r.plan = call[c].plan
    BY <1>1, <2>1 DEF Locals
  <2>3. OutboundAllowed(call[c])
    BY <1>1, <1>4, NotRefused, DecisionType DEF OutboundAllowed
  <2>4. Goto(c, "respond", r)
    BY <1>4
  <2> HIDE DEF r
  <2>5. /\ ScopesHeld(r) /\ InputsClean(r) /\ PolicyHeld(r) /\ InputsKept(r)
        /\ InboundAllowed(r) /\ OutboundAllowed(r) /\ Masked(r.outputs, r)
    BY <1>2, <2>1, <2>2, <2>3 DEF ScopesHeld, InputsClean, PolicyHeld, InputsKept,
       InboundAllowed, OutboundAllowed, Masked
  <2>6. Good("respond", r)
    BY <1>2, <2>2, <2>5 DEF Good, Checked, Early, Late, ClientErrors
  <2>7. QED
    BY <1>1, <2>2, <2>4, <2>6 DEF Moves, PCs
<1>5. QED
  BY <1>3, <1>4 DEF Outbound

LEMMA RespondMoves ==
  ASSUME RunnerInv, NEW c \in Calls, Respond(c)
  PROVE  Moves(c)
<1> DEFINE outputs == call[c].outputs
           rest    == call[c].req.via = "rest"
           lifted  == IF rest THEN Lifted(outputs) ELSE {}
           errs    == IF rest THEN SplitError(outputs) ELSE {}
           body    == [f \in Fields |-> IF f \in lifted THEN "absent" ELSE outputs[f]]
           headers == [f \in Fields |-> IF f \in lifted /\ HasValue(outputs[f])
                                        THEN outputs[f] ELSE "absent"]
           reply   == [err |-> "none", body |-> body, headers |-> headers]
           r       == [call[c] EXCEPT !.reply = reply]
<1>1. /\ Good("respond", call[c]) /\ call[c] \in Locals /\ UNCHANGED revs
      /\ call[c].sh <= revs.sh /\ call[c].plan <= revs.plan
  BY DEF Respond, RunnerInv
<1>2. /\ ScopesHeld(call[c]) /\ InputsClean(call[c]) /\ PolicyHeld(call[c])
      /\ InputsKept(call[c]) /\ InboundAllowed(call[c]) /\ OutboundAllowed(call[c])
      /\ Masked(outputs, call[c])
  BY <1>1 DEF Good, Checked, Late
<1>3. ASSUME NEW err \in errs, Fail(c, err)
      PROVE  Moves(c)
  <2>1. err = "ErrInternal"
    BY <1>3 DEF SplitError
  <2>2. QED
    BY <1>1, <1>3, <2>1, FailMoves DEF ClientErrors
<1>4. CASE errs = {} /\ Goto(c, "replied", r)
  <2>1. body \in Outputs /\ headers \in Outputs /\ outputs \in Outputs
    BY <1>1 DEF Locals, Outputs, Values
  <2>2. reply \in Reply
    BY <2>1 DEF Reply
  <2>3. /\ r \in Locals /\ r.req = call[c].req /\ r.inputs = call[c].inputs
        /\ r.ran = call[c].ran /\ r.reply = reply
        /\ r.sh = call[c].sh /\ r.plan = call[c].plan
    BY <1>1, <2>2 DEF Locals
  <2>4. ASSUME rest
        PROVE  /\ \A f \in RequiredHeaders : HasValue(headers[f])
               /\ \A f \in Fields : headers[f] = "absent" \/ body[f] = "absent"
    <3>1. \A f \in RequiredHeaders : HasValue(outputs[f])
      BY <1>4, <2>4 DEF SplitError
    <3>2. \A f \in RequiredHeaders : f \in lifted /\ f \in Fields
      BY <2>4, <3>1, RunnerConstantsOK DEF Lifted, HasValue
    <3>3. QED
      BY <3>1, <3>2
  <2>5. Masked(body, call[c]) /\ Masked(headers, call[c])
    <3>1. \A f \in Fields : /\ body[f] \in {"absent", outputs[f]}
                            /\ headers[f] \in {"absent", outputs[f]}
      OBVIOUS
    <3>2. QED
      BY <1>2, <3>1, RunnerConstantsOK DEF Masked
  <2>6. reply.err = "none" /\ reply.body = body /\ reply.headers = headers
    OBVIOUS
  <2> HIDE DEF r, reply, body, headers
  <2>7. HeadersOK(r) /\ Masked(r.reply.body, r) /\ Masked(r.reply.headers, r)
    BY <2>3, <2>4, <2>5, <2>6 DEF HeadersOK, Masked
  <2>8. /\ ScopesHeld(r) /\ InputsClean(r) /\ PolicyHeld(r) /\ InputsKept(r)
        /\ InboundAllowed(r) /\ OutboundAllowed(r)
    BY <1>2, <2>3 DEF ScopesHeld, InputsClean, PolicyHeld, InputsKept, InboundAllowed,
       OutboundAllowed
  <2>9. Good("replied", r)
    BY <2>3, <2>6, <2>7, <2>8 DEF Good, Checked, Early, Late, ClientErrors
  <2>10. QED
    BY <1>1, <1>4, <2>3, <2>9 DEF Moves, PCs
<1>5. QED
  BY <1>3, <1>4 DEF Respond

LEMMA NoCallGood == Good("idle", NoCall) /\ NoCall.sh = 0 /\ NoCall.plan = 0
  BY DEF Good, NoCall, NoReply, Checked, Early, Late, ClientErrors

LEMMA ForgetMoves ==
  ASSUME RunnerInv, NEW c \in Calls, Forget(c)
  PROVE  Moves(c)
<1>1. 0 <= revs.sh /\ 0 <= revs.plan
  BY DEF RunnerInv, RevsOK
<1>2. QED
  BY <1>1, NoCallGood, NoCallType DEF Forget, Moves, PCs

-----------------------------------------------------------------------------
(* The invariant. *)

LEMMA RunnerInit == Init => RunnerInv
<1> SUFFICES ASSUME Init PROVE RunnerInv
  OBVIOUS
<1>1. RevsOK
  BY Policies, RunnerConstantsOK DEF Init, RevsOK
<1>2. pc \in [Calls -> PCs] /\ call \in [Calls -> Locals]
  BY NoCallType DEF Init, PCs
<1>3. \A c \in Calls : /\ Good(pc[c], call[c])
                      /\ call[c].sh <= revs.sh /\ call[c].plan <= revs.plan
  <2>1. revs.sh = 1 /\ revs.plan = 1
    BY DEF Init
  <2>2. \A c \in Calls : pc[c] = "idle" /\ call[c] = NoCall
    BY DEF Init
  <2>3. \A c \in Calls : Good(pc[c], call[c])
    BY <2>2, NoCallGood
  <2>4. \A c \in Calls : call[c].sh = 0 /\ call[c].plan = 0
    BY <2>2, NoCallGood
  <2>5. \A c \in Calls : call[c].sh <= revs.sh /\ call[c].plan <= revs.plan
    <3>1. \A i, j \in Nat : i = 0 => i <= j
      OBVIOUS
    <3>2. QED
      BY <2>1, <2>4, <3>1
  <2>6. QED
    BY <2>3, <2>5
<1>4. QED
  BY <1>1, <1>2, <1>3 DEF RunnerInv

\* Replacing a policy leaves what every call holds.
LEMMA ReplaceKeeps ==
  ASSUME RunnerInv, ReplaceShared \/ ReplacePlan
  PROVE  RunnerInv'
<1>1. /\ RevsOK' /\ revs.sh <= revs'.sh /\ revs.plan <= revs'.plan
      /\ UNCHANGED <<pc, call>>
  BY Policies DEF RunnerInv, RevsOK, ReplaceShared, ReplacePlan
<1>2. ASSUME NEW c \in Calls
      PROVE  (Good(pc[c], call[c]) /\ call[c].sh <= revs.sh /\ call[c].plan <= revs.plan)'
  <2>1. /\ Good(pc[c], call[c]) /\ call[c] \in Locals
        /\ call[c].sh <= revs.sh /\ call[c].plan <= revs.plan
    BY DEF RunnerInv
  <2>2. call[c].sh <= revs'.sh /\ call[c].plan <= revs'.plan
    BY <1>1, <2>1, Policies DEF Locals, RunnerInv, RevsOK
  <2>3. QED
    BY <1>1, <2>1, <2>2 DEF Good, ScopesHeld, InputsClean, InputsKept, PolicyHeld,
       InboundAllowed, OutboundAllowed, Masked, HeadersOK
<1>3. QED
  BY <1>1, <1>2 DEF RunnerInv

LEMMA RunnerStep == RunnerInv /\ [Next]_runnerVars => RunnerInv'
<1> SUFFICES ASSUME RunnerInv, [Next]_runnerVars PROVE RunnerInv'
  OBVIOUS
<1>1. CASE ReplaceShared \/ ReplacePlan
  BY <1>1, ReplaceKeeps
<1>2. ASSUME NEW c \in Calls, Step(c)
      PROVE  RunnerInv'
  <2>1. Moves(c)
    BY <1>2, ArriveMoves, EnrichMoves, MatchPlanMoves, AdmitMoves, SecretsMoves,
       GetPolicyMoves, InboundMoves, RunWorkflowMoves, OutboundMoves, RespondMoves,
       ForgetMoves DEF Step
  <2>2. QED
    BY <2>1, MovesKeep
<1>3. CASE UNCHANGED runnerVars
  BY <1>3 DEF runnerVars, RunnerInv, RevsOK, Good, ScopesHeld, InputsClean, InputsKept,
     PolicyHeld, InboundAllowed, OutboundAllowed, Masked, HeadersOK
<1>4. QED
  BY <1>1, <1>2, <1>3 DEF Next

\* The invariant holds in every state of the program (runner.go:64-194).
THEOREM RunnerInvHolds == Spec => []RunnerInv
  BY RunnerInit, RunnerStep, PTL DEF Spec

-----------------------------------------------------------------------------
(* What follows from it. *)
\* Revisions, inputs, outputs and replies keep their types (runner.go:64-194).
THEOREM RunnerTypeCorrect == Spec => []RunnerTypeOK
<1>1. RunnerInv => RunnerTypeOK
  <2> SUFFICES ASSUME RunnerInv PROVE RunnerTypeOK
    OBVIOUS
  <2>1. /\ revs.sh \in 1 .. Len(SharedPolicies) /\ revs.plan \in 1 .. Len(PlanPolicies)
    BY DEF RunnerInv, RevsOK
  <2>2. ASSUME NEW c \in Calls
        PROVE  /\ call[c].inputs \in [Keys -> Origins]
               /\ call[c].outputs \in [Fields -> Values]
               /\ call[c].sh \in 0 .. revs.sh /\ call[c].plan \in 0 .. revs.plan
               /\ call[c].reply.err \in Errors \cup {"none"}
               /\ call[c].reply.body \in [Fields -> Values]
               /\ call[c].reply.headers \in [Fields -> Values]
    <3>1. call[c] \in Locals /\ call[c].sh <= revs.sh /\ call[c].plan <= revs.plan
      BY DEF RunnerInv
    <3>2. call[c].sh \in 0 .. revs.sh /\ call[c].plan \in 0 .. revs.plan
      BY <2>1, <3>1, Policies DEF Locals
    <3>3. QED
      BY <3>1, <3>2 DEF Locals, Inputs, Outputs, Reply
  <2>3. QED
    BY <2>1, <2>2 DEF RunnerTypeOK
<1>2. QED
  BY <1>1, RunnerInvHolds, PTL

\* No workflow runs for a caller without the scopes, or past a policy that does
\* not allow it, whatever is replaced meanwhile (runner.go:121-163).
THEOREM GatedHolds == Spec => []Gated
<1>1. RunnerInv => Gated
  BY DEF RunnerInv, Good, ScopesHeld, PolicyHeld, InboundAllowed, Gated
<1>2. QED
  BY <1>1, RunnerInvHolds, PTL

\* What a workflow runs on comes from where it should (runner.go:125-163).
THEOREM InputOriginsHolds == Spec => []InputOrigins
<1>1. RunnerInv => InputOrigins
  BY DEF RunnerInv, Good, InputsClean, InputOrigins
<1>2. QED
  BY <1>1, RunnerInvHolds, PTL

\* Each key that the caller sent is used as sent, or the call is refused
\* (runner.go:133-138, bind.go:46-55).
THEOREM NothingDroppedHolds == Spec => []NothingDropped
<1>1. RunnerInv => NothingDropped
  BY DEF RunnerInv, Good, InputsKept, NothingDropped
<1>2. QED
  BY <1>1, RunnerInvHolds, PTL

\* A call that is told it was wrong started no workflow, and asked for no
\* secrets unless only the executor is missing (public.go:29-58).
THEOREM RefusedWithoutEffectHolds == Spec => []RefusedWithoutEffect
<1>1. RunnerInv => RefusedWithoutEffect
  BY DEF RunnerInv, Good, ClientErrors, RefusedWithoutEffect
<1>2. QED
  BY <1>1, RunnerInvHolds, PTL

\* Outputs in a successful reply passed the outbound policy of the revisions
\* that admitted the call, and are masked as it says (runner.go:179-191,
\* plans.go:125-143).
THEOREM OutputsVettedHolds == Spec => []OutputsVetted
<1>1. RunnerInv => OutputsVetted
  BY DEF RunnerInv, Good, OutboundAllowed, Masked, OutputsVetted
<1>2. QED
  BY <1>1, RunnerInvHolds, PTL

\* A successful REST reply has its required headers and sends nothing twice
\* (bind.go:84-120).
THEOREM HeadersCompleteHolds == Spec => []HeadersComplete
<1>1. RunnerInv => HeadersComplete
  BY DEF RunnerInv, Good, HeadersOK, HeadersComplete
<1>2. QED
  BY <1>1, RunnerInvHolds, PTL
=============================================================================
