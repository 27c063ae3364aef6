---------------------------- MODULE PolicyCache ----------------------------
(***************************************************************************)
(* PolicyCache of internal/plans/policy.go: two TTL caches, one for the    *)
(* shared modules and one for plan bundles, where loading a plan bundle    *)
(* calls Get on the shared cache (policy.go:103-122) and every get first   *)
(* calls Get on the shared cache itself (policy.go:150-167).               *)
(*                                                                         *)
(* A compiled shared policy is the source revision it was compiled from;   *)
(* a compiled plan is a pair of the revision of the plan's bundle and the  *)
(* revision of the shared libraries compiled into it.  Revision 0 stands   *)
(* for the zero value.  seen and the fields at and floor of a call are     *)
(* history: no guard of the code reads them.                               *)
(***************************************************************************)
EXTENDS Integers, Sequences

CONSTANTS
    Callers, Plans, Flights, NoFlight, NoKey,
    SharedKey,      \* sharedCacheKey
    SharedRevs,     \* revisions of the shared policy, 1 .. n
    PlanRevs,       \* revisions of a plan's bundle, 1 .. n
    EmptyShared,    \* shared revisions without modules (compiledShared.hasContent)
    EmptyPlans,     \* plan revisions without modules (compiledPolicy.hasModules)
    HasShared,      \* the loader implements SharedPolicySource (policy.go:102)
    TTL, MaxTime,
    LoadsMayFail,   \* a load or a compilation may return an error
    LoadsMayPanic,  \* the embedder's loader may panic
    PromptLoads     \* a load takes less than a tick of the clock

ASSUME PolicyConstantsOK ==
    /\ 1 \in SharedRevs /\ SharedRevs \subseteq Nat \ {0}
    /\ 1 \in PlanRevs /\ PlanRevs \subseteq Nat \ {0}
    /\ EmptyShared \subseteq SharedRevs
    /\ EmptyPlans \subseteq PlanRevs
    /\ HasShared \in BOOLEAN
    /\ LoadsMayFail \in BOOLEAN
    /\ LoadsMayPanic \in BOOLEAN
    /\ PromptLoads \in BOOLEAN
    /\ NoFlight \notin Flights
    /\ NoKey \notin Plans \cup {SharedKey}
    /\ TTL \in Nat
    /\ MaxTime \in Nat

Compiled == [plan : PlanRevs, libs : SharedRevs \cup {0}]
NoPlan   == [plan |-> 0, libs |-> 0]    \* compiledPolicy{}

VARIABLES
    now,
    sEntries, sInflight, sFlights, sFrame,  \* PolicyCache.shared
    pEntries, pInflight, pFlights, pFrame,  \* PolicyCache.cache
    sharedBorn, planBorn,   \* when each revision of the sources became current
    stage,                  \* where a caller is in get
    call,                   \* the locals of get, and what it returned
    seen                    \* the newest revisions any get has returned

sVars == <<sEntries, sInflight, sFlights, sFrame>>
pVars == <<pEntries, pInflight, pFlights, pFrame>>
sources == <<sharedBorn, planBorn>>
policyVars == <<now, sVars, pVars, sources, stage, call, seen>>

Shared == INSTANCE TTLCache WITH
    Keys <- {SharedKey}, Val <- SharedRevs, Zero <- 0,
    entries <- sEntries, inflight <- sInflight, flights <- sFlights, frame <- sFrame

Plan == INSTANCE TTLCache WITH
    Keys <- Plans, Val <- Compiled, Zero <- NoPlan,
    entries <- pEntries, inflight <- pInflight, flights <- pFlights, frame <- pFrame

-----------------------------------------------------------------------------
Outcomes == {"none", "ok", "ErrPolicyLoad", "panic"}

\* key: the plan; sh: the shared policy get goes on with; bundle: what
\* loader.Load returned to the load function; read: what LoadShared returned.
NoCall == [key |-> NoKey, sh |-> 0, bundle |-> 0, read |-> 0,
           at |-> 0, floor |-> [sh |-> 0, plan |-> 0, libs |-> 0],
           outcome |-> "none", swallowed |-> FALSE, got |-> NoPlan]

CurrentShared == Len(sharedBorn)
CurrentPlan(k) == Len(planBorn[k])

Init ==
    /\ now = 0
    /\ Shared!CacheInit
    /\ Plan!CacheInit
    /\ sharedBorn = <<0>>
    /\ planBorn = [k \in Plans |-> <<0>>]
    /\ stage = [p \in Callers |-> "idle"]
    /\ call = [p \in Callers |-> NoCall]
    /\ seen = [k \in Plans |-> [sh |-> 0, plan |-> 0, libs |-> 0]]

ChangeShared ==
    /\ CurrentShared + 1 \in SharedRevs
    /\ sharedBorn' = Append(sharedBorn, now)
    /\ UNCHANGED <<now, sVars, pVars, planBorn, stage, call, seen>>

ChangePlan(k) ==
    /\ CurrentPlan(k) + 1 \in PlanRevs
    /\ planBorn' = [planBorn EXCEPT ![k] = Append(@, now)]
    /\ UNCHANGED <<now, sVars, pVars, sharedBorn, stage, call, seen>>

-----------------------------------------------------------------------------
(* The Gets of the two caches advance by themselves, except where they call *)
(* their load function.                                                     *)

SharedGoesOn(p) ==
    /\ Shared!Enter(p) \/ Shared!Store(p) \/ Shared!Publish(p) \/ Shared!Clear(p)
         \/ Shared!Wake(p)
    /\ UNCHANGED <<now, pVars, sources, stage, call, seen>>

PlanGoesOn(p) ==
    /\ Plan!Enter(p) \/ Plan!Store(p) \/ Plan!Publish(p) \/ Plan!Clear(p)
         \/ Plan!Wake(p)
    /\ UNCHANGED <<now, sVars, sources, stage, call, seen>>

(* The load function of the shared cache: LoadShared, then compileShared. *)
LoadShared(p) ==
    /\ sFrame[p].pc = "load"
    /\ call[p].read = 0
    /\ call' = [call EXCEPT ![p].read = CurrentShared]
    /\ UNCHANGED <<now, sVars, pVars, sources, stage, seen>>

CompileShared(p) ==
    /\ sFrame[p].pc = "load"
    /\ \/ (call[p].read # 0 /\ Shared!LoadOK(p, call[p].read))
       \/ (LoadsMayFail /\ Shared!LoadErr(p))
       \/ Shared!LoadPanic(p)
    /\ call' = [call EXCEPT ![p].read = 0]
    /\ UNCHANGED <<now, pVars, sources, stage, seen>>

-----------------------------------------------------------------------------
(* getShared: called at the start of get (stage "shared") and by the load   *)
(* function of the plan cache (stage "libs").                               *)

\* Mutant of SharedUsable: the error is only logged.
SharedUsableAlways(out) == out.err # "panic"

SharedUsable(out) ==
    \/ out.err = "nil"
    \/ /\ out.err = "error"
       /\ out.val # 0
       /\ out.val \notin EmptyShared

CallShared(p) ==
    IF HasShared THEN Shared!Call(p, SharedKey) ELSE UNCHANGED sVars

\* What getShared returned, once its cache.Get is over.
SharedReturned(p) ==
    IF HasShared THEN sFrame[p].pc = "returned" ELSE TRUE
SharedOut(p) ==
    IF HasShared THEN sFrame[p].out ELSE [val |-> 0, err |-> "nil"]
LeaveShared(p) ==
    IF HasShared THEN Shared!Return(p) ELSE UNCHANGED sVars

Get(p, k) ==
    /\ stage[p] = "idle"
    /\ CallShared(p)
    /\ stage' = [stage EXCEPT ![p] = "shared"]
    /\ call' = [call EXCEPT ![p] =
                  [NoCall EXCEPT !.key = k, !.at = now, !.floor = seen[k]]]
    /\ UNCHANGED <<now, pVars, sources, seen>>

SharedForGet(p) ==
    /\ stage[p] = "shared"
    /\ SharedReturned(p)
    /\ LeaveShared(p)
    /\ LET out == SharedOut(p) IN
         \/ /\ SharedUsable(out)
            /\ Plan!Call(p, call[p].key)
            /\ call' = [call EXCEPT ![p].sh = out.val]
            /\ stage' = [stage EXCEPT ![p] = "plan"]
         \/ /\ ~SharedUsable(out)
            /\ call' = [call EXCEPT ![p].outcome =
                          IF out.err = "panic" THEN "panic" ELSE "ErrPolicyLoad"]
            /\ stage' = [stage EXCEPT ![p] = "done"]
            /\ UNCHANGED pVars
    /\ UNCHANGED <<now, sources, seen>>

(* The load function of the plan cache: loader.Load, getShared, compilePlan. *)
LoadBundle(p) ==
    /\ stage[p] = "plan"
    /\ pFrame[p].pc = "load"
    /\ call' = [call EXCEPT ![p].bundle = CurrentPlan(call[p].key)]
    /\ stage' = [stage EXCEPT ![p] = "libs"]
    /\ CallShared(p)
    /\ UNCHANGED <<now, pVars, sources, seen>>

LoadBundleFails(p) ==
    /\ stage[p] = "plan"
    /\ \/ (LoadsMayFail /\ Plan!LoadErr(p))
       \/ Plan!LoadPanic(p)
    /\ UNCHANGED <<now, sVars, sources, stage, call, seen>>

\* compilePlan of a bundle without modules returns before it looks at the libs.
CompilePlan(bundle, libs) ==
    [plan |-> bundle, libs |-> IF bundle \in EmptyPlans THEN 0 ELSE libs]

LibsForPlan(p) ==
    /\ stage[p] = "libs"
    /\ SharedReturned(p)
    /\ LeaveShared(p)
    /\ LET out == SharedOut(p) IN
         \/ (SharedUsable(out) /\ Plan!LoadOK(p, CompilePlan(call[p].bundle, out.val)))
         \/ (SharedUsable(out) /\ LoadsMayFail /\ Plan!LoadErr(p))
         \/ (~SharedUsable(out) /\ out.err = "error" /\ Plan!LoadErr(p))
         \/ (out.err = "panic" /\ Plan!LoadPanic(p))
    /\ call' = [call EXCEPT ![p].bundle = 0]
    /\ stage' = [stage EXCEPT ![p] = "plan"]
    /\ UNCHANGED <<now, sources, seen>>

Later(a, b) == IF a > b THEN a ELSE b

\* Mutant of PlanUsable: a failed load without a cached bundle is only logged.
PlanUsableAlways(out) == out.err # "panic"

\* cp.loaded is only looked at when the cache reports an error.
PlanUsable(out) == out.err = "nil" \/ (out.err = "error" /\ out.val # NoPlan)

GetReturns(p) ==
    /\ stage[p] = "plan"
    /\ pFrame[p].pc = "returned"
    /\ Plan!Return(p)
    /\ stage' = [stage EXCEPT ![p] = "done"]
    /\ LET out == pFrame[p].out
           k   == call[p].key
       IN \/ /\ PlanUsable(out)
             /\ call' = [call EXCEPT ![p] = [@ EXCEPT !.outcome = "ok",
                                                      !.got = out.val,
                                                      !.swallowed = (out.err = "error")]]
             /\ seen' = [seen EXCEPT ![k] =
                           [sh   |-> Later(@.sh, call[p].sh),
                            plan |-> Later(@.plan, out.val.plan),
                            libs |-> Later(@.libs, out.val.libs)]]
          \/ /\ ~PlanUsable(out)
             /\ call' = [call EXCEPT ![p].outcome =
                           IF out.err = "panic" THEN "panic" ELSE "ErrPolicyLoad"]
             /\ UNCHANGED seen
    /\ UNCHANGED <<now, sVars, sources>>

\* The Runner has used the result.
Forget(p) ==
    /\ stage[p] = "done"
    /\ stage' = [stage EXCEPT ![p] = "idle"]
    /\ call' = [call EXCEPT ![p] = NoCall]
    /\ UNCHANGED <<now, sVars, pVars, sources, seen>>

Passes ==
    /\ now < MaxTime
    /\ PromptLoads => \A p \in Callers : /\ sFrame[p].pc \notin Shared!Leading
                                         /\ pFrame[p].pc \notin Plan!Leading
    /\ now' = now + 1
    /\ UNCHANGED <<sVars, pVars, sources, stage, call, seen>>

-----------------------------------------------------------------------------
\* Everything a caller does by itself once it is in get.
GoesOn(p) ==
    \/ SharedGoesOn(p) \/ PlanGoesOn(p)
    \/ LoadShared(p) \/ CompileShared(p)
    \/ SharedForGet(p)
    \/ LoadBundle(p) \/ LoadBundleFails(p) \/ LibsForPlan(p)
    \/ GetReturns(p)

Next ==
    \/ Passes
    \/ ChangeShared
    \/ \E k \in Plans : ChangePlan(k)
    \/ \E p \in Callers : (\E k \in Plans : Get(p, k)) \/ GoesOn(p) \/ Forget(p)

Spec == Init /\ [][Next]_policyVars

-----------------------------------------------------------------------------
\* "ErrPolicyLoad is returned when a policy bundle cannot be loaded or compiled
\* and no usable cached bundle exists" (policy.go:35-37): a get that reports
\* success has a shared policy and a plan bundle that the sources did hold,
\* never a zero value, whoever led the flights it was served by.
FailClosed ==
    \A p \in Callers :
        call[p].outcome = "ok" =>
            /\ HasShared => call[p].sh # 0
            /\ call[p].got # NoPlan
            /\ HasShared /\ call[p].got.plan \notin EmptyPlans => call[p].got.libs # 0

\* Policies never go back: a get never returns an older shared policy, an
\* older plan bundle, or a bundle compiled against older libraries, than a
\* get of the same plan had returned before it was called (policy.go:150-167).
PoliciesAdvance ==
    \A p \in Callers :
        LET c == call[p] IN
        c.outcome = "ok" =>
            /\ c.sh >= c.floor.sh
            /\ c.got.plan >= c.floor.plan
            /\ c.got.plan \notin EmptyPlans => c.got.libs >= c.floor.libs

\* How long after its replacement a shared policy may still be used when loads
\* do not fail and take no time: TTL bounds the shared modules, but libraries
\* are cached twice, inside the shared cache when a plan is compiled and inside
\* the plan's entry afterwards (policy.go:117-121).  (Zero values are no
\* revisions: FailClosed is about them; a plan's own bundle ages as in
\* CachedSource.)
UpToDate(born, rev, t) == rev \in 1 .. Len(born) - 1 => born[rev + 1] >= t

Age == IF TTL > 0 THEN TTL - 1 ELSE 0

BoundedPolicyAge ==
    \A p \in Callers :
        LET c == call[p] IN
        c.outcome = "ok" =>
            /\ UpToDate(sharedBorn, c.sh, c.at - Age)
            /\ UpToDate(sharedBorn, c.got.libs, c.at - 2 * Age)

\* The goroutine that p waits for in f.wg.Wait().
WaitsFor(p, q) ==
    \/ /\ sFrame[p].pc = "wait" /\ ~sFlights[sFrame[p].ptr].done
       /\ sFrame[q].pc \in Shared!Leading \ {"clear"} /\ sFrame[q].ptr = sFrame[p].ptr
    \/ /\ pFrame[p].pc = "wait" /\ ~pFlights[pFrame[p].ptr].done
       /\ pFrame[q].pc \in Plan!Leading \ {"clear"} /\ pFrame[q].ptr = pFrame[p].ptr

Blocked(p) ==
    \/ sFrame[p].pc = "wait" /\ ~sFlights[sFrame[p].ptr].done
    \/ pFrame[p].pc = "wait" /\ ~pFlights[pFrame[p].ptr].done

\* The nested Gets cannot deadlock: a goroutine that leads a plan's flight may
\* wait for the shared flight, never the other way round, and a flight is
\* finished whatever its load did (policy.go:117, 151, 155).  In every group of
\* goroutines one is not blocked, or waits for one outside the group.
NoCircularWait ==
    \A group \in SUBSET Callers :
        group # {} => \E p \in group : \/ ~Blocked(p)
                                       \/ \E q \in Callers \ group : WaitsFor(p, q)
=============================================================================
