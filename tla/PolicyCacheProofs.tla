------------------------- MODULE PolicyCacheProofs -------------------------
(***************************************************************************)
(* Proofs about PolicyCache, for any number of callers, plans, flights and *)
(* revisions.  Each of its two caches is a TTLCache, so what is proved of  *)
(* TTLCache holds of both; a plan's cache is moreover one whose Loads      *)
(* return only bundles with libraries, as long as no load panics.          *)
(***************************************************************************)
EXTENDS PolicyCache, TLAPS

\* The bundles that compilePlan makes.
Sound == {c \in Compiled : HasShared /\ ~LoadsMayPanic /\ c.plan \notin EmptyPlans => c.libs # 0}

\* (The sources and the history that CachedSource adds are of no concern here.)
SC == INSTANCE TTLCacheProofs WITH
    Keys <- {SharedKey}, Val <- SharedRevs, Zero <- 0, MaxFlight <- 0,
    entries <- sEntries, inflight <- sInflight, flights <- sFlights, frame <- sFrame,
    born <- sharedBorn, read <- call, asked <- call, seen <- seen

PC == INSTANCE TTLCacheProofs WITH
    Keys <- Plans, Val <- Sound, Zero <- NoPlan, MaxFlight <- 0,
    entries <- pEntries, inflight <- pInflight, flights <- pFlights, frame <- pFrame,
    born <- planBorn, read <- call, asked <- call, seen <- seen

-----------------------------------------------------------------------------
\* The steps of the two caches, under the names of PolicyCache and of the proofs.
LEMMA SharedSame ==
  ASSUME NEW p
  PROVE  /\ \A k : Shared!Call(p, k) <=> SC!Call(p, k)
         /\ Shared!Enter(p) <=> SC!Enter(p)
         /\ \A v : Shared!LoadOK(p, v) <=> SC!LoadOK(p, v)
         /\ Shared!LoadErr(p) <=> SC!LoadErr(p)
         /\ Shared!LoadPanic(p) <=> SC!LoadPanic(p)
         /\ Shared!Store(p) <=> SC!Store(p)
         /\ Shared!Publish(p) <=> SC!Publish(p)
         /\ Shared!Clear(p) <=> SC!Clear(p)
         /\ Shared!Wake(p) <=> SC!Wake(p)
         /\ Shared!Return(p) <=> SC!Return(p)
         /\ Shared!Leading = SC!Leading
         /\ Shared!CacheInit <=> SC!CacheInit
<1>1. \A k : Shared!Call(p, k) <=> SC!Call(p, k)
  BY DEF Shared!Call, SC!Call, Shared!IdleFrame, SC!IdleFrame, Shared!NoEntry, SC!NoEntry,
     Shared!NoResult, SC!NoResult
<1>2. Shared!Enter(p) <=> SC!Enter(p)
  BY DEF Shared!Enter, SC!Enter, Shared!Hit, SC!Hit, Shared!Join, SC!Join, Shared!Lead, SC!Lead,
     Shared!Fresh, SC!Fresh, Shared!InUse, SC!InUse, Shared!NewFlight, SC!NewFlight
<1>3. \A v : Shared!LoadOK(p, v) <=> SC!LoadOK(p, v)
  BY DEF Shared!LoadOK, SC!LoadOK
<1>4. Shared!LoadErr(p) <=> SC!LoadErr(p)
  BY DEF Shared!LoadErr, SC!LoadErr, Shared!StaleVal, SC!StaleVal
<1>5. Shared!LoadPanic(p) <=> SC!LoadPanic(p)
  BY DEF Shared!LoadPanic, SC!LoadPanic
<1>6. Shared!Store(p) <=> SC!Store(p)
  BY DEF Shared!Store, SC!Store
<1>7. Shared!Publish(p) <=> SC!Publish(p)
  BY DEF Shared!Publish, SC!Publish, Shared!FlightResult, SC!FlightResult, Shared!NoResult,
     SC!NoResult
<1>8. Shared!Clear(p) <=> SC!Clear(p)
  BY DEF Shared!Clear, SC!Clear, Shared!Release, SC!Release, Shared!NewFlight, SC!NewFlight
<1>9. Shared!Wake(p) <=> SC!Wake(p)
  BY DEF Shared!Wake, SC!Wake, Shared!Release, SC!Release, Shared!NewFlight, SC!NewFlight
<1>10. Shared!Return(p) <=> SC!Return(p)
  BY DEF Shared!Return, SC!Return, Shared!IdleFrame, SC!IdleFrame, Shared!NoEntry, SC!NoEntry,
     Shared!NoResult, SC!NoResult
<1>11. Shared!CacheInit <=> SC!CacheInit
  BY DEF Shared!CacheInit, SC!CacheInit, Shared!IdleFrame, SC!IdleFrame, Shared!NoEntry,
     SC!NoEntry, Shared!NoResult, SC!NoResult, Shared!NewFlight, SC!NewFlight
<1>12. QED
  BY <1>1, <1>2, <1>3, <1>4, <1>5, <1>6, <1>7, <1>8, <1>9, <1>10, <1>11
  DEF Shared!Leading, SC!Leading

LEMMA PlanSame ==
  ASSUME NEW p
  PROVE  /\ \A k : Plan!Call(p, k) <=> PC!Call(p, k)
         /\ Plan!Enter(p) <=> PC!Enter(p)
         /\ \A v : Plan!LoadOK(p, v) <=> PC!LoadOK(p, v)
         /\ Plan!LoadErr(p) <=> PC!LoadErr(p)
         /\ Plan!LoadPanic(p) <=> PC!LoadPanic(p)
         /\ Plan!Store(p) <=> PC!Store(p)
         /\ Plan!Publish(p) <=> PC!Publish(p)
         /\ Plan!Clear(p) <=> PC!Clear(p)
         /\ Plan!Wake(p) <=> PC!Wake(p)
         /\ Plan!Return(p) <=> PC!Return(p)
         /\ Plan!Leading = PC!Leading
         /\ Plan!CacheInit <=> PC!CacheInit
<1>1. \A k : Plan!Call(p, k) <=> PC!Call(p, k)
  BY DEF Plan!Call, PC!Call, Plan!IdleFrame, PC!IdleFrame, Plan!NoEntry, PC!NoEntry,
     Plan!NoResult, PC!NoResult
<1>2. Plan!Enter(p) <=> PC!Enter(p)
  BY DEF Plan!Enter, PC!Enter, Plan!Hit, PC!Hit, Plan!Join, PC!Join, Plan!Lead, PC!Lead,
     Plan!Fresh, PC!Fresh, Plan!InUse, PC!InUse, Plan!NewFlight, PC!NewFlight
<1>3. \A v : Plan!LoadOK(p, v) <=> PC!LoadOK(p, v)
  BY DEF Plan!LoadOK, PC!LoadOK
<1>4. Plan!LoadErr(p) <=> PC!LoadErr(p)
  BY DEF Plan!LoadErr, PC!LoadErr, Plan!StaleVal, PC!StaleVal
<1>5. Plan!LoadPanic(p) <=> PC!LoadPanic(p)
  BY DEF Plan!LoadPanic, PC!LoadPanic
<1>6. Plan!Store(p) <=> PC!Store(p)
  BY DEF Plan!Store, PC!Store
<1>7. Plan!Publish(p) <=> PC!Publish(p)
  BY DEF Plan!Publish, PC!Publish, Plan!FlightResult, PC!FlightResult, Plan!NoResult,
     PC!NoResult
<1>8. Plan!Clear(p) <=> PC!Clear(p)
  BY DEF Plan!Clear, PC!Clear, Plan!Release, PC!Release, Plan!NewFlight, PC!NewFlight
<1>9. Plan!Wake(p) <=> PC!Wake(p)
  BY DEF Plan!Wake, PC!Wake, Plan!Release, PC!Release, Plan!NewFlight, PC!NewFlight
<1>10. Plan!Return(p) <=> PC!Return(p)
  BY DEF Plan!Return, PC!Return, Plan!IdleFrame, PC!IdleFrame, Plan!NoEntry, PC!NoEntry,
     Plan!NoResult, PC!NoResult
<1>11. Plan!CacheInit <=> PC!CacheInit
  BY DEF Plan!CacheInit, PC!CacheInit, Plan!IdleFrame, PC!IdleFrame, Plan!NoEntry,
     PC!NoEntry, Plan!NoResult, PC!NoResult, Plan!NewFlight, PC!NewFlight
<1>12. QED
  BY <1>1, <1>2, <1>3, <1>4, <1>5, <1>6, <1>7, <1>8, <1>9, <1>10, <1>11
  DEF Plan!Leading, PC!Leading

-----------------------------------------------------------------------------
\* Where a goroutine is in get, and in the Gets of the two caches it makes there:
\* at any time it is in at most one of them, except that it is in the shared
\* cache's Get while it loads a plan (policy.go:103-122, 150-167).
Inside(frame) == frame.pc # "idle"

StageOK(p) ==
    LET inShared == HasShared <=> Inside(sFrame[p]) IN
    /\ stage[p] \in {"idle", "done"} => ~Inside(sFrame[p]) /\ ~Inside(pFrame[p])
    /\ stage[p] = "shared" => inShared /\ ~Inside(pFrame[p])
    /\ stage[p] = "plan" => ~Inside(sFrame[p]) /\ Inside(pFrame[p])
    /\ stage[p] = "libs" => /\ inShared /\ pFrame[p].pc = "load"
                            /\ call[p].bundle \in PlanRevs
    /\ stage[p] # "idle" => call[p].key \in Plans
    /\ Inside(pFrame[p]) => pFrame[p].key = call[p].key

SharedVals == SharedRevs \cup {0}
PlanVals   == Sound \cup {NoPlan}

Stages == {"idle", "shared", "plan", "libs", "done"}

Floors == [sh : Nat, plan : Nat, libs : Nat]

CallRecord ==
    [key : Plans \cup {NoKey}, sh : SharedVals, bundle : PlanRevs \cup {0}, read : SharedVals,
     at : Nat, floor : Floors, outcome : Outcomes, swallowed : BOOLEAN, got : PlanVals]

\* Both sources have a current revision from the start.
SourcesOK ==
    /\ sharedBorn \in Seq(Nat) /\ CurrentShared \in SharedRevs
    /\ planBorn \in [Plans -> Seq(Nat)] /\ \A k \in Plans : CurrentPlan(k) \in PlanRevs

CallTypes ==
    /\ stage \in [Callers -> Stages]
    /\ call \in [Callers -> CallRecord]
    /\ seen \in [Plans -> Floors]

SharedInv == SC!FlightInv /\ SC!ResultInv /\ SC!ServeInv
PlanInv   == PC!FlightInv /\ PC!ResultInv /\ PC!ServeInv

PolicyInv == /\ SharedInv
             /\ PlanInv
             /\ SourcesOK
             /\ CallTypes
             /\ \A p \in Callers : StageOK(p)

LEMMA InstancesOK ==
  /\ SC!ConstantsOK /\ SC!SourceOK /\ PC!ConstantsOK /\ PC!SourceOK
  /\ NoPlan \notin Sound /\ Sound \subseteq Compiled
<1>1. NoPlan \notin Compiled
  BY PolicyConstantsOK DEF NoPlan, Compiled
<1>2. QED
  BY <1>1, PolicyConstantsOK DEF SC!ConstantsOK, SC!SourceOK, PC!ConstantsOK, PC!SourceOK, Sound

LEMMA TypesOfCaches ==
  ASSUME PolicyInv
  PROVE  /\ SC!TypeInv /\ PC!TypeInv
         /\ \A p \in Callers : sFrame[p].out.val \in SharedVals /\ pFrame[p].out.val \in PlanVals
<1>1. SC!TypeInv /\ PC!TypeInv
  BY DEF PolicyInv, SharedInv, PlanInv, SC!FlightInv, PC!FlightInv
<1>2. \A p \in Callers : sFrame[p].out.val \in SharedVals
  BY <1>1 DEF SC!TypeInv, SC!TypeOK, SC!Frame, SC!Result, SC!Values, SharedVals
<1>3. \A p \in Callers : pFrame[p].out.val \in PlanVals
  BY <1>1 DEF PC!TypeInv, PC!TypeOK, PC!Frame, PC!Result, PC!Values, PlanVals
<1>4. QED
  BY <1>1, <1>2, <1>3

\* What getShared returns (policy.go:124-148).
LEMMA SharedAnswer ==
  ASSUME PolicyInv, NEW p \in Callers, SharedReturned(p)
  PROVE  /\ SharedOut(p).val \in SharedVals
         /\ HasShared /\ ~LoadsMayPanic /\ SharedUsable(SharedOut(p)) => SharedOut(p).val # 0
<1>1. CASE HasShared
  <2>1. SharedOut(p) = sFrame[p].out /\ sFrame[p].pc = "returned"
    BY <1>1 DEF SharedOut, SharedReturned
  <2>2. ~LoadsMayPanic => SC!GoodResult(sFrame[p].out)
    BY <2>1 DEF PolicyInv, SharedInv, SC!ServeInv, SC!ResultsGood
  <2>3. QED
    BY <2>1, <2>2, TypesOfCaches, PolicyConstantsOK DEF SC!GoodResult, SharedUsable
<1>2. CASE ~HasShared
  BY <1>2 DEF SharedOut, SharedVals
<1>3. QED
  BY <1>1, <1>2

\* compilePlan makes a bundle without libraries only from one without modules.
LEMMA CompiledSound ==
  ASSUME PolicyInv, NEW p \in Callers, stage[p] = "libs", SharedReturned(p),
         SharedUsable(SharedOut(p))
  PROVE  CompilePlan(call[p].bundle, SharedOut(p).val) \in Sound
<1>1. call[p].bundle \in PlanRevs
  BY DEF PolicyInv, StageOK
<1>2. QED
  BY <1>1, SharedAnswer DEF CompilePlan, Sound, Compiled, SharedVals

LEMMA SharedMoves ==
  ASSUME PolicyInv, [Next]_policyVars
  PROVE  [SC!Next]_(SC!vars)
<1> DEFINE Goal == [SC!Next]_(SC!vars)
<1> USE DEF SC!Next, SC!Step, SC!LoadEnds, SC!Proceed
<1>k. UNCHANGED <<now, sVars>> => Goal
  BY DEF sVars, SC!vars
<1>c. ASSUME NEW p \in Callers, CallShared(p), UNCHANGED now PROVE Goal
  BY <1>c, <1>k, SharedSame DEF CallShared
<1>l. ASSUME NEW p \in Callers, LeaveShared(p), UNCHANGED now PROVE Goal
  BY <1>l, <1>k, SharedSame DEF LeaveShared
<1>1. ASSUME NEW p \in Callers, SharedGoesOn(p) PROVE Goal
  BY <1>1, SharedSame DEF SharedGoesOn
<1>2. ASSUME NEW p \in Callers, CompileShared(p) PROVE Goal
  <2>1. call[p].read \in SharedVals
    BY DEF PolicyInv, CallTypes, CallRecord
  <2>2. QED
    BY <1>2, <2>1, SharedSame DEF CompileShared, SharedVals
<1>3. ASSUME NEW p \in Callers, NEW k \in Plans, Get(p, k) PROVE Goal
  BY <1>3, <1>c DEF Get
<1>4. ASSUME NEW p \in Callers, SharedForGet(p) PROVE Goal
  BY <1>4, <1>l DEF SharedForGet
<1>5. ASSUME NEW p \in Callers, LoadBundle(p) PROVE Goal
  BY <1>5, <1>c DEF LoadBundle
<1>6. ASSUME NEW p \in Callers, LibsForPlan(p) PROVE Goal
  BY <1>6, <1>l DEF LibsForPlan
<1>7. CASE Passes
  BY <1>7 DEF Passes, SC!Tick, SC!cacheVars, sVars
<1>8. ASSUME NEW p \in Callers,
             PlanGoesOn(p) \/ LoadShared(p) \/ LoadBundleFails(p) \/ GetReturns(p) \/ Forget(p)
      PROVE  Goal
  BY <1>8, <1>k DEF PlanGoesOn, LoadShared, LoadBundleFails, GetReturns, Forget
<1>9. CASE ChangeShared \/ (\E k \in Plans : ChangePlan(k)) \/ UNCHANGED policyVars
  BY <1>9, <1>k DEF ChangeShared, ChangePlan, policyVars
<1>10. QED
  BY <1>1, <1>2, <1>3, <1>4, <1>5, <1>6, <1>7, <1>8, <1>9 DEF Next, GoesOn

LEMMA PlanMoves ==
  ASSUME PolicyInv, [Next]_policyVars
  PROVE  [PC!Next]_(PC!vars)
<1> DEFINE Goal == [PC!Next]_(PC!vars)
<1> USE DEF PC!Next, PC!Step, PC!LoadEnds, PC!Proceed
<1>k. UNCHANGED <<now, pVars>> => Goal
  BY DEF pVars, PC!vars
<1>1. ASSUME NEW p \in Callers, PlanGoesOn(p) PROVE Goal
  BY <1>1, PlanSame DEF PlanGoesOn
<1>2. ASSUME NEW p \in Callers, SharedForGet(p) PROVE Goal
  <2>1. call[p].key \in Plans
    BY <1>2 DEF SharedForGet, PolicyInv, StageOK
  <2>2. QED
    BY <1>2, <1>k, <2>1, PlanSame DEF SharedForGet
<1>3. ASSUME NEW p \in Callers, LoadBundleFails(p) PROVE Goal
  BY <1>3, PlanSame DEF LoadBundleFails
<1>4. ASSUME NEW p \in Callers, LibsForPlan(p) PROVE Goal
  BY <1>4, PlanSame, CompiledSound DEF LibsForPlan
<1>5. ASSUME NEW p \in Callers, GetReturns(p) PROVE Goal
  BY <1>5, PlanSame DEF GetReturns
<1>6. CASE Passes
  BY <1>6 DEF Passes, PC!Tick, PC!cacheVars, pVars
<1>7. ASSUME NEW p \in Callers,
             \/ SharedGoesOn(p) \/ LoadShared(p) \/ CompileShared(p) \/ LoadBundle(p)
             \/ Forget(p) \/ \E k \in Plans : Get(p, k)
      PROVE  Goal
  BY <1>7, <1>k DEF SharedGoesOn, LoadShared, CompileShared, LoadBundle, Forget, Get
<1>8. CASE ChangeShared \/ (\E k \in Plans : ChangePlan(k)) \/ UNCHANGED policyVars
  BY <1>8, <1>k DEF ChangeShared, ChangePlan, policyVars
<1>9. QED
  BY <1>1, <1>2, <1>3, <1>4, <1>5, <1>6, <1>7, <1>8 DEF Next, GoesOn

\* What the steps do to the frames of the two caches, from TTLCacheProofs.
LEMMA SharedFrames ==
  ASSUME PolicyInv, NEW p \in Callers
  PROVE  /\ SharedGoesOn(p) =>
              /\ SC!OnlyFrame(p) /\ sFrame[p].pc \notin {"idle", "load", "returned"}
              /\ Inside(sFrame'[p])
         /\ CompileShared(p) =>
              SC!OnlyFrame(p) /\ sFrame[p].pc = "load" /\ Inside(sFrame'[p])
         /\ CallShared(p) =>
              /\ SC!OnlyFrame(p)
              /\ HasShared => ~Inside(sFrame[p]) /\ Inside(sFrame'[p])
              /\ ~HasShared => sFrame' = sFrame
         /\ LeaveShared(p) =>
              /\ SC!OnlyFrame(p)
              /\ HasShared => sFrame[p].pc = "returned" /\ ~Inside(sFrame'[p])
              /\ ~HasShared => sFrame' = sFrame
<1> USE InstancesOK, TypesOfCaches, SharedSame DEF Inside
<1>1. SharedGoesOn(p) =>
        /\ SC!OnlyFrame(p) /\ sFrame[p].pc \notin {"idle", "load", "returned"}
        /\ Inside(sFrame'[p])
  BY SC!ProceedFrame DEF SharedGoesOn
<1>2. CompileShared(p) =>
        SC!OnlyFrame(p) /\ sFrame[p].pc = "load" /\ Inside(sFrame'[p])
  BY SC!LoadFrame DEF CompileShared
<1>3. CASE HasShared
  BY <1>1, <1>2, <1>3, SC!CallFrame, SC!ReturnFrame DEF CallShared, LeaveShared
<1>4. CASE ~HasShared
  BY <1>1, <1>2, <1>4 DEF CallShared, LeaveShared, sVars, SC!OnlyFrame
<1>5. QED
  BY <1>3, <1>4

LEMMA PlanFrames ==
  ASSUME PolicyInv, NEW p \in Callers
  PROVE  /\ PlanGoesOn(p) =>
              /\ PC!OnlyFrame(p) /\ pFrame[p].pc \notin {"idle", "load", "returned"}
              /\ Inside(pFrame'[p]) /\ pFrame'[p].key = pFrame[p].key
         /\ \A k : Plan!Call(p, k) =>
              /\ PC!OnlyFrame(p) /\ ~Inside(pFrame[p])
              /\ Inside(pFrame'[p]) /\ pFrame'[p].key = k
         /\ (\E v : Plan!LoadOK(p, v)) \/ Plan!LoadErr(p) \/ Plan!LoadPanic(p) =>
              /\ PC!OnlyFrame(p) /\ pFrame[p].pc = "load"
              /\ Inside(pFrame'[p]) /\ pFrame'[p].key = pFrame[p].key
         /\ Plan!Return(p) =>
              PC!OnlyFrame(p) /\ pFrame[p].pc = "returned" /\ ~Inside(pFrame'[p])
<1> USE InstancesOK, TypesOfCaches, PlanSame DEF Inside
<1>1. PlanGoesOn(p) =>
        /\ PC!OnlyFrame(p) /\ pFrame[p].pc \notin {"idle", "load", "returned"}
        /\ Inside(pFrame'[p]) /\ pFrame'[p].key = pFrame[p].key
  BY PC!ProceedFrame DEF PlanGoesOn
<1>2. \A k : Plan!Call(p, k) =>
        /\ PC!OnlyFrame(p) /\ ~Inside(pFrame[p])
        /\ Inside(pFrame'[p]) /\ pFrame'[p].key = k
  BY PC!CallFrame
<1>3. (\E v : Plan!LoadOK(p, v)) \/ Plan!LoadErr(p) \/ Plan!LoadPanic(p) =>
        /\ PC!OnlyFrame(p) /\ pFrame[p].pc = "load"
        /\ Inside(pFrame'[p]) /\ pFrame'[p].key = pFrame[p].key
  BY PC!LoadFrame
<1>4. Plan!Return(p) =>
        PC!OnlyFrame(p) /\ pFrame[p].pc = "returned" /\ ~Inside(pFrame'[p])
  BY PC!ReturnFrame
<1>5. QED
  BY <1>1, <1>2, <1>3, <1>4

LEMMA CallTypesStep ==
  ASSUME PolicyInv, [Next]_policyVars
  PROVE  CallTypes' /\ SourcesOK'
<1> DEFINE Goal == CallTypes' /\ SourcesOK'
<1>i. /\ CallTypes /\ SourcesOK /\ (\A p \in Callers : StageOK(p))
      /\ SC!TypeInv /\ PC!TypeInv /\ PC!TypeInv
  BY TypesOfCaches DEF PolicyInv
<1>s. ASSUME UNCHANGED sources, stage' \in [Callers -> Stages],
             call' \in [Callers -> CallRecord], seen' \in [Plans -> Floors]
      PROVE  Goal
  BY <1>i, <1>s DEF sources, SourcesOK, CurrentShared, CurrentPlan, CallTypes
<1> HIDE DEF Goal
<1>k. NoCall \in CallRecord
  BY DEF NoCall, CallRecord, Floors, SharedVals, PlanVals, Outcomes
<1>1. ASSUME NEW p \in Callers, NEW k \in Plans, Get(p, k) PROVE Goal
  <2>1. now \in Nat
    BY <1>i DEF SC!TypeInv, SC!TypeOK
  <2>2. [NoCall EXCEPT !.key = k, !.at = now, !.floor = seen[k]] \in CallRecord
    BY <1>i, <1>k, <2>1 DEF CallRecord, CallTypes
  <2>3. QED
    BY <1>1, <1>i, <1>s, <2>2 DEF Get, CallTypes, Stages
<1>2. ASSUME NEW p \in Callers, SharedForGet(p) PROVE Goal
  <2>1. SharedOut(p).val \in SharedVals
    BY <1>2, SharedAnswer DEF SharedForGet
  <2>2. call' \in [Callers -> CallRecord]
    BY <1>2, <1>i, <2>1 DEF SharedForGet, CallTypes, CallRecord, Outcomes
  <2>3. QED
    BY <1>2, <1>i, <1>s, <2>2 DEF SharedForGet, CallTypes, Stages
<1>3. ASSUME NEW p \in Callers, LoadShared(p) PROVE Goal
  <2>1. CurrentShared \in SharedVals
    BY <1>i DEF SourcesOK, SharedVals
  <2>2. call' \in [Callers -> CallRecord]
    BY <1>3, <1>i, <2>1 DEF LoadShared, CallTypes, CallRecord
  <2>3. QED
    BY <1>3, <1>i, <1>s, <2>2 DEF LoadShared, CallTypes
<1>4. ASSUME NEW p \in Callers, CompileShared(p) PROVE Goal
  <2>1. call' \in [Callers -> CallRecord]
    BY <1>4, <1>i DEF CompileShared, CallTypes, CallRecord, SharedVals
  <2>2. QED
    BY <1>4, <1>i, <1>s, <2>1 DEF CompileShared, CallTypes
<1>5. ASSUME NEW p \in Callers, LoadBundle(p) PROVE Goal
  <2>1. CurrentPlan(call[p].key) \in PlanRevs
    BY <1>5, <1>i DEF LoadBundle, StageOK, SourcesOK
  <2>2. call' \in [Callers -> CallRecord]
    BY <1>5, <1>i, <2>1 DEF LoadBundle, CallTypes, CallRecord
  <2>3. QED
    BY <1>5, <1>i, <1>s, <2>2 DEF LoadBundle, CallTypes, Stages
<1>6. ASSUME NEW p \in Callers, LibsForPlan(p) PROVE Goal
  <2>1. call' \in [Callers -> CallRecord]
    BY <1>6, <1>i DEF LibsForPlan, CallTypes, CallRecord
  <2>2. QED
    BY <1>6, <1>i, <1>s, <2>1 DEF LibsForPlan, CallTypes, Stages
<1>7. ASSUME NEW p \in Callers, GetReturns(p) PROVE Goal
  <2> DEFINE out == pFrame[p].out
             k == call[p].key
  <2>1. out.val \in PlanVals /\ k \in Plans
    BY <1>7, <1>i, TypesOfCaches DEF GetReturns, StageOK
  <2>2. out.val.plan \in Nat /\ out.val.libs \in Nat
    <3>1. \A c \in Compiled : c.plan \in Nat /\ c.libs \in Nat
      <4>1. PlanRevs \subseteq Nat /\ SharedRevs \cup {0} \subseteq Nat
        BY PolicyConstantsOK
      <4>2. \A c \in Compiled : c.plan \in PlanRevs /\ c.libs \in SharedRevs \cup {0}
        BY DEF Compiled
      <4>3. QED
        BY <4>1, <4>2
    <3>2. NoPlan.plan \in Nat /\ NoPlan.libs \in Nat
      BY DEF NoPlan
    <3>3. QED
      BY <2>1, <3>1, <3>2, InstancesOK DEF PlanVals
  <2>3. call' \in [Callers -> CallRecord]
    <3>1. [call[p] EXCEPT !.outcome = "ok", !.got = out.val, !.swallowed = (out.err = "error")]
            \in CallRecord
      BY <1>i, <2>1 DEF CallTypes, CallRecord, Outcomes
    <3>2. \A o \in {"panic", "ErrPolicyLoad"} : [call[p] EXCEPT !.outcome = o] \in CallRecord
      BY <1>i DEF CallTypes, CallRecord, Outcomes
    <3>3. QED
      BY <1>7, <1>i, <3>1, <3>2 DEF GetReturns, CallTypes
  <2>4. call[p].sh \in Nat
    <3>1. SharedVals \subseteq Nat
      BY PolicyConstantsOK DEF SharedVals
    <3>2. QED
      BY <1>i, <3>1 DEF CallTypes, CallRecord
  <2>5. [sh   |-> Later(seen[k].sh, call[p].sh), plan |-> Later(seen[k].plan, out.val.plan),
         libs |-> Later(seen[k].libs, out.val.libs)] \in Floors
    BY <1>i, <2>1, <2>2, <2>4 DEF CallTypes, Floors, Later
  <2>6. seen' \in [Plans -> Floors]
    BY <1>7, <1>i, <2>5 DEF GetReturns, CallTypes, Stages
  <2>7. QED
    BY <1>7, <1>i, <1>s, <2>3, <2>6 DEF GetReturns, CallTypes, Stages
<1>8. ASSUME NEW p \in Callers, Forget(p) PROVE Goal
  BY <1>8, <1>i, <1>k, <1>s DEF Forget, CallTypes, Stages
<1>9. ASSUME NEW p \in Callers, SharedGoesOn(p) \/ PlanGoesOn(p) \/ LoadBundleFails(p)
      PROVE  Goal
  BY <1>9, <1>i, <1>s DEF SharedGoesOn, PlanGoesOn, LoadBundleFails, CallTypes
<1>10. CASE Passes \/ UNCHANGED policyVars
  BY <1>10, <1>i, <1>s DEF Passes, policyVars, CallTypes, Goal
<1>11. CASE ChangeShared
  <2>1. now \in Nat
    BY <1>i DEF SC!TypeInv, SC!TypeOK
  <2>2. SourcesOK'
    BY <1>11, <1>i, <2>1 DEF ChangeShared, SourcesOK, CurrentShared, CurrentPlan
  <2>3. QED
    BY <1>11, <1>i, <2>2 DEF ChangeShared, CallTypes, Goal
<1>12. ASSUME NEW k \in Plans, ChangePlan(k) PROVE Goal
  <2>1. now \in Nat
    BY <1>i DEF SC!TypeInv, SC!TypeOK
  <2>2. SourcesOK'
    BY <1>12, <1>i, <2>1 DEF ChangePlan, SourcesOK, CurrentShared, CurrentPlan
  <2>3. QED
    BY <1>12, <1>i, <2>2 DEF ChangePlan, CallTypes, Goal
<1>13. QED
  BY <1>1, <1>2, <1>3, <1>4, <1>5, <1>6, <1>7, <1>8, <1>9, <1>10, <1>11, <1>12
  DEF Next, GoesOn, Goal

LEMMA StageStep ==
  ASSUME PolicyInv, [Next]_policyVars
  PROVE  \A p \in Callers : StageOK(p)'
<1> DEFINE Goal == \A p \in Callers : StageOK(p)'
           Others(p) == \A q \in Callers : q # p =>
                          /\ sFrame'[q] = sFrame[q] /\ pFrame'[q] = pFrame[q]
                          /\ stage'[q] = stage[q] /\ call'[q] = call[q]
<1>i. CallTypes /\ SourcesOK /\ \A p \in Callers : StageOK(p)
  BY DEF PolicyInv
<1>f. stage \in [Callers -> Stages] /\ call \in [Callers -> CallRecord]
  BY <1>i DEF CallTypes
<1>o. ASSUME NEW p \in Callers, Others(p), StageOK(p)' PROVE Goal
  BY <1>o, <1>i DEF StageOK
<1> USE DEF SC!OnlyFrame, PC!OnlyFrame
<1>1. ASSUME NEW p \in Callers, NEW k \in Plans, Get(p, k) PROVE Goal
  <2>1. Others(p)
    BY <1>1, <1>f, SharedFrames DEF Get, pVars
  <2>2. stage'[p] = "shared" /\ call'[p].key = k /\ pFrame'[p] = pFrame[p]
    BY <1>1, <1>f DEF Get, pVars, NoCall
  <2>3. StageOK(p)'
    BY <1>1, <1>i, <2>2, SharedFrames DEF Get, StageOK
  <2>4. QED
    BY <2>1, <2>3, <1>o
<1>2. ASSUME NEW p \in Callers, SharedForGet(p) PROVE Goal
  <2>1. CASE SharedUsable(SharedOut(p)) /\ Plan!Call(p, call[p].key) /\ stage'[p] = "plan"
    <3>1. Others(p)
      BY <1>2, <1>f, <2>1, SharedFrames, PlanFrames DEF SharedForGet
    <3>2. call'[p].key = call[p].key
      BY <1>2, <1>f DEF SharedForGet, CallRecord
    <3>3. StageOK(p)'
      BY <1>2, <1>i, <2>1, <3>2, SharedFrames, PlanFrames DEF SharedForGet, StageOK
    <3>4. QED
      BY <3>1, <3>3, <1>o
  <2>2. CASE ~SharedUsable(SharedOut(p)) /\ UNCHANGED pVars /\ stage'[p] = "done"
    <3>1. Others(p)
      BY <1>2, <1>f, <2>2, SharedFrames DEF SharedForGet, pVars
    <3>2. call'[p].key = call[p].key
      BY <1>2, <1>f DEF SharedForGet, CallRecord
    <3>3. StageOK(p)'
      BY <1>2, <1>i, <2>2, <3>2, SharedFrames DEF SharedForGet, StageOK, pVars
    <3>4. QED
      BY <3>1, <3>3, <1>o
  <2>3. QED
    BY <1>2, <1>f, <2>1, <2>2 DEF SharedForGet
<1>3. ASSUME NEW p \in Callers, LoadShared(p) PROVE Goal
  BY <1>3, <1>i, <1>f, <1>o DEF LoadShared, sVars, pVars, StageOK, CallRecord
<1>4. ASSUME NEW p \in Callers, CompileShared(p) PROVE Goal
  <2>1. Others(p)
    BY <1>4, <1>f, SharedFrames DEF CompileShared, pVars
  <2>2. call'[p].key = call[p].key /\ call'[p].bundle = call[p].bundle
    BY <1>4, <1>f DEF CompileShared, CallRecord
  <2>3. StageOK(p)'
    BY <1>4, <1>i, <2>2, SharedFrames DEF CompileShared, StageOK, pVars, Inside
  <2>4. QED
    BY <2>1, <2>3, <1>o
<1>5. ASSUME NEW p \in Callers, LoadBundle(p) PROVE Goal
  <2>1. Others(p)
    BY <1>5, <1>f, SharedFrames DEF LoadBundle, pVars
  <2>2. /\ call'[p].key = call[p].key /\ call'[p].bundle = CurrentPlan(call[p].key)
        /\ stage'[p] = "libs"
    BY <1>5, <1>f DEF LoadBundle, CallRecord
  <2>3. CurrentPlan(call[p].key) \in PlanRevs
    BY <1>5, <1>i DEF LoadBundle, StageOK, SourcesOK
  <2>4. StageOK(p)'
    BY <1>5, <1>i, <2>2, <2>3, SharedFrames DEF LoadBundle, StageOK, pVars
  <2>5. QED
    BY <2>1, <2>4, <1>o
<1>6. ASSUME NEW p \in Callers, LoadBundleFails(p) PROVE Goal
  <2>1. Others(p)
    BY <1>6, <1>f, PlanFrames DEF LoadBundleFails, sVars
  <2>2. StageOK(p)'
    BY <1>6, <1>i, PlanFrames DEF LoadBundleFails, StageOK, sVars
  <2>3. QED
    BY <2>1, <2>2, <1>o
<1>7. ASSUME NEW p \in Callers, LibsForPlan(p) PROVE Goal
  <2>1. (\E v : Plan!LoadOK(p, v)) \/ Plan!LoadErr(p) \/ Plan!LoadPanic(p)
    BY <1>7 DEF LibsForPlan
  <2>2. Others(p)
    BY <1>7, <1>f, <2>1, SharedFrames, PlanFrames DEF LibsForPlan
  <2>3. call'[p].key = call[p].key /\ stage'[p] = "plan"
    BY <1>7, <1>f DEF LibsForPlan, CallRecord
  <2>4. StageOK(p)'
    <3>1. Inside(pFrame'[p]) /\ pFrame'[p].key = call'[p].key /\ call[p].key \in Plans
      BY <1>7, <1>i, <2>1, <2>3, PlanFrames DEF LibsForPlan, StageOK, Inside
    <3>2. ~Inside(sFrame'[p])
      BY <1>7, <1>i, SharedFrames DEF LibsForPlan, StageOK
    <3>3. QED
      BY <2>3, <3>1, <3>2 DEF StageOK
  <2>5. QED
    BY <2>2, <2>4, <1>o
<1>8. ASSUME NEW p \in Callers, GetReturns(p) PROVE Goal
  <2>1. Others(p)
    BY <1>8, <1>f, PlanFrames DEF GetReturns, sVars
  <2>2. call'[p].key = call[p].key /\ stage'[p] = "done"
    BY <1>8, <1>f DEF GetReturns, CallRecord
  <2>3. StageOK(p)'
    BY <1>8, <1>i, <2>2, PlanFrames DEF GetReturns, StageOK, sVars
  <2>4. QED
    BY <2>1, <2>3, <1>o
<1>9. ASSUME NEW p \in Callers, Forget(p) PROVE Goal
  BY <1>9, <1>i, <1>f, <1>o DEF Forget, StageOK, sVars, pVars
<1>10. ASSUME NEW p \in Callers, SharedGoesOn(p) PROVE Goal
  <2>1. Others(p)
    BY <1>10, <1>f, SharedFrames DEF SharedGoesOn, pVars
  <2>2. StageOK(p)'
    BY <1>10, <1>i, SharedFrames DEF SharedGoesOn, StageOK, pVars, Inside
  <2>3. QED
    BY <2>1, <2>2, <1>o
<1>11. ASSUME NEW p \in Callers, PlanGoesOn(p) PROVE Goal
  <2>1. Others(p)
    BY <1>11, <1>f, PlanFrames DEF PlanGoesOn, sVars
  <2>2. StageOK(p)'
    BY <1>11, <1>i, PlanFrames DEF PlanGoesOn, StageOK, sVars, Inside
  <2>3. QED
    BY <2>1, <2>2, <1>o
<1>12. CASE Passes \/ ChangeShared \/ (\E k \in Plans : ChangePlan(k)) \/ UNCHANGED policyVars
  BY <1>12, <1>i DEF Passes, ChangeShared, ChangePlan, policyVars, sVars, pVars, StageOK
<1>13. QED
  BY <1>1, <1>2, <1>3, <1>4, <1>5, <1>6, <1>7, <1>8, <1>9, <1>10, <1>11, <1>12
  DEF Next, GoesOn

LEMMA PolicyInvStep ==
  ASSUME PolicyInv, [Next]_policyVars
  PROVE  PolicyInv'
<1>1. SharedInv'
  BY SharedMoves, InstancesOK, SC!FlightStep, SC!ResultStep, SC!ServeStep
  DEF PolicyInv, SharedInv
<1>2. PlanInv'
  BY PlanMoves, InstancesOK, PC!FlightStep, PC!ResultStep, PC!ServeStep
  DEF PolicyInv, PlanInv
<1>3. QED
  BY <1>1, <1>2, CallTypesStep, StageStep DEF PolicyInv

LEMMA PolicyInvInit == Init => PolicyInv
<1> SUFFICES ASSUME Init PROVE PolicyInv
  OBVIOUS
<1>1. SC!Init /\ PC!Init
  <2>1. Shared!CacheInit /\ Plan!CacheInit /\ now = 0
    BY DEF Init
  <2>2. SC!CacheInit /\ PC!CacheInit
    BY <2>1, SharedSame, PlanSame
  <2>3. QED
    BY <2>1, <2>2 DEF SC!Init, PC!Init
<1>2. SharedInv
  BY <1>1, InstancesOK, SC!FlightInit, SC!ResultInit, SC!ServeInit DEF SharedInv
<1>3. PlanInv
  BY <1>1, InstancesOK, PC!FlightInit, PC!ResultInit, PC!ServeInit DEF PlanInv
<1>4. SourcesOK
  BY PolicyConstantsOK DEF Init, SourcesOK, CurrentShared, CurrentPlan
<1>5. CallTypes
  BY DEF Init, CallTypes, NoCall, CallRecord, Stages, Floors, SharedVals, PlanVals, Outcomes
<1>6. \A p \in Callers : StageOK(p)
  BY <1>1 DEF Init, StageOK, Inside, SC!Init, SC!CacheInit, SC!IdleFrame, PC!Init, PC!CacheInit,
     PC!IdleFrame
<1>7. QED
  BY <1>2, <1>3, <1>4, <1>5, <1>6 DEF PolicyInv

\* The invariant behind every result below, for loads that may fail or panic: the
\* two caches work as TTLCache does, and a goroutine is in the Gets that its
\* place in get says (policy.go:99-122, 150-203).
THEOREM PolicyInvariant == Spec => []PolicyInv
  BY PolicyInvInit, PolicyInvStep, PTL DEF Spec

-----------------------------------------------------------------------------
\* The goroutine that loads for a key is not blocked itself, except that one that
\* loads a plan may wait for the shared policy.
LEMMA SharedLeaderRuns ==
  ASSUME PolicyInv, NEW p \in Callers,
         sFrame[p].pc = "wait", ~sFlights[sFrame[p].ptr].done
  PROVE  \E q \in Callers : WaitsFor(p, q) /\ ~Blocked(q)
<1>1. PICK q \in Callers : /\ sFrame[q].pc \in Shared!Leading \ {"clear"}
                           /\ sFrame[q].ptr = sFrame[p].ptr
  BY SharedSame DEF PolicyInv, SharedInv, SC!FlightInv, SC!FlightParts, SC!WaitersServed
<1>2. pFrame[q].pc # "wait" /\ sFrame[q].pc # "wait"
  BY <1>1 DEF PolicyInv, StageOK, Stages, CallTypes, Inside, Shared!Leading
<1>3. QED
  BY <1>1, <1>2 DEF WaitsFor, Blocked

LEMMA PlanLeaderRuns ==
  ASSUME PolicyInv, NEW p \in Callers,
         pFrame[p].pc = "wait", ~pFlights[pFrame[p].ptr].done
  PROVE  \E q \in Callers : WaitsFor(p, q) /\ pFrame[q].pc # "wait"
<1>1. PICK q \in Callers : /\ pFrame[q].pc \in Plan!Leading \ {"clear"}
                           /\ pFrame[q].ptr = pFrame[p].ptr
  BY PlanSame DEF PolicyInv, PlanInv, PC!FlightInv, PC!FlightParts, PC!WaitersServed
<1>2. QED
  BY <1>1 DEF WaitsFor, Plan!Leading

\* The nested Gets cannot deadlock (policy.go:117, 151, 155), whatever loads do and
\* however many goroutines and plans there are.
THEOREM NoCircularWaitHolds == Spec => []NoCircularWait
<1>1. PolicyInv => NoCircularWait
  <2> SUFFICES ASSUME PolicyInv, NEW group \in SUBSET Callers, group # {},
                      \A p \in group : Blocked(p)
               PROVE  \E p \in group : \E q \in Callers \ group : WaitsFor(p, q)
    BY DEF NoCircularWait
  <2>1. PICK p \in group : Blocked(p)
    OBVIOUS
  <2>2. CASE \E r \in group : sFrame[r].pc = "wait" /\ ~sFlights[sFrame[r].ptr].done
    BY <2>2, SharedLeaderRuns
  <2>3. CASE ~\E r \in group : sFrame[r].pc = "wait" /\ ~sFlights[sFrame[r].ptr].done
    <3>1. PICK q \in Callers : WaitsFor(p, q) /\ pFrame[q].pc # "wait"
      BY <2>1, <2>3, PlanLeaderRuns DEF Blocked
    <3>2. q \notin group
      BY <2>3, <3>1 DEF Blocked
    <3>3. QED
      BY <3>1, <3>2
  <2>4. QED
    BY <2>2, <2>3
<1>2. QED
  BY <1>1, PolicyInvariant, PTL

-----------------------------------------------------------------------------
\* What get goes on with and what it returns, as long as no load panics.
SuccessOK(p) ==
    /\ stage[p] \in {"plan", "libs"} /\ HasShared => call[p].sh # 0
    /\ stage[p] # "done" => call[p].outcome = "none"
    /\ call[p].outcome = "ok" => /\ HasShared => call[p].sh # 0
                                 /\ call[p].got \in Sound

SuccessInv == \A p \in Callers : SuccessOK(p)

LEMMA SuccessStep ==
  ASSUME ~LoadsMayPanic, PolicyInv, SuccessInv, [Next]_policyVars
  PROVE  SuccessInv'
<1>i. /\ stage \in [Callers -> Stages] /\ call \in [Callers -> CallRecord]
      /\ \A p \in Callers : SuccessOK(p)
  BY DEF PolicyInv, CallTypes, SuccessInv
<1> USE DEF SuccessOK
<1> DEFINE Others(p) == \A q \in Callers : q # p => stage'[q] = stage[q] /\ call'[q] = call[q]
<1>o. ASSUME NEW p \in Callers, Others(p), SuccessOK(p)' PROVE SuccessInv'
  BY <1>o, <1>i DEF SuccessInv
<1>1. ASSUME NEW p \in Callers, NEW k \in Plans, Get(p, k) PROVE SuccessInv'
  <2>1. stage'[p] = "shared" /\ call'[p].outcome = "none" /\ Others(p)
    BY <1>1, <1>i DEF Get, NoCall
  <2>2. QED
    BY <2>1, <1>o
<1>2. ASSUME NEW p \in Callers, SharedForGet(p) PROVE SuccessInv'
  <2> DEFINE out == SharedOut(p)
  <2>1. HasShared /\ SharedUsable(out) => out.val # 0
    BY <1>2, SharedAnswer DEF SharedForGet
  <2>2. Others(p) /\ stage[p] = "shared"
    BY <1>2, <1>i DEF SharedForGet
  <2>3. \/ /\ SharedUsable(out) /\ stage'[p] = "plan"
           /\ call'[p].sh = out.val /\ call'[p].outcome = call[p].outcome
        \/ stage'[p] = "done" /\ call'[p].outcome # "ok"
    BY <1>2, <1>i DEF SharedForGet, CallRecord
  <2>4. SuccessOK(p)'
    BY <2>1, <2>2, <2>3, <1>i
  <2>5. QED
    BY <2>2, <2>4, <1>o
<1>3. ASSUME NEW p \in Callers,
             LoadShared(p) \/ CompileShared(p) \/ LoadBundle(p) \/ LibsForPlan(p)
      PROVE  SuccessInv'
  <2>1. /\ call'[p].sh = call[p].sh /\ call'[p].outcome = call[p].outcome
        /\ call'[p].got = call[p].got
        /\ \A q \in Callers : q # p => call'[q] = call[q]
    BY <1>3, <1>i DEF LoadShared, CompileShared, LoadBundle, LibsForPlan, CallRecord
  <2>2. /\ stage'[p] = stage[p] \/ {stage[p], stage'[p]} \subseteq {"plan", "libs"}
        /\ \A q \in Callers : q # p => stage'[q] = stage[q]
    BY <1>3, <1>i DEF LoadShared, CompileShared, LoadBundle, LibsForPlan
  <2>3. SuccessOK(p)'
    BY <2>1, <2>2, <1>i
  <2>4. QED
    BY <2>1, <2>2, <2>3, <1>o
<1>4. ASSUME NEW p \in Callers, GetReturns(p) PROVE SuccessInv'
  <2> DEFINE out == pFrame[p].out
  <2>1. Others(p) /\ stage[p] = "plan" /\ stage'[p] = "done" /\ pFrame[p].pc = "returned"
    BY <1>4, <1>i DEF GetReturns
  <2>2. \/ /\ PlanUsable(out)
           /\ call'[p].sh = call[p].sh /\ call'[p].got = out.val
        \/ call'[p].outcome # "ok"
    <3>1. CASE /\ PlanUsable(out)
               /\ call'[p] = [call[p] EXCEPT !.outcome = "ok", !.got = out.val,
                                            !.swallowed = (out.err = "error")]
      BY <3>1, <1>i DEF CallRecord
    <3>2. CASE call' = [call EXCEPT ![p].outcome =
                          IF out.err = "panic" THEN "panic" ELSE "ErrPolicyLoad"]
      BY <3>2, <1>i DEF CallRecord
    <3>3. QED
      BY <1>4, <1>i, <3>1, <3>2 DEF GetReturns
  <2>3. out.val \in PlanVals /\ PC!GoodResult(out)
    BY <2>1, TypesOfCaches DEF PolicyInv, PlanInv, PC!ServeInv, PC!ResultsGood
  <2>4. PlanUsable(out) => out.val \in Sound
    BY <2>3 DEF PlanUsable, PlanVals, PC!GoodResult
  <2>5. SuccessOK(p)'
    BY <2>1, <2>2, <2>4, <1>i
  <2>6. QED
    BY <2>1, <2>5, <1>o
<1>5. ASSUME NEW p \in Callers, Forget(p) PROVE SuccessInv'
  <2>1. stage'[p] = "idle" /\ call'[p].outcome = "none" /\ Others(p)
    BY <1>5, <1>i DEF Forget, NoCall
  <2>2. QED
    BY <2>1, <1>o
<1>6. ASSUME UNCHANGED <<stage, call>> PROVE SuccessInv'
  BY <1>6, <1>i DEF SuccessInv
<1>7. QED
  BY <1>1, <1>2, <1>3, <1>4, <1>5, <1>6
  DEF Next, GoesOn, SharedGoesOn, PlanGoesOn, LoadBundleFails, Passes, ChangeShared, ChangePlan,
      policyVars

LEMMA SuccessInit == Init => SuccessInv
<1>1. NoCall.outcome = "none"
  BY DEF NoCall
<1>2. Init => \A p \in Callers : stage[p] = "idle" /\ call[p] = NoCall
  BY DEF Init
<1>3. QED
  BY <1>1, <1>2 DEF SuccessInv, SuccessOK

\* "ErrPolicyLoad is returned when a policy bundle cannot be loaded or compiled and
\* no usable cached bundle exists" (policy.go:35-37): a get that reports success
\* never goes on with a zero value, when no load panics (one that panics hands its
\* waiters the zero value and no error, cache.go:82-92).
THEOREM FailClosedHolds ==
  ASSUME ~LoadsMayPanic
  PROVE  Spec => []FailClosed
<1>1. SuccessInv => FailClosed
  BY InstancesOK DEF SuccessInv, SuccessOK, FailClosed, Sound
<1>2. SuccessInv /\ PolicyInv /\ [Next]_policyVars => SuccessInv'
  BY SuccessStep
<1>3. QED
  BY <1>1, <1>2, SuccessInit, PolicyInvariant, PTL DEF Spec

-----------------------------------------------------------------------------
\* The revision that the shared entry holds, 0 before the first load.
SharedNow == sEntries[SharedKey].val

NumbersOK ==
    /\ now \in Nat
    /\ SharedNow \in Nat /\ CurrentShared \in Nat
    /\ \A k \in Plans : /\ CurrentPlan(k) \in Nat
                        /\ pEntries[k].val \in PlanVals /\ pEntries[k].until \in Nat
                        /\ seen[k].sh \in Nat /\ seen[k].plan \in Nat /\ seen[k].libs \in Nat
    /\ \A p \in Callers : LET c == call[p] IN
         /\ sFrame[p].out.val \in Nat /\ pFrame[p].out.val \in PlanVals
         /\ c.sh \in Nat /\ c.bundle \in Nat /\ c.read \in Nat /\ c.at \in Nat
         /\ c.got \in PlanVals
         /\ c.floor.sh \in Nat /\ c.floor.plan \in Nat /\ c.floor.libs \in Nat
    /\ \A c \in PlanVals : c.plan \in Nat /\ c.libs \in Nat

LEMMA NumbersHold == PolicyInv => NumbersOK
<1> SUFFICES ASSUME PolicyInv PROVE NumbersOK
  OBVIOUS
<1>1. SharedVals \subseteq Nat /\ PlanRevs \cup {0} \subseteq Nat
  BY PolicyConstantsOK DEF SharedVals
<1>2. \A c \in PlanVals : c.plan \in Nat /\ c.libs \in Nat
  <2>1. \A c \in Compiled : c.plan \in PlanRevs /\ c.libs \in SharedVals
    BY DEF Compiled, SharedVals
  <2>2. NoPlan.plan = 0 /\ NoPlan.libs = 0
    BY DEF NoPlan
  <2>3. QED
    BY <1>1, <2>1, <2>2, InstancesOK DEF PlanVals
<1>3. /\ now \in Nat
      /\ \A k \in {SharedKey} : sEntries[k].val \in SharedVals
      /\ \A p \in Callers : sFrame[p].out.val \in SharedVals
  BY TypesOfCaches DEF SC!TypeInv, SC!TypeOK, SC!Entry, SC!Values, SharedVals
<1>4. /\ \A k \in Plans : pEntries[k].val \in PlanVals /\ pEntries[k].until \in Nat
      /\ \A p \in Callers : pFrame[p].out.val \in PlanVals
  BY TypesOfCaches DEF PC!TypeInv, PC!TypeOK, PC!Entry, PC!Values, PlanVals
<1>5. CurrentShared \in Nat /\ \A k \in Plans : CurrentPlan(k) \in Nat
  BY PolicyConstantsOK DEF PolicyInv, SourcesOK
<1>6. \A k \in Plans : /\ seen[k].sh \in Nat /\ seen[k].plan \in Nat
                      /\ seen[k].libs \in Nat
  BY DEF PolicyInv, CallTypes, Floors
<1>7. \A p \in Callers : LET c == call[p] IN
        /\ c.sh \in SharedVals /\ c.bundle \in PlanRevs \cup {0} /\ c.read \in SharedVals
        /\ c.at \in Nat /\ c.got \in PlanVals /\ c.floor \in Floors
  BY DEF PolicyInv, CallTypes, CallRecord
<1>8. QED
  BY <1>1, <1>2, <1>3, <1>4, <1>5, <1>6, <1>7 DEF NumbersOK, SharedNow, Floors

LEMMA NumbersNext == PolicyInv' => NumbersOK'
  BY NumbersHold, PTL

\* The shared revisions only move forward on their way from the source through a
\* load to the entry.
SharedOrder ==
    /\ SharedNow <= CurrentShared
    /\ ~HasShared => SharedNow = 0
    /\ \A p \in Callers :
         /\ call[p].read # 0 => /\ sFrame[p].pc = "load"
                                /\ SharedNow <= call[p].read
                                /\ call[p].read <= CurrentShared
         /\ sFrame[p].pc = "store" => /\ SharedNow <= sFrame[p].out.val
                                      /\ sFrame[p].out.val <= CurrentShared

\* What the end of get does to its locals.
LEMMA ReturnedCall ==
  ASSUME call \in [Callers -> CallRecord], NEW p \in Callers, GetReturns(p)
  PROVE  /\ \A q \in Callers : q # p => call'[q] = call[q]
         /\ call'[p].key = call[p].key /\ call'[p].sh = call[p].sh
         /\ call'[p].bundle = call[p].bundle /\ call'[p].read = call[p].read
         /\ call'[p].at = call[p].at /\ call'[p].floor = call[p].floor
         /\ \/ /\ PlanUsable(pFrame[p].out) /\ call'[p].outcome = "ok"
               /\ call'[p].got = pFrame[p].out.val
            \/ call'[p].outcome # "ok"
<1> DEFINE out == pFrame[p].out
<1>1. CASE /\ PlanUsable(out)
           /\ call' = [call EXCEPT ![p] = [@ EXCEPT !.outcome = "ok", !.got = out.val,
                                                   !.swallowed = (out.err = "error")]]
  BY <1>1 DEF CallRecord
<1>2. CASE call' = [call EXCEPT ![p].outcome =
                      IF out.err = "panic" THEN "panic" ELSE "ErrPolicyLoad"]
  BY <1>2 DEF CallRecord
<1>3. QED
  BY <1>1, <1>2 DEF GetReturns

LEMMA SharedStore ==
  ASSUME PolicyInv, NEW p \in Callers, SC!Store(p)
  PROVE  /\ HasShared /\ sFrame[p].pc = "store" /\ sFrame'[p].pc = "publish"
         /\ SharedNow' = sFrame[p].out.val
         /\ \A q \in Callers : sFrame[q].pc \in SC!Leading => q = p
<1>1. /\ sFrame[p].pc = "store" /\ sFrame'[p].pc = "publish"
      /\ SharedNow' = sFrame[p].out.val /\ sFrame[p].key = SharedKey
  BY SC!StoreEntry, InstancesOK, TypesOfCaches DEF SharedNow
<1>2. HasShared
  BY <1>1 DEF PolicyInv, StageOK, Inside, CallTypes, Stages
<1>3. ASSUME NEW q \in Callers, sFrame[q].pc \in SC!Leading PROVE q = p
  <2>1. sFrame[q].key \in {SharedKey}
    BY <1>3, TypesOfCaches DEF SC!TypeInv, SC!LocalsOK, SC!Leading
  <2>2. QED
    BY <1>1, <1>3, <2>1
    DEF PolicyInv, SharedInv, SC!FlightInv, SC!FlightParts, SC!SingleFlight, SC!Leading
<1>4. QED
  BY <1>1, <1>2, <1>3

LEMMA SharedOrderStep ==
  ASSUME PolicyInv, SharedOrder, [Next]_policyVars
  PROVE  SharedOrder' /\ SharedNow' >= SharedNow
<1> DEFINE Goal == SharedOrder' /\ SharedNow' >= SharedNow
           Fine(p) == /\ call[p].read # 0 => /\ sFrame[p].pc = "load"
                                             /\ SharedNow <= call[p].read
                                             /\ call[p].read <= CurrentShared
                      /\ sFrame[p].pc = "store" => /\ SharedNow <= sFrame[p].out.val
                                                   /\ sFrame[p].out.val <= CurrentShared
<1>i. /\ NumbersOK /\ (\A p \in Callers : Fine(p)) /\ \A p \in Callers : StageOK(p)
      /\ call \in [Callers -> CallRecord]
  BY NumbersHold DEF PolicyInv, CallTypes, SharedOrder
<1>q. ASSUME UNCHANGED <<SharedNow, CurrentShared>>, \A p \in Callers : Fine(p)'
      PROVE  Goal
  BY <1>q, <1>i DEF SharedOrder, NumbersOK
<1>o. ASSUME NEW p \in Callers, UNCHANGED <<sEntries, sharedBorn>>, SC!OnlyFrame(p),
             \A q \in Callers : q # p => call'[q].read = call[q].read,
             Fine(p)'
      PROVE  Goal
  <2>1. UNCHANGED <<SharedNow, CurrentShared>>
    BY <1>o DEF SharedNow, CurrentShared
  <2>2. QED
    BY <1>o, <1>i, <1>q, <2>1 DEF SC!OnlyFrame
<1>s. ASSUME UNCHANGED <<sVars, sharedBorn>>,
             \A p \in Callers : call'[p].read = call[p].read \/ call'[p].read = 0
      PROVE  Goal
  BY <1>s, <1>i, <1>q DEF sVars, SharedNow, CurrentShared
<1> SUFFICES Goal
  OBVIOUS
<1> HIDE DEF Goal
<1>t. SC!ConstantsOK /\ SC!TypeInv
  BY InstancesOK, TypesOfCaches
<1>c. ASSUME NEW p \in Callers, CallShared(p)
      PROVE  /\ UNCHANGED sEntries /\ SC!OnlyFrame(p)
             /\ \/ sFrame'[p] = sFrame[p]
                \/ sFrame[p].pc = "idle" /\ sFrame'[p].pc = "enter"
  <2>1. CASE HasShared
    BY <1>t, <1>c, <2>1, SharedSame, SC!CallFrame DEF CallShared
  <2>2. CASE ~HasShared
    BY <1>c, <2>2 DEF CallShared, sVars, SC!OnlyFrame
  <2>3. QED
    BY <2>1, <2>2
<1>l. ASSUME NEW p \in Callers, LeaveShared(p)
      PROVE  /\ UNCHANGED sEntries /\ SC!OnlyFrame(p)
             /\ \/ sFrame'[p] = sFrame[p]
                \/ sFrame[p].pc = "returned" /\ sFrame'[p].pc = "idle"
  <2>1. CASE HasShared
    BY <1>t, <1>l, <2>1, SharedSame, SC!ReturnFrame DEF LeaveShared
  <2>2. CASE ~HasShared
    BY <1>l, <2>2 DEF LeaveShared, sVars, SC!OnlyFrame
  <2>3. QED
    BY <2>1, <2>2
<1>1. ASSUME NEW p \in Callers, SharedGoesOn(p), ~SC!Store(p) PROVE Goal
  <2>1. /\ UNCHANGED <<sEntries, sharedBorn, call>> /\ SC!OnlyFrame(p)
        /\ sFrame[p].pc # "load" /\ sFrame'[p].pc # "store"
    BY <1>t, <1>1, SharedSame, SC!ProceedFrame DEF SharedGoesOn, sources
  <2>2. QED
    BY <2>1, <1>i, <1>o
<1>2. ASSUME NEW p \in Callers, SharedGoesOn(p), SC!Store(p) PROVE Goal
  <2>1. /\ UNCHANGED <<sharedBorn, call, CurrentShared>> /\ SC!OnlyFrame(p)
    BY <1>t, <1>2, SharedSame, SC!ProceedFrame DEF SharedGoesOn, sources, CurrentShared
  <2>2. \A q \in Callers : call[q].read = 0 /\ sFrame'[q].pc # "store"
    BY <1>2, <1>i, <2>1, SharedStore DEF SC!OnlyFrame, SC!Leading
  <2>3. QED
    BY <1>2, <1>i, <2>1, <2>2, SharedStore DEF Goal, SharedOrder, NumbersOK
<1>3. ASSUME NEW p \in Callers, LoadShared(p) PROVE Goal
  <2>1. /\ UNCHANGED <<sVars, sharedBorn, CurrentShared, SharedNow>>
        /\ call'[p].read = CurrentShared /\ sFrame[p].pc = "load"
        /\ \A q \in Callers : q # p => call'[q] = call[q]
    BY <1>3, <1>i DEF LoadShared, sources, CurrentShared, SharedNow, CallRecord, sVars
  <2>2. \A q \in Callers : Fine(q)'
    BY <2>1, <1>i DEF sVars, SharedOrder, NumbersOK
  <2>3. QED
    BY <2>1, <2>2, <1>q
<1>4. ASSUME NEW p \in Callers, CompileShared(p) PROVE Goal
  <2>1. /\ UNCHANGED <<sEntries, sharedBorn>> /\ SC!OnlyFrame(p)
        /\ sFrame'[p].pc = "store" => call[p].read # 0 /\ sFrame'[p].out.val = call[p].read
    BY <1>t, <1>4, SharedSame, SC!LoadFrame DEF CompileShared, sources
  <2>2. call'[p].read = 0 /\ \A q \in Callers : q # p => call'[q] = call[q]
    BY <1>4, <1>i DEF CompileShared, CallRecord
  <2>3. Fine(p)'
    BY <2>1, <2>2, <1>i DEF SharedNow, CurrentShared
  <2>4. QED
    BY <2>1, <2>2, <2>3, <1>o
<1>5. ASSUME NEW p \in Callers, NEW k \in Plans, Get(p, k) PROVE Goal
  <2>1. call'[p].read = 0 /\ \A q \in Callers : q # p => call'[q] = call[q]
    BY <1>5, <1>i DEF Get, NoCall
  <2>2. /\ UNCHANGED <<sEntries, sharedBorn>> /\ SC!OnlyFrame(p)
        /\ sFrame'[p] = sFrame[p] \/ sFrame'[p].pc = "enter"
    BY <1>5, <1>c DEF Get, sources
  <2>3. Fine(p)'
    BY <2>1, <2>2, <1>i DEF SharedNow, CurrentShared
  <2>4. QED
    BY <2>1, <2>2, <2>3, <1>o
<1>6. ASSUME NEW p \in Callers, SharedForGet(p) \/ LibsForPlan(p) PROVE Goal
  <2>1. call'[p].read = call[p].read /\ \A q \in Callers : q # p => call'[q] = call[q]
    BY <1>6, <1>i DEF SharedForGet, LibsForPlan, CallRecord
  <2>2. /\ UNCHANGED <<sEntries, sharedBorn>> /\ SC!OnlyFrame(p)
        /\ sFrame'[p] = sFrame[p] \/ (sFrame[p].pc = "returned" /\ sFrame'[p].pc = "idle")
    BY <1>6, <1>l DEF SharedForGet, LibsForPlan, sources
  <2>3. Fine(p)'
    BY <2>1, <2>2, <1>i DEF SharedNow, CurrentShared
  <2>4. QED
    BY <2>1, <2>2, <2>3, <1>o
<1>7. ASSUME NEW p \in Callers, LoadBundle(p) PROVE Goal
  <2>1. call'[p].read = call[p].read /\ \A q \in Callers : q # p => call'[q] = call[q]
    BY <1>7, <1>i DEF LoadBundle, CallRecord
  <2>2. /\ UNCHANGED <<sEntries, sharedBorn>> /\ SC!OnlyFrame(p)
        /\ sFrame'[p] = sFrame[p] \/ (sFrame[p].pc = "idle" /\ sFrame'[p].pc = "enter")
    BY <1>7, <1>c DEF LoadBundle, sources
  <2>3. Fine(p)'
    BY <2>1, <2>2, <1>i DEF SharedNow, CurrentShared
  <2>4. QED
    BY <2>1, <2>2, <2>3, <1>o
<1>8. ASSUME NEW p \in Callers, GetReturns(p) PROVE Goal
  <2>1. \A q \in Callers : call'[q].read = call[q].read
    BY <1>8, <1>i, ReturnedCall
  <2>2. QED
    BY <1>8, <2>1, <1>s DEF GetReturns, sources
<1>9. ASSUME NEW p \in Callers, Forget(p) PROVE Goal
  <2>1. \A q \in Callers : call'[q].read = call[q].read \/ call'[q].read = 0
    BY <1>9, <1>i DEF Forget, NoCall
  <2>2. QED
    BY <1>9, <2>1, <1>s DEF Forget, sources
<1>10. ASSUME NEW p \in Callers, PlanGoesOn(p) \/ LoadBundleFails(p) PROVE Goal
  BY <1>10, <1>s DEF PlanGoesOn, LoadBundleFails, sources
<1>11. CASE ChangeShared
  <2>1. UNCHANGED <<sVars, call, SharedNow>> /\ CurrentShared' = CurrentShared + 1
    BY <1>11 DEF ChangeShared, SharedNow, CurrentShared, sVars, PolicyInv, SourcesOK
  <2>2. QED
    BY <2>1, <1>i DEF Goal, SharedOrder, NumbersOK, sVars
<1>12. CASE Passes \/ (\E k \in Plans : ChangePlan(k)) \/ UNCHANGED policyVars
  BY <1>12, <1>s DEF Passes, ChangePlan, policyVars, sources
<1>13. QED
  BY <1>1, <1>2, <1>3, <1>4, <1>5, <1>6, <1>7, <1>8, <1>9, <1>10, <1>11, <1>12
  DEF Next, GoesOn

\* The same of a plan's bundles.
PlanOrder ==
    /\ \A k \in Plans : pEntries[k].val.plan <= CurrentPlan(k)
    /\ \A p \in Callers :
         LET k == call[p].key IN
         /\ stage[p] = "libs" => /\ pEntries[k].val.plan <= call[p].bundle
                                 /\ call[p].bundle <= CurrentPlan(k)
         /\ pFrame[p].pc = "store" => /\ pEntries[k].val.plan <= pFrame[p].out.val.plan
                                      /\ pFrame[p].out.val.plan <= CurrentPlan(k)

LEMMA PlanStore ==
  ASSUME PolicyInv, NEW p \in Callers, PC!Store(p)
  PROVE  /\ pFrame[p].pc = "store" /\ pFrame'[p].pc = "publish" /\ stage[p] = "plan"
         /\ pFrame[p].key = call[p].key /\ call[p].key \in Plans
         /\ pEntries'[call[p].key].val = pFrame[p].out.val
         /\ \A k \in Plans : k # call[p].key => pEntries'[k] = pEntries[k]
         /\ \A q \in Callers : pFrame[q].pc \in PC!Leading /\ pFrame[q].key = pFrame[p].key
                                 => q = p
<1>1. /\ pFrame[p].pc = "store" /\ pFrame'[p].pc = "publish"
      /\ pFrame[p].key \in Plans
      /\ pEntries'[pFrame[p].key].val = pFrame[p].out.val
      /\ \A k \in Plans : k # pFrame[p].key => pEntries'[k] = pEntries[k]
  BY PC!StoreEntry, InstancesOK, TypesOfCaches
<1>2. stage[p] = "plan" /\ pFrame[p].key = call[p].key
  BY <1>1 DEF PolicyInv, StageOK, Inside, CallTypes, Stages
<1>3. ASSUME NEW q \in Callers, pFrame[q].pc \in PC!Leading, pFrame[q].key = pFrame[p].key
      PROVE  q = p
  BY <1>1, <1>3 DEF PolicyInv, PlanInv, PC!FlightInv, PC!FlightParts, PC!SingleFlight, PC!Leading
<1>4. QED
  BY <1>1, <1>2, <1>3

LEMMA PlanOrderStep ==
  ASSUME PolicyInv, PlanOrder, [Next]_policyVars
  PROVE  /\ PlanOrder'
         /\ \A k \in Plans : pEntries'[k].val.plan >= pEntries[k].val.plan
<1> DEFINE Goal == /\ PlanOrder'
                   /\ \A k \in Plans : pEntries'[k].val.plan >= pEntries[k].val.plan
           Fine(p) == LET k == call[p].key IN
             /\ stage[p] = "libs" => /\ pEntries[k].val.plan <= call[p].bundle
                                     /\ call[p].bundle <= CurrentPlan(k)
             /\ pFrame[p].pc = "store" => /\ pEntries[k].val.plan <= pFrame[p].out.val.plan
                                          /\ pFrame[p].out.val.plan <= CurrentPlan(k)
<1>i. /\ NumbersOK /\ (\A p \in Callers : Fine(p)) /\ \A p \in Callers : StageOK(p)
      /\ call \in [Callers -> CallRecord] /\ stage \in [Callers -> Stages]
      /\ \A k \in Plans : pEntries[k].val.plan <= CurrentPlan(k)
  BY NumbersHold DEF PolicyInv, CallTypes, PlanOrder
<1>n. \A k \in Plans : pEntries[k].val.plan \in Nat /\ CurrentPlan(k) \in Nat
  BY <1>i DEF NumbersOK
<1>o. ASSUME NEW p \in Callers, UNCHANGED <<pEntries, planBorn>>, PC!OnlyFrame(p),
             \A q \in Callers : q # p => call'[q] = call[q] /\ stage'[q] = stage[q],
             Fine(p)'
      PROVE  Goal
  BY <1>o, <1>i, <1>n DEF PC!OnlyFrame, PlanOrder, CurrentPlan
<1>s. ASSUME UNCHANGED <<pVars, planBorn, stage>>,
             \A p \in Callers : /\ call'[p].key = call[p].key
                                /\ call'[p].bundle = call[p].bundle
      PROVE  Goal
  BY <1>s, <1>i, <1>n DEF pVars, PlanOrder, CurrentPlan
<1> SUFFICES Goal
  OBVIOUS
<1> HIDE DEF Goal
<1>t. PC!ConstantsOK /\ PC!TypeInv
  BY InstancesOK, TypesOfCaches
<1>k. \A p \in Callers : /\ stage[p] # "idle" => call[p].key \in Plans
                         /\ pFrame[p].pc # "idle" => pFrame[p].key = call[p].key
  BY <1>i DEF StageOK, Inside
<1>1. ASSUME NEW p \in Callers, PlanGoesOn(p), ~PC!Store(p) PROVE Goal
  <2>1. /\ UNCHANGED <<pEntries, planBorn, call, stage>> /\ PC!OnlyFrame(p)
        /\ pFrame[p].pc # "load" /\ pFrame'[p].pc # "store"
    BY <1>t, <1>1, PlanSame, PC!ProceedFrame DEF PlanGoesOn, sources
  <2>2. QED
    BY <2>1, <1>i, <1>o DEF CurrentPlan
<1>2. ASSUME NEW p \in Callers, PlanGoesOn(p), PC!Store(p) PROVE Goal
  <2>1. /\ UNCHANGED <<planBorn, call, stage>> /\ PC!OnlyFrame(p)
    BY <1>t, <1>2, PlanSame, PC!ProceedFrame DEF PlanGoesOn, sources
  <2>2. \A k \in Plans : CurrentPlan(k)' = CurrentPlan(k)
    BY <2>1 DEF CurrentPlan
  <2>3. \A q \in Callers : q # p => /\ pFrame'[q] = pFrame[q]
                                    /\ stage[q] = "libs" \/ pFrame[q].pc = "store" =>
                                         call[q].key \in Plans /\ call[q].key # call[p].key
    BY <1>2, <1>i, <1>k, <2>1, PlanStore DEF PC!OnlyFrame, PC!Leading, StageOK, Inside, Stages
  <2>4. \A k \in Plans : /\ pEntries'[k].val.plan >= pEntries[k].val.plan
                         /\ pEntries'[k].val.plan <= CurrentPlan(k)
    BY <1>2, <1>i, <1>n, PlanStore DEF NumbersOK
  <2>5. \A q \in Callers : Fine(q)'
    BY <1>2, <1>i, <2>1, <2>2, <2>3, PlanStore
  <2>6. QED
    BY <2>2, <2>4, <2>5 DEF Goal, PlanOrder
<1>3. ASSUME NEW p \in Callers, SharedForGet(p) PROVE Goal
  <2>1. \A q \in Callers : q # p => call'[q] = call[q] /\ stage'[q] = stage[q]
    BY <1>3, <1>i DEF SharedForGet
  <2>2. /\ UNCHANGED <<pEntries, planBorn>> /\ PC!OnlyFrame(p)
        /\ pFrame'[p].pc = "enter" \/ pFrame'[p] = pFrame[p]
    BY <1>t, <1>3, PlanSame, PC!CallFrame DEF SharedForGet, sources, pVars, PC!OnlyFrame
  <2>3. stage'[p] # "libs" /\ pFrame'[p].pc # "store"
    BY <1>3, <1>i, <2>2 DEF SharedForGet, StageOK, Inside
  <2>4. QED
    BY <2>1, <2>2, <2>3, <1>o
<1>4. ASSUME NEW p \in Callers, LoadBundle(p) PROVE Goal
  <2>1. /\ \A q \in Callers : q # p => call'[q] = call[q] /\ stage'[q] = stage[q]
        /\ call'[p].key = call[p].key /\ call'[p].bundle = CurrentPlan(call[p].key)
        /\ pFrame[p].pc = "load" /\ call[p].key \in Plans
    BY <1>4, <1>i, <1>k DEF LoadBundle, CallRecord
  <2>2. /\ UNCHANGED <<pEntries, pFrame, planBorn>> /\ PC!OnlyFrame(p)
    BY <1>4 DEF LoadBundle, sources, pVars, PC!OnlyFrame
  <2>3. Fine(p)'
    BY <2>1, <2>2, <1>i, <1>n DEF CurrentPlan
  <2>4. QED
    BY <2>1, <2>2, <2>3, <1>o
<1>5. ASSUME NEW p \in Callers, LoadBundleFails(p) PROVE Goal
  <2>1. /\ UNCHANGED <<pEntries, planBorn, call, stage>> /\ PC!OnlyFrame(p)
        /\ stage[p] = "plan" /\ pFrame'[p].pc = "publish"
    BY <1>t, <1>5, PlanSame, PC!LoadFrame DEF LoadBundleFails, sources
  <2>2. QED
    BY <2>1, <1>o
<1>6. ASSUME NEW p \in Callers, LibsForPlan(p) PROVE Goal
  <2>1. /\ \A q \in Callers : q # p => call'[q] = call[q] /\ stage'[q] = stage[q]
        /\ call'[p].key = call[p].key /\ stage[p] = "libs" /\ stage'[p] = "plan"
        /\ UNCHANGED planBorn
    BY <1>6, <1>i DEF LibsForPlan, CallRecord, sources
  <2>2. /\ UNCHANGED pEntries /\ PC!OnlyFrame(p)
        /\ pFrame'[p].pc = "store" => pFrame'[p].out.val.plan = call[p].bundle
    BY <1>t, <1>6, PlanSame, PC!LoadFrame DEF LibsForPlan, CompilePlan
  <2>3. Fine(p)'
    BY <2>1, <2>2, <1>i DEF CurrentPlan
  <2>4. QED
    BY <2>1, <2>2, <2>3, <1>o
<1>7. ASSUME NEW p \in Callers, GetReturns(p) PROVE Goal
  <2>1. /\ \A q \in Callers : q # p => call'[q] = call[q] /\ stage'[q] = stage[q]
        /\ stage'[p] = "done" /\ UNCHANGED planBorn
    BY <1>7, <1>i, ReturnedCall DEF GetReturns, sources
  <2>2. /\ UNCHANGED pEntries /\ PC!OnlyFrame(p) /\ pFrame'[p].pc = "idle"
    BY <1>t, <1>7, PlanSame, PC!ReturnFrame DEF GetReturns
  <2>3. QED
    BY <2>1, <2>2, <1>o
<1>8. ASSUME NEW p \in Callers, Forget(p) \/ \E k \in Plans : Get(p, k) PROVE Goal
  <2>1. /\ \A q \in Callers : q # p => call'[q] = call[q] /\ stage'[q] = stage[q]
        /\ stage[p] \in {"idle", "done"} /\ stage'[p] \in {"idle", "shared"}
        /\ UNCHANGED <<pVars, planBorn>>
    BY <1>8, <1>i DEF Forget, Get, sources
  <2>2. UNCHANGED <<pEntries, pFrame, planBorn>> /\ PC!OnlyFrame(p) /\ pFrame[p].pc = "idle"
    BY <2>1, <1>i DEF StageOK, Inside, pVars, PC!OnlyFrame
  <2>3. QED
    BY <2>1, <2>2, <1>o
<1>9. ASSUME NEW p \in Callers, LoadShared(p) \/ CompileShared(p) PROVE Goal
  <2>1. \A q \in Callers : call'[q].key = call[q].key /\ call'[q].bundle = call[q].bundle
    BY <1>9, <1>i DEF LoadShared, CompileShared, CallRecord
  <2>2. UNCHANGED <<pVars, planBorn, stage>>
    BY <1>9 DEF LoadShared, CompileShared, sources
  <2>3. QED
    BY <2>1, <2>2, <1>s
<1>10. ASSUME NEW p \in Callers, SharedGoesOn(p) PROVE Goal
  BY <1>10, <1>s DEF SharedGoesOn, sources
<1>11. ASSUME NEW k \in Plans, ChangePlan(k) PROVE Goal
  <2>1. /\ UNCHANGED <<pVars, call, stage>>
        /\ \A l \in Plans : CurrentPlan(l)' \in Nat /\ CurrentPlan(l)' >= CurrentPlan(l)
    BY <1>11, <1>n DEF ChangePlan, CurrentPlan, PolicyInv, SourcesOK
  <2>2. \A p \in Callers : stage[p] = "libs" \/ pFrame[p].pc = "store" => call[p].key \in Plans
    BY <1>i, <1>k DEF StageOK, Inside, Stages
  <2>3. \A p \in Callers : call[p].bundle \in Nat /\ pFrame[p].out.val.plan \in Nat
    BY <1>i DEF NumbersOK
  <2>4. QED
    BY <2>1, <2>2, <2>3, <1>i, <1>n DEF Goal, PlanOrder, pVars
<1>12. CASE Passes \/ ChangeShared \/ UNCHANGED policyVars
  BY <1>12, <1>s DEF Passes, ChangeShared, policyVars, sources
<1>13. QED
  BY <1>1, <1>2, <1>3, <1>4, <1>5, <1>6, <1>7, <1>8, <1>9, <1>10, <1>11, <1>12 DEF Next, GoesOn

-----------------------------------------------------------------------------
\* What a step does to the place of a goroutine in get and to its locals.
LEMMA CallSteps ==
  ASSUME PolicyInv, [Next]_policyVars, NEW p \in Callers
  PROVE  \/ /\ stage'[p] = stage[p] /\ call'[p].key = call[p].key
            /\ call'[p].sh = call[p].sh /\ call'[p].bundle = call[p].bundle
            /\ call'[p].at = call[p].at /\ call'[p].floor = call[p].floor
            /\ call'[p].outcome = call[p].outcome /\ call'[p].got = call[p].got
         \/ \E k \in Plans : Get(p, k)
         \/ SharedForGet(p) \/ LoadBundle(p) \/ LibsForPlan(p) \/ GetReturns(p) \/ Forget(p)
<1> DEFINE Same == /\ stage'[p] = stage[p] /\ call'[p].key = call[p].key
                   /\ call'[p].sh = call[p].sh /\ call'[p].bundle = call[p].bundle
                   /\ call'[p].at = call[p].at /\ call'[p].floor = call[p].floor
                   /\ call'[p].outcome = call[p].outcome /\ call'[p].got = call[p].got
           Moves(q) == \/ \E k \in Plans : Get(q, k)
                       \/ SharedForGet(q) \/ LoadBundle(q) \/ LibsForPlan(q)
                       \/ GetReturns(q) \/ Forget(q)
<1> SUFFICES Same \/ Moves(p)
  OBVIOUS
<1>i. call \in [Callers -> CallRecord] /\ stage \in [Callers -> Stages]
  BY DEF PolicyInv, CallTypes
<1>1. ASSUME NEW q \in Callers, q # p, Moves(q) PROVE Same
  BY <1>1, <1>i DEF Get, SharedForGet, LoadBundle, LibsForPlan, GetReturns, Forget
<1>2. ASSUME NEW q \in Callers, LoadShared(q) \/ CompileShared(q) PROVE Same
  BY <1>2, <1>i DEF LoadShared, CompileShared, CallRecord
<1>3. ASSUME UNCHANGED <<stage, call>> PROVE Same
  BY <1>3
<1> HIDE DEF Same
<1>4. ASSUME NEW q \in Callers, SharedGoesOn(q) \/ PlanGoesOn(q) \/ LoadBundleFails(q)
      PROVE  Same
  BY <1>4, <1>3 DEF SharedGoesOn, PlanGoesOn, LoadBundleFails
<1>5. ASSUME Passes \/ ChangeShared \/ (\E k \in Plans : ChangePlan(k)) \/ UNCHANGED policyVars
      PROVE  Same
  BY <1>5, <1>3 DEF Passes, ChangeShared, ChangePlan, policyVars
<1>6. QED
  BY <1>1, <1>2, <1>4, <1>5 DEF Next, GoesOn

LEMMA KeptInGet ==
  ASSUME PolicyInv, [Next]_policyVars, NEW p \in Callers, stage[p] # "idle", stage'[p] # "idle"
  PROVE  /\ call'[p].key = call[p].key /\ call'[p].floor = call[p].floor
         /\ call'[p].at = call[p].at
         /\ ~SharedForGet(p) => call'[p].sh = call[p].sh
<1>i. call \in [Callers -> CallRecord] /\ stage \in [Callers -> Stages]
  BY DEF PolicyInv, CallTypes
<1>1. ASSUME SharedForGet(p) \/ LoadBundle(p) \/ LibsForPlan(p)
      PROVE  /\ call'[p].key = call[p].key /\ call'[p].floor = call[p].floor
             /\ call'[p].at = call[p].at
             /\ ~SharedForGet(p) => call'[p].sh = call[p].sh
  BY <1>1, <1>i DEF SharedForGet, LoadBundle, LibsForPlan, CallRecord
<1>2. ~Forget(p) /\ ~\E k \in Plans : Get(p, k)
  BY <1>i DEF Forget, Get
<1>3. QED
  BY <1>1, <1>2, <1>i, CallSteps, ReturnedCall

\* What a step does to the Gets of the two caches and to their entries.
LEMMA SharedSteps ==
  ASSUME PolicyInv, [Next]_policyVars
  PROVE  /\ SharedNow' = SharedNow \/ \E q \in Callers : SC!Store(q)
         /\ \A p \in Callers : Inside(sFrame'[p]) =>
              \/ Inside(sFrame[p])
              \/ /\ LoadBundle(p) \/ \E k \in Plans : Get(p, k)
                 /\ sFrame'[p].pc = "enter" /\ UNCHANGED sEntries
<1> DEFINE Goal == /\ SharedNow' = SharedNow \/ \E q \in Callers : SC!Store(q)
                   /\ \A p \in Callers : Inside(sFrame'[p]) =>
                        \/ Inside(sFrame[p])
                        \/ /\ LoadBundle(p) \/ \E k \in Plans : Get(p, k)
                           /\ sFrame'[p].pc = "enter" /\ UNCHANGED sEntries
<1>s. ASSUME UNCHANGED sVars PROVE Goal
  BY <1>s DEF sVars, SharedNow
<1>o. ASSUME NEW p \in Callers, SC!OnlyFrame(p), UNCHANGED sEntries \/ SC!Store(p),
             \/ Inside(sFrame[p]) \/ ~Inside(sFrame'[p])
             \/ /\ LoadBundle(p) \/ \E k \in Plans : Get(p, k)
                /\ sFrame'[p].pc = "enter" /\ UNCHANGED sEntries
      PROVE  Goal
  BY <1>o DEF SC!OnlyFrame, SharedNow
<1> SUFFICES Goal
  OBVIOUS
<1> HIDE DEF Goal
<1>t. SC!ConstantsOK /\ SC!TypeInv
  BY InstancesOK, TypesOfCaches
<1>1. ASSUME NEW p \in Callers, SharedGoesOn(p) PROVE Goal
  <2>1. SC!OnlyFrame(p) /\ sFrame[p].pc # "idle" /\ (UNCHANGED sEntries \/ SC!Store(p))
    BY <1>t, <1>1, SharedSame, SC!ProceedFrame DEF SharedGoesOn
  <2>2. QED
    BY <2>1, <1>o DEF Inside
<1>2. ASSUME NEW p \in Callers, CompileShared(p) PROVE Goal
  <2>1. SC!OnlyFrame(p) /\ sFrame[p].pc = "load" /\ UNCHANGED sEntries
    BY <1>t, <1>2, SharedSame, SC!LoadFrame DEF CompileShared
  <2>2. QED
    BY <2>1, <1>o DEF Inside
<1>3. ASSUME NEW p \in Callers, CallShared(p), LoadBundle(p) \/ \E k \in Plans : Get(p, k)
      PROVE  Goal
  <2>1. CASE HasShared
    <3>1. SC!OnlyFrame(p) /\ sFrame'[p].pc = "enter" /\ UNCHANGED sEntries
      BY <1>t, <1>3, <2>1, SharedSame, SC!CallFrame DEF CallShared
    <3>2. QED
      BY <1>3, <3>1, <1>o
  <2>2. CASE ~HasShared
    BY <1>3, <2>2, <1>s DEF CallShared
  <2>3. QED
    BY <2>1, <2>2
<1>4. ASSUME NEW p \in Callers, LeaveShared(p) PROVE Goal
  <2>1. CASE HasShared
    <3>1. SC!OnlyFrame(p) /\ sFrame'[p].pc = "idle" /\ UNCHANGED sEntries
      BY <1>t, <1>4, <2>1, SharedSame, SC!ReturnFrame DEF LeaveShared
    <3>2. QED
      BY <3>1, <1>o DEF Inside
  <2>2. CASE ~HasShared
    BY <1>4, <2>2, <1>s DEF LeaveShared
  <2>3. QED
    BY <2>1, <2>2
<1>5. ASSUME NEW p \in Callers,
             \/ LoadBundle(p) \/ (\E k \in Plans : Get(p, k))
             \/ SharedForGet(p) \/ LibsForPlan(p)
      PROVE  Goal
  BY <1>5, <1>3, <1>4 DEF LoadBundle, Get, SharedForGet, LibsForPlan
<1>6. ASSUME NEW p \in Callers,
             PlanGoesOn(p) \/ LoadShared(p) \/ LoadBundleFails(p) \/ GetReturns(p) \/ Forget(p)
      PROVE  Goal
  BY <1>6, <1>s DEF PlanGoesOn, LoadShared, LoadBundleFails, GetReturns, Forget
<1>7. CASE Passes \/ ChangeShared \/ (\E k \in Plans : ChangePlan(k)) \/ UNCHANGED policyVars
  BY <1>7, <1>s DEF Passes, ChangeShared, ChangePlan, policyVars
<1>8. QED
  BY <1>1, <1>2, <1>5, <1>6, <1>7 DEF Next, GoesOn

LEMMA PlanSteps ==
  ASSUME PolicyInv, [Next]_policyVars
  PROVE  /\ \A k \in Plans : \/ pEntries'[k] = pEntries[k]
                             \/ \E q \in Callers : PC!Store(q) /\ pFrame[q].key = k
         /\ \A p \in Callers : Inside(pFrame'[p]) =>
              \/ Inside(pFrame[p]) /\ pFrame'[p].key = pFrame[p].key
              \/ /\ SharedForGet(p) /\ stage'[p] = "plan" /\ pFrame'[p].key = call[p].key
                 /\ pFrame'[p].pc = "enter" /\ UNCHANGED pEntries
         /\ \A p \in Callers : pFrame'[p].pc = "store" =>
              pFrame'[p] = pFrame[p] \/ LibsForPlan(p)
<1> DEFINE Fine(p) ==
             /\ Inside(pFrame'[p]) =>
                  \/ Inside(pFrame[p]) /\ pFrame'[p].key = pFrame[p].key
                  \/ /\ SharedForGet(p) /\ stage'[p] = "plan" /\ pFrame'[p].key = call[p].key
                     /\ pFrame'[p].pc = "enter" /\ UNCHANGED pEntries
             /\ pFrame'[p].pc = "store" => pFrame'[p] = pFrame[p] \/ LibsForPlan(p)
           Goal == /\ \A k \in Plans : \/ pEntries'[k] = pEntries[k]
                                       \/ \E q \in Callers : PC!Store(q) /\ pFrame[q].key = k
                   /\ \A p \in Callers : Fine(p)
<1> SUFFICES Goal
  OBVIOUS
<1>s. ASSUME UNCHANGED pVars PROVE Goal
  BY <1>s DEF pVars
<1>o. ASSUME NEW p \in Callers, PC!OnlyFrame(p), UNCHANGED pEntries, Fine(p)
      PROVE  Goal
  BY <1>o DEF PC!OnlyFrame
<1>t. PC!ConstantsOK /\ PC!TypeInv
  BY InstancesOK, TypesOfCaches
<1> HIDE DEF Goal
<1>1. ASSUME NEW p \in Callers, PlanGoesOn(p), ~PC!Store(p) PROVE Goal
  <2>1. /\ PC!OnlyFrame(p) /\ pFrame[p].pc # "idle" /\ UNCHANGED pEntries
        /\ pFrame'[p].key = pFrame[p].key /\ pFrame'[p].pc # "store"
    BY <1>t, <1>1, PlanSame, PC!ProceedFrame DEF PlanGoesOn
  <2>2. QED
    BY <2>1, <1>o DEF Inside
<1>2. ASSUME NEW p \in Callers, PlanGoesOn(p), PC!Store(p) PROVE Goal
  <2>1. /\ PC!OnlyFrame(p) /\ pFrame[p].pc # "idle"
        /\ pFrame'[p].key = pFrame[p].key /\ pFrame'[p].pc # "store"
    BY <1>t, <1>2, PlanSame, PC!ProceedFrame DEF PlanGoesOn
  <2>2. \A k \in Plans : pEntries'[k] = pEntries[k] \/ pFrame[p].key = k
    BY <1>2, PlanStore
  <2>3. \A q \in Callers : Fine(q)
    BY <2>1 DEF Inside, PC!OnlyFrame
  <2>4. QED
    BY <1>2, <2>2, <2>3 DEF Goal
<1>3. ASSUME NEW p \in Callers, LoadBundleFails(p) PROVE Goal
  <2>1. /\ PC!OnlyFrame(p) /\ pFrame[p].pc = "load" /\ UNCHANGED pEntries
        /\ pFrame'[p].key = pFrame[p].key /\ pFrame'[p].pc = "publish"
    BY <1>t, <1>3, PlanSame, PC!LoadFrame DEF LoadBundleFails
  <2>2. QED
    BY <2>1, <1>o DEF Inside
<1>4. ASSUME NEW p \in Callers, LibsForPlan(p) PROVE Goal
  <2>1. /\ PC!OnlyFrame(p) /\ pFrame[p].pc = "load" /\ UNCHANGED pEntries
        /\ pFrame'[p].key = pFrame[p].key
    BY <1>t, <1>4, PlanSame, PC!LoadFrame DEF LibsForPlan
  <2>2. QED
    BY <1>4, <2>1, <1>o DEF Inside
<1>5. ASSUME NEW p \in Callers, SharedForGet(p) PROVE Goal
  <2>1. CASE Plan!Call(p, call[p].key) /\ stage' = [stage EXCEPT ![p] = "plan"]
    <3>1. /\ PC!OnlyFrame(p) /\ UNCHANGED pEntries
          /\ pFrame'[p].key = call[p].key /\ pFrame'[p].pc = "enter"
      BY <1>t, <2>1, PlanSame, PC!CallFrame
    <3>2. stage'[p] = "plan"
      BY <2>1 DEF PolicyInv, CallTypes
    <3>3. QED
      BY <1>5, <3>1, <3>2, <1>o
  <2>2. CASE UNCHANGED pVars
    BY <2>2, <1>s
  <2>3. QED
    BY <1>5, <2>1, <2>2 DEF SharedForGet
<1>6. ASSUME NEW p \in Callers, GetReturns(p) PROVE Goal
  <2>1. PC!OnlyFrame(p) /\ UNCHANGED pEntries /\ pFrame'[p].pc = "idle"
    BY <1>t, <1>6, PlanSame, PC!ReturnFrame DEF GetReturns
  <2>2. QED
    BY <2>1, <1>o DEF Inside
<1>7. ASSUME NEW p \in Callers,
             \/ SharedGoesOn(p) \/ LoadShared(p) \/ CompileShared(p) \/ LoadBundle(p)
             \/ Forget(p) \/ \E k \in Plans : Get(p, k)
      PROVE  Goal
  BY <1>7, <1>s DEF SharedGoesOn, LoadShared, CompileShared, LoadBundle, Forget, Get
<1>8. CASE Passes \/ ChangeShared \/ (\E k \in Plans : ChangePlan(k)) \/ UNCHANGED policyVars
  BY <1>8, <1>s DEF Passes, ChangeShared, ChangePlan, policyVars
<1>9. QED
  BY <1>1, <1>2, <1>3, <1>4, <1>5, <1>6, <1>7, <1>8 DEF Next, GoesOn

-----------------------------------------------------------------------------
\* Whether a compiled plan has libraries in it.
HasLibs(c) == c.plan \notin EmptyPlans \cup {0}

\* No get of plan k has returned, or can still return from what the cache holds,
\* a plan with libraries newer than b.
LibsUpTo(k, b) ==
    /\ seen[k].libs <= b
    /\ pEntries[k].val.libs <= b
    /\ \A p \in Callers : Inside(pFrame[p]) /\ pFrame[p].key = k =>
         PC!Reaches(p, {c \in PlanVals : c.libs <= b})

SeenOK(k) ==
    /\ seen[k].sh <= SharedNow
    /\ seen[k].plan <= pEntries[k].val.plan
    /\ LibsUpTo(k, SharedNow)
    /\ HasLibs(pEntries[k].val) => LibsUpTo(k, pEntries[k].val.libs)

\* The compiled plans that a get called with this floor may return.
Allowed(floor, top) ==
    {c \in PlanVals : /\ floor.plan <= c.plan /\ c.plan <= top
                      /\ HasLibs(c) => floor.libs <= c.libs}

\* A goroutine that compiles a plan uses libraries at least as new as any that
\* was compiled before it began: it asks the shared cache after the plan's flight
\* was taken, and the shared entry never goes back (policy.go:103-122).
FloorOK(p) ==
    LET c == call[p]
        k == c.key
        out == pFrame[p].out
    IN
    stage[p] # "idle" =>
      /\ c.floor.sh <= seen[k].sh
      /\ c.floor.plan <= seen[k].plan
      /\ c.floor.libs <= seen[k].libs
      /\ stage[p] = "shared" /\ HasShared => SC!Reaches(p, c.floor.sh .. SharedNow)
      /\ stage[p] \in {"plan", "libs"} =>
           /\ c.sh \in c.floor.sh .. SharedNow
           /\ PC!Reaches(p, Allowed(c.floor, pEntries[k].val.plan))
      /\ stage[p] = "libs" => \E b \in 0 .. SharedNow :
                                /\ LibsUpTo(k, b)
                                /\ HasShared => SC!Reaches(p, b .. SharedNow)
      /\ pFrame[p].pc = "store" => /\ out.val.libs <= SharedNow
                                   /\ HasLibs(out.val) => LibsUpTo(k, out.val.libs)

FloorsInv == (\A k \in Plans : SeenOK(k)) /\ (\A p \in Callers : FloorOK(p))

AdvanceInv == PolicyInv /\ SuccessInv /\ SharedOrder /\ PlanOrder /\ FloorsInv

LEMMA LibsUpToWider ==
  ASSUME PolicyInv, NEW k \in Plans, NEW b \in Nat, NEW d \in Nat, b <= d, LibsUpTo(k, b)
  PROVE  LibsUpTo(k, d)
<1>1. NumbersOK
  BY NumbersHold
<1>2. {c \in PlanVals : c.libs <= b} \subseteq {c \in PlanVals : c.libs <= d}
  BY <1>1 DEF NumbersOK
<1>3. \A p \in Callers : PC!Reaches(p, {c \in PlanVals : c.libs <= b}) =>
                           PC!Reaches(p, {c \in PlanVals : c.libs <= d})
  BY <1>2, InstancesOK, PC!ReachWider
<1>4. seen[k].libs <= d /\ pEntries[k].val.libs <= d
  BY <1>1 DEF LibsUpTo, NumbersOK
<1>5. QED
  BY <1>3, <1>4 DEF LibsUpTo

\* seen changes only when a get returns.
LEMMA SeenSteps ==
  ASSUME PolicyInv, [Next]_policyVars, NEW k \in Plans
  PROVE  /\ seen'[k].sh >= seen[k].sh /\ seen'[k].plan >= seen[k].plan
         /\ seen'[k].libs >= seen[k].libs
         /\ \/ seen'[k] = seen[k]
            \/ \E p \in Callers :
                 /\ stage[p] = "plan" /\ call[p].key = k
                 /\ pFrame[p].pc = "returned" /\ pFrame[p].key = k
                 /\ seen'[k] = [sh   |-> Later(seen[k].sh, call[p].sh),
                                plan |-> Later(seen[k].plan, pFrame[p].out.val.plan),
                                libs |-> Later(seen[k].libs, pFrame[p].out.val.libs)]
<1> DEFINE Changes(p) ==
             /\ stage[p] = "plan" /\ call[p].key = k
             /\ pFrame[p].pc = "returned" /\ pFrame[p].key = k
             /\ seen'[k] = [sh   |-> Later(seen[k].sh, call[p].sh),
                            plan |-> Later(seen[k].plan, pFrame[p].out.val.plan),
                            libs |-> Later(seen[k].libs, pFrame[p].out.val.libs)]
<1>i. NumbersOK /\ seen \in [Plans -> Floors] /\ \A p \in Callers : StageOK(p)
  BY NumbersHold DEF PolicyInv, CallTypes
<1>1. ASSUME NEW p \in Callers, GetReturns(p) PROVE seen'[k] = seen[k] \/ Changes(p)
  <2>1. /\ stage[p] = "plan" /\ pFrame[p].pc = "returned"
        /\ pFrame[p].key = call[p].key /\ call[p].key \in Plans
    BY <1>1, <1>i DEF GetReturns, StageOK, Inside
  <2>2. QED
    BY <1>1, <1>i, <2>1 DEF GetReturns
<1>2. seen'[k] = seen[k] \/ \E p \in Callers : GetReturns(p)
  BY DEF Next, GoesOn, Passes, ChangeShared, ChangePlan, Get, Forget, SharedGoesOn, PlanGoesOn,
     LoadShared, CompileShared, SharedForGet, LoadBundle, LoadBundleFails, LibsForPlan, policyVars
<1>3. seen'[k] = seen[k] \/ \E p \in Callers : Changes(p)
  BY <1>1, <1>2
<1>4. ASSUME NEW p \in Callers, Changes(p)
      PROVE  /\ seen'[k].sh >= seen[k].sh /\ seen'[k].plan >= seen[k].plan
             /\ seen'[k].libs >= seen[k].libs
  <2>1. call[p].sh \in Nat /\ pFrame[p].out.val.plan \in Nat /\ pFrame[p].out.val.libs \in Nat
    BY <1>i DEF NumbersOK
  <2>2. QED
    BY <1>4, <1>i, <2>1 DEF NumbersOK, Later
<1>5. /\ seen'[k].sh >= seen[k].sh /\ seen'[k].plan >= seen[k].plan
      /\ seen'[k].libs >= seen[k].libs
  <2> HIDE DEF Changes
  <2>1. CASE seen'[k] = seen[k]
    BY <2>1, <1>i DEF NumbersOK
  <2>2. QED
    BY <2>1, <1>3, <1>4
<1>6. QED
  BY <1>3, <1>5

LEMMA LibsUpToStep ==
  ASSUME ~LoadsMayPanic, PolicyInv, [Next]_policyVars,
         NEW k \in Plans, NEW b \in Nat, LibsUpTo(k, b),
         \A q \in Callers : PC!Store(q) /\ pFrame[q].key = k => pFrame[q].out.val.libs <= b
  PROVE  LibsUpTo(k, b)'
<1> DEFINE G == {c \in PlanVals : c.libs <= b}
<1>i. NumbersOK /\ \A p \in Callers : Inside(pFrame[p]) /\ pFrame[p].key = k => PC!Reaches(p, G)
  BY NumbersHold DEF LibsUpTo
<1>1. seen'[k].libs <= b
  <2>1. CASE seen'[k] = seen[k]
    BY <2>1 DEF LibsUpTo
  <2>2. CASE seen'[k] # seen[k]
    <3>1. PICK p \in Callers :
            /\ pFrame[p].pc = "returned" /\ pFrame[p].key = k
            /\ seen'[k] = [sh   |-> Later(seen[k].sh, call[p].sh),
                           plan |-> Later(seen[k].plan, pFrame[p].out.val.plan),
                           libs |-> Later(seen[k].libs, pFrame[p].out.val.libs)]
      BY <2>2, SeenSteps
    <3>2. pFrame[p].out.val \in G
      BY <3>1, <1>i DEF PC!Reaches, Inside
    <3>3. QED
      BY <3>1, <3>2 DEF LibsUpTo, Later
  <2>3. QED
    BY <2>1, <2>2
<1>2. pEntries'[k].val.libs <= b
  BY PlanSteps, PlanStore DEF LibsUpTo
<1>3. ASSUME NEW p \in Callers, Inside(pFrame'[p]), pFrame'[p].key = k PROVE PC!Reaches(p, G)'
  <2>1. CASE Inside(pFrame[p]) /\ pFrame'[p].key = pFrame[p].key
    <3>1. [PC!Next]_(PC!vars) /\ PC!FlightInv /\ PC!ResultInv /\ PC!ServeInv
      BY PlanMoves DEF PolicyInv, PlanInv
    <3>2. \A q \in Callers : PC!Store(q) /\ pFrame[q].key = pFrame[p].key =>
                               pFrame[q].out.val \in G
      BY <1>3, <2>1, <1>i DEF NumbersOK
    <3>3. PC!Reaches(p, G)
      BY <1>3, <1>i, <2>1
    <3> HIDE DEF G
    <3>4. QED
      BY <1>3, <2>1, <3>1, <3>2, <3>3, InstancesOK, PC!ReachStep DEF Inside
  <2>2. CASE pFrame'[p].pc = "enter" /\ UNCHANGED pEntries
    <3>1. pEntries[k].val \in G
      BY <1>i DEF LibsUpTo, NumbersOK
    <3>2. QED
      BY <1>3, <2>2, <3>1 DEF PC!Reaches
  <2>3. QED
    BY <1>3, <2>1, <2>2, PlanSteps
<1>4. QED
  BY <1>1, <1>2, <1>3 DEF LibsUpTo

\* What getShared can still answer lies between any bound it had before and the
\* shared entry.
LEMMA SharedReachStep ==
  ASSUME ~LoadsMayPanic, PolicyInv, SharedOrder, [Next]_policyVars, NEW p \in Callers,
         Inside(sFrame[p]), Inside(sFrame'[p]),
         NEW b \in Nat, b <= SharedNow, SC!Reaches(p, b .. SharedNow)
  PROVE  SC!Reaches(p, b .. SharedNow)'
<1>i. NumbersOK /\ SharedNow' >= SharedNow /\ PolicyInv'
  BY NumbersHold, SharedOrderStep, PolicyInvStep
<1>1. PICK n \in Nat : n = SharedNow'
  BY <1>i, NumbersNext DEF NumbersOK
<1>2. b .. SharedNow \subseteq b .. n
  BY <1>i, <1>1 DEF NumbersOK
<1>3. SC!Reaches(p, b .. n)
  BY <1>2, InstancesOK, SC!ReachWider
<1>4. \A q \in Callers : SC!Store(q) => sFrame[q].out.val \in b .. n
  BY <1>i, <1>1, SharedStore DEF NumbersOK
<1>5. [SC!Next]_(SC!vars) /\ SC!FlightInv /\ SC!ResultInv /\ SC!ServeInv
  BY SharedMoves DEF PolicyInv, SharedInv
<1>6. SC!Reaches(p, b .. n)'
  BY <1>3, <1>4, <1>5, InstancesOK, SC!ReachStep DEF Inside
<1>7. QED
  BY <1>1, <1>6

LEMMA SeenStep ==
  ASSUME ~LoadsMayPanic, AdvanceInv, [Next]_policyVars, NEW k \in Plans
  PROVE  SeenOK(k)'
<1>i. /\ PolicyInv /\ PolicyInv' /\ NumbersOK /\ NumbersOK'
      /\ SharedNow' >= SharedNow /\ pEntries'[k].val.plan >= pEntries[k].val.plan
      /\ SeenOK(k) /\ \A p \in Callers : FloorOK(p)
  BY PolicyInvStep, NumbersHold, NumbersNext, SharedOrderStep, PlanOrderStep
  DEF AdvanceInv, FloorsInv
<1>n. /\ SharedNow \in Nat /\ SharedNow' \in Nat
      /\ \A l \in Plans : pEntries[l].val.plan \in Nat /\ pEntries'[l].val.plan \in Nat
  BY <1>i DEF NumbersOK
<1>s. ASSUME NEW q \in Callers, PC!Store(q)
      PROVE  LET out == pFrame[q].out.val
             IN /\ out.libs \in Nat /\ out.libs <= SharedNow
                /\ HasLibs(out) => LibsUpTo(pFrame[q].key, out.libs)
  BY <1>s, <1>i, PlanStore DEF FloorOK, NumbersOK
<1>1. seen'[k].sh <= SharedNow' /\ seen'[k].plan <= pEntries'[k].val.plan
  <2>1. CASE seen'[k] = seen[k]
    BY <2>1, <1>i, <1>n DEF SeenOK, NumbersOK
  <2>2. CASE seen'[k] # seen[k]
    <3>1. PICK p \in Callers :
            /\ stage[p] = "plan" /\ call[p].key = k
            /\ pFrame[p].pc = "returned" /\ pFrame[p].key = k
            /\ seen'[k] = [sh   |-> Later(seen[k].sh, call[p].sh),
                           plan |-> Later(seen[k].plan, pFrame[p].out.val.plan),
                           libs |-> Later(seen[k].libs, pFrame[p].out.val.libs)]
      BY <2>2, <1>i, SeenSteps
    <3>2. call[p].sh \in call[p].floor.sh .. SharedNow
      BY <3>1, <1>i DEF FloorOK
    <3>3. pFrame[p].out.val \in Allowed(call[p].floor, pEntries[k].val.plan)
      BY <3>1, <1>i DEF FloorOK, PC!Reaches
    <3>4. seen'[k].sh <= SharedNow
      BY <3>1, <3>2, <1>i DEF SeenOK, NumbersOK, Later
    <3>5. seen'[k].plan <= pEntries[k].val.plan
      BY <3>1, <3>3, <1>i DEF SeenOK, Allowed, Later
    <3>6. QED
      BY <3>4, <3>5, <1>i, <1>n DEF NumbersOK
  <2>3. QED
    BY <2>1, <2>2
<1>2. LibsUpTo(k, SharedNow)'
  <2>1. PICK n \in Nat : n = SharedNow'
    BY <1>n
  <2>2. LibsUpTo(k, n)
    BY <2>1, <1>i, <1>n, LibsUpToWider DEF SeenOK
  <2>3. \A q \in Callers : PC!Store(q) /\ pFrame[q].key = k => pFrame[q].out.val.libs <= n
    BY <2>1, <1>i, <1>n, <1>s
  <2>4. LibsUpTo(k, n)'
    BY <2>2, <2>3, <1>i, LibsUpToStep
  <2>5. QED
    BY <2>1, <2>4
<1>3. HasLibs(pEntries'[k].val) => LibsUpTo(k, pEntries[k].val.libs)'
  <2>1. SUFFICES ASSUME HasLibs(pEntries'[k].val) PROVE LibsUpTo(k, pEntries[k].val.libs)'
    OBVIOUS
  <2>2. PICK n \in Nat : n = pEntries'[k].val.libs
    BY <1>i DEF NumbersOK
  <2>3. CASE \E q \in Callers : PC!Store(q) /\ pFrame[q].key = k
    <3>1. PICK q \in Callers : PC!Store(q) /\ pFrame[q].key = k
      BY <2>3
    <3>2. pFrame[q].out.val = pEntries'[k].val
      BY <3>1, <1>i, PlanStore
    <3>3. LibsUpTo(k, n)
      BY <2>1, <2>2, <3>1, <3>2, <1>s
    <3>4. \A r \in Callers : PC!Store(r) /\ pFrame[r].key = k => pFrame[r].out.val.libs <= n
      BY <2>2, <1>i, PlanStore
    <3>5. LibsUpTo(k, n)'
      BY <3>3, <3>4, <1>i, LibsUpToStep
    <3>6. QED
      BY <2>2, <3>5
  <2>4. CASE ~\E q \in Callers : PC!Store(q) /\ pFrame[q].key = k
    <3>1. pEntries'[k] = pEntries[k]
      BY <2>4, <1>i, PlanSteps
    <3>2. LibsUpTo(k, n)
      BY <2>1, <2>2, <3>1, <1>i DEF SeenOK
    <3>3. LibsUpTo(k, n)'
      BY <2>4, <3>2, <1>i, LibsUpToStep
    <3>4. QED
      BY <2>2, <3>3
  <2>5. QED
    BY <2>3, <2>4
<1>4. QED
  BY <1>1, <1>2, <1>3 DEF SeenOK

\* The parts of FloorOK, one by one: the floors,
LEMMA FloorsKept ==
  ASSUME ~LoadsMayPanic, AdvanceInv, [Next]_policyVars, NEW p \in Callers, stage'[p] # "idle"
  PROVE  LET floor == call'[p].floor
             k == call'[p].key
         IN floor.sh <= seen'[k].sh /\ floor.plan <= seen'[k].plan /\ floor.libs <= seen'[k].libs
<1>i. /\ PolicyInv /\ NumbersOK /\ NumbersOK' /\ FloorOK(p)
      /\ call \in [Callers -> CallRecord] /\ stage \in [Callers -> Stages]
  BY PolicyInvStep, NumbersHold, NumbersNext DEF AdvanceInv, FloorsInv, PolicyInv, CallTypes
<1>1. CASE stage[p] = "idle"
  <2>1. PICK k \in Plans : Get(p, k)
    BY <1>1, <1>i, CallSteps DEF SharedForGet, LoadBundle, LibsForPlan, GetReturns, Forget
  <2>2. call'[p].key = k /\ call'[p].floor = seen[k] /\ UNCHANGED seen
    BY <2>1, <1>i DEF Get, NoCall
  <2>3. QED
    BY <2>2, <1>i DEF NumbersOK
<1>2. CASE stage[p] # "idle"
  <2> DEFINE k == call[p].key
  <2>1. k \in Plans
    BY <1>2, <1>i DEF PolicyInv, StageOK
  <2>2. /\ seen'[k].sh >= seen[k].sh /\ seen'[k].plan >= seen[k].plan
        /\ seen'[k].libs >= seen[k].libs
    BY <2>1, <1>i, SeenSteps
  <2>3. call'[p].key = k /\ call'[p].floor = call[p].floor
    BY <1>2, <1>i, KeptInGet
  <2>4. /\ seen[k].sh \in Nat /\ seen[k].plan \in Nat /\ seen[k].libs \in Nat
        /\ seen'[k].sh \in Nat /\ seen'[k].plan \in Nat /\ seen'[k].libs \in Nat
        /\ call[p].floor.sh \in Nat /\ call[p].floor.plan \in Nat /\ call[p].floor.libs \in Nat
    BY <2>1, <1>i DEF NumbersOK
  <2>5. /\ call[p].floor.sh <= seen[k].sh /\ call[p].floor.plan <= seen[k].plan
        /\ call[p].floor.libs <= seen[k].libs
    BY <1>2, <1>i DEF FloorOK
  <2> HIDE DEF k
  <2>6. QED
    BY <2>2, <2>3, <2>4, <2>5
<1>3. QED
  BY <1>1, <1>2

\* the shared policy that get begins with,
LEMMA SharedFloorStep ==
  ASSUME ~LoadsMayPanic, AdvanceInv, [Next]_policyVars, NEW p \in Callers
  PROVE  /\ stage'[p] = "shared" /\ HasShared => SC!Reaches(p, call[p].floor.sh .. SharedNow)'
         /\ stage'[p] \in {"plan", "libs"} => call'[p].sh \in call'[p].floor.sh .. SharedNow'
<1>i. /\ PolicyInv /\ SharedOrder /\ NumbersOK /\ NumbersOK' /\ FloorOK(p) /\ StageOK(p)
      /\ StageOK(p)' /\ \A k \in Plans : SeenOK(k)
      /\ SharedNow' >= SharedNow /\ SharedNow \in Nat /\ SharedNow' \in Nat
      /\ call \in [Callers -> CallRecord] /\ stage \in [Callers -> Stages]
  BY PolicyInvStep, NumbersHold, NumbersNext, SharedOrderStep
  DEF AdvanceInv, FloorsInv, PolicyInv, CallTypes, NumbersOK
<1>1. ASSUME stage'[p] = "shared", HasShared
      PROVE  SC!Reaches(p, call[p].floor.sh .. SharedNow)'
  <2>1. CASE stage[p] = "shared"
    <3>1. call'[p].floor = call[p].floor /\ call[p].key \in Plans
      BY <2>1, <1>1, <1>i, KeptInGet DEF StageOK
    <3>2. PICK b \in Nat : b = call[p].floor.sh
      BY <1>i DEF NumbersOK
    <3>3. b <= SharedNow
      BY <2>1, <3>1, <3>2, <1>i DEF FloorOK, SeenOK, NumbersOK
    <3>4. Inside(sFrame[p]) /\ Inside(sFrame'[p])
      BY <1>1, <2>1, <1>i DEF StageOK
    <3>5. SC!Reaches(p, b .. SharedNow)
      BY <1>1, <2>1, <3>2, <1>i DEF FloorOK
    <3>6. SC!Reaches(p, b .. SharedNow)'
      BY <3>3, <3>4, <3>5, <1>i, SharedReachStep
    <3>7. QED
      BY <3>1, <3>2, <3>6
  <2>2. CASE stage[p] # "shared"
    <3>1. PICK k \in Plans : Get(p, k)
      BY <1>1, <2>2, <1>i, CallSteps DEF SharedForGet, LoadBundle, LibsForPlan, GetReturns, Forget
    <3>2. call'[p].floor = seen[k]
      BY <3>1, <1>i DEF Get, NoCall
    <3>3. Inside(sFrame'[p]) /\ ~Inside(sFrame[p])
      BY <1>1, <3>1, <1>i DEF StageOK, Get
    <3>4. sFrame'[p].pc = "enter" /\ UNCHANGED sEntries
      BY <3>3, <1>i, SharedSteps
    <3>5. sFrame'[p].key = SharedKey
      BY <3>4, PolicyInvStep, <1>i
      DEF PolicyInv, SharedInv, SC!FlightInv, SC!TypeInv, SC!LocalsOK
    <3>6. seen[k].sh \in Nat /\ seen[k].sh <= SharedNow /\ SharedNow' = SharedNow
      BY <3>4, <1>i DEF SeenOK, NumbersOK, SharedNow
    <3>7. sEntries'[SharedKey].val \in call'[p].floor.sh .. SharedNow'
      BY <3>2, <3>6, <1>i DEF SharedNow
    <3>8. QED
      BY <3>4, <3>5, <3>7 DEF SC!Reaches
  <2>3. QED
    BY <2>1, <2>2
<1>2. ASSUME stage'[p] \in {"plan", "libs"}
      PROVE  call'[p].sh \in call'[p].floor.sh .. SharedNow'
  <2>1. stage[p] # "idle" /\ stage'[p] # "idle"
    BY <1>2, <1>i, CallSteps DEF Get, SharedForGet, LoadBundle, LibsForPlan, GetReturns, Forget
  <2>2. call'[p].floor = call[p].floor /\ call[p].key \in Plans
    BY <2>1, <1>i, KeptInGet DEF StageOK
  <2>3. CASE SharedForGet(p)
    <3>1. /\ stage[p] = "shared" /\ SharedReturned(p) /\ call'[p].sh = SharedOut(p).val
      BY <1>2, <2>3, <1>i DEF SharedForGet, CallRecord
    <3>2. SharedOut(p).val \in call[p].floor.sh .. SharedNow
      <4>1. CASE HasShared
        BY <3>1, <4>1, <1>i DEF FloorOK, SC!Reaches, SharedReturned, SharedOut
      <4>2. CASE ~HasShared
        <5>1. SharedOut(p).val = 0 /\ SharedNow = 0
          BY <4>2, <1>i DEF SharedOut, SharedOrder
        <5>2. call[p].floor.sh \in Nat /\ seen[call[p].key].sh \in Nat
          BY <2>2, <1>i DEF NumbersOK
        <5>3. call[p].floor.sh <= seen[call[p].key].sh /\ seen[call[p].key].sh <= SharedNow
          BY <2>1, <2>2, <1>i DEF FloorOK, SeenOK
        <5>4. QED
          BY <5>1, <5>2, <5>3
      <4>3. QED
        BY <4>1, <4>2
    <3>3. QED
      BY <3>1, <3>2, <2>2, <1>i DEF NumbersOK
  <2>4. CASE ~SharedForGet(p)
    <3>1. stage[p] \in {"plan", "libs"}
      BY <1>2, <2>4, <1>i, CallSteps DEF Get, LoadBundle, LibsForPlan, GetReturns, Forget
    <3>2. QED
      BY <2>1, <2>2, <2>4, <3>1, <1>i, KeptInGet DEF FloorOK, NumbersOK
  <2>5. QED
    BY <2>3, <2>4
<1>3. QED
  BY <1>1, <1>2

\* the compiled plan that it goes on to,
LEMMA PlanFloorStep ==
  ASSUME ~LoadsMayPanic, AdvanceInv, [Next]_policyVars, NEW p \in Callers,
         stage'[p] \in {"plan", "libs"}
  PROVE  PC!Reaches(p, Allowed(call[p].floor, pEntries[call[p].key].val.plan))'
<1> DEFINE k == call[p].key
<1>i. /\ PolicyInv /\ PolicyInv' /\ NumbersOK /\ NumbersOK' /\ StageOK(p) /\ StageOK(p)'
      /\ (\A q \in Callers : FloorOK(q)) /\ \A l \in Plans : SeenOK(l)
      /\ call \in [Callers -> CallRecord] /\ stage \in [Callers -> Stages]
  BY PolicyInvStep, NumbersHold, NumbersNext DEF AdvanceInv, FloorsInv, PolicyInv, CallTypes
<1>1. stage[p] # "idle" /\ stage'[p] # "idle"
  BY <1>i, CallSteps DEF Get, SharedForGet, LoadBundle, LibsForPlan, GetReturns, Forget
<1>2. call'[p].floor = call[p].floor /\ call'[p].key = k /\ k \in Plans
  BY <1>1, <1>i, KeptInGet DEF StageOK
<1>3. PICK n \in Nat : n = pEntries'[k].val.plan
  BY <1>2, <1>i DEF NumbersOK
<1>4. pEntries[k].val.plan \in Nat /\ pEntries[k].val.plan <= n /\ seen[k].plan <= pEntries[k].val.plan
  BY <1>2, <1>3, <1>i, PlanOrderStep DEF AdvanceInv, SeenOK, NumbersOK
<1>5. PICK f \in Floors : f = call[p].floor
  BY <1>i DEF CallRecord
<1>6. f.sh \in Nat /\ f.plan \in Nat /\ f.libs \in Nat /\ f.plan <= seen[k].plan /\ f.libs <= seen[k].libs
  BY <1>1, <1>5, <1>i DEF FloorOK, Floors
<1>7. f.plan <= pEntries[k].val.plan /\ f.plan <= n
  BY <1>2, <1>4, <1>6, <1>i DEF NumbersOK
<1>8. \A b \in Nat : LibsUpTo(k, b) => f.libs <= b
  BY <1>2, <1>6, <1>i DEF LibsUpTo, NumbersOK
<1>9. PC!Reaches(p, Allowed(f, n))'
  <2>1. CASE stage[p] \in {"plan", "libs"}
    <3>1. /\ pFrame[p].pc # "idle" /\ pFrame'[p].pc # "idle" /\ pFrame[p].key = k
      BY <2>1, <1>i DEF StageOK, Inside
    <3>2. Allowed(f, pEntries[k].val.plan) \subseteq Allowed(f, n)
      BY <1>4, <1>i DEF Allowed, NumbersOK
    <3>3. PC!Reaches(p, Allowed(f, pEntries[k].val.plan))
      BY <2>1, <1>5, <1>i DEF FloorOK
    <3>4. PC!Reaches(p, Allowed(f, n))
      BY <3>2, <3>3, InstancesOK, PC!ReachWider
    <3>5. ASSUME NEW q \in Callers, PC!Store(q), pFrame[q].key = pFrame[p].key
          PROVE  pFrame[q].out.val \in Allowed(f, n)
      <4> DEFINE out == pFrame[q].out.val
      <4>1. /\ stage[q] = "plan" /\ call[q].key = k /\ pFrame[q].pc = "store"
            /\ out = pEntries'[k].val
        BY <3>1, <3>5, <1>i, PlanStore
      <4>2. out \in PlanVals /\ out.plan = n /\ out.libs \in Nat
        BY <4>1, <1>3, <1>i DEF NumbersOK
      <4>3. HasLibs(out) => LibsUpTo(k, out.libs)
        BY <4>1, <1>i DEF FloorOK
      <4>4. QED
        BY <4>2, <4>3, <1>7, <1>8 DEF Allowed
    <3>6. [PC!Next]_(PC!vars) /\ PC!FlightInv /\ PC!ResultInv /\ PC!ServeInv
      BY <1>i, PlanMoves DEF PolicyInv, PlanInv
    <3>7. QED
      BY <3>1, <3>4, <3>5, <3>6, InstancesOK, PC!ReachStep
  <2>2. CASE stage[p] \notin {"plan", "libs"}
    <3>1. SharedForGet(p)
      BY <2>2, <1>i, CallSteps DEF Get, LoadBundle, LibsForPlan, GetReturns, Forget
    <3>2. Inside(pFrame'[p]) /\ ~Inside(pFrame[p])
      BY <3>1, <1>i DEF SharedForGet, StageOK, Inside
    <3>3. pFrame'[p].key = k /\ pFrame'[p].pc = "enter" /\ UNCHANGED pEntries
      BY <3>2, <1>i, PlanSteps
    <3>4. HasLibs(pEntries[k].val) => f.libs <= pEntries[k].val.libs
      BY <1>2, <1>8, <1>i DEF SeenOK, NumbersOK
    <3>5. pEntries'[k].val \in Allowed(f, n)
      BY <1>2, <1>3, <1>4, <1>7, <3>3, <3>4, <1>i DEF Allowed, NumbersOK
    <3>6. QED
      BY <3>3, <3>5 DEF PC!Reaches
  <2>3. QED
    BY <2>1, <2>2
<1>10. QED
  BY <1>2, <1>3, <1>5, <1>9

\* the libraries that a plan's load waits for,
LEMMA LibsFloorStep ==
  ASSUME ~LoadsMayPanic, AdvanceInv, [Next]_policyVars, NEW p \in Callers, stage'[p] = "libs"
  PROVE  (\E b \in 0 .. SharedNow : /\ LibsUpTo(call[p].key, b)
                                    /\ HasShared => SC!Reaches(p, b .. SharedNow))'
<1> DEFINE k == call[p].key
<1>i. /\ PolicyInv /\ PolicyInv' /\ NumbersOK /\ NumbersOK' /\ StageOK(p) /\ StageOK(p)'
      /\ SharedOrder /\ FloorOK(p) /\ \A l \in Plans : SeenOK(l)
      /\ SharedNow \in Nat /\ SharedNow' \in Nat /\ SharedNow' >= SharedNow
      /\ call \in [Callers -> CallRecord] /\ stage \in [Callers -> Stages]
  BY PolicyInvStep, NumbersHold, NumbersNext, SharedOrderStep
  DEF AdvanceInv, FloorsInv, PolicyInv, CallTypes, NumbersOK
<1>1. stage[p] # "idle" /\ stage'[p] # "idle"
  BY <1>i, CallSteps DEF Get, SharedForGet, LoadBundle, LibsForPlan, GetReturns, Forget
<1>2. call'[p].key = k /\ k \in Plans
  BY <1>1, <1>i, KeptInGet DEF StageOK
<1>3. ASSUME NEW q \in Callers, PC!Store(q), pFrame[q].key = k PROVE FALSE
  <2>1. pFrame'[q].pc = "publish" /\ stage[q] = "plan" /\ pFrame[q].pc = "store"
    BY <1>3, <1>i, PlanStore
  <2>2. pFrame'[p].pc = "load" /\ pFrame'[p].key = k
    BY <1>2, <1>i DEF StageOK, Inside
  <2>3. pFrame'[p].pc \in PC!Leading /\ pFrame'[q].pc \in PC!Leading /\ pFrame'[q].key = k
    <3>1. pFrame'[q].key = pFrame[q].key
      BY <2>1, <1>i, PlanSteps DEF Inside
    <3>2. QED
      BY <1>3, <2>1, <2>2, <3>1 DEF PC!Leading
  <2>4. p = q
    BY <2>2, <2>3, <1>i DEF PolicyInv, PlanInv, PC!FlightInv, PC!FlightParts, PC!SingleFlight,
       PC!Leading
  <2>5. QED
    BY <2>1, <2>2, <2>4
<1>4. ASSUME NEW b \in Nat, b <= SharedNow, LibsUpTo(k, b),
             HasShared => SC!Reaches(p, b .. SharedNow)'
      PROVE  (\E d \in 0 .. SharedNow : /\ LibsUpTo(call[p].key, d)
                                        /\ HasShared => SC!Reaches(p, d .. SharedNow))'
  <2>1. LibsUpTo(k, b)'
    <3>1. PICK l \in Plans : l = k
      BY <1>2
    <3>2. LibsUpTo(l, b)'
      BY <1>3, <1>4, <1>i, <3>1, LibsUpToStep
    <3>3. QED
      BY <1>2, <3>1, <3>2
  <2>2. b \in 0 .. SharedNow'
    BY <1>4, <1>i
  <2>3. QED
    BY <1>2, <1>4, <2>1, <2>2
<1>5. CASE stage[p] = "libs"
  <2>1. PICK b \in 0 .. SharedNow : LibsUpTo(k, b) /\ (HasShared => SC!Reaches(p, b .. SharedNow))
    BY <1>5, <1>i DEF FloorOK
  <2>2. b \in Nat /\ b <= SharedNow
    BY <2>1, <1>i
  <2>3. HasShared => Inside(sFrame[p]) /\ Inside(sFrame'[p])
    BY <1>5, <1>i DEF StageOK
  <2>4. HasShared => SC!Reaches(p, b .. SharedNow)'
    BY <2>1, <2>2, <2>3, <1>i, SharedReachStep
  <2>5. QED
    BY <1>4, <2>1, <2>2, <2>4
<1>6. CASE stage[p] # "libs"
  <2>1. LoadBundle(p)
    BY <1>6, <1>i, CallSteps DEF Get, SharedForGet, LibsForPlan, GetReturns, Forget
  <2>2. PICK b \in Nat : b = SharedNow
    BY <1>i
  <2>3. LibsUpTo(k, b)
    BY <2>2, <1>2, <1>i DEF SeenOK
  <2>4. ASSUME HasShared PROVE SC!Reaches(p, b .. SharedNow)'
    <3>1. Inside(sFrame'[p]) /\ ~Inside(sFrame[p])
      BY <2>4, <2>1, <1>i DEF StageOK, LoadBundle
    <3>2. sFrame'[p].pc = "enter" /\ UNCHANGED sEntries
      BY <3>1, <1>i, SharedSteps
    <3>3. sFrame'[p].key = SharedKey
      BY <3>2, <1>i DEF PolicyInv, SharedInv, SC!FlightInv, SC!TypeInv, SC!LocalsOK
    <3>4. sEntries'[SharedKey].val \in b .. SharedNow'
      BY <2>2, <3>2, <1>i DEF SharedNow
    <3>5. QED
      BY <3>2, <3>3, <3>4 DEF SC!Reaches
  <2>5. b <= SharedNow
    BY <2>2, <1>i
  <2>6. QED
    BY <1>4, <2>3, <2>4, <2>5
<1>7. QED
  BY <1>5, <1>6

\* and the plan that has been compiled and is not in the cache yet.
LEMMA StoreFloorStep ==
  ASSUME ~LoadsMayPanic, AdvanceInv, [Next]_policyVars, NEW p \in Callers,
         pFrame'[p].pc = "store", stage'[p] # "idle"
  PROVE  /\ pFrame'[p].out.val.libs <= SharedNow'
         /\ HasLibs(pFrame'[p].out.val) => LibsUpTo(call[p].key, pFrame[p].out.val.libs)'
<1> DEFINE k == call[p].key
           new == pFrame'[p].out.val
<1>i. /\ PolicyInv /\ PolicyInv' /\ NumbersOK /\ NumbersOK' /\ StageOK(p) /\ StageOK(p)'
      /\ SharedOrder /\ FloorOK(p)
      /\ SharedNow \in Nat /\ SharedNow' \in Nat /\ SharedNow' >= SharedNow
      /\ call \in [Callers -> CallRecord] /\ stage \in [Callers -> Stages]
  BY PolicyInvStep, NumbersHold, NumbersNext, SharedOrderStep
  DEF AdvanceInv, FloorsInv, PolicyInv, CallTypes, NumbersOK
<1>1. pFrame'[p] = pFrame[p] \/ LibsForPlan(p)
  BY <1>i, PlanSteps
<1>2. stage[p] # "idle" /\ Inside(pFrame[p])
  BY <1>1, <1>i DEF LibsForPlan, StageOK, Inside
<1>3. call'[p].key = k /\ k \in Plans /\ pFrame[p].key = k
  BY <1>2, <1>i, KeptInGet DEF StageOK
<1>4. PICK n \in Nat : n = new.libs
  BY <1>i DEF NumbersOK
<1>5. n <= SharedNow /\ (HasLibs(new) => LibsUpTo(k, n))
  <2>1. CASE pFrame'[p] = pFrame[p]
    BY <1>2, <1>4, <2>1, <1>i DEF FloorOK
  <2>2. CASE LibsForPlan(p)
    <3> DEFINE out == SharedOut(p)
    <3>1. stage[p] = "libs" /\ SharedReturned(p)
      BY <2>2 DEF LibsForPlan
    <3>2. PICK b \in 0 .. SharedNow : LibsUpTo(k, b) /\ (HasShared => SC!Reaches(p, b .. SharedNow))
      BY <3>1, <1>i DEF FloorOK
    <3>3. out.val \in b .. SharedNow
      <4>1. CASE HasShared
        BY <3>1, <3>2, <4>1 DEF SC!Reaches, SharedReturned, SharedOut
      <4>2. CASE ~HasShared
        BY <3>2, <4>2, <1>i DEF SharedOut, SharedOrder
      <4>3. QED
        BY <4>1, <4>2
    <3>4. new = CompilePlan(call[p].bundle, out.val)
      <4>1. PC!ConstantsOK /\ PC!TypeInv
        BY <1>i, InstancesOK, TypesOfCaches
      <4>2. QED
        BY <2>2, <4>1, PlanSame, PC!LoadFrame DEF LibsForPlan
    <3>5. new.libs <= SharedNow /\ (HasLibs(new) => new.libs = out.val)
      BY <3>3, <3>4, <1>i DEF CompilePlan, HasLibs
    <3>6. HasLibs(new) => LibsUpTo(k, n)
      <4>1. SUFFICES ASSUME HasLibs(new) PROVE LibsUpTo(k, n)
        OBVIOUS
      <4>2. b \in Nat /\ b <= n
        BY <3>2, <3>3, <3>5, <4>1, <1>4, <1>i
      <4>3. QED
        BY <1>3, <1>4, <3>2, <4>2, <1>i, LibsUpToWider
    <3>7. QED
      BY <1>4, <3>5, <3>6
  <2>3. QED
    BY <1>1, <2>1, <2>2
<1>6. ASSUME NEW q \in Callers, PC!Store(q), pFrame[q].key = k PROVE FALSE
  <2>1. /\ pFrame[q].pc = "store" /\ pFrame'[q].pc = "publish" /\ stage[q] = "plan"
        /\ \A r \in Callers : pFrame[r].pc \in PC!Leading /\ pFrame[r].key = pFrame[q].key => r = q
    BY <1>6, <1>i, PlanStore
  <2>2. pFrame[p].pc \in PC!Leading
    BY <1>1, <1>i DEF LibsForPlan, StageOK, PC!Leading
  <2>3. QED
    BY <1>3, <1>6, <2>1, <2>2
<1>7. HasLibs(new) => LibsUpTo(k, n)'
  <2>1. PICK l \in Plans : l = k
    BY <1>3
  <2>2. HasLibs(new) => LibsUpTo(l, n)'
    BY <1>5, <1>6, <1>i, <2>1, LibsUpToStep
  <2>3. QED
    BY <1>3, <2>1, <2>2
<1>8. QED
  BY <1>3, <1>4, <1>5, <1>7, <1>i

LEMMA AdvanceInvStep ==
  ASSUME ~LoadsMayPanic, AdvanceInv, [Next]_policyVars
  PROVE  AdvanceInv'
<1>1. PolicyInv' /\ SuccessInv' /\ SharedOrder' /\ PlanOrder'
  BY PolicyInvStep, SuccessStep, SharedOrderStep, PlanOrderStep DEF AdvanceInv
<1>2. \A k \in Plans : SeenOK(k)'
  BY SeenStep
<1>3. ASSUME NEW p \in Callers PROVE FloorOK(p)'
  BY FloorsKept, SharedFloorStep, PlanFloorStep, LibsFloorStep, StoreFloorStep DEF FloorOK
<1>4. QED
  BY <1>1, <1>2, <1>3 DEF AdvanceInv, FloorsInv

LEMMA AdvanceInvInit == Init => AdvanceInv
<1> SUFFICES ASSUME Init PROVE AdvanceInv
  OBVIOUS
<1>1. PolicyInv /\ SuccessInv /\ NumbersOK
  BY PolicyInvInit, SuccessInit, NumbersHold
<1>2. /\ SharedNow = 0 /\ \A k \in Plans : pEntries[k].val = NoPlan
      /\ \A p \in Callers : sFrame[p].pc = "idle" /\ pFrame[p].pc = "idle"
  BY DEF Init, Shared!CacheInit, Plan!CacheInit, Shared!NoEntry, Plan!NoEntry, Shared!IdleFrame,
     Plan!IdleFrame, SharedNow
<1>3. \A p \in Callers : stage[p] = "idle" /\ call[p] = NoCall
  BY DEF Init
<1>4. \A k \in Plans : seen[k].sh = 0 /\ seen[k].plan = 0 /\ seen[k].libs = 0
  BY DEF Init
<1>5. NoCall.read = 0 /\ NoPlan.plan = 0 /\ NoPlan.libs = 0
  BY DEF NoCall, NoPlan
<1>6. SharedOrder /\ PlanOrder
  BY <1>1, <1>2, <1>3, <1>5 DEF SharedOrder, PlanOrder, NumbersOK
<1>7. \A k \in Plans : SeenOK(k)
  BY <1>2, <1>4, <1>5 DEF SeenOK, LibsUpTo, HasLibs, Inside
<1>8. \A p \in Callers : FloorOK(p)
  BY <1>3 DEF FloorOK
<1>9. QED
  BY <1>1, <1>6, <1>7, <1>8 DEF AdvanceInv, FloorsInv

AdvanceOK(p) ==
    LET c == call[p] IN
    c.outcome = "ok" =>
        /\ c.sh >= c.floor.sh
        /\ c.got.plan >= c.floor.plan
        /\ c.got.plan \notin EmptyPlans => c.got.libs >= c.floor.libs

LEMMA AdvanceStep ==
  ASSUME ~LoadsMayPanic, AdvanceInv, PoliciesAdvance, [Next]_policyVars, NEW p \in Callers
  PROVE  AdvanceOK(p)'
<1>i. /\ PolicyInv /\ NumbersOK /\ FloorOK(p) /\ SuccessOK(p) /\ AdvanceOK(p)
      /\ call \in [Callers -> CallRecord] /\ stage \in [Callers -> Stages]
  BY NumbersHold
  DEF AdvanceInv, FloorsInv, SuccessInv, PolicyInv, CallTypes, PoliciesAdvance, AdvanceOK
<1>1. CASE GetReturns(p) /\ call'[p].outcome = "ok"
  <2> DEFINE out == pFrame[p].out
  <2>1. /\ PlanUsable(out) /\ call'[p].got = out.val
        /\ call'[p].sh = call[p].sh /\ call'[p].floor = call[p].floor
    BY <1>1, <1>i, ReturnedCall
  <2>2. stage[p] = "plan" /\ pFrame[p].pc = "returned"
    BY <1>1 DEF GetReturns
  <2>3. /\ call[p].sh \in call[p].floor.sh .. SharedNow
        /\ out.val \in Allowed(call[p].floor, pEntries[call[p].key].val.plan)
    BY <2>2, <1>i DEF FloorOK, PC!Reaches
  <2>4. out.val.plan # 0
    <3>1. PC!GoodResult(out) /\ out.val \in PlanVals
      BY <2>2, <1>i DEF PolicyInv, PlanInv, PC!ServeInv, PC!ResultsGood, NumbersOK
    <3>2. out.val \in Sound
      BY <2>1, <3>1 DEF PlanUsable, PlanVals, PC!GoodResult
    <3>3. QED
      BY <3>2, PolicyConstantsOK DEF Sound, Compiled
  <2>5. QED
    BY <2>1, <2>3, <2>4, <1>i DEF AdvanceOK, Allowed, HasLibs, NumbersOK
<1>2. CASE SharedForGet(p) \/ LoadBundle(p) \/ LibsForPlan(p) \/ Forget(p) \/ \E k \in Plans : Get(p, k)
  <2>1. call'[p].outcome # "ok"
    <3>1. CASE SharedForGet(p)
      BY <3>1, <1>i DEF SharedForGet, SuccessOK, CallRecord
    <3>2. CASE LoadBundle(p) \/ LibsForPlan(p)
      BY <3>2, <1>i DEF LoadBundle, LibsForPlan, SuccessOK, CallRecord
    <3>3. CASE Forget(p) \/ \E k \in Plans : Get(p, k)
      <4>1. \A k \in Plans : Get(p, k) => call'[p].outcome = "none"
        BY <1>i DEF Get, NoCall
      <4>2. Forget(p) => call'[p].outcome = "none"
        BY <1>i DEF Forget, NoCall
      <4>3. QED
        BY <3>3, <4>1, <4>2
    <3>4. QED
      BY <1>2, <3>1, <3>2, <3>3
  <2>2. QED
    BY <2>1 DEF AdvanceOK
<1>3. QED
  BY <1>1, <1>2, <1>i, CallSteps DEF AdvanceOK

\* Policies never go back (policy.go:150-167): what a get returns is no older, in
\* its shared policy, its plan bundle and the libraries compiled into it, than what
\* any get of the plan had returned when it was called; loads may fail, but not
\* panic.
THEOREM PoliciesAdvanceHolds ==
  ASSUME ~LoadsMayPanic
  PROVE  Spec => []PoliciesAdvance
<1>1. Init => AdvanceInv /\ PoliciesAdvance
  <2>1. Init => \A p \in Callers : call[p].outcome # "ok"
    <3>1. NoCall.outcome = "none"
      BY DEF NoCall
    <3>2. QED
      BY <3>1 DEF Init
  <2>2. QED
    BY <2>1, AdvanceInvInit DEF PoliciesAdvance
<1>2. AdvanceInv /\ PoliciesAdvance /\ [Next]_policyVars => (AdvanceInv /\ PoliciesAdvance)'
  BY AdvanceInvStep, AdvanceStep DEF PoliciesAdvance, AdvanceOK
<1>3. QED
  BY <1>1, <1>2, PTL DEF Spec

-----------------------------------------------------------------------------
\* The shared revisions, and the plans compiled against one, that had not been
\* replaced before t.
Recent(t) == {v \in SharedVals : UpToDate(sharedBorn, v, t)}
RecentLibs(t) == {c \in PlanVals : UpToDate(sharedBorn, c.libs, t)}

LEMMA BornTimes ==
  ASSUME PolicyInv
  PROVE  /\ \A v \in SharedVals : v \in Nat
         /\ \A c \in PlanVals : c.libs \in SharedVals
         /\ \A v \in 1 .. CurrentShared : sharedBorn[v] \in Nat
         /\ now \in Nat /\ CurrentShared \in SharedVals
         /\ \A p \in Callers : call[p].at \in Nat
         /\ Age \in Nat
<1>1. /\ \A v \in SharedVals : v \in Nat
      /\ CurrentShared \in SharedVals /\ Age \in Nat
  BY PolicyConstantsOK DEF SharedVals, PolicyInv, SourcesOK, Age
<1>2. \A c \in PlanVals : c.libs \in SharedVals
  <2>1. \A c \in Compiled : c.libs \in SharedVals
    BY DEF Compiled, SharedVals
  <2>2. NoPlan.libs = 0
    BY DEF NoPlan
  <2>3. QED
    BY <2>1, <2>2, InstancesOK DEF PlanVals, SharedVals
<1>3. \A v \in 1 .. CurrentShared : sharedBorn[v] \in Nat
  BY DEF PolicyInv, SourcesOK, CurrentShared
<1>4. now \in Nat /\ \A p \in Callers : call[p].at \in Nat
  BY NumbersHold DEF NumbersOK
<1>5. QED
  BY <1>1, <1>2, <1>3, <1>4

\* The zero values are no revisions, and what is current has not been replaced.
LEMMA RecentNow ==
  ASSUME PolicyInv, NEW t \in Int
  PROVE  0 \in Recent(t) /\ CurrentShared \in Recent(t) /\ NoPlan \in RecentLibs(t)
<1>1. NoPlan.libs = 0 /\ NoPlan \in PlanVals
  BY DEF NoPlan, PlanVals
<1>2. \A t1 : UpToDate(sharedBorn, 0, t1) /\ UpToDate(sharedBorn, CurrentShared, t1)
  BY BornTimes DEF UpToDate, CurrentShared
<1>3. QED
  BY <1>1, <1>2, BornTimes DEF Recent, RecentLibs, SharedVals

LEMMA RecentWider ==
  ASSUME PolicyInv, NEW t \in Int, NEW u \in Int, t <= u
  PROVE  Recent(u) \subseteq Recent(t) /\ RecentLibs(u) \subseteq RecentLibs(t)
<1>1. ASSUME NEW v \in SharedVals, UpToDate(sharedBorn, v, u) PROVE UpToDate(sharedBorn, v, t)
  <2>1. SUFFICES ASSUME v \in 1 .. Len(sharedBorn) - 1 PROVE sharedBorn[v + 1] >= t
    BY DEF UpToDate
  <2>2. sharedBorn[v + 1] >= u
    BY <1>1, <2>1 DEF UpToDate
  <2>3. sharedBorn[v + 1] \in Nat
    <3>1. CurrentShared \in Nat /\ v \in Nat
      BY BornTimes
    <3>2. v + 1 \in 1 .. CurrentShared
      BY <2>1, <3>1 DEF CurrentShared
    <3>3. QED
      BY <3>2, BornTimes
  <2>4. QED
    BY <2>2, <2>3
<1>2. QED
  BY <1>1, BornTimes DEF Recent, RecentLibs

\* A revision is replaced now or not at all.
LEMMA RecentKept ==
  ASSUME PolicyInv, [Next]_policyVars, NEW t \in Int, t <= now
  PROVE  Recent(t)' = Recent(t) /\ RecentLibs(t)' = RecentLibs(t)
<1>1. \/ sharedBorn' = sharedBorn
      \/ sharedBorn' = Append(sharedBorn, now)
  BY DEF Next, GoesOn, Passes, ChangeShared, ChangePlan, Get, Forget, SharedGoesOn, PlanGoesOn,
     LoadShared, CompileShared, SharedForGet, LoadBundle, LoadBundleFails, LibsForPlan,
     GetReturns, policyVars, sources
<1>2. ASSUME NEW v \in SharedVals
      PROVE  UpToDate(sharedBorn, v, t)' <=> UpToDate(sharedBorn, v, t)
  <2>1. CASE sharedBorn' = sharedBorn
    BY <2>1 DEF UpToDate
  <2>2. CASE sharedBorn' = Append(sharedBorn, now)
    <3>1. /\ v \in Nat /\ now \in Nat /\ Len(sharedBorn) \in Nat /\ sharedBorn \in Seq(Nat)
      BY BornTimes, NumbersHold DEF PolicyInv, SourcesOK, CurrentShared, NumbersOK
    <3>2. /\ Len(sharedBorn') = Len(sharedBorn) + 1
          /\ \A i \in 1 .. Len(sharedBorn) : sharedBorn'[i] = sharedBorn[i]
          /\ sharedBorn'[Len(sharedBorn) + 1] = now
      BY <2>2, <3>1
    <3>3. QED
      BY <3>1, <3>2 DEF UpToDate
  <2>3. QED
    BY <1>1, <2>1, <2>2
<1>3. QED
  BY <1>2, BornTimes DEF Recent, RecentLibs

-----------------------------------------------------------------------------
\* How loads end when none of them fails.
LEMMA SharedLoaded ==
  ASSUME ~LoadsMayFail, PolicyInv, [Next]_policyVars, NEW p \in Callers,
         sFrame[p].pc = "load", sFrame'[p].pc # "load"
  PROVE  /\ sFrame'[p].out.err # "error"
         /\ sFrame'[p].out.val \in {0, call[p].read}
<1> DEFINE Goal == sFrame'[p].out.err # "error" /\ sFrame'[p].out.val \in {0, call[p].read}
<1>1. ASSUME sFrame' = sFrame PROVE Goal
  BY <1>1
<1>2. ASSUME NEW q \in Callers, SharedGoesOn(q) \/ CallShared(q) \/ LeaveShared(q) PROVE Goal
  <2>1. SC!OnlyFrame(q) /\ (q = p => sFrame' = sFrame)
    BY <1>2, SharedFrames DEF Inside
  <2>2. QED
    BY <2>1, <1>1 DEF SC!OnlyFrame
<1>3. ASSUME NEW q \in Callers, CompileShared(q) PROVE Goal
  <2>1. SC!OnlyFrame(q)
    BY <1>3, SharedFrames
  <2>2. q = p
    BY <2>1 DEF SC!OnlyFrame
  <2>3. SC!LoadOK(p, call[p].read) \/ SC!LoadPanic(p)
    BY <1>3, <2>2, SharedSame DEF CompileShared
  <2>4. QED
    BY <2>3, InstancesOK, TypesOfCaches, SC!LoadFrame
<1> SUFFICES Goal
  OBVIOUS
<1> HIDE DEF Goal
<1>4. ASSUME NEW q \in Callers,
             \/ LoadBundle(q) \/ (\E k \in Plans : Get(q, k))
             \/ SharedForGet(q) \/ LibsForPlan(q)
      PROVE  Goal
  BY <1>4, <1>2 DEF LoadBundle, Get, SharedForGet, LibsForPlan
<1>5. ASSUME UNCHANGED sVars PROVE Goal
  BY <1>5, <1>1 DEF sVars
<1>6. ASSUME NEW q \in Callers,
             PlanGoesOn(q) \/ LoadShared(q) \/ LoadBundleFails(q) \/ GetReturns(q) \/ Forget(q)
      PROVE  Goal
  BY <1>6, <1>5 DEF PlanGoesOn, LoadShared, LoadBundleFails, GetReturns, Forget
<1>7. CASE Passes \/ ChangeShared \/ (\E k \in Plans : ChangePlan(k)) \/ UNCHANGED policyVars
  BY <1>7, <1>5 DEF Passes, ChangeShared, ChangePlan, policyVars
<1>8. QED
  BY <1>2, <1>3, <1>4, <1>6, <1>7 DEF Next, GoesOn

LEMMA PlanLoaded ==
  ASSUME ~LoadsMayFail, PolicyInv, SC!NoErrors, [Next]_policyVars, NEW p \in Callers,
         pFrame[p].pc = "load", pFrame'[p].pc # "load"
  PROVE  \/ pFrame'[p].out.val = NoPlan
         \/ /\ stage[p] = "libs" /\ SharedReturned(p)
            /\ pFrame'[p].out.val = CompilePlan(call[p].bundle, SharedOut(p).val)
<1> DEFINE Goal == \/ pFrame'[p].out.val = NoPlan
                   \/ /\ stage[p] = "libs" /\ SharedReturned(p)
                      /\ pFrame'[p].out.val = CompilePlan(call[p].bundle, SharedOut(p).val)
<1>t. PC!ConstantsOK /\ PC!TypeInv
  BY InstancesOK, TypesOfCaches
<1>s. ASSUME NEW q \in Callers, PC!OnlyFrame(q), pFrame[q].pc # "load" \/ pFrame'[q] = pFrame[q]
      PROVE  Goal
  BY <1>s DEF PC!OnlyFrame
<1>1. ASSUME UNCHANGED pVars PROVE Goal
  BY <1>1 DEF pVars
<1>2. ASSUME NEW q \in Callers, LoadBundleFails(q) PROVE Goal
  <2>1. PC!LoadPanic(q)
    BY <1>2, PlanSame DEF LoadBundleFails
  <2>2. PC!OnlyFrame(q) /\ pFrame'[q].out.val = NoPlan
    BY <2>1, <1>t, PC!LoadFrame
  <2>3. q = p
    BY <2>2 DEF PC!OnlyFrame
  <2>4. QED
    BY <2>2, <2>3
<1>3. ASSUME NEW q \in Callers, LibsForPlan(q) PROVE Goal
  <2>1. SharedOut(q).err # "error" /\ stage[q] = "libs" /\ SharedReturned(q)
    BY <1>3 DEF LibsForPlan, SharedOut, SC!NoErrors
  <2>2. \/ PC!LoadOK(q, CompilePlan(call[q].bundle, SharedOut(q).val))
        \/ PC!LoadPanic(q)
    BY <1>3, <2>1, PlanSame DEF LibsForPlan
  <2>3. /\ PC!OnlyFrame(q)
        /\ \/ pFrame'[q].out.val = NoPlan
           \/ pFrame'[q].out.val = CompilePlan(call[q].bundle, SharedOut(q).val)
    BY <2>2, <1>t, PC!LoadFrame
  <2>4. q = p
    BY <2>3 DEF PC!OnlyFrame
  <2>5. QED
    BY <2>1, <2>3, <2>4
<1> SUFFICES Goal
  OBVIOUS
<1> HIDE DEF Goal
<1>4. ASSUME NEW q \in Callers, PlanGoesOn(q) PROVE Goal
  BY <1>4, <1>s, PlanFrames DEF PlanGoesOn
<1>5. ASSUME NEW q \in Callers, GetReturns(q) PROVE Goal
  <2>1. PC!OnlyFrame(q) /\ pFrame[q].pc = "returned"
    BY <1>5, PlanFrames DEF GetReturns
  <2>2. QED
    BY <2>1, <1>s
<1>6. ASSUME NEW q \in Callers, SharedForGet(q) PROVE Goal
  <2>1. CASE Plan!Call(q, call[q].key)
    BY <2>1, <1>s, PlanFrames DEF Inside
  <2>2. QED
    BY <1>6, <2>1, <1>1 DEF SharedForGet
<1>7. ASSUME NEW q \in Callers,
             \/ SharedGoesOn(q) \/ LoadShared(q) \/ CompileShared(q) \/ LoadBundle(q)
             \/ Forget(q) \/ \E k \in Plans : Get(q, k)
      PROVE  Goal
  BY <1>7, <1>1 DEF SharedGoesOn, LoadShared, CompileShared, LoadBundle, Forget, Get
<1>8. CASE Passes \/ ChangeShared \/ (\E k \in Plans : ChangePlan(k)) \/ UNCHANGED policyVars
  BY <1>8, <1>1 DEF Passes, ChangeShared, ChangePlan, policyVars
<1>9. QED
  BY <1>2, <1>3, <1>4, <1>5, <1>6, <1>7, <1>8 DEF Next, GoesOn

\* The clock stands still while a load runs.
LEMMA ClockSteps ==
  ASSUME PromptLoads, PolicyInv, [Next]_policyVars
  PROVE  \/ now' = now
         \/ /\ now' = now + 1 /\ UNCHANGED <<sVars, pVars, sources, stage, call>>
            /\ \A p \in Callers : sFrame[p].pc \notin SC!Leading /\ pFrame[p].pc \notin PC!Leading
<1>1. CASE Passes
  BY <1>1, SharedSame, PlanSame DEF Passes
<1>2. CASE ~Passes
  BY <1>2 DEF Next, GoesOn, ChangeShared, ChangePlan, Get, Forget, SharedGoesOn, PlanGoesOn,
     LoadShared, CompileShared, SharedForGet, LoadBundle, LoadBundleFails, LibsForPlan,
     GetReturns, policyVars
<1>3. QED
  BY <1>1, <1>2

\* What a load has read.
LEMMA ReadSteps ==
  ASSUME PolicyInv, [Next]_policyVars, NEW p \in Callers
  PROVE  call'[p].read \in {0, call[p].read, CurrentShared}
<1> DEFINE Goal == call'[p].read \in {0, call[p].read, CurrentShared}
<1>i. call \in [Callers -> CallRecord]
  BY DEF PolicyInv, CallTypes
<1>1. ASSUME NEW q \in Callers, NEW k \in Plans, Get(q, k) PROVE Goal
  <2>1. \A r \in Callers : r # q => call'[r] = call[r]
    BY <1>1, <1>i DEF Get
  <2>2. call'[q].read = 0
    BY <1>1, <1>i DEF Get, NoCall
  <2>3. QED
    BY <2>1, <2>2
<1>2. ASSUME NEW q \in Callers, SharedForGet(q) \/ LoadBundle(q) \/ LibsForPlan(q) PROVE Goal
  BY <1>2, <1>i DEF SharedForGet, LoadBundle, LibsForPlan, CallRecord
<1>3. ASSUME NEW q \in Callers, LoadShared(q) \/ CompileShared(q) PROVE Goal
  BY <1>3, <1>i DEF LoadShared, CompileShared, CallRecord
<1>4. ASSUME NEW q \in Callers, GetReturns(q) PROVE Goal
  BY <1>4, <1>i, ReturnedCall
<1>5. ASSUME NEW q \in Callers, Forget(q) PROVE Goal
  BY <1>5, <1>i DEF Forget, NoCall
<1>6. ASSUME UNCHANGED call PROVE Goal
  BY <1>6
<1> SUFFICES Goal
  OBVIOUS
<1> HIDE DEF Goal
<1>7. ASSUME NEW q \in Callers, SharedGoesOn(q) \/ PlanGoesOn(q) \/ LoadBundleFails(q) PROVE Goal
  BY <1>7, <1>6 DEF SharedGoesOn, PlanGoesOn, LoadBundleFails
<1>8. CASE Passes \/ ChangeShared \/ (\E k \in Plans : ChangePlan(k)) \/ UNCHANGED policyVars
  BY <1>8, <1>6 DEF Passes, ChangeShared, ChangePlan, policyVars
<1>9. QED
  BY <1>1, <1>2, <1>3, <1>4, <1>5, <1>7, <1>8 DEF Next, GoesOn

-----------------------------------------------------------------------------
\* How old what a cache holds and a Get hands out can be, when loads neither fail
\* nor take time.  An entry was loaded TTL before its deadline; a plan is compiled
\* with what the shared cache answers, so its libraries are that much older again.
SharedEntryAge ==
    sEntries[SharedKey].have /\ TTL > 0 =>
      LET t == sEntries[SharedKey].until - TTL IN t <= now /\ SharedNow \in Recent(t)

PlanEntryAge(k) ==
    pEntries[k].have /\ TTL > 0 =>
      LET t == pEntries[k].until - TTL IN t <= now /\ pEntries[k].val \in RecentLibs(t - Age)

EntryAges == SharedEntryAge /\ \A k \in Plans : PlanEntryAge(k)

\* When p's getShared was called: a load takes no time.
AskedShared(p) == IF stage[p] = "libs" THEN now ELSE call[p].at

SharedAgeOK(p) ==
    /\ call[p].read # 0 => call[p].read \in Recent(now)
    /\ sFrame[p].pc \in SC!Leading => SC!Yields(p, Recent(now))
    /\ Inside(sFrame[p]) => SC!Yields(p, Recent(AskedShared(p) - Age))

PlanAgeOK(p) ==
    /\ pFrame[p].pc \in PC!Leading => PC!Yields(p, RecentLibs(now - Age))
    /\ Inside(pFrame[p]) => PC!Yields(p, RecentLibs(call[p].at - 2 * Age))

CallAgeOK(p) ==
    LET c == call[p] IN
    /\ c.at <= now
    /\ stage[p] \in {"plan", "libs"} => c.sh \in Recent(c.at - Age)
    /\ stage[p] # "done" => c.outcome = "none"
    /\ c.outcome = "ok" => /\ c.sh \in Recent(c.at - Age)
                           /\ c.got \in RecentLibs(c.at - 2 * Age)

AgeInv == /\ PolicyInv /\ SharedOrder /\ SC!NoErrors /\ EntryAges
          /\ \A p \in Callers : SharedAgeOK(p) /\ PlanAgeOK(p) /\ CallAgeOK(p)

LEMMA SharedLeadAgeStep ==
  ASSUME ~LoadsMayFail, PromptLoads, AgeInv, [Next]_policyVars, NEW p \in Callers
  PROVE  /\ call'[p].read # 0 => call'[p].read \in Recent(now)'
         /\ sFrame'[p].pc \in SC!Leading => SC!Yields(p, Recent(now))'
<1>i. /\ PolicyInv /\ PolicyInv' /\ SharedOrder /\ SharedOrder' /\ SharedAgeOK(p) /\ now \in Nat
  BY PolicyInvStep, SharedOrderStep, BornTimes DEF AgeInv
<1>1. CASE now' = now
  <2>1. PICK t \in Nat : t = now
    BY <1>i
  <2>2. Recent(t)' = Recent(t) /\ t <= now
    BY <1>i, <2>1, RecentKept
  <2>3. PICK G \in SUBSET SharedVals : G = Recent(t)
    BY DEF Recent
  <2>4. call'[p].read # 0 => call'[p].read \in G
    BY <1>i, <2>1, <2>3, ReadSteps, RecentNow DEF SharedAgeOK
  <2>5. ASSUME sFrame'[p].pc \in SC!Leading PROVE SC!Yields(p, G)'
    <3>1. CASE sFrame[p].pc \in SC!Leading
      <4>1. SC!Yields(p, G) /\ 0 \in G
        BY <1>i, <2>1, <2>3, <3>1, RecentNow DEF SharedAgeOK
      <4>2. [SC!Next]_(SC!vars) /\ SC!FlightInv /\ SC!OneKeyPerFlight
        BY <1>i, SharedMoves DEF PolicyInv, SharedInv, SC!ServeInv
      <4>3. sFrame[p].pc = "load" /\ sFrame'[p].pc # "load" => sFrame'[p].out.val \in G
        BY <1>i, <2>1, <2>3, <4>1, SharedLoaded DEF SharedAgeOK
      <4>4. sFrame[p].pc \notin {"idle", "enter", "wait"} /\ sFrame'[p].pc # "idle"
        BY <2>5, <3>1 DEF SC!Leading
      <4>5. QED
        BY <4>1, <4>2, <4>3, <4>4, InstancesOK, SC!YieldStep
    <3>2. CASE sFrame[p].pc \notin SC!Leading
      <4>1. sFrame'[p].pc = "load"
        BY <1>i, <2>5, <3>2, InstancesOK, TypesOfCaches, SharedMoves, SC!LeadersLoad
      <4>2. QED
        BY <4>1 DEF SC!Yields
    <3>3. QED
      BY <3>1, <3>2
  <2>6. QED
    BY <1>1, <2>1, <2>2, <2>3, <2>4, <2>5
<1>2. CASE now' # now
  <2>1. /\ UNCHANGED <<sVars, call>> /\ sFrame[p].pc \notin SC!Leading
    BY <1>i, <1>2, ClockSteps
  <2>2. sFrame'[p].pc \notin SC!Leading /\ call'[p].read = 0
    BY <1>i, <2>1 DEF SharedOrder, SC!Leading, sVars
  <2>3. QED
    BY <2>2
<1>3. QED
  BY <1>1, <1>2

\* A shared entry that is still fresh was current at some time in the last Age.
LEMMA SharedFreshAge ==
  ASSUME AgeInv, NEW t \in Int, t <= now, SC!Fresh(sEntries[SharedKey])
  PROVE  SharedNow \in Recent(t - Age)
<1> DEFINE u == sEntries[SharedKey].until - TTL
<1>1. /\ sEntries[SharedKey].have /\ TTL > 0 /\ now < sEntries[SharedKey].until
      /\ SharedNow \in Recent(u)
  BY DEF SC!Fresh, AgeInv, EntryAges, SharedEntryAge
<1>2. sEntries[SharedKey].until \in Nat /\ now \in Nat /\ TTL \in Nat
  <2>1. \A k \in {SharedKey} : sEntries[k].until \in Nat
    BY TypesOfCaches DEF AgeInv, SC!TypeInv, SC!TypeOK, SC!Entry
  <2>2. QED
    BY <2>1, BornTimes, PolicyConstantsOK DEF AgeInv
<1>3. u \in Int /\ t - Age \in Int /\ t - Age <= u
  BY <1>1, <1>2 DEF Age
<1>4. QED
  BY <1>1, <1>3, RecentWider DEF AgeInv

\* What getShared can answer keeps its age while p is in it.
LEMMA SharedInsideAgeStep ==
  ASSUME ~LoadsMayFail, PromptLoads, AgeInv, [Next]_policyVars, NEW p \in Callers,
         Inside(sFrame'[p])
  PROVE  SC!Yields(p, Recent(AskedShared(p) - Age))'
<1>i. /\ PolicyInv /\ PolicyInv' /\ SharedOrder /\ SharedAgeOK(p) /\ CallAgeOK(p)
      /\ StageOK(p) /\ StageOK(p)' /\ now \in Nat /\ call[p].at \in Nat /\ Age \in Nat
      /\ stage \in [Callers -> Stages]
  BY PolicyInvStep, BornTimes DEF AgeInv, PolicyInv, CallTypes
<1>1. CASE Inside(sFrame[p])
  <2>1. HasShared /\ stage[p] \in {"shared", "libs"} /\ stage'[p] \in {"shared", "libs"}
    <3>1. stage'[p] \in Stages
      BY <1>i DEF PolicyInv, CallTypes
    <3>2. QED
      BY <1>1, <1>i, <3>1 DEF StageOK, Stages, Inside
  <2>2. stage'[p] = stage[p]
    BY <2>1, <1>i, CallSteps DEF Get, SharedForGet, LoadBundle, LibsForPlan, GetReturns, Forget
  <2>3. AskedShared(p)' = AskedShared(p)
    <3>1. CASE stage[p] = "libs"
      <4>1. pFrame[p].pc \in PC!Leading
        BY <3>1, <1>i DEF StageOK, PC!Leading
      <4>2. QED
        BY <4>1, <3>1, <2>2, <1>i, ClockSteps DEF AskedShared
    <3>2. CASE stage[p] # "libs"
      BY <3>2, <2>1, <2>2, <1>i, KeptInGet DEF AskedShared
    <3>3. QED
      BY <3>1, <3>2
  <2>4. PICK t \in Int : t = AskedShared(p) - Age
    <3>1. AskedShared(p) - Age \in Int
      BY <1>i DEF AskedShared
    <3>2. QED
      BY <3>1
  <2>5. t <= now /\ t + Age \in Int /\ t + Age <= now /\ t = (t + Age) - Age
    BY <2>4, <1>i DEF AskedShared, CallAgeOK
  <2>6. Recent(t)' = Recent(t)
    BY <2>5, <1>i, RecentKept
  <2>7. PICK G \in SUBSET SharedVals : G = Recent(t)
    BY DEF Recent
  <2>8. SC!Yields(p, G) /\ 0 \in G
    BY <1>1, <1>i, <2>4, <2>7, RecentNow DEF SharedAgeOK
  <2>9. [SC!Next]_(SC!vars) /\ SC!FlightInv /\ SC!OneKeyPerFlight
    BY <1>i, SharedMoves DEF PolicyInv, SharedInv, SC!ServeInv
  <2>10. Recent(now) \subseteq G
    BY <1>i, <2>5, <2>7, RecentWider
  <2>11. sFrame[p].pc = "load" /\ sFrame'[p].pc # "load" => sFrame'[p].out.val \in G
    BY <1>i, <2>8, <2>10, SharedLoaded DEF SharedAgeOK
  <2>12. \A q \in Callers : sFrame[q].pc \in SC!Leading => SC!Yields(q, G)
    BY <2>10, InstancesOK, SC!YieldWider DEF AgeInv, SharedAgeOK
  <2>13. SC!Fresh(sEntries[SharedKey]) => SharedNow \in G
    BY <2>5, <2>7, SharedFreshAge
  <2>14. sFrame[p].pc = "enter" /\ SC!Fresh(sEntries[sFrame[p].key]) =>
           sEntries[sFrame[p].key].val \in G
    <3>1. sFrame[p].pc = "enter" => sFrame[p].key \in {SharedKey}
      BY <1>i, TypesOfCaches DEF SC!TypeInv, SC!LocalsOK
    <3>2. QED
      BY <2>13, <3>1 DEF SharedNow
  <2>15. SC!Yields(p, G)'
    BY <1>1, <2>8, <2>9, <2>11, <2>12, <2>14, InstancesOK, SC!YieldStep DEF Inside
  <2>16. QED
    BY <2>3, <2>4, <2>6, <2>7, <2>15
<1>2. CASE ~Inside(sFrame[p])
  BY <1>2, <1>i, SharedSteps DEF SC!Yields
<1>3. QED
  BY <1>1, <1>2

\* A plan is compiled with what getShared has just answered (policy.go:103-122).
LEMMA PlanLoadedAge ==
  ASSUME ~LoadsMayFail, AgeInv, [Next]_policyVars, NEW p \in Callers,
         pFrame[p].pc = "load", pFrame'[p].pc # "load"
  PROVE  pFrame'[p].out.val \in RecentLibs(now - Age)
<1> DEFINE val == pFrame'[p].out.val
<1>i. /\ PolicyInv /\ SC!NoErrors /\ SharedAgeOK(p) /\ now - Age \in Int
  BY BornTimes DEF AgeInv
<1>1. CASE val = NoPlan
  BY <1>1, <1>i, RecentNow
<1>2. CASE val # NoPlan
  <2>1. /\ stage[p] = "libs" /\ SharedReturned(p)
        /\ val = CompilePlan(call[p].bundle, SharedOut(p).val)
    BY <1>2, <1>i, PlanLoaded
  <2>2. SharedOut(p).val \in Recent(now - Age)
    <3>1. CASE HasShared
      <4>1. sFrame[p].pc = "returned" /\ SharedOut(p).val = sFrame[p].out.val
        BY <2>1, <3>1 DEF SharedReturned, SharedOut
      <4>2. SC!Yields(p, Recent(now - Age))
        BY <2>1, <4>1, <1>i DEF SharedAgeOK, AskedShared, Inside
      <4>3. QED
        BY <4>1, <4>2 DEF SC!Yields
    <3>2. CASE ~HasShared
      BY <3>2, <1>i, RecentNow DEF SharedOut
    <3>3. QED
      BY <3>1, <3>2
  <2>3. val.libs \in Recent(now - Age)
    BY <2>1, <2>2, <1>i, RecentNow DEF CompilePlan
  <2>4. val \in PlanVals
    <3>1. \A q \in Callers : pFrame'[q].out.val \in PlanVals
      BY <1>i, PolicyInvStep, NumbersNext DEF NumbersOK
    <3>2. QED
      BY <3>1
  <2>5. QED
    BY <2>3, <2>4 DEF Recent, RecentLibs
<1>3. QED
  BY <1>1, <1>2

LEMMA PlanLeadAgeStep ==
  ASSUME ~LoadsMayFail, PromptLoads, AgeInv, [Next]_policyVars, NEW p \in Callers,
         pFrame'[p].pc \in PC!Leading
  PROVE  PC!Yields(p, RecentLibs(now - Age))'
<1>i. /\ PolicyInv /\ PolicyInv' /\ PlanAgeOK(p) /\ now \in Nat /\ Age \in Nat
  BY PolicyInvStep, BornTimes DEF AgeInv
<1>1. CASE pFrame[p].pc \in PC!Leading
  <2>1. now' = now
    BY <1>1, <1>i, ClockSteps
  <2>2. PICK t \in Int : t = now - Age
    BY <1>i
  <2>3. RecentLibs(t)' = RecentLibs(t)
    BY <1>i, <2>2, RecentKept
  <2>4. PICK G \in SUBSET PlanVals : G = RecentLibs(t)
    BY DEF RecentLibs
  <2>5. PC!Yields(p, G) /\ NoPlan \in G
    BY <1>1, <1>i, <2>2, <2>4, RecentNow DEF PlanAgeOK
  <2>6. [PC!Next]_(PC!vars) /\ PC!FlightInv /\ PC!OneKeyPerFlight
    BY <1>i, PlanMoves DEF PolicyInv, PlanInv, PC!ServeInv
  <2>7. pFrame[p].pc = "load" /\ pFrame'[p].pc # "load" => pFrame'[p].out.val \in G
    BY <2>2, <2>4, PlanLoadedAge
  <2>8. pFrame[p].pc \notin {"idle", "enter", "wait"} /\ pFrame'[p].pc # "idle"
    BY <1>1 DEF PC!Leading
  <2>9. PC!Yields(p, G)'
    BY <2>5, <2>6, <2>7, <2>8, InstancesOK, PC!YieldStep
  <2>10. QED
    BY <2>1, <2>2, <2>3, <2>4, <2>9
<1>2. CASE pFrame[p].pc \notin PC!Leading
  <2>1. pFrame'[p].pc = "load"
    BY <1>i, <1>2, InstancesOK, TypesOfCaches, PlanMoves, PC!LeadersLoad
  <2>2. QED
    BY <2>1 DEF PC!Yields
<1>3. QED
  BY <1>1, <1>2

LEMMA PlanFreshAge ==
  ASSUME AgeInv, NEW k \in Plans, NEW t \in Int, t <= now, PC!Fresh(pEntries[k])
  PROVE  pEntries[k].val \in RecentLibs(t - 2 * Age)
<1> DEFINE u == pEntries[k].until - TTL
<1>1. /\ pEntries[k].have /\ TTL > 0 /\ now < pEntries[k].until
      /\ pEntries[k].val \in RecentLibs(u - Age)
  BY DEF PC!Fresh, AgeInv, EntryAges, PlanEntryAge
<1>2. pEntries[k].until \in Nat /\ now \in Nat /\ TTL \in Nat
  BY BornTimes, NumbersHold, PolicyConstantsOK DEF AgeInv, NumbersOK
<1>3. u - Age \in Int /\ t - 2 * Age \in Int /\ t - 2 * Age <= u - Age
  BY <1>1, <1>2 DEF Age
<1>4. QED
  BY <1>1, <1>3, RecentWider DEF AgeInv

\* What get can still be given for its plan keeps its age.
LEMMA PlanInsideAgeStep ==
  ASSUME ~LoadsMayFail, PromptLoads, AgeInv, [Next]_policyVars, NEW p \in Callers,
         Inside(pFrame'[p])
  PROVE  PC!Yields(p, RecentLibs(call[p].at - 2 * Age))'
<1>i. /\ PolicyInv /\ PolicyInv' /\ PlanAgeOK(p) /\ CallAgeOK(p)
      /\ StageOK(p) /\ StageOK(p)' /\ now \in Nat /\ call[p].at \in Nat /\ Age \in Nat
  BY PolicyInvStep, BornTimes DEF AgeInv, PolicyInv
<1>1. CASE Inside(pFrame[p])
  <2>1. stage[p] # "idle" /\ stage'[p] # "idle"
    BY <1>1, <1>i DEF StageOK, Inside
  <2>2. call'[p].at = call[p].at
    BY <2>1, <1>i, KeptInGet
  <2>3. PICK t \in Int : t = call[p].at - 2 * Age
    BY <1>i
  <2>4. /\ t <= now /\ t <= now - Age /\ now - Age \in Int
        /\ t + 2 * Age \in Int /\ t + 2 * Age <= now /\ t = (t + 2 * Age) - 2 * Age
    BY <2>3, <1>i DEF CallAgeOK
  <2>5. RecentLibs(t)' = RecentLibs(t)
    BY <2>4, <1>i, RecentKept
  <2>6. PICK G \in SUBSET PlanVals : G = RecentLibs(t)
    BY DEF RecentLibs
  <2>7. PC!Yields(p, G) /\ NoPlan \in G
    BY <1>1, <1>i, <2>3, <2>6, RecentNow DEF PlanAgeOK
  <2>8. [PC!Next]_(PC!vars) /\ PC!FlightInv /\ PC!OneKeyPerFlight
    BY <1>i, PlanMoves DEF PolicyInv, PlanInv, PC!ServeInv
  <2>9. RecentLibs(now - Age) \subseteq G
    BY <1>i, <2>4, <2>6, RecentWider
  <2>10. pFrame[p].pc = "load" /\ pFrame'[p].pc # "load" => pFrame'[p].out.val \in G
    BY <2>9, PlanLoadedAge
  <2>11. \A q \in Callers : pFrame[q].pc \in PC!Leading => PC!Yields(q, G)
    BY <2>9, InstancesOK, PC!YieldWider DEF AgeInv, PlanAgeOK
  <2>12. pFrame[p].key \in Plans
    BY <1>1, <2>1, <1>i DEF StageOK
  <2>13. PC!Fresh(pEntries[pFrame[p].key]) => pEntries[pFrame[p].key].val \in G
    BY <2>4, <2>6, <2>12, PlanFreshAge
  <2>14. PC!Yields(p, G)'
    BY <1>1, <2>7, <2>8, <2>10, <2>11, <2>13, InstancesOK, PC!YieldStep DEF Inside
  <2>15. QED
    BY <2>2, <2>3, <2>5, <2>6, <2>14
<1>2. CASE ~Inside(pFrame[p])
  BY <1>2, <1>i, PlanSteps DEF PC!Yields
<1>3. QED
  BY <1>1, <1>2

LEMMA EntryAgesStep ==
  ASSUME AgeInv, [Next]_policyVars
  PROVE  EntryAges'
<1>i. /\ PolicyInv /\ PolicyInv' /\ EntryAges /\ now \in Nat /\ Age \in Nat /\ TTL \in Nat
      /\ \A p \in Callers : SharedAgeOK(p) /\ PlanAgeOK(p)
  BY PolicyInvStep, BornTimes, PolicyConstantsOK DEF AgeInv
<1>n. now' = now \/ now' = now + 1
  BY DEF Next, GoesOn, Passes, ChangeShared, ChangePlan, Get, Forget, SharedGoesOn, PlanGoesOn,
     LoadShared, CompileShared, SharedForGet, LoadBundle, LoadBundleFails, LibsForPlan,
     GetReturns, policyVars
<1>1. ASSUME sEntries'[SharedKey].have, TTL > 0
      PROVE  SharedEntryAge'
  <2>1. CASE UNCHANGED sEntries
    <3>1. PICK t \in Int : t = sEntries[SharedKey].until - TTL
      <4>1. \A k \in {SharedKey} : sEntries[k].until \in Nat
        BY <1>i, TypesOfCaches DEF SC!TypeInv, SC!TypeOK, SC!Entry
      <4>2. sEntries[SharedKey].until - TTL \in Int
        BY <4>1, <1>i
      <4>3. QED
        BY <4>2
    <3>2. t <= now /\ SharedNow \in Recent(t) /\ SharedNow' = SharedNow
      BY <1>1, <2>1, <3>1, <1>i DEF EntryAges, SharedEntryAge, SharedNow
    <3>3. Recent(t)' = Recent(t)
      BY <3>2, <1>i, RecentKept
    <3>4. t <= now'
      BY <3>2, <1>i, <1>n
    <3>5. QED
      BY <2>1, <3>1, <3>2, <3>3, <3>4 DEF SharedEntryAge
  <2>2. CASE \E p \in Callers : SC!Store(p) /\ UNCHANGED now
    <3>1. PICK p \in Callers : SC!Store(p) /\ UNCHANGED now
      BY <2>2
    <3>2. sFrame[p].pc = "store" /\ SharedNow' = sFrame[p].out.val
      BY <3>1, <1>i, SharedStore
    <3>3. sEntries'[SharedKey].until = now + TTL
      <4>1. sFrame[p].key = SharedKey
        BY <3>2, <1>i, TypesOfCaches DEF SC!TypeInv, SC!LocalsOK
      <4>2. QED
        BY <1>1, <3>1, <4>1, <1>i, InstancesOK, TypesOfCaches, SC!StoreEntry
    <3>4. SharedNow' \in Recent(now)
      BY <3>2, <1>i DEF SharedAgeOK, SC!Leading, SC!Yields
    <3>5. PICK t \in Nat : t = now
      BY <1>i
    <3>6. Recent(t)' = Recent(t) /\ t = sEntries'[SharedKey].until - TTL
      BY <3>3, <3>5, <1>i, RecentKept
    <3>7. QED
      BY <3>1, <3>4, <3>5, <3>6 DEF SharedEntryAge
  <2>3. QED
    BY <2>1, <2>2, <1>i, InstancesOK, SharedMoves, SC!EntrySteps
<1>2. ASSUME NEW k \in Plans, pEntries'[k].have, TTL > 0
      PROVE  PlanEntryAge(k)'
  <2>1. CASE pEntries'[k] = pEntries[k]
    <3>1. PICK t \in Int : t = pEntries[k].until - TTL
      <4>1. pEntries[k].until - TTL \in Int
        BY <1>i, NumbersHold DEF NumbersOK
      <4>2. QED
        BY <4>1
    <3>2. t <= now /\ pEntries[k].val \in RecentLibs(t - Age)
      BY <1>2, <2>1, <3>1, <1>i DEF EntryAges, PlanEntryAge
    <3>3. PICK s \in Int : s = t - Age
      BY <3>1, <1>i
    <3>4. RecentLibs(s)' = RecentLibs(s)
      BY <3>2, <3>3, <1>i, RecentKept
    <3>5. t <= now'
      BY <3>2, <1>i, <1>n
    <3>6. Age' = Age
      BY DEF Age
    <3>7. QED
      BY <2>1, <3>1, <3>2, <3>3, <3>4, <3>5, <3>6 DEF PlanEntryAge
  <2>2. CASE \E p \in Callers : PC!Store(p) /\ UNCHANGED now /\ pFrame[p].key = k
    <3>1. PICK p \in Callers : PC!Store(p) /\ UNCHANGED now /\ pFrame[p].key = k
      BY <2>2
    <3>2. /\ pFrame[p].pc = "store" /\ pEntries'[k].val = pFrame[p].out.val
          /\ pEntries'[k].until = now + TTL
      BY <1>2, <3>1, <1>i, InstancesOK, TypesOfCaches, PC!StoreEntry
    <3>3. pEntries'[k].val \in RecentLibs(now - Age)
      BY <3>2, <1>i DEF PlanAgeOK, PC!Leading, PC!Yields
    <3>4. PICK s \in Int : s = now - Age
      BY <1>i
    <3>5. RecentLibs(s)' = RecentLibs(s)
      BY <3>4, <1>i, RecentKept
    <3>6. Age' = Age
      BY DEF Age
    <3>7. s = (pEntries'[k].until - TTL) - Age
      BY <3>2, <3>4, <1>i
    <3>8. pEntries'[k].until - TTL <= now'
      BY <3>1, <3>2, <1>i
    <3>9. QED
      BY <3>3, <3>4, <3>5, <3>6, <3>7, <3>8 DEF PlanEntryAge
  <2>3. QED
    <3>1. UNCHANGED pEntries \/ \E p \in Callers : PC!Store(p) /\ UNCHANGED now
      BY <1>i, InstancesOK, PlanMoves, PC!EntrySteps
    <3>2. \A p \in Callers : PC!Store(p) /\ pFrame[p].key # k => pEntries'[k] = pEntries[k]
      BY <1>i, InstancesOK, TypesOfCaches, PC!StoreEntry
    <3>3. QED
      BY <2>1, <2>2, <3>1, <3>2
<1>3. QED
  BY <1>1, <1>2 DEF EntryAges, SharedEntryAge, PlanEntryAge

LEMMA CallAgeStep ==
  ASSUME ~LoadsMayFail, PromptLoads, AgeInv, [Next]_policyVars, NEW p \in Callers
  PROVE  CallAgeOK(p)'
<1>i. /\ PolicyInv /\ SharedAgeOK(p) /\ PlanAgeOK(p) /\ CallAgeOK(p) /\ StageOK(p)
      /\ now \in Nat /\ call[p].at \in Nat /\ Age \in Nat
      /\ stage \in [Callers -> Stages] /\ call \in [Callers -> CallRecord]
  BY BornTimes DEF AgeInv, PolicyInv, CallTypes
<1>n. now' \in Nat /\ now <= now'
  BY <1>i, ClockSteps
<1>a. Age' = Age
  BY DEF Age
<1>1. ASSUME NEW k \in Plans, Get(p, k) PROVE CallAgeOK(p)'
  <2>1. call'[p].at = now /\ call'[p].outcome = "none" /\ stage'[p] = "shared"
    BY <1>1, <1>i DEF Get, NoCall
  <2>2. QED
    BY <2>1, <1>i, <1>n DEF CallAgeOK
<1>2. CASE Forget(p)
  <2>1. call'[p].at = 0 /\ call'[p].outcome = "none" /\ stage'[p] = "idle"
    BY <1>2, <1>i DEF Forget, NoCall
  <2>2. QED
    BY <2>1, <1>n DEF CallAgeOK
<1>3. CASE call'[p].at = call[p].at
  <2>1. call'[p].at <= now'
    BY <1>3, <1>i, <1>n DEF CallAgeOK
  <2>2. PICK t \in Int : t = call[p].at - Age
    BY <1>i
  <2>3. PICK u \in Int : u = call[p].at - 2 * Age
    BY <1>i
  <2>4. Recent(t)' = Recent(t) /\ RecentLibs(u)' = RecentLibs(u)
    BY <2>2, <2>3, <1>i, RecentKept DEF CallAgeOK
  <2>5. t = call'[p].at - Age' /\ u = call'[p].at - 2 * Age'
    BY <1>3, <1>a, <2>2, <2>3
  <2>6. SUFFICES /\ stage'[p] \in {"plan", "libs"} => call'[p].sh \in Recent(t)
                 /\ stage'[p] # "done" => call'[p].outcome = "none"
                 /\ call'[p].outcome = "ok" => /\ call'[p].sh \in Recent(t)
                                               /\ call'[p].got \in RecentLibs(u)
    BY <2>1, <2>4, <2>5 DEF CallAgeOK
  <2>7. CASE SharedForGet(p)
    <3>1. /\ stage[p] = "shared" /\ SharedReturned(p)
          /\ \/ stage'[p] = "plan" /\ call'[p].sh = SharedOut(p).val
                /\ call'[p].outcome = call[p].outcome
             \/ stage'[p] = "done" /\ call'[p].outcome # "ok"
      BY <2>7, <1>i DEF SharedForGet, CallRecord
    <3>2. SharedOut(p).val \in Recent(t)
      <4>1. CASE HasShared
        <5>1. sFrame[p].pc = "returned" /\ SharedOut(p).val = sFrame[p].out.val
          BY <3>1, <4>1 DEF SharedReturned, SharedOut
        <5>2. SC!Yields(p, Recent(t))
          BY <2>2, <3>1, <5>1, <1>i DEF SharedAgeOK, AskedShared, Inside
        <5>3. QED
          BY <5>1, <5>2 DEF SC!Yields
      <4>2. CASE ~HasShared
        BY <4>2, <1>i, RecentNow DEF SharedOut
      <4>3. QED
        BY <4>1, <4>2
    <3>3. QED
      BY <3>1, <3>2, <1>i DEF CallAgeOK
  <2>8. CASE LoadBundle(p) \/ LibsForPlan(p)
    <3>1. /\ stage[p] \in {"plan", "libs"} /\ stage'[p] \in {"plan", "libs"}
          /\ call'[p].sh = call[p].sh /\ call'[p].outcome = call[p].outcome
      BY <2>8, <1>i DEF LoadBundle, LibsForPlan, CallRecord
    <3>2. QED
      BY <3>1, <2>2, <1>i DEF CallAgeOK
  <2>9. CASE GetReturns(p)
    <3>1. /\ stage[p] = "plan" /\ stage'[p] = "done" /\ pFrame[p].pc = "returned"
      BY <2>9, <1>i DEF GetReturns
    <3>2. /\ call'[p].sh = call[p].sh
          /\ call'[p].outcome = "ok" => call'[p].got = pFrame[p].out.val
      BY <2>9, <1>i, ReturnedCall
    <3>3. pFrame[p].out.val \in RecentLibs(u)
      BY <2>3, <3>1, <1>i DEF PlanAgeOK, Inside, PC!Yields
    <3>4. QED
      BY <2>2, <3>1, <3>2, <3>3, <1>i DEF CallAgeOK
  <2>10. CASE /\ stage'[p] = stage[p] /\ call'[p].sh = call[p].sh
              /\ call'[p].outcome = call[p].outcome /\ call'[p].got = call[p].got
    BY <2>10, <2>2, <2>3, <1>i DEF CallAgeOK
  <2>11. CASE Forget(p) \/ \E k \in Plans : Get(p, k)
    <3>1. stage'[p] \in {"idle", "shared"} /\ call'[p].outcome = "none"
      <4>1. \A k \in Plans : Get(p, k) => stage'[p] = "shared" /\ call'[p].outcome = "none"
        BY <1>i DEF Get, NoCall
      <4>2. Forget(p) => stage'[p] = "idle" /\ call'[p].outcome = "none"
        BY <1>i DEF Forget, NoCall
      <4>3. QED
        BY <2>11, <4>1, <4>2
    <3>2. QED
      BY <3>1
  <2>12. QED
    BY <1>i, <2>7, <2>8, <2>9, <2>10, <2>11, CallSteps
<1>4. ASSUME ~Forget(p), ~\E k \in Plans : Get(p, k) PROVE call'[p].at = call[p].at
  <2>1. CASE SharedForGet(p) \/ LoadBundle(p) \/ LibsForPlan(p)
    BY <2>1, <1>i DEF SharedForGet, LoadBundle, LibsForPlan, CallRecord
  <2>2. QED
    BY <1>4, <1>i, <2>1, ReturnedCall, CallSteps
<1>5. QED
  BY <1>1, <1>2, <1>3, <1>4

LEMMA AgeInvStep ==
  ASSUME ~LoadsMayFail, PromptLoads, AgeInv, [Next]_policyVars
  PROVE  AgeInv'
<1>1. PolicyInv' /\ SharedOrder'
  BY PolicyInvStep, SharedOrderStep DEF AgeInv
<1>2. SC!NoErrors'
  <2>1. \A p \in Callers : sFrame[p].pc = "load" /\ sFrame'[p].pc # "load" =>
                             sFrame'[p].out.err # "error"
    BY SharedLoaded DEF AgeInv
  <2>2. SC!TypeInv /\ SC!NoErrors /\ [SC!Next]_(SC!vars)
    BY SharedMoves, TypesOfCaches DEF AgeInv
  <2>3. QED
    BY <2>1, <2>2, InstancesOK, SC!NoErrorsStep
<1>3. ASSUME NEW p \in Callers PROVE SharedAgeOK(p)' /\ PlanAgeOK(p)' /\ CallAgeOK(p)'
  <2>1. SharedAgeOK(p)'
    BY SharedLeadAgeStep, SharedInsideAgeStep DEF SharedAgeOK
  <2>2. PlanAgeOK(p)'
    BY PlanLeadAgeStep, PlanInsideAgeStep DEF PlanAgeOK
  <2>3. QED
    BY <2>1, <2>2, CallAgeStep
<1>4. QED
  BY <1>1, <1>2, <1>3, EntryAgesStep DEF AgeInv

LEMMA AgeInvInit == Init => AgeInv
<1> SUFFICES ASSUME Init PROVE AgeInv
  OBVIOUS
<1>1. PolicyInv /\ NumbersOK
  BY PolicyInvInit, NumbersHold
<1>2. /\ SharedNow = 0 /\ ~sEntries[SharedKey].have /\ \A k \in Plans : ~pEntries[k].have
      /\ \A p \in Callers : /\ sFrame[p].pc = "idle" /\ pFrame[p].pc = "idle"
                            /\ sFrame[p].out.err = "nil"
      /\ \A f \in Flights : sFlights[f].err = "nil"
  BY DEF Init, Shared!CacheInit, Plan!CacheInit, Shared!NoEntry, Plan!NoEntry, Shared!IdleFrame,
     Plan!IdleFrame, Shared!NoResult, Shared!NewFlight, SharedNow
<1>3. \A p \in Callers : stage[p] = "idle" /\ call[p] = NoCall
  BY DEF Init
<1>4. NoCall.read = 0 /\ NoCall.at = 0 /\ NoCall.outcome = "none"
  BY DEF NoCall
<1>5. SharedOrder
  BY <1>1, <1>2, <1>3, <1>4 DEF SharedOrder, NumbersOK
<1>6. SC!NoErrors /\ EntryAges
  BY <1>2 DEF SC!NoErrors, EntryAges, SharedEntryAge, PlanEntryAge
<1>7. ASSUME NEW p \in Callers PROVE SharedAgeOK(p) /\ PlanAgeOK(p) /\ CallAgeOK(p)
  BY <1>1, <1>2, <1>3, <1>4
  DEF SharedAgeOK, PlanAgeOK, CallAgeOK, SC!Leading, PC!Leading, Inside, NumbersOK
<1>8. QED
  BY <1>1, <1>5, <1>6, <1>7 DEF AgeInv

\* How long a replaced shared policy is still used (policy.go:103-122, 150-167): the
\* one that get goes on with had been replaced less than TTL before get was called,
\* and the libraries in its plan less than twice that, when loads do not fail and
\* take no time.  Panics may happen: they hand out the zero value, which is no
\* revision.
THEOREM BoundedPolicyAgeHolds ==
  ASSUME ~LoadsMayFail, PromptLoads
  PROVE  Spec => []BoundedPolicyAge
<1>1. AgeInv => BoundedPolicyAge
  BY DEF AgeInv, CallAgeOK, BoundedPolicyAge, Recent, RecentLibs
<1>2. AgeInv /\ [Next]_policyVars => AgeInv'
  BY AgeInvStep
<1>3. QED
  BY <1>1, <1>2, AgeInvInit, PTL DEF Spec

=============================================================================
