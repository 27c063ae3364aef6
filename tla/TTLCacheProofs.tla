--------------------------- MODULE TTLCacheProofs ---------------------------
(***************************************************************************)
(* Proofs about TTLCache, for any number of callers, keys and flights, any *)
(* TTL, and Load callbacks that may fail or panic.                         *)
(***************************************************************************)
EXTENDS CachedSource, TLAPS

-----------------------------------------------------------------------------
\* Which locals of Get are set at each point of cache.go:70-115: the key from
\* the call on, and the flight from the first critical section until Get returns.
LocalsOK ==
    \A p \in Callers :
        /\ frame[p].pc # "idle" => frame[p].key \in Keys
        /\ frame[p].pc \in Leading \cup {"wait"} <=> frame[p].ptr \in Flights

TypeInv == TypeOK /\ LocalsOK

\* A cell that another frame still points to is not garbage.
LEMMA ReleaseKeeps ==
  ASSUME TypeInv, NEW p \in Callers, frame[p].ptr \in Flights
  PROVE  /\ Release(p) \in [Flights -> Flight]
         /\ \A q \in Callers : q # p /\ frame[q].ptr \in Flights =>
              Release(p)[frame[q].ptr] = flights[frame[q].ptr]
<1>1. NewFlight \in Flight
  BY DEF NewFlight, Flight, Values
<1>2. QED
  BY <1>1 DEF TypeInv, TypeOK, Release

LEMMA TypeStep == TypeInv /\ [Next]_vars => TypeInv'
<1> SUFFICES ASSUME TypeInv, [Next]_vars PROVE TypeInv'
  OBVIOUS
<1> USE ConstantsOK DEF TypeInv, TypeOK, LocalsOK, Leading, PCs, Frame
<1>a. NoResult \in Result /\ NoEntry \in Entry /\ NewFlight \in Flight
  BY DEF NoResult, NoEntry, NewFlight, Result, Entry, Flight, Values, Errs
<1>b. \A k \in Keys : entries[k].val \in Values
  BY DEF Entry
<1>1. CASE Tick
  BY <1>1 DEF Tick, cacheVars
<1>2. ASSUME NEW p \in Callers, NEW k \in Keys, Call(p, k), UNCHANGED now
      PROVE  TypeInv'
  BY <1>a, <1>2 DEF Call, IdleFrame
<1>3. ASSUME NEW p \in Callers, Hit(p), UNCHANGED now
      PROVE  TypeInv'
  <2> DEFINE o == [val |-> entries[frame[p].key].val, err |-> "nil"]
  <2>1. o \in Result
    BY <1>3, <1>b DEF Hit, Result, Errs
  <2> HIDE DEF o
  <2>2. QED
    BY <1>3, <2>1 DEF Hit, o
<1>4. ASSUME NEW p \in Callers, Join(p), UNCHANGED now
      PROVE  TypeInv'
  BY <1>4 DEF Join
<1>5. ASSUME NEW p \in Callers, Lead(p), UNCHANGED now
      PROVE  TypeInv'
  <2>1. PICK f \in Flights :
          /\ flights'  = [flights EXCEPT ![f] = NewFlight]
          /\ inflight' = [inflight EXCEPT ![frame[p].key] = f]
          /\ frame'    = [frame EXCEPT ![p] = [@ EXCEPT !.pc = "load", !.ptr = f,
                                              !.stale = entries[frame[p].key]]]
    BY <1>5 DEF Lead
  <2>2. entries[frame[p].key] \in Entry
    BY <1>5 DEF Lead
  <2>3. frame' \in [Callers -> Frame]
    BY <2>1, <2>2
  <2>4. QED
    BY <1>a, <1>5, <2>1, <2>3 DEF Lead
<1>6. ASSUME NEW p \in Callers, NEW v \in Val, LoadOK(p, v), UNCHANGED now
      PROVE  TypeInv'
  <2> DEFINE o == [val |-> v, err |-> "nil"]
  <2>1. o \in Result
    BY DEF Result, Errs, Values
  <2> HIDE DEF o
  <2>2. QED
    BY <1>6, <2>1 DEF LoadOK, o
<1>7. ASSUME NEW p \in Callers, LoadErr(p), UNCHANGED now
      PROVE  TypeInv'
  <2> DEFINE o == [val |-> StaleVal(frame[p].stale), err |-> "error"]
  <2>1. o \in Result
    BY DEF Result, Errs, Values, StaleVal, Entry
  <2> HIDE DEF o
  <2>2. QED
    BY <1>7, <2>1 DEF LoadErr, o
<1>8. ASSUME NEW p \in Callers, LoadPanic(p), UNCHANGED now
      PROVE  TypeInv'
  <2> DEFINE o == [val |-> Zero, err |-> "panic"]
  <2>1. o \in Result
    BY DEF Result, Errs, Values
  <2> HIDE DEF o
  <2>2. QED
    BY <1>8, <2>1 DEF LoadPanic, o
<1>9. ASSUME NEW p \in Callers, Store(p), UNCHANGED now
      PROVE  TypeInv'
  <2>1. entries' \in [Keys -> Entry]
    BY <1>9 DEF Store, Entry, Result
  <2>2. QED
    BY <1>9, <2>1 DEF Store
<1>10. ASSUME NEW p \in Callers, Publish(p), UNCHANGED now
       PROVE  TypeInv'
  <2>1. flights' \in [Flights -> Flight]
    BY <1>10 DEF Publish, FlightResult, NoResult, Flight, Result, Errs, Values
  <2>2. QED
    BY <1>10, <2>1 DEF Publish
<1>11. ASSUME NEW p \in Callers, Clear(p), UNCHANGED now
       PROVE  TypeInv'
  <2>1. frame[p].ptr \in Flights
    BY <1>11 DEF Clear
  <2>2. flights' \in [Flights -> Flight]
    BY <1>11, <2>1, ReleaseKeeps DEF Clear
  <2>3. QED
    BY <1>11, <2>2 DEF Clear
<1>12. ASSUME NEW p \in Callers, Wake(p), UNCHANGED now
       PROVE  TypeInv'
  <2> DEFINE o == [val |-> flights[frame[p].ptr].val, err |-> flights[frame[p].ptr].err]
  <2>1. o \in Result
    BY <1>12 DEF Wake, Result, Errs, Flight
  <2>2. frame[p].ptr \in Flights
    BY <1>12 DEF Wake
  <2>3. flights' \in [Flights -> Flight]
    BY <1>12, <2>2, ReleaseKeeps DEF Wake
  <2> HIDE DEF o
  <2>4. QED
    BY <1>12, <2>1, <2>3 DEF Wake, o
<1>13. ASSUME NEW p \in Callers, Return(p), UNCHANGED now
       PROVE  TypeInv'
  BY <1>a, <1>13 DEF Return, IdleFrame
<1>14. CASE UNCHANGED vars
  BY <1>14 DEF vars
<1>15. QED
  BY <1>1, <1>2, <1>3, <1>4, <1>5, <1>6, <1>7, <1>8, <1>9, <1>10, <1>11, <1>12,
     <1>13, <1>14
  DEF Next, Step, LoadEnds, Proceed, Enter

\* What a step does to the frames: only p's changes, and its key stays while p is
\* inside Get.
OnlyFrame(p) == \A q \in Callers : q # p => frame'[q] = frame[q]

LEMMA ProceedFrame ==
  ASSUME TypeInv, NEW p \in Callers,
         Enter(p) \/ Store(p) \/ Publish(p) \/ Clear(p) \/ Wake(p)
  PROVE  /\ OnlyFrame(p)
         /\ frame[p].pc \notin {"idle", "load", "returned"} /\ frame'[p].pc # "idle"
         /\ frame'[p].key = frame[p].key
         /\ frame'[p].pc # "store"
         /\ ~Store(p) => UNCHANGED entries
<1> USE DEF TypeInv, TypeOK, Frame, OnlyFrame
<1>1. CASE Hit(p)
  BY <1>1 DEF Hit
<1>2. CASE Join(p)
  BY <1>2 DEF Join
<1>3. CASE Lead(p)
  BY <1>3 DEF Lead
<1>4. CASE Store(p)
  BY <1>4 DEF Store
<1>5. CASE Publish(p)
  BY <1>5 DEF Publish
<1>6. CASE Clear(p)
  BY <1>6 DEF Clear
<1>7. CASE Wake(p)
  BY <1>7 DEF Wake
<1>8. QED
  BY <1>1, <1>2, <1>3, <1>4, <1>5, <1>6, <1>7 DEF Enter

LEMMA StoreEntry ==
  ASSUME TypeInv, NEW p \in Callers, Store(p)
  PROVE  /\ frame[p].pc = "store" /\ frame[p].key \in Keys /\ frame'[p].pc = "publish"
         /\ entries'[frame[p].key].val = frame[p].out.val
         /\ TTL > 0 => entries'[frame[p].key].until = now + TTL
         /\ \A k \in Keys : k # frame[p].key => entries'[k] = entries[k]
<1>1. frame[p].pc = "store" /\ frame[p].key \in Keys /\ frame'[p].pc = "publish"
  BY DEF Store, TypeInv, TypeOK, LocalsOK, Frame
<1>2. QED
  BY <1>1 DEF Store, TypeInv, TypeOK

LEMMA LoadFrame ==
  ASSUME TypeInv, NEW p \in Callers,
         (\E v : LoadOK(p, v)) \/ LoadErr(p) \/ LoadPanic(p)
  PROVE  /\ OnlyFrame(p)
         /\ frame[p].pc = "load" /\ frame'[p].pc \in {"store", "publish"}
         /\ frame'[p].key = frame[p].key
         /\ \A v : LoadOK(p, v) => frame'[p].out.val = v /\ frame'[p].out.err = "nil"
         /\ LoadPanic(p) => frame'[p].out.val = Zero /\ frame'[p].out.err = "panic"
         /\ LoadErr(p) \/ LoadPanic(p) => frame'[p].pc = "publish"
         /\ UNCHANGED entries
<1> USE DEF TypeInv, TypeOK, Frame, OnlyFrame
<1>1. ASSUME NEW v, LoadOK(p, v)
      PROVE  /\ OnlyFrame(p)
             /\ frame[p].pc = "load" /\ frame'[p].pc = "store"
             /\ frame'[p].key = frame[p].key
             /\ frame'[p].out.val = v /\ frame'[p].out.err = "nil"
             /\ UNCHANGED entries
  BY <1>1 DEF LoadOK
<1>2. ASSUME LoadErr(p)
      PROVE  /\ OnlyFrame(p)
             /\ frame[p].pc = "load" /\ frame'[p].pc = "publish"
             /\ frame'[p].key = frame[p].key
             /\ UNCHANGED entries
  BY <1>2 DEF LoadErr
<1>3. ASSUME LoadPanic(p)
      PROVE  /\ OnlyFrame(p)
             /\ frame[p].pc = "load" /\ frame'[p].pc = "publish"
             /\ frame'[p].key = frame[p].key
             /\ frame'[p].out.val = Zero /\ frame'[p].out.err = "panic"
             /\ UNCHANGED entries
  BY <1>3 DEF LoadPanic
<1>4. QED
  BY <1>1, <1>2, <1>3

LEMMA CallFrame ==
  ASSUME TypeInv, NEW p \in Callers, NEW k, Call(p, k)
  PROVE  /\ OnlyFrame(p) /\ frame[p].pc = "idle" /\ frame'[p].pc = "enter"
         /\ frame'[p].key = k /\ UNCHANGED entries
  BY DEF TypeInv, TypeOK, Call, IdleFrame, OnlyFrame

LEMMA ReturnFrame ==
  ASSUME TypeInv, NEW p \in Callers, Return(p)
  PROVE  /\ OnlyFrame(p) /\ frame[p].pc = "returned" /\ frame'[p].pc = "idle"
         /\ UNCHANGED entries
  BY DEF TypeInv, TypeOK, Return, IdleFrame, OnlyFrame

\* A goroutine begins to lead by loading.
LEMMA LeadersLoad ==
  ASSUME TypeInv, [Next]_vars, NEW p \in Callers,
         frame[p].pc \notin Leading, frame'[p].pc \in Leading
  PROVE  frame'[p].pc = "load"
<1> USE DEF TypeInv, TypeOK, Frame, Leading
<1>1. ASSUME NEW q \in Callers, Step(q) PROVE frame'[p] = frame[p] \/ q = p
  BY <1>1 DEF Step, LoadEnds, Proceed, Enter, Call, Hit, Join, Lead, LoadOK, LoadErr, LoadPanic,
     Store, Publish, Clear, Wake, Return
<1>2. CASE Step(p)
  <2>1. CASE \E k \in Keys : Call(p, k)
    BY <2>1, CallFrame
  <2>2. CASE LoadEnds(p) \/ Store(p) \/ Publish(p) \/ Clear(p)
    BY <2>2 DEF LoadEnds, LoadOK, LoadErr, LoadPanic, Store, Publish, Clear
  <2>3. CASE Lead(p)
    BY <2>3 DEF Lead
  <2>4. CASE Hit(p) \/ Join(p)
    <3>1. Hit(p) => frame'[p].pc = "returned"
      BY DEF Hit
    <3>2. Join(p) => frame'[p].pc = "wait"
      BY DEF Join
    <3>3. QED
      BY <2>4, <3>1, <3>2
  <2>5. CASE Wake(p)
    BY <2>5 DEF Wake
  <2>6. CASE Return(p)
    BY <2>6, ReturnFrame
  <2>7. QED
    BY <1>2, <2>1, <2>2, <2>3, <2>4, <2>5, <2>6 DEF Step, Proceed, Enter
<1>3. CASE ~Step(p)
  BY <1>1, <1>3 DEF Next, Tick, cacheVars, vars
<1>4. QED
  BY <1>2, <1>3

\* Only the second critical section of a leader changes the entries.
LEMMA EntrySteps ==
  ASSUME [Next]_vars
  PROVE  UNCHANGED entries \/ \E p \in Callers : Store(p) /\ UNCHANGED now
BY DEF Next, Tick, cacheVars, vars, Step, LoadEnds, Proceed, Enter, Call, Hit, Join, Lead, LoadOK,
   LoadErr, LoadPanic, Publish, Clear, Wake, Return

\* The fields of the cache and the locals of Get have their types (cache.go:33-62).
THEOREM TypeCorrect == Spec => []TypeOK
<1>1. Init => TypeInv
  BY ConstantsOK DEF Init, CacheInit, TypeInv, TypeOK, LocalsOK, NoEntry, NewFlight,
     IdleFrame, NoResult, Frame, PCs, Entry, Flight, Result, Errs, Values, Leading
<1>2. TypeInv => TypeOK
  BY DEF TypeInv
<1>3. QED
  BY <1>1, <1>2, TypeStep, PTL DEF Spec

-----------------------------------------------------------------------------
\* The inductive invariant.  SingleFlight alone is not inductive: that Lead
\* cannot add a second leader of a key follows from FlightOwnership, which
\* holds after Clear only because no other goroutine leads the key; that a
\* waiter is served needs leaders to publish to different cells, once.
DistinctFlights ==
    \A p, q \in Callers :
        /\ frame[p].pc \in Leading
        /\ frame[q].pc \in Leading
        /\ frame[p].ptr = frame[q].ptr
        => p = q

PublishedOnce ==
    \A p \in Callers :
        frame[p].pc \in Leading =>
            (flights[frame[p].ptr].done <=> frame[p].pc = "clear")

FlightParts == /\ SingleFlight
               /\ FlightOwnership
               /\ DistinctFlights
               /\ PublishedOnce
               /\ WaitersServed

FlightInv == TypeInv /\ FlightParts

\* What a step of p leaves alone: c.inflight, and the frames and the flights of
\* the other goroutines.
OthersKeep(p) ==
    /\ UNCHANGED inflight
    /\ \A q \in Callers : q # p =>
         /\ frame'[q] = frame[q]
         /\ frame[q].ptr \in Flights => flights'[frame[q].ptr] = flights[frame[q].ptr]

LEMMA OutsideStep ==
  ASSUME FlightInv, NEW p \in Callers, OthersKeep(p),
         frame[p].pc \notin Leading,
         frame'[p].pc \notin Leading \cup {"wait"}
  PROVE  FlightParts'
<1>1. \A q \in Callers :
        /\ frame'[q].pc \in Leading <=> frame[q].pc \in Leading
        /\ frame'[q].pc \in Leading \cup {"wait"} =>
             frame'[q] = frame[q] /\ flights'[frame[q].ptr] = flights[frame[q].ptr]
  BY DEF OthersKeep, FlightInv, TypeInv, LocalsOK
<1>2. UNCHANGED inflight
  BY DEF OthersKeep
<1>3. SingleFlight' /\ DistinctFlights'
  BY <1>1 DEF FlightInv, FlightParts, SingleFlight, DistinctFlights
<1>4. FlightOwnership'
  BY <1>1, <1>2 DEF FlightInv, FlightParts, FlightOwnership
<1>5. PublishedOnce'
  BY <1>1 DEF FlightInv, FlightParts, PublishedOnce
<1>6. WaitersServed'
  BY <1>1 DEF FlightInv, FlightParts, WaitersServed, Leading, OthersKeep
<1>7. QED
  BY <1>3, <1>4, <1>5, <1>6 DEF FlightParts

LEMMA LeaderStep ==
  ASSUME FlightInv, NEW p \in Callers, OthersKeep(p), UNCHANGED flights,
         frame[p].pc \in Leading \ {"clear"},
         frame'[p].pc \in Leading \ {"clear"},
         frame'[p].key = frame[p].key,
         frame'[p].ptr = frame[p].ptr
  PROVE  FlightParts'
<1>1. \A q \in Callers :
        /\ frame'[q].key = frame[q].key
        /\ frame'[q].ptr = frame[q].ptr
        /\ frame'[q].pc \in Leading <=> frame[q].pc \in Leading
        /\ frame'[q].pc = "clear" <=> frame[q].pc = "clear"
        /\ frame'[q].pc = "wait" <=> frame[q].pc = "wait"
  BY DEF OthersKeep, Leading
<1>2. UNCHANGED <<inflight, flights>>
  BY DEF OthersKeep
<1>3. SingleFlight' /\ DistinctFlights'
  BY <1>1 DEF FlightInv, FlightParts, SingleFlight, DistinctFlights
<1>4. FlightOwnership'
  BY <1>1, <1>2 DEF FlightInv, FlightParts, FlightOwnership
<1>5. PublishedOnce'
  BY <1>1, <1>2 DEF FlightInv, FlightParts, PublishedOnce
<1>6. WaitersServed'
  BY <1>1, <1>2 DEF FlightInv, FlightParts, WaitersServed, Leading
<1>7. QED
  BY <1>3, <1>4, <1>5, <1>6 DEF FlightParts

LEMMA FlightStep == FlightInv /\ [Next]_vars => FlightInv'
<1> SUFFICES ASSUME FlightInv, [Next]_vars PROVE FlightInv'
  OBVIOUS
<1>0. TypeInv'
  BY TypeStep DEF FlightInv
<1> USE ConstantsOK DEF FlightInv, TypeInv, TypeOK, LocalsOK, Leading, Frame, PCs
<1>1. CASE Tick
  BY <1>1 DEF Tick, cacheVars, FlightParts, SingleFlight, FlightOwnership,
     DistinctFlights, PublishedOnce, WaitersServed
<1>2. ASSUME NEW p \in Callers, NEW k \in Keys, Call(p, k)
      PROVE  FlightParts'
  <2>1. /\ frame[p].pc = "idle"
        /\ frame'[p].pc = "enter"
        /\ OthersKeep(p)
    BY <1>2 DEF Call, OthersKeep, IdleFrame
  <2>2. QED
    BY <2>1, OutsideStep
<1>3. ASSUME NEW p \in Callers, Hit(p)
      PROVE  FlightParts'
  <2>1. /\ frame[p].pc = "enter"
        /\ frame'[p].pc = "returned"
        /\ OthersKeep(p)
    BY <1>3 DEF Hit, OthersKeep
  <2>2. QED
    BY <2>1, OutsideStep
<1>4. ASSUME NEW p \in Callers, Join(p)
      PROVE  FlightParts'
  BY <1>4, <1>0 DEF Join, FlightParts, SingleFlight, FlightOwnership, DistinctFlights,
     PublishedOnce, WaitersServed
<1>5. ASSUME NEW p \in Callers, Lead(p)
      PROVE  FlightParts'
  <2> DEFINE k == frame[p].key
  <2>1. PICK f \in Flights :
          /\ ~InUse(f)
          /\ flights'  = [flights EXCEPT ![f] = NewFlight]
          /\ inflight' = [inflight EXCEPT ![k] = f]
          /\ frame'    = [frame EXCEPT ![p] = [@ EXCEPT !.pc = "load", !.ptr = f,
                                              !.stale = entries[k]]]
    BY <1>5 DEF Lead
  <2>2. frame[p].pc = "enter" /\ k \in Keys /\ inflight[k] = NoFlight
    BY <1>5 DEF Lead
  <2>3. /\ frame'[p].pc = "load" /\ frame'[p].key = k /\ frame'[p].ptr = f
        /\ \A q \in Callers : q # p => frame'[q] = frame[q]
    BY <2>1
  <2>4. /\ inflight'[k] = f
        /\ \A l \in Keys : l # k => inflight'[l] = inflight[l]
    BY <2>1, <2>2
  <2>5. /\ ~flights'[f].done
        /\ \A q \in Callers : /\ frame[q].ptr # f
                               /\ flights'[frame[q].ptr] = flights[frame[q].ptr]
    BY <2>1 DEF InUse, NewFlight
  <2>6. \A q \in Callers : frame[q].pc \in Leading => frame[q].key # k
    BY <2>2 DEF FlightParts, FlightOwnership
  <2>7. SingleFlight' /\ DistinctFlights'
    BY <2>2, <2>3, <2>5, <2>6 DEF FlightParts, SingleFlight, DistinctFlights
  <2>8. FlightOwnership'
    BY <2>2, <2>3, <2>4, <2>6 DEF FlightParts, FlightOwnership
  <2>9. PublishedOnce'
    BY <2>3, <2>5 DEF FlightParts, PublishedOnce
  <2>10. WaitersServed'
    BY <2>2, <2>3, <2>5 DEF FlightParts, WaitersServed
  <2>11. QED
    BY <2>7, <2>8, <2>9, <2>10 DEF FlightParts
<1>6. ASSUME NEW p \in Callers, NEW v \in Val, LoadOK(p, v)
      PROVE  FlightParts'
  <2>1. /\ frame[p].pc = "load"
        /\ frame'[p].pc = "store"
        /\ frame'[p].key = frame[p].key /\ frame'[p].ptr = frame[p].ptr
        /\ OthersKeep(p) /\ UNCHANGED flights
    BY <1>6 DEF LoadOK, OthersKeep
  <2>2. QED
    BY <2>1, LeaderStep
<1>7. ASSUME NEW p \in Callers, LoadErr(p)
      PROVE  FlightParts'
  <2>1. /\ frame[p].pc = "load"
        /\ frame'[p].pc = "publish"
        /\ frame'[p].key = frame[p].key /\ frame'[p].ptr = frame[p].ptr
        /\ OthersKeep(p) /\ UNCHANGED flights
    BY <1>7 DEF LoadErr, OthersKeep
  <2>2. QED
    BY <2>1, LeaderStep
<1>8. ASSUME NEW p \in Callers, LoadPanic(p)
      PROVE  FlightParts'
  <2>1. /\ frame[p].pc = "load"
        /\ frame'[p].pc = "publish"
        /\ frame'[p].key = frame[p].key /\ frame'[p].ptr = frame[p].ptr
        /\ OthersKeep(p) /\ UNCHANGED flights
    BY <1>8 DEF LoadPanic, OthersKeep
  <2>2. QED
    BY <2>1, LeaderStep
<1>9. ASSUME NEW p \in Callers, Store(p)
      PROVE  FlightParts'
  <2>1. /\ frame[p].pc = "store"
        /\ frame'[p].pc = "publish"
        /\ frame'[p].key = frame[p].key /\ frame'[p].ptr = frame[p].ptr
        /\ OthersKeep(p) /\ UNCHANGED flights
    BY <1>9 DEF Store, OthersKeep
  <2>2. QED
    BY <2>1, LeaderStep
<1>10. ASSUME NEW p \in Callers, Publish(p)
      PROVE  FlightParts'
  BY <1>10, <1>0 DEF Publish, FlightParts, SingleFlight, FlightOwnership, DistinctFlights,
     PublishedOnce, WaitersServed
<1>11. ASSUME NEW p \in Callers, Clear(p)
      PROVE  FlightParts'
  <2> DEFINE k == frame[p].key
  <2>1. frame[p].pc = "clear" /\ frame[p].ptr \in Flights /\ k \in Keys
    BY <1>11 DEF Clear
  <2>2. /\ frame'[p].pc = "returned"
        /\ \A q \in Callers : q # p => frame'[q] = frame[q]
    BY <1>11 DEF Clear
  <2>3. /\ inflight'[k] = NoFlight
        /\ \A l \in Keys : l # k => inflight'[l] = inflight[l]
    BY <1>11, <2>1 DEF Clear
  <2>4. \A q \in Callers : q # p /\ frame[q].ptr \in Flights =>
          flights'[frame[q].ptr] = flights[frame[q].ptr]
    BY <1>11, <2>1, ReleaseKeeps DEF Clear
  <2>5. \A q \in Callers : q # p /\ frame[q].pc \in Leading => frame[q].key # k
    BY <2>1 DEF FlightParts, SingleFlight
  <2>6. SingleFlight' /\ DistinctFlights'
    BY <2>2 DEF FlightParts, SingleFlight, DistinctFlights
  <2>7. FlightOwnership'
    BY <2>1, <2>2, <2>3, <2>5 DEF FlightParts, FlightOwnership
  <2>8. PublishedOnce'
    BY <2>2, <2>4 DEF FlightParts, PublishedOnce
  <2>9. WaitersServed'
    BY <2>1, <2>2, <2>4 DEF FlightParts, WaitersServed
  <2>10. QED
    BY <2>6, <2>7, <2>8, <2>9 DEF FlightParts
<1>12. ASSUME NEW p \in Callers, Wake(p)
      PROVE  FlightParts'
  <2>1. /\ frame[p].pc = "wait"
        /\ frame'[p].pc = "returned"
        /\ frame[p].ptr \in Flights
    BY <1>12 DEF Wake
  <2>2. OthersKeep(p)
    BY <1>12, <2>1, ReleaseKeeps DEF Wake, OthersKeep
  <2>3. QED
    BY <2>1, <2>2, OutsideStep
<1>13. ASSUME NEW p \in Callers, Return(p)
      PROVE  FlightParts'
  <2>1. /\ frame[p].pc = "returned"
        /\ frame'[p].pc = "idle"
        /\ OthersKeep(p)
    BY <1>13 DEF Return, OthersKeep, IdleFrame
  <2>2. QED
    BY <2>1, OutsideStep
<1>14. CASE UNCHANGED vars
  BY <1>14 DEF vars, FlightParts, SingleFlight, FlightOwnership, DistinctFlights,
     PublishedOnce, WaitersServed
<1>15. QED
  BY <1>0, <1>1, <1>2, <1>3, <1>4, <1>5, <1>6, <1>7, <1>8, <1>9, <1>10, <1>11, <1>12,
     <1>13, <1>14
  DEF Next, Step, LoadEnds, Proceed, Enter

LEMMA FlightInit == Init => FlightInv
  BY ConstantsOK DEF Init, CacheInit, FlightInv, FlightParts, TypeInv, TypeOK, LocalsOK, NoEntry,
     NewFlight, IdleFrame, NoResult, Frame, PCs, Entry, Flight, Result, Errs, Values,
     Leading, SingleFlight, FlightOwnership, DistinctFlights, PublishedOnce, WaitersServed

\* A key has at most one flight, with one goroutine that leads it, and a waiter's
\* flight has a leader until it is done (cache.go:70-115): the invariant behind the
\* theorems below.
THEOREM FlightInvariant == Spec => []FlightInv
  BY FlightInit, FlightStep, PTL DEF Spec

\* Concurrent Gets of a key share one Load (cache.go:30), whatever the number
\* of goroutines and keys and even if Loads panic.
THEOREM SingleFlightHolds == Spec => []SingleFlight
<1>1. FlightInv => SingleFlight
  BY DEF FlightInv, FlightParts
<1>2. QED
  BY <1>1, FlightInvariant, PTL

\* The deferred delete (cache.go:87-92) removes the leader's own flight.
THEOREM FlightOwnershipHolds == Spec => []FlightOwnership
<1>1. FlightInv => FlightOwnership
  BY DEF FlightInv, FlightParts
<1>2. QED
  BY <1>1, FlightInvariant, PTL

\* No goroutine waits on a flight that nobody will finish (cache.go:78).
THEOREM WaitersServedHolds == Spec => []WaitersServed
<1>1. FlightInv => WaitersServed
  BY DEF FlightInv, FlightParts
<1>2. QED
  BY <1>1, FlightInvariant, PTL

-----------------------------------------------------------------------------
\* What a leader hands out.  The stale value it captured is still the entry
\* when its Load fails, because nobody else stores for its key meanwhile.
CapturedStale ==
    \A p \in Callers :
        /\ frame[p].pc = "load" =>
             /\ frame[p].stale.have = entries[frame[p].key].have
             /\ frame[p].stale.val = entries[frame[p].key].val
        /\ frame[p].pc = "store" => frame[p].out.err = "nil"

ResultInv == CapturedStale /\ StaleOnError /\ WaitersAgree

LEMMA ResultStep == FlightInv /\ ResultInv /\ [Next]_vars => ResultInv'
<1> SUFFICES ASSUME FlightInv, ResultInv, [Next]_vars PROVE ResultInv'
  OBVIOUS
<1> USE ConstantsOK
    DEF FlightInv, FlightParts, TypeInv, TypeOK, LocalsOK, Leading, Frame, PCs,
        SingleFlight, DistinctFlights, ResultInv, CapturedStale, StaleOnError, WaitersAgree
<1>1. CASE Tick
  BY <1>1 DEF Tick, cacheVars
<1>2. ASSUME NEW p \in Callers, NEW k \in Keys, Call(p, k)
      PROVE  ResultInv'
  BY <1>2 DEF Call, IdleFrame
<1>3. ASSUME NEW p \in Callers, Hit(p)
      PROVE  ResultInv'
  BY <1>3 DEF Hit
<1>4. ASSUME NEW p \in Callers, Join(p)
      PROVE  ResultInv'
  BY <1>4 DEF Join
<1>5. ASSUME NEW p \in Callers, Lead(p)
      PROVE  ResultInv'
  <2>1. PICK f \in Flights :
          /\ ~InUse(f)
          /\ flights' = [flights EXCEPT ![f] = NewFlight]
          /\ frame'   = [frame EXCEPT ![p] = [@ EXCEPT !.pc = "load", !.ptr = f,
                                             !.stale = entries[frame[p].key]]]
    BY <1>5 DEF Lead
  <2>2. /\ frame'[p].pc = "load"
        /\ frame'[p].stale = entries[frame[p].key] /\ frame'[p].key = frame[p].key
        /\ \A q \in Callers : q # p => frame'[q] = frame[q]
    BY <2>1
  <2>3. \A q \in Callers : flights'[frame[q].ptr] = flights[frame[q].ptr]
    BY <2>1 DEF InUse
  <2>4. UNCHANGED entries
    BY <1>5 DEF Lead
  <2>5. QED
    BY <2>2, <2>3, <2>4
<1>6. ASSUME NEW p \in Callers, NEW v \in Val, LoadOK(p, v)
      PROVE  ResultInv'
  BY <1>6 DEF LoadOK
<1>7. ASSUME NEW p \in Callers, LoadErr(p)
      PROVE  ResultInv'
  BY <1>7 DEF LoadErr, StaleVal
<1>8. ASSUME NEW p \in Callers, LoadPanic(p)
      PROVE  ResultInv'
  BY <1>8 DEF LoadPanic
<1>9. ASSUME NEW p \in Callers, Store(p)
      PROVE  ResultInv'
  <2>1. /\ frame[p].pc = "store"
        /\ frame'[p].pc = "publish"
        /\ frame'[p].out = frame[p].out
        /\ \A q \in Callers : q # p => frame'[q] = frame[q]
    BY <1>9 DEF Store
  <2>2. \A k \in Keys : k # frame[p].key => entries'[k] = entries[k]
    BY <1>9 DEF Store
  <2>3. UNCHANGED flights
    BY <1>9 DEF Store
  <2>4. \A q \in Callers : q # p /\ frame[q].pc \in Leading =>
           entries'[frame[q].key] = entries[frame[q].key]
    BY <2>1, <2>2
  <2>5. CapturedStale'
    BY <2>1, <2>4
  <2>6. StaleOnError'
    BY <2>1, <2>4
  <2>7. WaitersAgree'
    BY <2>1, <2>3
  <2>8. QED
    BY <2>5, <2>6, <2>7
<1>10. ASSUME NEW p \in Callers, Publish(p)
      PROVE  ResultInv'
  BY <1>10 DEF Publish, FlightResult, NoResult
<1>11. ASSUME NEW p \in Callers, Clear(p)
      PROVE  ResultInv'
  <2>1. /\ frame'[p].pc = "returned"
        /\ \A q \in Callers : q # p => frame'[q] = frame[q]
        /\ UNCHANGED entries
        /\ frame[p].ptr \in Flights
    BY <1>11 DEF Clear
  <2>2. \A q \in Callers : q # p /\ frame[q].ptr \in Flights =>
          flights'[frame[q].ptr] = flights[frame[q].ptr]
    BY <1>11, <2>1, ReleaseKeeps DEF Clear
  <2>3. QED
    BY <2>1, <2>2
<1>12. ASSUME NEW p \in Callers, Wake(p)
      PROVE  ResultInv'
  <2>1. /\ frame'[p].pc = "returned"
        /\ \A q \in Callers : q # p => frame'[q] = frame[q]
        /\ UNCHANGED entries
        /\ frame[p].ptr \in Flights
    BY <1>12 DEF Wake
  <2>2. \A q \in Callers : q # p /\ frame[q].ptr \in Flights =>
          flights'[frame[q].ptr] = flights[frame[q].ptr]
    BY <1>12, <2>1, ReleaseKeeps DEF Wake
  <2>3. QED
    BY <2>1, <2>2
<1>13. ASSUME NEW p \in Callers, Return(p)
      PROVE  ResultInv'
  BY <1>13 DEF Return, IdleFrame
<1>14. CASE UNCHANGED vars
  BY <1>14 DEF vars
<1>15. QED
  BY <1>1, <1>2, <1>3, <1>4, <1>5, <1>6, <1>7, <1>8, <1>9, <1>10, <1>11, <1>12,
     <1>13, <1>14
  DEF Next, Step, LoadEnds, Proceed, Enter

LEMMA ResultInit == Init => ResultInv
  BY DEF Init, CacheInit, ResultInv, CapturedStale, StaleOnError, WaitersAgree, IdleFrame

\* What a leader hands out is what its flight holds, or the stale value it found
\* (cache.go:82-115): the invariant behind the theorems below.
THEOREM ResultInvariant == Spec => []ResultInv
  BY ResultInit, ResultStep, FlightInvariant, PTL DEF Spec

\* "On Load error, a stale value is returned if one exists", cache.go:31-32.
THEOREM StaleOnErrorHolds == Spec => []StaleOnError
<1>1. ResultInv => StaleOnError
  BY DEF ResultInv
<1>2. QED
  BY <1>1, ResultInvariant, PTL

\* "Both the leader and waiters", cache.go:68-69.
THEOREM WaitersAgreeHolds == Spec => []WaitersAgree
<1>1. ResultInv => WaitersAgree
  BY DEF ResultInv
<1>2. QED
  BY <1>1, ResultInvariant, PTL

-----------------------------------------------------------------------------
\* What Get hands out.  An entry holds a value that a Load returned; a leader
\* publishes the value its entry holds, whether its Load succeeded or failed
\* (cache.go:95-112); and only a Load that panics makes anything else.
EntriesLoaded ==
    \A k \in Keys : IF entries[k].have THEN entries[k].val \in Val
                                       ELSE entries[k].val = Zero

LeadersServe ==
    \A p \in Callers :
        LET f == frame[p]
            e == entries[f.key]
        IN /\ f.pc = "store" => f.out.val \in Val
           /\ f.pc \in {"publish", "clear"} /\ f.out.err # "panic" => f.out.val = e.val
           /\ f.pc \in {"publish", "clear"} /\ f.out.err = "nil" => e.have

OneKeyPerFlight ==
    \A p, q \in Callers :
        /\ frame[p].pc = "wait"
        /\ frame[q].pc \in Leading
        /\ frame[p].ptr = frame[q].ptr
        => frame[p].key = frame[q].key

\* The results that a leader, a waiter or a caller holds.
GoodResult(out) == out.err # "panic" /\ (out.err = "nil" => out.val \in Val)

ResultsGood ==
    \A p \in Callers :
        /\ frame[p].pc \in {"publish", "clear", "returned"} => GoodResult(frame[p].out)
        /\ frame[p].pc = "wait" /\ flights[frame[p].ptr].done =>
             (flights[frame[p].ptr].err = "nil" => flights[frame[p].ptr].val \in Val)

ServeInv == /\ EntriesLoaded
            /\ LeadersServe
            /\ OneKeyPerFlight
            /\ ~LoadsMayPanic => ResultsGood

LEMMA ServeStep == FlightInv /\ ResultInv /\ ServeInv /\ [Next]_vars => ServeInv'
<1> SUFFICES ASSUME FlightInv, ResultInv, ServeInv, [Next]_vars PROVE ServeInv'
  OBVIOUS
<1>0. FlightInv' /\ ResultInv'
  BY FlightStep, ResultStep
<1>i. /\ TypeInv
      /\ \A k \in Keys : inflight[k] # NoFlight =>
           \E q \in Callers : /\ frame[q].pc \in Leading
                              /\ frame[q].key = k /\ frame[q].ptr = inflight[k]
      /\ \A p, q \in Callers : frame[p].pc \in Leading /\ frame[q].pc \in Leading
                               /\ frame[p].key = frame[q].key => p = q
  BY DEF FlightInv, FlightParts, FlightOwnership, SingleFlight
<1> USE ConstantsOK
    DEF TypeInv, TypeOK, LocalsOK, Leading, Frame, PCs, ServeInv, EntriesLoaded,
        LeadersServe, OneKeyPerFlight, ResultsGood, GoodResult
<1>1. CASE Tick
  BY <1>1 DEF Tick, cacheVars
<1>2. ASSUME NEW p \in Callers, NEW k \in Keys, Call(p, k)
      PROVE  ServeInv'
  BY <1>2, <1>i DEF Call, IdleFrame
<1>3. ASSUME NEW p \in Callers, Hit(p)
      PROVE  ServeInv'
  BY <1>3, <1>i DEF Hit, Fresh
<1>4. ASSUME NEW p \in Callers, Join(p)
      PROVE  ServeInv'
  BY <1>4, <1>i DEF Join, FlightInv, FlightParts, PublishedOnce, DistinctFlights,
     ResultInv, WaitersAgree
<1>5. ASSUME NEW p \in Callers, Lead(p)
      PROVE  ServeInv'
  <2>1. PICK f \in Flights :
          /\ ~InUse(f)
          /\ flights' = [flights EXCEPT ![f] = NewFlight]
          /\ frame'   = [frame EXCEPT ![p] = [@ EXCEPT !.pc = "load", !.ptr = f,
                                             !.stale = entries[frame[p].key]]]
    BY <1>5 DEF Lead
  <2>2. /\ frame'[p].pc = "load" /\ frame'[p].ptr = f
        /\ frame'[p].key = frame[p].key
        /\ \A q \in Callers : q # p => frame'[q] = frame[q]
    BY <2>1, <1>i
  <2>3. \A q \in Callers : frame[q].ptr # f /\ flights'[frame[q].ptr] = flights[frame[q].ptr]
    BY <2>1, <1>i DEF InUse
  <2>4. UNCHANGED entries
    BY <1>5 DEF Lead
  <2>5. QED
    BY <2>2, <2>3, <2>4, <1>i
<1>6. ASSUME NEW p \in Callers, NEW v \in Val, LoadOK(p, v)
      PROVE  ServeInv'
  BY <1>6, <1>i DEF LoadOK
<1>7. ASSUME NEW p \in Callers, LoadErr(p)
      PROVE  ServeInv'
  BY <1>7, <1>i DEF LoadErr, StaleVal, ResultInv, CapturedStale
<1>8. ASSUME NEW p \in Callers, LoadPanic(p)
      PROVE  ServeInv'
  BY <1>8, <1>i DEF LoadPanic
<1>9. ASSUME NEW p \in Callers, Store(p)
      PROVE  ServeInv'
  <2>1. /\ frame[p].pc = "store" /\ frame[p].key \in Keys
        /\ frame'[p].pc = "publish"
        /\ frame'[p].out = frame[p].out /\ frame'[p].key = frame[p].key
        /\ frame'[p].ptr = frame[p].ptr
        /\ \A q \in Callers : q # p => frame'[q] = frame[q]
    BY <1>9, <1>i DEF Store
  <2>2. /\ \A k \in Keys : k # frame[p].key => entries'[k] = entries[k]
        /\ entries'[frame[p].key].have /\ entries'[frame[p].key].val = frame[p].out.val
    BY <1>9, <1>i, <2>1 DEF Store
  <2>3. UNCHANGED flights
    BY <1>9 DEF Store
  <2>4. \A q \in Callers : q # p /\ frame[q].pc \in Leading =>
           entries'[frame[q].key] = entries[frame[q].key]
    BY <2>1, <2>2, <1>i
  <2>5. frame[p].out.val \in Val /\ frame[p].out.err = "nil"
    BY <2>1 DEF ResultInv, CapturedStale
  <2>6. EntriesLoaded'
    BY <2>2, <2>5
  <2>7. LeadersServe'
    BY <2>1, <2>2, <2>4
  <2>8. OneKeyPerFlight'
    BY <2>1
  <2>9. ~LoadsMayPanic => ResultsGood'
    BY <2>1, <2>3, <2>5
  <2>10. QED
    BY <2>6, <2>7, <2>8, <2>9
<1>10. ASSUME NEW p \in Callers, Publish(p)
      PROVE  ServeInv'
  <2>1. /\ frame[p].pc = "publish" /\ frame'[p] = [frame[p] EXCEPT !.pc = "clear"]
        /\ \A q \in Callers : q # p => frame'[q] = frame[q]
        /\ UNCHANGED entries
        /\ frame[p].ptr \in Flights
    BY <1>10, <1>i DEF Publish
  <2>2. /\ flights'[frame[p].ptr].val = FlightResult(frame[p].out).val
        /\ flights'[frame[p].ptr].err = FlightResult(frame[p].out).err
        /\ \A f \in Flights : f # frame[p].ptr => flights'[f] = flights[f]
    BY <1>10, <1>i, <2>1 DEF Publish
  <2>3. EntriesLoaded' /\ LeadersServe' /\ OneKeyPerFlight'
    BY <2>1, <1>i
  <2>4. ASSUME ~LoadsMayPanic PROVE ResultsGood'
    BY <2>1, <2>2, <2>4, <1>i DEF FlightResult
  <2>5. QED
    BY <2>3, <2>4
<1>11. ASSUME NEW p \in Callers, Clear(p)
      PROVE  ServeInv'
  <2>1. /\ frame'[p].pc = "returned" /\ frame[p].pc = "clear"
        /\ frame'[p].out = frame[p].out
        /\ \A q \in Callers : q # p => frame'[q] = frame[q]
        /\ UNCHANGED entries
        /\ frame[p].ptr \in Flights
    BY <1>11, <1>i DEF Clear
  <2>2. \A q \in Callers : q # p /\ frame[q].ptr \in Flights =>
          flights'[frame[q].ptr] = flights[frame[q].ptr]
    BY <1>11, <1>i, <2>1, ReleaseKeeps DEF Clear
  <2>3. QED
    BY <2>1, <2>2, <1>i
<1>12. ASSUME NEW p \in Callers, Wake(p)
      PROVE  ServeInv'
  <2>1. /\ frame'[p].pc = "returned" /\ frame[p].pc = "wait"
        /\ flights[frame[p].ptr].done
        /\ frame'[p].out.val = flights[frame[p].ptr].val
        /\ frame'[p].out.err = flights[frame[p].ptr].err
        /\ \A q \in Callers : q # p => frame'[q] = frame[q]
        /\ UNCHANGED entries
        /\ frame[p].ptr \in Flights
    BY <1>12, <1>i DEF Wake
  <2>2. \A q \in Callers : q # p /\ frame[q].ptr \in Flights =>
          flights'[frame[q].ptr] = flights[frame[q].ptr]
    BY <1>12, <1>i, <2>1, ReleaseKeeps DEF Wake
  <2>3. frame'[p].out.err # "panic"
    BY <2>1, <1>i DEF Flight
  <2>4. EntriesLoaded'
    BY <2>1
  <2>5. LeadersServe'
    BY <2>1
  <2>6. OneKeyPerFlight'
    BY <2>1
  <2>7. ASSUME ~LoadsMayPanic PROVE ResultsGood'
    BY <2>1, <2>2, <2>3, <2>7, <1>i
  <2>8. QED
    BY <2>4, <2>5, <2>6, <2>7
<1>13. ASSUME NEW p \in Callers, Return(p)
      PROVE  ServeInv'
  BY <1>13, <1>i DEF Return, IdleFrame
<1>14. CASE UNCHANGED vars
  BY <1>14 DEF vars
<1>15. QED
  BY <1>1, <1>2, <1>3, <1>4, <1>5, <1>6, <1>7, <1>8, <1>9, <1>10, <1>11, <1>12,
     <1>13, <1>14
  DEF Next, Step, LoadEnds, Proceed, Enter

LEMMA ServeInit == Init => ServeInv
  BY DEF Init, CacheInit, ServeInv, EntriesLoaded, LeadersServe, OneKeyPerFlight,
     ResultsGood, NoEntry, IdleFrame, Leading

\* An entry holds only what some Load returned and, without panics, so does a Get
\* that reports no error: never the zero value (cache.go:70-115).
THEOREM ServeInvariant == Spec => []ServeInv
  BY ServeInit, ServeStep, FlightInvariant, ResultInvariant, PTL DEF Spec
-----------------------------------------------------------------------------
\* Everything p's Get can still answer is in G: what its key's entry holds until
\* a result is fixed, and the fixed result from then on.
Reaches(p, G) ==
    LET f == frame[p] IN
    /\ f.pc \in {"enter", "load", "store"} => entries[f.key].val \in G
    /\ f.pc = "wait" => IF flights[f.ptr].done THEN flights[f.ptr].val \in G
                                               ELSE entries[f.key].val \in G
    /\ f.pc \in {"publish", "clear", "returned"} => f.out.val \in G

LEMMA ReachWider ==
  ASSUME NEW p \in Callers, NEW G, NEW H, Reaches(p, G), G \subseteq H
  PROVE  Reaches(p, H)
  BY DEF Reaches

\* A Get stays within G as long as the values stored for its key do; this holds
\* for a waiter because its leader stores before it publishes (cache.go:106-112,
\* 87-92).
LEMMA ReachStep ==
  ASSUME FlightInv, ResultInv, ServeInv, ~LoadsMayPanic, [Next]_vars,
         NEW p \in Callers, NEW G,
         frame[p].pc # "idle", Reaches(p, G),
         \A q \in Callers : Store(q) /\ frame[q].key = frame[p].key => frame[q].out.val \in G
  PROVE  frame'[p].pc # "idle" => Reaches(p, G)'
<1>i. /\ TypeInv
      /\ EntriesLoaded
      /\ LeadersServe
      /\ OneKeyPerFlight
      /\ ResultsGood
      /\ \A k \in Keys : inflight[k] # NoFlight =>
           \E q \in Callers : /\ frame[q].pc \in Leading
                              /\ frame[q].key = k /\ frame[q].ptr = inflight[k]
  BY DEF FlightInv, FlightParts, FlightOwnership, ServeInv
<1> USE ConstantsOK
    DEF TypeInv, TypeOK, LocalsOK, Leading, Frame, PCs, Reaches
<1>1. CASE Tick
  BY <1>1 DEF Tick, cacheVars
<1>2. ASSUME NEW q \in Callers, NEW k \in Keys, Call(q, k)
      PROVE  Reaches(p, G)'
  BY <1>2, <1>i DEF Call, IdleFrame
<1>3. ASSUME NEW q \in Callers, Hit(q)
      PROVE  Reaches(p, G)'
  BY <1>3, <1>i DEF Hit
<1>4. ASSUME NEW q \in Callers, Join(q)
      PROVE  Reaches(p, G)'
  <2>1. /\ frame[q].pc = "enter" /\ frame'[q].pc = "wait"
        /\ frame'[q].key = frame[q].key /\ frame'[q].ptr = inflight[frame[q].key]
        /\ \A r \in Callers : r # q => frame'[r] = frame[r]
        /\ UNCHANGED <<entries, flights>>
    BY <1>4, <1>i DEF Join
  <2>2. PICK r \in Callers : /\ frame[r].pc \in Leading
                             /\ frame[r].key = frame[q].key
                             /\ frame[r].ptr = inflight[frame[q].key]
    BY <1>4, <1>i DEF Join
  <2>3. flights[frame[r].ptr].done => flights[frame[r].ptr].val = entries[frame[r].key].val
    BY <2>2, <1>i DEF FlightInv, FlightParts, PublishedOnce, ResultInv, WaitersAgree,
       LeadersServe, ResultsGood, GoodResult
  <2>4. QED
    BY <2>1, <2>2, <2>3
<1>5. ASSUME NEW q \in Callers, Lead(q)
      PROVE  Reaches(p, G)'
  <2>1. PICK f \in Flights :
          /\ ~InUse(f)
          /\ flights' = [flights EXCEPT ![f] = NewFlight]
          /\ frame'   = [frame EXCEPT ![q] = [@ EXCEPT !.pc = "load", !.ptr = f,
                                             !.stale = entries[frame[q].key]]]
    BY <1>5 DEF Lead
  <2>2. /\ frame[q].pc = "enter" /\ frame'[q].pc = "load"
        /\ frame'[q].key = frame[q].key
        /\ \A r \in Callers : r # q => frame'[r] = frame[r]
    BY <1>5, <2>1, <1>i DEF Lead
  <2>3. \A r \in Callers : flights'[frame[r].ptr] = flights[frame[r].ptr]
    BY <2>1, <1>i DEF InUse
  <2>4. UNCHANGED entries
    BY <1>5 DEF Lead
  <2>5. QED
    BY <2>2, <2>3, <2>4
<1>6. ASSUME NEW q \in Callers, NEW v \in Val, LoadOK(q, v)
      PROVE  Reaches(p, G)'
  BY <1>6, <1>i DEF LoadOK
<1>7. ASSUME NEW q \in Callers, LoadErr(q)
      PROVE  Reaches(p, G)'
  BY <1>7, <1>i DEF LoadErr, StaleVal, ResultInv, CapturedStale, EntriesLoaded
<1>8. ASSUME NEW q \in Callers, LoadPanic(q)
      PROVE  Reaches(p, G)'
  BY <1>8 DEF LoadPanic
<1>9. ASSUME NEW q \in Callers, Store(q)
      PROVE  Reaches(p, G)'
  <2>1. /\ frame[q].pc = "store" /\ frame[q].key \in Keys
        /\ frame'[q] = [frame[q] EXCEPT !.pc = "publish"]
        /\ \A r \in Callers : r # q => frame'[r] = frame[r]
        /\ UNCHANGED flights
    BY <1>9, <1>i DEF Store
  <2>2. /\ \A k \in Keys : k # frame[q].key => entries'[k] = entries[k]
        /\ entries'[frame[q].key].val = frame[q].out.val
    BY <1>9, <1>i, <2>1 DEF Store
  <2>3. frame[q].key = frame[p].key => frame[q].out.val \in G
    BY <1>9
  <2>4. frame[p].key \in Keys
    BY <1>i
  <2>5. entries[frame[p].key].val \in G => entries'[frame[p].key].val \in G
    BY <2>2, <2>3, <2>4
  <2>6. CASE p = q
    BY <2>1, <2>3, <2>6, <1>i
  <2>7. CASE p # q
    BY <2>1, <2>5, <2>7
  <2>8. QED
    BY <2>6, <2>7
<1>10. ASSUME NEW q \in Callers, Publish(q)
      PROVE  Reaches(p, G)'
  <2>1. /\ frame[q].pc = "publish" /\ frame'[q] = [frame[q] EXCEPT !.pc = "clear"]
        /\ \A r \in Callers : r # q => frame'[r] = frame[r]
        /\ UNCHANGED entries
        /\ frame[q].ptr \in Flights
    BY <1>10, <1>i DEF Publish
  <2>2. /\ flights'[frame[q].ptr].val = FlightResult(frame[q].out).val
        /\ flights'[frame[q].ptr].done
        /\ \A f \in Flights : f # frame[q].ptr => flights'[f] = flights[f]
    BY <1>10, <1>i, <2>1 DEF Publish
  <2>3. flights'[frame[q].ptr].val = entries[frame[q].key].val
    BY <2>1, <2>2, <1>i DEF FlightResult, LeadersServe, ResultsGood, GoodResult
  <2>4. ~flights[frame[q].ptr].done
    BY <2>1 DEF FlightInv, FlightParts, PublishedOnce
  <2>5. CASE p = q
    BY <2>1, <2>5, <1>i
  <2>6. CASE p # q
    <3>1. CASE frame[p].pc = "wait" /\ frame[p].ptr = frame[q].ptr
      <4>1. frame[p].key = frame[q].key
        BY <3>1, <2>1, <1>i DEF OneKeyPerFlight
      <4>2. QED
        BY <2>1, <2>2, <2>3, <2>4, <2>6, <3>1, <4>1
    <3>2. CASE ~(frame[p].pc = "wait" /\ frame[p].ptr = frame[q].ptr)
      BY <2>1, <2>2, <2>6, <3>2, <1>i
    <3>3. QED
      BY <3>1, <3>2
  <2>7. QED
    BY <2>5, <2>6
<1>11. ASSUME NEW q \in Callers, Clear(q)
      PROVE  Reaches(p, G)'
  <2>1. /\ frame'[q].pc = "returned" /\ frame[q].pc = "clear"
        /\ frame'[q].out = frame[q].out
        /\ \A r \in Callers : r # q => frame'[r] = frame[r]
        /\ UNCHANGED entries
        /\ frame[q].ptr \in Flights
    BY <1>11, <1>i DEF Clear
  <2>2. \A r \in Callers : r # q /\ frame[r].ptr \in Flights =>
          flights'[frame[r].ptr] = flights[frame[r].ptr]
    BY <1>11, <1>i, <2>1, ReleaseKeeps DEF Clear
  <2>3. CASE p = q
    BY <2>1, <2>3
  <2>4. CASE p # q
    <3>1. frame[p].pc = "wait" => flights'[frame[p].ptr] = flights[frame[p].ptr]
      BY <2>2, <2>4, <1>i
    <3>2. QED
      BY <2>1, <2>4, <3>1
  <2>5. QED
    BY <2>3, <2>4
<1>12. ASSUME NEW q \in Callers, Wake(q)
      PROVE  Reaches(p, G)'
  <2>1. /\ frame'[q].pc = "returned" /\ frame[q].pc = "wait"
        /\ flights[frame[q].ptr].done
        /\ frame'[q].out.val = flights[frame[q].ptr].val
        /\ \A r \in Callers : r # q => frame'[r] = frame[r]
        /\ UNCHANGED entries
        /\ frame[q].ptr \in Flights
    BY <1>12, <1>i DEF Wake
  <2>2. \A r \in Callers : r # q /\ frame[r].ptr \in Flights =>
          flights'[frame[r].ptr] = flights[frame[r].ptr]
    BY <1>12, <1>i, <2>1, ReleaseKeeps DEF Wake
  <2>3. CASE p = q
    BY <2>1, <2>3
  <2>4. CASE p # q
    <3>1. frame[p].pc = "wait" => flights'[frame[p].ptr] = flights[frame[p].ptr]
      BY <2>2, <2>4, <1>i
    <3>2. QED
      BY <2>1, <2>4, <3>1
  <2>5. QED
    BY <2>3, <2>4
<1>13. ASSUME NEW q \in Callers, Return(q)
      PROVE  frame'[p].pc # "idle" => Reaches(p, G)'
  BY <1>13, <1>i DEF Return, IdleFrame
<1>14. CASE UNCHANGED vars
  BY <1>14 DEF vars
<1>15. QED
  BY <1>1, <1>2, <1>3, <1>4, <1>5, <1>6, <1>7, <1>8, <1>9, <1>10, <1>11, <1>12,
     <1>13, <1>14
  DEF Next, Step, LoadEnds, Proceed, Enter
-----------------------------------------------------------------------------
\* Everything that p's Get has made or been given so far is in G: a leader's
\* result, what a waiter finds in its flight, and what a Get returns.
Yields(p, G) ==
    LET f == frame[p] IN
    /\ f.pc \in {"store", "publish", "clear", "returned"} => f.out.val \in G
    /\ f.pc \in {"wait", "clear"} /\ flights[f.ptr].done => flights[f.ptr].val \in G

LEMMA YieldWider ==
  ASSUME NEW p \in Callers, NEW G, NEW H, Yields(p, G), G \subseteq H
  PROVE  Yields(p, H)
  BY DEF Yields

\* Unlike ReachStep this holds when Loads panic: their flights hold the zero value
\* (cache.go:82-92).
LEMMA YieldStep ==
  ASSUME FlightInv, OneKeyPerFlight, [Next]_vars,
         NEW p \in Callers, NEW G, Zero \in G, frame[p].pc # "idle", Yields(p, G),
         frame[p].pc = "enter" /\ Fresh(entries[frame[p].key]) => entries[frame[p].key].val \in G,
         frame[p].pc \in {"enter", "wait"} =>
           \A q \in Callers : frame[q].pc \in Leading /\ frame[q].key = frame[p].key => Yields(q, G),
         frame[p].pc = "load" /\ frame'[p].pc # "load" => frame'[p].out.val \in G
  PROVE  frame'[p].pc # "idle" => Yields(p, G)'
<1>i. /\ TypeInv
      /\ PublishedOnce /\ DistinctFlights
      /\ \A k \in Keys : inflight[k] # NoFlight =>
           \E q \in Callers : /\ frame[q].pc \in Leading
                              /\ frame[q].key = k /\ frame[q].ptr = inflight[k]
  BY DEF FlightInv, FlightParts, FlightOwnership
<1> USE ConstantsOK
    DEF TypeInv, TypeOK, LocalsOK, Leading, Frame, PCs, Yields
<1>1. CASE Tick
  BY <1>1 DEF Tick, cacheVars
<1>2. ASSUME NEW q \in Callers, NEW k \in Keys, Call(q, k)
      PROVE  Yields(p, G)'
  BY <1>2, <1>i DEF Call, IdleFrame
<1>3. ASSUME NEW q \in Callers, Hit(q)
      PROVE  Yields(p, G)'
  BY <1>3, <1>i DEF Hit
<1>4. ASSUME NEW q \in Callers, Join(q)
      PROVE  Yields(p, G)'
  <2>1. /\ frame[q].pc = "enter" /\ frame'[q].pc = "wait"
        /\ frame'[q].ptr = inflight[frame[q].key]
        /\ \A r \in Callers : r # q => frame'[r] = frame[r]
        /\ UNCHANGED flights
    BY <1>4, <1>i DEF Join
  <2>2. PICK r \in Callers : /\ frame[r].pc \in Leading
                             /\ frame[r].key = frame[q].key
                             /\ frame[r].ptr = inflight[frame[q].key]
    BY <1>4, <1>i DEF Join
  <2>3. flights[frame[r].ptr].done => frame[r].pc = "clear"
    BY <2>2, <1>i DEF PublishedOnce
  <2>4. QED
    BY <2>1, <2>2, <2>3
<1>5. ASSUME NEW q \in Callers, Lead(q)
      PROVE  Yields(p, G)'
  <2>1. PICK f \in Flights :
          /\ ~InUse(f)
          /\ flights' = [flights EXCEPT ![f] = NewFlight]
          /\ frame'   = [frame EXCEPT ![q] = [@ EXCEPT !.pc = "load", !.ptr = f,
                                             !.stale = entries[frame[q].key]]]
    BY <1>5 DEF Lead
  <2>2. /\ frame'[q].pc = "load"
        /\ \A r \in Callers : r # q => frame'[r] = frame[r]
    BY <2>1, <1>i
  <2>3. \A r \in Callers : flights'[frame[r].ptr] = flights[frame[r].ptr]
    BY <2>1, <1>i DEF InUse
  <2>4. QED
    BY <2>2, <2>3
<1>6. ASSUME NEW q \in Callers, (\E v \in Val : LoadOK(q, v)) \/ LoadErr(q) \/ LoadPanic(q)
      PROVE  Yields(p, G)'
  <2>1. /\ frame[q].pc = "load" /\ frame'[q].pc \in {"store", "publish"}
        /\ \A r \in Callers : r # q => frame'[r] = frame[r]
    BY <1>6, <1>i, LoadFrame DEF OnlyFrame
  <2>2. UNCHANGED flights
    BY <1>6 DEF LoadOK, LoadErr, LoadPanic
  <2>3. QED
    BY <2>1, <2>2
<1>7. ASSUME NEW q \in Callers, Store(q)
      PROVE  Yields(p, G)'
  <2>1. /\ frame[q].pc = "store" /\ frame'[q] = [frame[q] EXCEPT !.pc = "publish"]
        /\ \A r \in Callers : r # q => frame'[r] = frame[r]
        /\ UNCHANGED flights
    BY <1>7, <1>i DEF Store
  <2>2. QED
    BY <2>1, <1>i
<1>8. ASSUME NEW q \in Callers, Publish(q)
      PROVE  Yields(p, G)'
  <2>1. /\ frame[q].pc = "publish" /\ frame'[q] = [frame[q] EXCEPT !.pc = "clear"]
        /\ \A r \in Callers : r # q => frame'[r] = frame[r]
        /\ frame[q].ptr \in Flights
    BY <1>8, <1>i DEF Publish
  <2>2. /\ flights'[frame[q].ptr].val = FlightResult(frame[q].out).val
        /\ \A f \in Flights : f # frame[q].ptr => flights'[f] = flights[f]
    BY <1>8, <1>i, <2>1 DEF Publish
  <2>3. FlightResult(frame[q].out).val \in {Zero, frame[q].out.val}
    BY DEF FlightResult, NoResult
  <2>4. CASE p = q
    BY <2>1, <2>2, <2>3, <2>4, <1>i
  <2>5. CASE p # q
    <3>1. CASE frame[p].pc = "wait" /\ frame[p].ptr = frame[q].ptr
      <4>1. Yields(q, G)
        BY <2>1, <3>1 DEF OneKeyPerFlight
      <4>2. QED
        BY <2>1, <2>2, <2>3, <2>5, <3>1, <4>1
    <3>2. CASE ~(frame[p].pc = "wait" /\ frame[p].ptr = frame[q].ptr)
      <4>1. frame[p].pc = "clear" => frame[p].ptr # frame[q].ptr
        BY <2>1, <2>5, <1>i DEF DistinctFlights
      <4>2. QED
        BY <2>1, <2>2, <2>5, <3>2, <4>1, <1>i
    <3>3. QED
      BY <3>1, <3>2
  <2>6. QED
    BY <2>4, <2>5
<1>9. ASSUME NEW q \in Callers, Clear(q) \/ Wake(q)
      PROVE  Yields(p, G)'
  <2>1. /\ frame'[q].pc = "returned"
        /\ \/ frame[q].pc = "clear" /\ frame'[q].out = frame[q].out
           \/ /\ frame[q].pc = "wait" /\ flights[frame[q].ptr].done
              /\ frame'[q].out.val = flights[frame[q].ptr].val
        /\ \A r \in Callers : r # q => frame'[r] = frame[r]
        /\ frame[q].ptr \in Flights
    <3>1. CASE Clear(q)
      BY <3>1, <1>i DEF Clear
    <3>2. CASE Wake(q)
      BY <3>2, <1>i DEF Wake
    <3>3. QED
      BY <1>9, <3>1, <3>2
  <2>2. \A r \in Callers : r # q /\ frame[r].ptr \in Flights =>
          flights'[frame[r].ptr] = flights[frame[r].ptr]
    BY <1>9, <1>i, <2>1, ReleaseKeeps DEF Clear, Wake
  <2>3. CASE p = q
    BY <2>1, <2>3
  <2>4. CASE p # q
    <3>1. frame[p].pc \in {"wait", "clear"} => flights'[frame[p].ptr] = flights[frame[p].ptr]
      BY <2>2, <2>4, <1>i
    <3>2. QED
      BY <2>1, <2>4, <3>1
  <2>5. QED
    BY <2>3, <2>4
<1>10. ASSUME NEW q \in Callers, Return(q)
      PROVE  frame'[p].pc # "idle" => Yields(p, G)'
  BY <1>10, <1>i DEF Return, IdleFrame
<1>11. CASE UNCHANGED vars
  BY <1>11 DEF vars
<1>12. QED
  BY <1>1, <1>2, <1>3, <1>4, <1>5, <1>6, <1>7, <1>8, <1>9, <1>10, <1>11
  DEF Next, Step, LoadEnds, Proceed, Enter

\* As long as no Load fails, no Get returns an error.
NoErrors == /\ \A p \in Callers : frame[p].out.err # "error"
            /\ \A f \in Flights : flights[f].err # "error"

LEMMA NoErrorsStep ==
  ASSUME TypeInv, NoErrors, [Next]_vars,
         \A q \in Callers : frame[q].pc = "load" /\ frame'[q].pc # "load" =>
                              frame'[q].out.err # "error"
  PROVE  NoErrors'
<1> USE ConstantsOK DEF TypeInv, TypeOK, LocalsOK, Leading, Frame, PCs, NoErrors
<1>1. ASSUME NEW q \in Callers, NEW k \in Keys, Call(q, k) PROVE NoErrors'
  BY <1>1 DEF Call, IdleFrame, NoResult
<1>2. ASSUME NEW q \in Callers, Hit(q) PROVE NoErrors'
  BY <1>2 DEF Hit
<1>3. ASSUME NEW q \in Callers, Join(q) PROVE NoErrors'
  BY <1>3 DEF Join
<1>4. ASSUME NEW q \in Callers, Lead(q) PROVE NoErrors'
  BY <1>4 DEF Lead, NewFlight
<1>5. ASSUME NEW q \in Callers, (\E v \in Val : LoadOK(q, v)) \/ LoadErr(q) \/ LoadPanic(q)
      PROVE  NoErrors'
  <2>1. /\ frame[q].pc = "load" /\ frame'[q].pc \in {"store", "publish"}
        /\ \A r \in Callers : r # q => frame'[r] = frame[r]
    BY <1>5, LoadFrame DEF OnlyFrame
  <2>2. UNCHANGED flights
    BY <1>5 DEF LoadOK, LoadErr, LoadPanic
  <2>3. QED
    BY <2>1, <2>2
<1>6. ASSUME NEW q \in Callers, Store(q) PROVE NoErrors'
  BY <1>6 DEF Store
<1>7. ASSUME NEW q \in Callers, Publish(q) PROVE NoErrors'
  <2>1. FlightResult(frame[q].out).err # "error"
    BY DEF FlightResult, NoResult
  <2>2. QED
    BY <1>7, <2>1 DEF Publish
<1>8. ASSUME NEW q \in Callers, Clear(q) PROVE NoErrors'
  <2>1. \A f \in Flights : flights'[f].err # "error"
    BY <1>8 DEF Clear, Release, NewFlight
  <2>2. QED
    BY <1>8, <2>1 DEF Clear
<1>9. ASSUME NEW q \in Callers, Wake(q) PROVE NoErrors'
  <2>1. \A f \in Flights : flights'[f].err # "error"
    BY <1>9 DEF Wake, Release, NewFlight
  <2>2. QED
    BY <1>9, <2>1 DEF Wake
<1>10. ASSUME NEW q \in Callers, Return(q) PROVE NoErrors'
  BY <1>10 DEF Return, IdleFrame, NoResult
<1>11. CASE Tick \/ UNCHANGED vars
  BY <1>11 DEF Tick, cacheVars, vars
<1>12. QED
  BY <1>1, <1>2, <1>3, <1>4, <1>5, <1>6, <1>7, <1>8, <1>9, <1>10, <1>11
  DEF Next, Step, LoadEnds, Proceed, Enter

-----------------------------------------------------------------------------
(* CachedSource: what a Get over a changing source returns.                *)

\* The source has a current revision of every key from the start.
SourceTypes ==
    /\ born \in [Keys -> Seq(Nat)]
    /\ \A k \in Keys : Current(k) \in Val
    /\ read \in [Callers -> Val \cup {Zero}]
    /\ asked \in [Callers -> [at : Nat, led : Nat, floor : Nat]]
    /\ seen \in [Keys -> Nat]

\* The revisions of a key only move forward on their way from the source through
\* a Load to the entry.
OrderInv ==
    /\ \A k \in Keys : entries[k].val <= Current(k)
    /\ \A p \in Callers :
         LET k == frame[p].key IN
         /\ read[p] # Zero => /\ frame[p].pc = "load"
                              /\ entries[k].val <= read[p]
                              /\ read[p] <= Current(k)
         /\ frame[p].pc = "store" => /\ entries[k].val <= frame[p].out.val
                                     /\ frame[p].out.val <= Current(k)

\* Every step of the composed system is a step of the cache.
LEMMA SourceStepsCache ==
  ASSUME Numbered, SourceTypes, [SourceNext]_sourceVars
  PROVE  [Next]_vars
<1>1. CASE SourceNext
  <2>1. ASSUME NEW p \in Callers, LoadReturns(p)
        PROVE  Next
    <3>1. read[p] # Zero => read[p] \in Val
      BY DEF SourceTypes
    <3>2. QED
      BY <2>1, <3>1 DEF LoadReturns, Next, Step, LoadEnds
  <2>2. ASSUME NEW k \in Keys, Change(k)
        PROVE  UNCHANGED vars
    BY <2>2 DEF Change, cacheVars, vars
  <2>3. ASSUME NEW p \in Callers, ReadsSource(p)
        PROVE  UNCHANGED vars
    BY <2>3 DEF ReadsSource, cacheVars, vars
  <2>4. CASE Passes
    BY <2>4 DEF Passes, Next
  <2>5. ASSUME NEW p \in Callers,
               \/ \E k \in Keys : Asks(p, k)
               \/ Hits(p) \/ Joins(p) \/ Leads(p) \/ Finishes(p) \/ Answers(p) \/ Leaves(p)
        PROVE  Next
    BY <2>5 DEF Asks, Hits, Joins, Leads, Finishes, Answers, Leaves, Next, Step, Proceed, Enter
  <2>6. QED
    BY <1>1, <2>1, <2>2, <2>3, <2>4, <2>5 DEF SourceNext
<1>2. CASE UNCHANGED sourceVars
  BY <1>2 DEF sourceVars, vars
<1>3. QED
  BY <1>1, <1>2

CacheInv == FlightInv /\ ResultInv /\ ServeInv

SourceInv == CacheInv /\ SourceTypes /\ OrderInv

LEMMA CacheStep == CacheInv /\ [Next]_vars => CacheInv'
  BY FlightStep, ResultStep, ServeStep DEF CacheInv

LEMMA SourceTypesStep ==
  ASSUME Numbered, SourceInv, [SourceNext]_sourceVars
  PROVE  SourceTypes'
<1> USE DEF SourceInv, SourceTypes, Numbered
<1>0. TypeInv /\ CacheInv'
  BY SourceStepsCache, CacheStep DEF CacheInv, FlightInv
<1>i. TypeInv /\ TypeInv'
  BY <1>0 DEF CacheInv, FlightInv
<1>1. ASSUME NEW k \in Keys, Change(k) PROVE SourceTypes'
  BY <1>1, <1>i DEF Change, Current, TypeInv, TypeOK
<1>2. ASSUME NEW p \in Callers, NEW k \in Keys, Asks(p, k) PROVE SourceTypes'
  BY <1>2, <1>i DEF Asks, Current, TypeInv, TypeOK
<1>3. ASSUME NEW p \in Callers, Hits(p) \/ Answers(p) PROVE SourceTypes'
  <2>1. frame[p].pc # "idle" /\ frame'[p].out.val \in Nat
    BY <1>3, <1>i DEF Hits, Answers, Hit, Clear, Wake, TypeInv, TypeOK, Frame, Result, Values
  <2>2. frame[p].key \in Keys
    BY <2>1, <1>i DEF TypeInv, LocalsOK
  <2>3. seen' = [seen EXCEPT ![frame[p].key] =
                   IF frame'[p].out.val > @ THEN frame'[p].out.val ELSE @]
    BY <1>3 DEF Hits, Answers, Returns
  <2>4. seen' \in [Keys -> Nat]
    BY <2>1, <2>2, <2>3
  <2>5. UNCHANGED <<born, read, asked>>
    BY <1>3 DEF Hits, Answers
  <2>6. QED
    BY <2>4, <2>5 DEF Current
<1>4. ASSUME NEW p \in Callers, Joins(p) \/ Finishes(p) PROVE SourceTypes'
  BY <1>4 DEF Joins, Finishes, Current
<1>5. ASSUME NEW p \in Callers, Leads(p) PROVE SourceTypes'
  BY <1>5, <1>i DEF Leads, Current, TypeInv, TypeOK
<1>6. ASSUME NEW p \in Callers, ReadsSource(p) PROVE SourceTypes'
  <2>1. frame[p].key \in Keys
    BY <1>6, <1>i DEF ReadsSource, TypeInv, LocalsOK
  <2>2. QED
    BY <1>6, <2>1 DEF ReadsSource, Current
<1>7. ASSUME NEW p \in Callers, LoadReturns(p) PROVE SourceTypes'
  BY <1>7 DEF LoadReturns, Current
<1>8. ASSUME NEW p \in Callers, Leaves(p) PROVE SourceTypes'
  BY <1>8 DEF Leaves, Current, NotAsked
<1>9. CASE Passes \/ UNCHANGED sourceVars
  BY <1>9 DEF Passes, sourceVars, Current
<1>10. QED
  BY <1>1, <1>2, <1>3, <1>4, <1>5, <1>6, <1>7, <1>8, <1>9 DEF SourceNext

LEMMA OrderStep ==
  ASSUME Numbered, SourceInv, [SourceNext]_sourceVars
  PROVE  OrderInv' /\ \A k \in Keys : entries'[k].val >= entries[k].val
<1> DEFINE Goal == OrderInv' /\ \A k \in Keys : entries'[k].val >= entries[k].val
<1>0. SourceTypes /\ SourceTypes' /\ CacheInv'
  BY SourceStepsCache, CacheStep, SourceTypesStep DEF SourceInv
<1>i. /\ TypeInv /\ TypeInv' /\ OrderInv
      /\ \A p, q \in Callers : frame[p].pc \in Leading /\ frame[q].pc \in Leading
                               /\ frame[p].key = frame[q].key => p = q
  BY <1>0 DEF SourceInv, CacheInv, FlightInv, FlightParts, SingleFlight
<1>k. /\ \A p \in Callers : frame[p].pc # "idle" => frame[p].key \in Keys
      /\ \A k \in Keys : entries[k].val \in Nat /\ Current(k) \in Nat
      /\ \A p \in Callers : read[p] \in Nat /\ frame[p].out.val \in Nat
      /\ frame \in [Callers -> Frame]
  <2>1. /\ \A p \in Callers : frame[p].pc # "idle" => frame[p].key \in Keys
        /\ frame \in [Callers -> Frame]
    BY <1>i DEF TypeInv, TypeOK, LocalsOK
  <2>2. Values \subseteq Nat
    BY DEF Values, Numbered
  <2>3. \A k \in Keys : entries[k].val \in Nat /\ Current(k) \in Nat
    BY <1>0, <1>i, <2>2 DEF TypeInv, TypeOK, Entry, SourceTypes, Numbered
  <2>4. \A p \in Callers : frame[p].out.val \in Values
    BY <2>1 DEF Frame, Result
  <2>6. \A p \in Callers : read[p] \in Values
    BY <1>0 DEF SourceTypes, Values
  <2>5. QED
    BY <2>1, <2>2, <2>3, <2>4, <2>6
<1> USE DEF OrderInv, Leading, Frame, PCs
<1>1. ASSUME NEW k \in Keys, Change(k) PROVE Goal
  <2>1. /\ UNCHANGED <<entries, frame, read>>
        /\ \A l \in Keys : Len(born'[l]) \in Nat /\ Len(born'[l]) >= Len(born[l])
    BY <1>0, <1>1, <1>k DEF Change, cacheVars, SourceTypes
  <2>2. QED
    BY <1>i, <1>k, <2>1 DEF Current
<1>2. ASSUME NEW p \in Callers, NEW k \in Keys, Asks(p, k) PROVE Goal
  BY <1>2, <1>i, <1>k DEF Asks, Call, IdleFrame, Current
<1>3. ASSUME NEW p \in Callers, Hits(p) PROVE Goal
  BY <1>3, <1>i, <1>k DEF Hits, Hit, Current
<1>4. ASSUME NEW p \in Callers, Joins(p) PROVE Goal
  BY <1>4, <1>i, <1>k DEF Joins, Join, Current
<1>5. ASSUME NEW p \in Callers, Leads(p) PROVE Goal
  <2>1. /\ frame[p].pc = "enter" /\ frame'[p].pc = "load"
        /\ \A q \in Callers : q # p => frame'[q] = frame[q]
        /\ UNCHANGED <<entries, born, read>>
    BY <1>5, <1>k DEF Leads, Lead
  <2>2. QED
    BY <2>1, <1>i, <1>k DEF Current
<1>6. ASSUME NEW p \in Callers, ReadsSource(p) PROVE Goal
  <2>1. /\ frame[p].pc = "load"
        /\ UNCHANGED <<entries, frame, born>>
        /\ read'[p] = Current(frame[p].key)
        /\ \A q \in Callers : q # p => read'[q] = read[q]
    BY <1>6, <1>0 DEF ReadsSource, cacheVars, SourceTypes
  <2>2. QED
    BY <2>1, <1>i, <1>k DEF Current
<1>7. ASSUME NEW p \in Callers, LoadReturns(p) PROVE Goal
  <2>1. /\ frame[p].pc = "load" /\ frame'[p].key = frame[p].key
        /\ frame'[p].pc \in {"store", "publish"}
        /\ frame'[p].pc = "store" => read[p] # Zero /\ frame'[p].out.val = read[p]
        /\ \A q \in Callers : q # p => frame'[q] = frame[q]
        /\ UNCHANGED <<entries, born>>
        /\ read' = [read EXCEPT ![p] = Zero]
    <3>1. CASE read[p] # Zero /\ LoadOK(p, read[p])
      BY <1>7, <3>1, <1>k DEF LoadReturns, LoadOK
    <3>2. CASE LoadErr(p)
      BY <1>7, <3>2, <1>k DEF LoadReturns, LoadErr
    <3>3. CASE LoadPanic(p)
      BY <1>7, <3>3, <1>k DEF LoadReturns, LoadPanic
    <3>4. QED
      BY <1>7, <3>1, <3>2, <3>3 DEF LoadReturns
  <2>2. \A k \in Keys : Current(k)' = Current(k)
    BY <2>1 DEF Current
  <2>3. read'[p] = Zero /\ \A q \in Callers : q # p => read'[q] = read[q]
    BY <2>1, <1>0 DEF SourceTypes
  <2>4. QED
    BY <2>1, <2>2, <2>3, <1>i, <1>k
<1>8. ASSUME NEW p \in Callers, Finishes(p), Store(p) PROVE Goal
  <2>1. /\ frame[p].pc = "store" /\ frame[p].key \in Keys
        /\ frame'[p].pc = "publish"
        /\ \A q \in Callers : q # p => frame'[q] = frame[q]
        /\ \A k \in Keys : k # frame[p].key => entries'[k] = entries[k]
        /\ entries'[frame[p].key].val = frame[p].out.val
        /\ UNCHANGED <<born, read>>
    BY <1>8, <1>i, <1>k DEF Finishes, Store, TypeInv, TypeOK
  <2>2. \A q \in Callers : q # p /\ frame[q].pc \in Leading => frame[q].key # frame[p].key
    BY <2>1, <1>i
  <2>3. \A q \in Callers : read[q] # Zero => q # p
    BY <2>1, <1>i
  <2>4. OrderInv'
    BY <2>1, <2>2, <2>3, <1>i, <1>k DEF Current
  <2>5. \A k \in Keys : entries'[k].val >= entries[k].val
    BY <2>1, <1>i, <1>k
  <2>6. QED
    BY <2>4, <2>5
<1>9. ASSUME NEW p \in Callers, Finishes(p), Publish(p) PROVE Goal
  <2>1. /\ frame[p].pc = "publish" /\ frame'[p].pc = "clear"
        /\ \A q \in Callers : q # p => frame'[q] = frame[q]
        /\ UNCHANGED <<entries, born, read>>
    BY <1>9, <1>k DEF Finishes, Publish
  <2>2. QED
    BY <2>1, <1>i, <1>k DEF Current
<1>10. ASSUME NEW p \in Callers, Answers(p) PROVE Goal
  <2>1. /\ frame[p].pc \in {"clear", "wait"} /\ frame'[p].pc = "returned"
        /\ \A q \in Callers : q # p => frame'[q] = frame[q]
        /\ UNCHANGED <<entries, born, read>>
    BY <1>10, <1>k DEF Answers, Clear, Wake
  <2>2. QED
    BY <2>1, <1>i, <1>k DEF Current
<1>11. ASSUME NEW p \in Callers, Leaves(p) PROVE Goal
  BY <1>11, <1>i, <1>k DEF Leaves, Return, IdleFrame, Current
<1>12. CASE Passes
  BY <1>12, <1>i, <1>k DEF Passes, Tick, cacheVars, Current
<1>13. CASE UNCHANGED sourceVars
  BY <1>13, <1>i, <1>k DEF sourceVars, Current
<1>14. QED
  BY <1>1, <1>2, <1>3, <1>4, <1>5, <1>6, <1>7, <1>8, <1>9, <1>10, <1>11, <1>12, <1>13
  DEF SourceNext, Finishes


LEMMA SourceInvInit ==
  ASSUME Numbered, SourceInit
  PROVE  SourceInv
<1>1. CacheInv
  BY FlightInit, ResultInit, ServeInit DEF SourceInit, CacheInv
<1>2. SourceTypes
  BY DEF SourceInit, SourceTypes, Current, NotAsked, Numbered
<1>3. OrderInv
  <2>1. \A k \in Keys : entries[k].val = 0 /\ Current(k) \in Nat
    BY <1>2 DEF SourceInit, Init, CacheInit, NoEntry, SourceTypes, Numbered
  <2>2. \A p \in Callers : read[p] = Zero /\ frame[p].pc = "idle"
    BY DEF SourceInit, Init, CacheInit, IdleFrame
  <2>3. QED
    BY <2>1, <2>2 DEF OrderInv
<1>4. QED
  BY <1>1, <1>2, <1>3 DEF SourceInv

LEMMA SourceInvStep ==
  ASSUME Numbered, SourceInv, [SourceNext]_sourceVars
  PROVE  SourceInv'
  BY SourceStepsCache, CacheStep, SourceTypesStep, OrderStep DEF SourceInv

\* The entry of a key never goes back to an older revision (cache.go:106-112),
\* for any source, any number of callers and keys, and Loads that may fail or
\* panic.
THEOREM EntriesNeverGoBack ==
  ASSUME Numbered
  PROVE  SourceSpec => EntriesAdvance
<1>1. SourceInit => SourceInv
  BY SourceInvInit
<1>2. SourceInv /\ [SourceNext]_sourceVars => SourceInv'
  BY SourceInvStep
<1>3. SourceInv /\ [SourceNext]_sourceVars =>
        [\A k \in Keys : entries'[k].val >= entries[k].val]_sourceVars
  BY OrderStep
<1>4. QED
  BY <1>1, <1>2, <1>3, PTL DEF SourceSpec, EntriesAdvance

-----------------------------------------------------------------------------
(* The refinement of CachePromise, when no Load panics.                    *)

\* Nothing newer than the entry was ever returned, and what a Get can still
\* answer lies between what had been returned when it was called and the entry.
FloorInv ==
    /\ \A k \in Keys : seen[k] <= entries[k].val
    /\ \A p \in Callers :
         frame[p].pc # "idle" =>
           /\ asked[p].floor <= seen[frame[p].key]
           /\ Reaches(p, asked[p].floor .. entries[frame[p].key].val)

\* CachePromise's CurrentSince, of a history of revisions.
Since(history, v, t) == v < Len(history) => history[v + 1] >= t

\* How old the revisions can be: a flight lasts MaxFlight, and an entry is stored
\* by one flight and used for less than TTL.
EntryAge(k) ==
    entries[k].have /\ TTL > 0 =>
      /\ entries[k].until - TTL <= now
      /\ Since(born[k], entries[k].val, (entries[k].until - TTL) - MaxFlight)

CallerAge(p) ==
    LET f == frame[p]
        a == asked[p]
    IN /\ f.pc # "idle" => a.at <= now
       /\ f.pc \in Leading => a.at <= a.led /\ a.led <= now /\ now <= a.led + MaxFlight
       /\ read[p] # Zero => Since(born[f.key], read[p], a.led)
       /\ f.pc \in {"store", "publish", "clear"} /\ f.out.err = "nil" =>
            Since(born[f.key], f.out.val, a.led)
       /\ f.pc = "wait" /\ flights[f.ptr].done /\ flights[f.ptr].err = "nil" =>
            Since(born[f.key], flights[f.ptr].val, a.at - MaxFlight)

AgeInv == (\A k \in Keys : EntryAge(k)) /\ (\A p \in Callers : CallerAge(p))

\* What is a number when the revisions are.
LEMMA Numbers ==
  ASSUME Numbered, SourceTypes, TypeInv
  PROVE  /\ now \in Nat /\ TTL \in Nat /\ MaxFlight \in Nat
         /\ \A k \in Keys : /\ entries[k].val \in Nat /\ entries[k].until \in Nat
                            /\ seen[k] \in Nat /\ Current(k) \in Nat \ {0}
         /\ \A f \in Flights : flights[f].val \in Nat
         /\ \A p \in Callers : /\ frame[p].out.val \in Nat /\ read[p] \in Nat
                               /\ asked[p].at \in Nat /\ asked[p].led \in Nat
                               /\ asked[p].floor \in Nat
         /\ \A p \in Callers : frame[p].pc # "idle" => frame[p].key \in Keys
<1>1. Values \subseteq Nat
  BY DEF Values, Numbered
<1>2. now \in Nat /\ TTL \in Nat /\ MaxFlight \in Nat
  BY ConstantsOK, SourceOK DEF TypeInv, TypeOK
<1>3. \A k \in Keys : entries[k].val \in Nat /\ entries[k].until \in Nat
  BY <1>1 DEF TypeInv, TypeOK, Entry
<1>4. \A k \in Keys : seen[k] \in Nat /\ Current(k) \in Nat \ {0}
  BY DEF SourceTypes, Numbered
<1>5. \A f \in Flights : flights[f].val \in Nat
  BY <1>1 DEF TypeInv, TypeOK, Flight
<1>6. \A p \in Callers : frame[p].out.val \in Nat
  BY <1>1 DEF TypeInv, TypeOK, Frame, Result
<1>7. \A p \in Callers : read[p] \in Nat
  BY <1>1 DEF SourceTypes, Values
<1>9. \A p \in Callers : /\ asked[p].at \in Nat /\ asked[p].led \in Nat
                         /\ asked[p].floor \in Nat
  BY DEF SourceTypes
<1>8. \A p \in Callers : frame[p].pc # "idle" => frame[p].key \in Keys
  BY DEF TypeInv, LocalsOK
<1>10. QED
  BY <1>2, <1>3, <1>4, <1>5, <1>6, <1>7, <1>8, <1>9

LEMMA KeptWhilePending ==
  ASSUME SourceTypes, TypeInv, [SourceNext]_sourceVars,
         NEW p \in Callers, frame[p].pc # "idle", frame'[p].pc # "idle"
  PROVE  /\ frame'[p].key = frame[p].key
         /\ asked'[p].floor = asked[p].floor
         /\ asked'[p].at = asked[p].at
<1> DEFINE Goal == /\ frame'[p].key = frame[p].key
                   /\ asked'[p].floor = asked[p].floor
                   /\ asked'[p].at = asked[p].at
<1>i. asked \in [Callers -> [at : Nat, led : Nat, floor : Nat]]
  BY DEF SourceTypes
<1>1. ASSUME NEW q \in Callers, NEW k \in Keys, Asks(q, k) PROVE Goal
  BY <1>1, <1>i, CallFrame DEF Asks, OnlyFrame
<1>2. ASSUME NEW q \in Callers, Hits(q) \/ Joins(q) \/ Finishes(q) \/ Answers(q) PROVE Goal
  BY <1>2, ProceedFrame DEF Hits, Joins, Finishes, Answers, Enter, OnlyFrame
<1>3. ASSUME NEW q \in Callers, Leads(q) PROVE Goal
  BY <1>3, <1>i, ProceedFrame DEF Leads, Enter, OnlyFrame
<1>4. ASSUME NEW q \in Callers, LoadReturns(q) PROVE Goal
  BY <1>4, LoadFrame DEF LoadReturns, OnlyFrame
<1>5. ASSUME NEW q \in Callers, Leaves(q) PROVE Goal
  BY <1>5, <1>i, ReturnFrame DEF Leaves, OnlyFrame
<1>6. ASSUME NEW q \in Callers, ReadsSource(q) PROVE Goal
  BY <1>6 DEF ReadsSource, cacheVars
<1>7. ASSUME NEW k \in Keys, Change(k) PROVE Goal
  BY <1>7 DEF Change, cacheVars
<1>8. CASE Passes \/ UNCHANGED sourceVars
  BY <1>8 DEF Passes, Tick, cacheVars, sourceVars
<1>9. QED
  BY <1>1, <1>2, <1>3, <1>4, <1>5, <1>6, <1>7, <1>8 DEF SourceNext

LEMMA AnswerReturns ==
  ASSUME TypeInv, NEW p \in Callers, Hits(p) \/ Answers(p)
  PROVE  /\ frame[p].pc \in {"enter", "wait", "clear"}
         /\ frame'[p].pc = "returned"
         /\ \A q \in Callers : q # p => frame'[q] = frame[q]
<1> USE DEF TypeInv, TypeOK
<1>1. CASE Hit(p)
  BY <1>1 DEF Hit
<1>2. CASE Clear(p)
  BY <1>2 DEF Clear
<1>3. CASE Wake(p)
  BY <1>3 DEF Wake
<1>4. QED
  BY <1>1, <1>2, <1>3 DEF Hits, Answers

LEMMA FloorStep ==
  ASSUME Numbered, ~LoadsMayPanic, SourceInv, FloorInv, [SourceNext]_sourceVars
  PROVE  FloorInv'
<1>i. /\ SourceTypes /\ SourceTypes' /\ CacheInv /\ CacheInv'
      /\ TypeInv /\ TypeInv'
      /\ [Next]_vars
  BY SourceStepsCache, CacheStep, SourceTypesStep DEF SourceInv, CacheInv, FlightInv
<1>e. \A k \in Keys : /\ entries[k].val \in Nat /\ entries'[k].val \in Nat
                      /\ entries'[k].val >= entries[k].val
  <2>1. Values \subseteq Nat
    BY DEF Values, Numbered
  <2>2. QED
    BY <2>1, <1>i, OrderStep DEF TypeInv, TypeOK, Entry
<1>1. ASSUME NEW p \in Callers, frame[p].pc # "idle", frame'[p].pc # "idle"
      PROVE  Reaches(p, asked[p].floor .. entries[frame[p].key].val)'
  <2> DEFINE k == frame[p].key
  <2>1. /\ frame'[p].key = k /\ asked'[p].floor = asked[p].floor /\ k \in Keys
    BY <1>1, <1>i, KeptWhilePending DEF TypeInv, LocalsOK
  <2>2. PICK b \in Nat : b = asked[p].floor
    BY <1>i DEF SourceTypes
  <2>3. PICK n \in Nat : n = entries'[k].val
    BY <1>e, <2>1
  <2>4. b .. entries[k].val \subseteq b .. n
    BY <1>e, <2>1, <2>3
  <2>5. Reaches(p, b .. n)
    BY <1>1, <2>2, <2>4 DEF FloorInv, Reaches
  <2>6. b <= n
    <3>1. b <= seen[k] /\ seen[k] <= entries[k].val /\ seen[k] \in Nat
      BY <1>1, <1>i, <2>1, <2>2 DEF FloorInv, SourceTypes
    <3>2. QED
      BY <1>e, <2>1, <2>3, <3>1
  <2>7. ASSUME NEW q \in Callers, Store(q), frame[q].key = frame[p].key
        PROVE  frame[q].out.val \in b .. n
    <3>1. frame[q].out.val = entries'[k].val
      BY <1>i, <2>1, <2>7 DEF Store, TypeInv, TypeOK
    <3>2. QED
      BY <2>3, <2>6, <3>1
  <2>8. Reaches(p, b .. n)'
    BY <1>1, <1>i, <2>5, <2>7, ReachStep DEF CacheInv
  <2>9. QED
    BY <2>1, <2>2, <2>3, <2>8
<1>2. \A k \in Keys : seen'[k] \in Nat /\ seen'[k] >= seen[k] /\ seen'[k] <= entries'[k].val
  <2>1. ASSUME NEW p \in Callers, Hits(p) \/ Answers(p)
        PROVE  \A k \in Keys : seen'[k] >= seen[k] /\ seen'[k] <= entries'[k].val
    <3> DEFINE v == frame'[p].out.val
    <3>1. frame[p].pc # "idle" /\ frame'[p].pc = "returned" /\ frame[p].key \in Keys
      <4>1. frame[p].pc # "idle" /\ frame'[p].pc = "returned"
        BY <2>1, <1>i, AnswerReturns
      <4>2. QED
        BY <4>1, <1>i DEF TypeInv, LocalsOK
    <3>2. frame'[p].key = frame[p].key
      BY <3>1, <1>i, KeptWhilePending
    <3>3. v \in Nat /\ v <= entries'[frame[p].key].val
      <4>1. v \in asked'[p].floor .. entries'[frame[p].key].val
        BY <1>1, <3>1, <3>2 DEF Reaches
      <4>2. asked'[p].floor \in Nat
        BY <1>i DEF SourceTypes
      <4>3. QED
        BY <4>1, <4>2, <1>e, <3>1
    <3>4. seen' = [seen EXCEPT ![frame[p].key] = IF v > @ THEN v ELSE @]
      BY <2>1 DEF Hits, Answers, Returns
    <3>5. \A k \in Keys : seen[k] \in Nat /\ seen[k] <= entries'[k].val
      <4>1. \A k \in Keys : seen[k] \in Nat /\ seen[k] <= entries[k].val
        BY <1>i DEF FloorInv, SourceTypes
      <4>2. QED
        BY <1>e, <4>1
    <3> HIDE DEF v
    <3>6. QED
      BY <3>1, <3>3, <3>4, <3>5, <1>i DEF SourceTypes
  <2>2. CASE UNCHANGED seen
    <3>1. \A k \in Keys : seen[k] \in Nat /\ seen[k] <= entries[k].val
      BY <1>i DEF FloorInv, SourceTypes
    <3>2. QED
      BY <2>2, <1>e, <3>1
  <2>3. UNCHANGED seen \/ \E p \in Callers : Hits(p) \/ Answers(p)
    BY DEF SourceNext, Asks, Joins, Finishes, Leads, LoadReturns, ReadsSource, Leaves, Change,
       Passes, sourceVars
  <2>4. QED
    BY <2>1, <2>2, <2>3, <1>i DEF SourceTypes
<1>3. ASSUME NEW p \in Callers, frame[p].pc = "idle", frame'[p].pc # "idle"
      PROVE  \E k \in Keys : Asks(p, k)
  BY <1>3, <1>i DEF SourceNext, Passes, Tick, Change, ReadsSource, cacheVars, sourceVars,
     Asks, Call, Hits, Hit, Joins, Join, Leads, Lead, LoadReturns, LoadOK, LoadErr, LoadPanic,
     Finishes, Store, Publish, Answers, Clear, Wake, Leaves, Return, TypeInv, TypeOK
<1>4. ASSUME NEW p \in Callers, frame'[p].pc # "idle"
      PROVE  /\ asked'[p].floor <= seen'[frame'[p].key]
             /\ Reaches(p, asked[p].floor .. entries[frame[p].key].val)'
  <2>1. CASE frame[p].pc # "idle"
    <3>1. /\ frame'[p].key = frame[p].key /\ asked'[p].floor = asked[p].floor
          /\ frame[p].key \in Keys
      BY <1>4, <2>1, <1>i, KeptWhilePending DEF TypeInv, LocalsOK
    <3>2. asked[p].floor \in Nat /\ asked[p].floor <= seen[frame[p].key]
      BY <2>1, <1>i DEF FloorInv, SourceTypes
    <3>3. QED
      BY <1>1, <1>2, <1>4, <2>1, <3>1, <3>2, <1>i DEF SourceTypes
  <2>2. CASE frame[p].pc = "idle"
    <3>1. PICK k \in Keys : Asks(p, k)
      BY <1>3, <1>4, <2>2
    <3>2. /\ frame'[p].pc = "enter" /\ frame'[p].key = k
          /\ asked'[p].floor = seen[k]
          /\ UNCHANGED <<entries, seen>>
      BY <3>1, <1>i DEF Asks, Call, IdleFrame, TypeInv, TypeOK, SourceTypes
    <3>3. seen[k] \in Nat /\ seen[k] <= entries[k].val
      BY <1>i DEF FloorInv, SourceTypes
    <3>4. QED
      BY <3>2, <3>3, <1>e DEF Reaches
  <2>3. QED
    BY <2>1, <2>2
<1>5. QED
  BY <1>2, <1>4 DEF FloorInv

\* A revision that was current at time t, or later, stays so: what becomes
\* current afterwards does so later.
LEMMA CurrentStable ==
  ASSUME SourceTypes, TypeInv, [SourceNext]_sourceVars,
         NEW k \in Keys, NEW v \in Nat, NEW t \in Int, t <= now,
         Since(born[k], v, t)
  PROVE  Since(born'[k], v, t)
<1>1. CASE UNCHANGED born
  BY <1>1 DEF Since
<1>2. ASSUME NEW l \in Keys, Change(l)
      PROVE  Since(born'[k], v, t)
  <2>1. born[k] \in Seq(Nat) /\ now \in Nat
    BY DEF SourceTypes, TypeInv, TypeOK
  <2>2. born'[k] = IF k = l THEN Append(born[k], now) ELSE born[k]
    BY <1>2 DEF Change, SourceTypes
  <2>3. QED
    BY <2>1, <2>2 DEF Since
<1>3. UNCHANGED born \/ \E l \in Keys : Change(l)
  BY DEF SourceNext, Asks, Hits, Joins, Leads, ReadsSource, LoadReturns, Finishes, Answers,
     Leaves, Passes, sourceVars
<1>4. QED
  BY <1>1, <1>2, <1>3

LEMMA CurrentEarlier ==
  ASSUME SourceTypes, NEW k \in Keys, NEW v \in Nat, NEW t \in Int, NEW u \in Int, u <= t,
         Since(born[k], v, t)
  PROVE  Since(born[k], v, u)
<1>1. born[k] \in Seq(Nat)
  BY DEF SourceTypes
<1>2. QED
  BY <1>1 DEF Since

\* A caller whose own step this is not keeps the ages it had.
LEMMA CallerAgeKept ==
  ASSUME Numbered, SourceInv, AgeInv, [SourceNext]_sourceVars, NEW p \in Callers,
         frame'[p] = frame[p], asked'[p] = asked[p], read'[p] = read[p],
         frame[p].pc = "wait" => flights'[frame[p].ptr] = flights[frame[p].ptr],
         \/ now' = now
         \/ now' = now + 1 /\ (frame[p].pc \in Leading => now < asked[p].led + MaxFlight)
  PROVE  CallerAge(p)'
<1> DEFINE k == frame[p].key
<1>i. SourceTypes /\ TypeInv /\ OrderInv
  BY DEF SourceInv, CacheInv, FlightInv
<1>t. /\ now \in Nat /\ asked[p].at \in Nat /\ asked[p].led \in Nat /\ MaxFlight \in Nat
      /\ read[p] \in Nat /\ frame[p].out.val \in Nat
      /\ frame[p].pc = "wait" => flights[frame[p].ptr].val \in Nat
      /\ frame[p].pc # "idle" => k \in Keys
  BY <1>i, Numbers DEF TypeInv, LocalsOK
<1>1. CallerAge(p)
  BY DEF AgeInv
<1>2. /\ frame[p].pc # "idle" => asked[p].at <= now'
      /\ frame[p].pc \in Leading => /\ asked[p].at <= asked[p].led /\ asked[p].led <= now'
                                    /\ now' <= asked[p].led + MaxFlight
  BY <1>1, <1>t DEF CallerAge
<1>3. read[p] # Zero => Since(born'[k], read[p], asked[p].led)
  BY <1>1, <1>i, <1>t, CurrentStable DEF CallerAge, OrderInv, Leading
<1>4. frame[p].pc \in {"store", "publish", "clear"} /\ frame[p].out.err = "nil" =>
        Since(born'[k], frame[p].out.val, asked[p].led)
  BY <1>1, <1>i, <1>t, CurrentStable DEF CallerAge, Leading
<1>5. frame[p].pc = "wait" /\ flights[frame[p].ptr].done /\ flights[frame[p].ptr].err = "nil" =>
        Since(born'[k], flights[frame[p].ptr].val, asked[p].at - MaxFlight)
  BY <1>1, <1>i, <1>t, CurrentStable DEF CallerAge
<1>6. QED
  BY <1>2, <1>3, <1>4, <1>5 DEF CallerAge

LEMMA EntryAgeStep ==
  ASSUME Numbered, SourceInv, AgeInv, [SourceNext]_sourceVars, NEW k \in Keys
  PROVE  EntryAge(k)'
<1>i. /\ SourceTypes /\ SourceTypes' /\ TypeInv /\ TypeInv' /\ ResultInv
      /\ \A l \in Keys : EntryAge(l)
      /\ \A p \in Callers : CallerAge(p)
  BY SourceInvStep DEF SourceInv, CacheInv, FlightInv, AgeInv
<1>1. CASE entries'[k] = entries[k]
  <2>1. now' >= now /\ now \in Nat /\ now' \in Nat
    BY <1>i DEF SourceNext, Asks, Hits, Joins, Leads, ReadsSource, LoadReturns, Finishes,
       Answers, Leaves, Passes, Tick, Change, sourceVars, TypeInv, TypeOK
  <2>2. QED
    BY <1>1, <1>i, <2>1, Numbers, CurrentStable DEF EntryAge
<1>2. ASSUME NEW p \in Callers, Finishes(p), Store(p), k = frame[p].key
      PROVE  EntryAge(k)'
  <2>1. /\ frame[p].pc = "store" /\ frame[p].out.err = "nil"
        /\ entries'[k].val = frame[p].out.val
        /\ TTL > 0 => entries'[k].until = now + TTL
        /\ UNCHANGED <<born, now>>
    BY <1>2, <1>i DEF Finishes, Store, TypeInv, TypeOK, ResultInv, CapturedStale
  <2>2. /\ Since(born[k], frame[p].out.val, asked[p].led)
        /\ now <= asked[p].led + MaxFlight
    BY <1>2, <1>i, <2>1 DEF CallerAge, Leading
  <2>3. Since(born[k], frame[p].out.val, now - MaxFlight)
    BY <1>i, <2>2, Numbers, CurrentEarlier
  <2>4. Since(born'[k], frame[p].out.val, now - MaxFlight)
    BY <2>1, <2>3
  <2>5. TTL > 0 => (entries'[k].until - TTL) - MaxFlight = now - MaxFlight
    BY <1>i, <2>1, Numbers
  <2>6. QED
    BY <1>i, <2>1, <2>4, <2>5, Numbers DEF EntryAge
<1>3. \/ entries'[k] = entries[k]
      \/ \E p \in Callers : Finishes(p) /\ Store(p) /\ k = frame[p].key
  BY <1>i DEF SourceNext, Asks, Call, Hits, Hit, Joins, Join, Leads, Lead, ReadsSource,
     LoadReturns, LoadOK, LoadErr, LoadPanic, Finishes, Store, Publish, Answers, Clear, Wake,
     Leaves, Return, Passes, Tick, Change, cacheVars, sourceVars, TypeInv, TypeOK
<1>4. QED
  BY <1>1, <1>2, <1>3

\* What a step of p leaves alone of the other callers.
OthersAgeKept(p) ==
    /\ now' = now
    /\ \A q \in Callers : q # p =>
         /\ frame'[q] = frame[q] /\ asked'[q] = asked[q] /\ read'[q] = read[q]
         /\ frame[q].pc = "wait" => flights'[frame[q].ptr] = flights[frame[q].ptr]

LEMMA CallerAgeStep ==
  ASSUME Numbered, ~LoadsMayPanic, SourceInv, AgeInv, [SourceNext]_sourceVars
  PROVE  \A p \in Callers : CallerAge(p)'
<1> DEFINE Goal == \A p \in Callers : CallerAge(p)'
<1>i. /\ SourceTypes /\ SourceTypes' /\ CacheInv /\ CacheInv' /\ TypeInv /\ TypeInv'
      /\ OrderInv /\ FlightInv /\ ResultInv /\ ServeInv
      /\ \A p \in Callers : CallerAge(p)
  BY SourceInvStep DEF SourceInv, CacheInv, FlightInv, AgeInv
<1>n. /\ \A p \in Callers : read[p] # Zero => frame[p].pc = "load"
      /\ Zero = 0
  BY <1>i DEF OrderInv, Numbered
<1>f. /\ frame \in [Callers -> Frame] /\ flights \in [Flights -> Flight]
      /\ asked \in [Callers -> [at : Nat, led : Nat, floor : Nat]]
      /\ read \in [Callers -> Val \cup {Zero}]
      /\ \A p \in Callers : frame[p].pc \in Leading \cup {"wait"} => frame[p].ptr \in Flights
  BY <1>i DEF TypeInv, TypeOK, SourceTypes, LocalsOK
<1>o. ASSUME NEW p \in Callers, OthersAgeKept(p), CallerAge(p)'
      PROVE  Goal
  BY <1>o, CallerAgeKept DEF OthersAgeKept
<1>1. ASSUME NEW p \in Callers, NEW k \in Keys, Asks(p, k) PROVE Goal
  <2>1. /\ frame'[p].pc = "enter" /\ asked'[p].at = now' /\ read'[p] = Zero
        /\ OthersAgeKept(p)
    BY <1>1, <1>n, <1>f DEF Asks, Call, IdleFrame, OthersAgeKept
  <2>2. now' \in Nat
    BY <1>i DEF TypeInv, TypeOK
  <2>3. CallerAge(p)'
    BY <2>1, <2>2 DEF CallerAge, Leading
  <2>4. QED
    BY <2>1, <2>3, <1>o
<1>2. ASSUME NEW p \in Callers, Hits(p) PROVE Goal
  <2>1. /\ frame[p].pc = "enter" /\ frame'[p].pc = "returned"
        /\ asked' = asked /\ read'[p] = Zero /\ now' = now
        /\ OthersAgeKept(p)
    BY <1>2, <1>n, <1>f DEF Hits, Hit, OthersAgeKept
  <2>2. QED
    BY <2>1, <1>i, <1>o DEF CallerAge, Leading
<1>3. ASSUME NEW p \in Callers, Joins(p) PROVE Goal
  <2> DEFINE k == frame[p].key
  <2>1. /\ frame[p].pc = "enter" /\ frame'[p].pc = "wait"
        /\ frame'[p].key = k /\ frame'[p].ptr = inflight[k] /\ k \in Keys
        /\ inflight[k] # NoFlight
        /\ asked' = asked /\ read'[p] = Zero /\ now' = now /\ flights' = flights /\ born' = born
        /\ OthersAgeKept(p)
    BY <1>3, <1>n, <1>f, <1>i DEF Joins, Join, OthersAgeKept, Frame, TypeInv, LocalsOK
  <2>2. PICK r \in Callers : /\ frame[r].pc \in Leading
                             /\ frame[r].key = k /\ frame[r].ptr = inflight[k]
    BY <2>1, <1>i DEF FlightInv, FlightParts, FlightOwnership
  <2>3. ASSUME flights[inflight[k]].done, flights[inflight[k]].err = "nil"
        PROVE  Since(born[k], flights[inflight[k]].val, asked[p].at - MaxFlight)
    <3>1. frame[r].pc = "clear"
      BY <2>2, <2>3, <1>i DEF FlightInv, FlightParts, PublishedOnce
    <3>2. frame[r].out.err # "panic"
      BY <3>1, <1>i DEF ServeInv, ResultsGood, GoodResult
    <3>3. frame[r].out.err = "nil" /\ frame[r].out.val = flights[inflight[k]].val
      BY <3>1, <3>2, <2>2, <2>3, <1>i DEF ResultInv, WaitersAgree
    <3>4. /\ Since(born[k], flights[inflight[k]].val, asked[r].led)
          /\ asked[p].at <= now /\ now <= asked[r].led + MaxFlight
      BY <3>1, <3>3, <2>1, <2>2, <1>i DEF CallerAge, Leading
    <3>5. flights[inflight[k]].val \in Nat
      BY <2>2, <1>f, <1>i, Numbers
    <3>6. /\ asked[r].led \in Int /\ asked[p].at - MaxFlight \in Int
          /\ asked[p].at - MaxFlight <= asked[r].led
      BY <3>4, <1>i, Numbers
    <3>7. QED
      BY <3>4, <3>5, <3>6, <2>1, <1>i, CurrentEarlier
  <2>4. ASSUME flights'[inflight[k]].done, flights'[inflight[k]].err = "nil"
        PROVE  Since(born'[k], flights[inflight[k]].val, asked[p].at - MaxFlight)
    BY <2>1, <2>3, <2>4
  <2>5. CallerAge(p)'
    BY <2>1, <2>4, <1>i DEF CallerAge, Leading
  <2>6. QED
    BY <2>1, <2>5, <1>o
<1>4. ASSUME NEW p \in Callers, Leads(p) PROVE Goal
  <2>1. /\ frame[p].pc = "enter" /\ frame'[p].pc = "load"
        /\ asked'[p].at = asked[p].at /\ asked'[p].led = now
        /\ read'[p] = Zero /\ now' = now
    BY <1>4, <1>n, <1>f DEF Leads, Lead
  <2>2. OthersAgeKept(p)
    <3>1. PICK f \in Flights : ~InUse(f) /\ flights' = [flights EXCEPT ![f] = NewFlight]
      BY <1>4 DEF Leads, Lead
    <3>2. \A q \in Callers : flights'[frame[q].ptr] = flights[frame[q].ptr]
      BY <3>1, <1>f DEF InUse
    <3>3. QED
      BY <1>4, <3>2, <1>f DEF Leads, Lead, OthersAgeKept
  <2>3. CallerAge(p)'
    BY <2>1, <1>i, Numbers DEF CallerAge, Leading
  <2>4. QED
    BY <2>2, <2>3, <1>o
<1>5. ASSUME NEW p \in Callers, ReadsSource(p) PROVE Goal
  <2>1. /\ frame[p].pc = "load" /\ frame'[p] = frame[p] /\ asked' = asked /\ now' = now
        /\ born' = born
        /\ read'[p] = Current(frame[p].key)
        /\ OthersAgeKept(p)
    BY <1>5, <1>f DEF ReadsSource, cacheVars, OthersAgeKept
  <2>2. Since(born'[frame[p].key], Current(frame[p].key), asked[p].led)
    BY <2>1, <1>i, Numbers DEF Since, Current
  <2>3. CallerAge(p)'
    BY <2>1, <2>2, <1>i DEF CallerAge, Leading
  <2>4. QED
    BY <2>1, <2>3, <1>o
<1>6. ASSUME NEW p \in Callers, LoadReturns(p) PROVE Goal
  <2>1. /\ frame[p].pc = "load" /\ asked' = asked /\ now' = now /\ born' = born
        /\ read'[p] = Zero
        /\ OthersAgeKept(p)
    <3>1. CASE LoadOK(p, read[p])
      BY <1>6, <3>1, <1>f DEF LoadReturns, LoadOK, OthersAgeKept
    <3>2. CASE LoadErr(p)
      BY <1>6, <3>2, <1>f DEF LoadReturns, LoadErr, OthersAgeKept
    <3>3. QED
      BY <1>6, <3>1, <3>2 DEF LoadReturns, LoadPanic
  <2>2. /\ frame'[p].key = frame[p].key
        /\ \/ /\ read[p] # Zero /\ frame'[p].pc = "store" /\ frame'[p].out.val = read[p]
           \/ frame'[p].pc = "publish" /\ frame'[p].out.err = "error"
    <3>1. CASE read[p] # Zero /\ LoadOK(p, read[p])
      BY <3>1, <1>f DEF LoadOK, Frame
    <3>2. CASE LoadErr(p)
      BY <3>2, <1>f DEF LoadErr, Frame
    <3>3. QED
      BY <1>6, <3>1, <3>2 DEF LoadReturns, LoadPanic
  <2>3. read[p] # Zero => Since(born'[frame[p].key], read[p], asked[p].led)
    BY <2>1, <1>i DEF CallerAge
  <2>4. CallerAge(p)'
    BY <2>1, <2>2, <2>3, <1>i DEF CallerAge, Leading
  <2>5. QED
    BY <2>1, <2>4, <1>o
<1>7. ASSUME NEW p \in Callers, Finishes(p), Store(p) PROVE Goal
  <2>1. /\ frame[p].pc = "store" /\ frame'[p] = [frame[p] EXCEPT !.pc = "publish"]
        /\ asked' = asked /\ read' = read /\ now' = now /\ born' = born
        /\ OthersAgeKept(p)
    BY <1>7, <1>f DEF Finishes, Store, OthersAgeKept
  <2>2. CallerAge(p)'
    BY <2>1, <1>i, <1>f, <1>n DEF CallerAge, Leading, Frame
  <2>3. QED
    BY <2>1, <2>2, <1>o
<1>8. ASSUME NEW p \in Callers, Finishes(p), Publish(p) PROVE Goal
  <2>1. /\ frame[p].pc = "publish" /\ frame'[p] = [frame[p] EXCEPT !.pc = "clear"]
        /\ asked' = asked /\ read' = read /\ now' = now /\ born' = born
        /\ frame[p].ptr \in Flights
        /\ \A q \in Callers : q # p => frame'[q] = frame[q]
    BY <1>8, <1>f DEF Finishes, Publish, Leading
  <2>2. /\ flights'[frame[p].ptr].val = FlightResult(frame[p].out).val
        /\ flights'[frame[p].ptr].err = FlightResult(frame[p].out).err
        /\ \A f \in Flights : f # frame[p].ptr => flights'[f] = flights[f]
    BY <1>8, <2>1, <1>f DEF Publish
  <2>3. FlightResult(frame[p].out) = frame[p].out
    BY <2>1, <1>i DEF FlightResult, ServeInv, ResultsGood, GoodResult
  <2>4. CallerAge(p)'
    BY <2>1, <1>i, <1>f, <1>n DEF CallerAge, Leading, Frame
  <2>5. ASSUME NEW q \in Callers, q # p
        PROVE  CallerAge(q)'
    <3>1. CASE frame[q].pc = "wait" /\ frame[q].ptr = frame[p].ptr
      <4> DEFINE k == frame[q].key
                 v == frame[p].out.val
      <4>1. k = frame[p].key /\ k \in Keys /\ v \in Nat
        BY <2>1, <3>1, <1>i, Numbers DEF ServeInv, OneKeyPerFlight, Leading
      <4>2. ASSUME frame[p].out.err = "nil"
            PROVE  Since(born[k], v, asked[q].at - MaxFlight)
        <5>1. /\ Since(born[k], v, asked[p].led)
              /\ asked[q].at <= now /\ now <= asked[p].led + MaxFlight
          BY <2>1, <3>1, <4>1, <4>2, <1>i DEF CallerAge, Leading
        <5>2. QED
          BY <4>1, <5>1, <1>i, Numbers, CurrentEarlier
      <4>3. frame[p].out.err = "nil" =>
              Since(born'[k], v, asked[q].at - MaxFlight)
        BY <2>1, <4>2
      <4>4. /\ frame'[q].pc = "wait" /\ frame'[q].key = k /\ read'[q] = Zero
            /\ asked'[q].at <= now'
            /\ flights'[frame'[q].ptr].val = v
            /\ flights'[frame'[q].ptr].err = frame[p].out.err
        BY <2>1, <2>2, <2>3, <2>5, <3>1, <1>i, <1>n DEF CallerAge
      <4>5. QED
        BY <2>1, <4>3, <4>4 DEF CallerAge, Leading
    <3>2. CASE ~(frame[q].pc = "wait" /\ frame[q].ptr = frame[p].ptr)
      <4>1. frame[q].pc = "wait" => flights'[frame[q].ptr] = flights[frame[q].ptr]
        BY <2>2, <3>2, <1>f
      <4>2. QED
        BY <2>1, <2>5, <4>1, CallerAgeKept
    <3>3. QED
      BY <3>1, <3>2
  <2>6. QED
    BY <2>4, <2>5
<1>9. ASSUME NEW p \in Callers, Answers(p) PROVE Goal
  <2>1. /\ frame[p].pc \in {"clear", "wait"} /\ frame'[p].pc = "returned"
        /\ \A q \in Callers : q # p => frame'[q] = frame[q]
        /\ asked' = asked /\ read' = read /\ now' = now
    BY <1>9, <1>i, AnswerReturns DEF Answers, Clear, Wake
  <2>2. \A q \in Callers : q # p /\ frame[q].ptr \in Flights =>
          flights'[frame[q].ptr] = flights[frame[q].ptr]
    BY <1>9, <1>i, <1>f, <2>1, ReleaseKeeps DEF Answers, Clear, Wake, Leading
  <2>3. OthersAgeKept(p)
    BY <2>1, <2>2, <1>f DEF OthersAgeKept
  <2>4. CallerAge(p)'
    BY <2>1, <1>i, <1>n DEF CallerAge, Leading
  <2>5. QED
    BY <2>3, <2>4, <1>o
<1>10. ASSUME NEW p \in Callers, Leaves(p) PROVE Goal
  <2>1. /\ frame'[p].pc = "idle" /\ read'[p] = Zero
        /\ OthersAgeKept(p)
    BY <1>10, <1>n, <1>f DEF Leaves, Return, IdleFrame, OthersAgeKept
  <2>2. CallerAge(p)'
    BY <2>1 DEF CallerAge, Leading
  <2>3. QED
    BY <2>1, <2>2, <1>o
<1>11. ASSUME NEW k \in Keys, Change(k) PROVE Goal
  BY <1>11, CallerAgeKept DEF Change, cacheVars
<1>12. CASE Passes
  BY <1>12, CallerAgeKept DEF Passes, Tick, cacheVars
<1>13. CASE UNCHANGED sourceVars
  BY <1>13, CallerAgeKept DEF sourceVars
<1>14. QED
  BY <1>1, <1>2, <1>3, <1>4, <1>5, <1>6, <1>7, <1>8, <1>9, <1>10, <1>11, <1>12, <1>13
  DEF SourceNext, Finishes

PromiseInv == SourceInv /\ FloorInv /\ AgeInv

LEMMA PromiseInvInit ==
  ASSUME Numbered, SourceInit
  PROVE  PromiseInv
<1>1. SourceInv
  BY SourceInvInit
<1>2. /\ \A k \in Keys : entries[k] = NoEntry /\ seen[k] = 0
      /\ \A p \in Callers : frame[p].pc = "idle" /\ read[p] = Zero
  BY DEF SourceInit, Init, CacheInit, IdleFrame
<1>3. FloorInv
  BY <1>2 DEF FloorInv, NoEntry, Numbered
<1>4. AgeInv
  BY <1>2 DEF AgeInv, EntryAge, CallerAge, NoEntry, Leading
<1>5. QED
  BY <1>1, <1>3, <1>4 DEF PromiseInv

LEMMA PromiseInvStep ==
  ASSUME Numbered, ~LoadsMayPanic, PromiseInv, [SourceNext]_sourceVars
  PROVE  PromiseInv'
<1>1. SourceInv' /\ FloorInv'
  BY SourceInvStep, FloorStep DEF PromiseInv
<1>2. AgeInv'
  BY EntryAgeStep, CallerAgeStep DEF PromiseInv, AgeInv
<1>3. QED
  BY <1>1, <1>2 DEF PromiseInv

\* The result of a Get is one that CachePromise allows.
LEMMA AnswerAllowed ==
  ASSUME Numbered, ~LoadsMayPanic, PromiseInv, [SourceNext]_sourceVars,
         NEW p \in Callers, Hits(p) \/ Answers(p)
  PROVE  LET k == frame[p].key
             o == frame'[p].out
         IN /\ k \in Keys
            /\ o \in [val : Nat, err : {"nil", "error"}]
            /\ asked[p].floor <= o.val /\ o.val <= Current(k)
            /\ o.err = "nil" => o.val # 0 /\ Since(born[k], o.val, asked[p].at - MaxStale)
<1> DEFINE k == frame[p].key
           o == frame'[p].out
<1>i. /\ PromiseInv' /\ SourceTypes /\ SourceTypes' /\ CacheInv' /\ OrderInv' /\ TypeInv
      /\ TypeInv' /\ ResultInv /\ FlightInv /\ ServeInv /\ ServeInv' /\ FloorInv'
      /\ (\A l \in Keys : EntryAge(l)) /\ CallerAge(p)
  BY PromiseInvStep DEF PromiseInv, SourceInv, CacheInv, FlightInv, AgeInv
<1>1. /\ frame[p].pc \in {"enter", "wait", "clear"} /\ frame'[p].pc = "returned"
      /\ k \in Keys /\ frame'[p].key = k
  BY <1>i, AnswerReturns, KeptWhilePending DEF TypeInv, LocalsOK
<1>2. /\ born' = born /\ asked' = asked /\ now' = now
  BY DEF Hits, Answers
<1>3. o \in Result /\ o.err # "panic" /\ (o.err = "nil" => o.val \in Val)
  BY <1>1, <1>i DEF TypeInv, TypeOK, Frame, ServeInv, ResultsGood, GoodResult
<1>4. o.val \in Nat /\ entries'[k].val \in Nat
  <2>1. Values \subseteq Nat
    BY DEF Values, Numbered
  <2>2. entries'[k].val \in Values
    BY <1>1, <1>i DEF TypeInv, TypeOK, Entry
  <2>3. QED
    BY <2>1, <2>2, <1>3 DEF Result
<1>5. o \in [val : Nat, err : {"nil", "error"}] /\ (o.err = "nil" => o.val # 0)
  BY <1>3, <1>4 DEF Result, Errs, Numbered
<1>6. asked[p].floor <= o.val /\ o.val <= Current(k)
  <2>1. o.val \in asked[p].floor .. entries'[k].val
    BY <1>1, <1>2, <1>i DEF FloorInv, Reaches
  <2>2. entries'[k].val <= Current(k)
    BY <1>1, <1>2, <1>i DEF OrderInv, Current
  <2>3. asked[p].floor \in Nat /\ Current(k) \in Nat
    BY <1>1, <1>i, Numbers
  <2>4. QED
    BY <2>1, <2>2, <2>3, <1>4
<1>7. ASSUME o.err = "nil"
      PROVE  Since(born[k], o.val, asked[p].at - MaxStale)
  <2> DEFINE at == asked[p].at
  <2>1. /\ now \in Nat /\ at \in Nat /\ MaxFlight \in Nat /\ TTL \in Nat
        /\ asked[p].led \in Nat /\ entries[k].until \in Nat
    BY <1>1, <1>i, Numbers
  <2>2. MaxStale \in Nat /\ at - MaxStale \in Int /\ at - MaxStale <= at - MaxFlight
    BY <2>1 DEF MaxStale
  <2> HIDE DEF at
  <2>3. at <= now
    BY <1>1, <1>i DEF CallerAge, at
  <2>4. CASE Hit(p)
    <3>1. /\ entries[k].have /\ TTL > 0 /\ now < entries[k].until
          /\ o.val = entries[k].val
      BY <2>4, <1>i DEF Hit, Fresh, TypeInv, TypeOK
    <3>2. Since(born[k], entries[k].val, (entries[k].until - TTL) - MaxFlight)
      BY <3>1, <1>1, <1>i DEF EntryAge
    <3>3. at - MaxStale <= (entries[k].until - TTL) - MaxFlight
      BY <2>1, <2>3, <3>1 DEF MaxStale, at
    <3>4. QED
      BY <1>1, <1>4, <1>i, <2>1, <2>2, <3>1, <3>2, <3>3, CurrentEarlier DEF at
  <2>5. CASE Clear(p)
    <3>1. frame[p].pc = "clear" /\ o = frame[p].out
      BY <2>5, <1>i DEF Clear, TypeInv, TypeOK
    <3>2. /\ Since(born[k], o.val, asked[p].led)
          /\ at <= asked[p].led
      BY <3>1, <1>7, <1>i DEF CallerAge, Leading, at
    <3>3. at - MaxStale <= asked[p].led
      BY <2>1, <2>2, <3>2 DEF at
    <3>4. QED
      BY <1>1, <1>4, <1>i, <2>1, <2>2, <3>2, <3>3, CurrentEarlier DEF at
  <2>6. CASE Wake(p)
    <3>1. /\ frame[p].pc = "wait" /\ flights[frame[p].ptr].done
          /\ o.val = flights[frame[p].ptr].val /\ o.err = flights[frame[p].ptr].err
      BY <2>6, <1>i DEF Wake, TypeInv, TypeOK
    <3>2. Since(born[k], o.val, at - MaxFlight)
      BY <3>1, <1>7, <1>i DEF CallerAge, at
    <3>3. at - MaxFlight \in Int
      BY <2>1 DEF at
    <3>4. QED
      BY <1>1, <1>4, <1>i, <2>1, <2>2, <3>2, <3>3, CurrentEarlier DEF at
  <2>7. QED
    BY <2>4, <2>5, <2>6 DEF Hits, Answers, at
<1>8. QED
  BY <1>1, <1>5, <1>6, <1>7

calls == [p \in Callers |-> CallOf(p)]

LEMMA PromiseInit ==
  ASSUME Numbered, SourceInit
  PROVE  Promise!Init
<1>1. \A p \in Callers : CallOf(p) = Promise!NoCall
  BY DEF SourceInit, Init, CacheInit, CallOf, IdleFrame, NotAsked, NoResult, Promise!NoCall,
     Numbered
<1>2. QED
  BY <1>1 DEF SourceInit, Init, Promise!Init

\* A step that only moves a pending Get on is not seen by its caller.
LEMMA Unseen ==
  ASSUME SourceTypes, TypeInv, [SourceNext]_sourceVars,
         UNCHANGED <<now, born, seen>>,
         \A p \in Callers : \/ frame'[p] = frame[p] /\ asked'[p] = asked[p]
                            \/ {frame[p].pc, frame'[p].pc} \cap {"idle", "returned"} = {}
  PROVE  UNCHANGED Promise!promiseVars
<1>1. ASSUME NEW p \in Callers PROVE CallOf(p)' = CallOf(p)
  <2>1. CASE frame'[p] = frame[p] /\ asked'[p] = asked[p]
    BY <2>1 DEF CallOf
  <2>2. CASE {frame[p].pc, frame'[p].pc} \cap {"idle", "returned"} = {}
    <3>1. /\ frame[p].pc \notin {"idle", "returned"}
          /\ frame'[p].pc \notin {"idle", "returned"}
      BY <2>2
    <3>2. /\ frame'[p].key = frame[p].key /\ asked'[p].floor = asked[p].floor
          /\ asked'[p].at = asked[p].at
      BY <3>1, KeptWhilePending
    <3>3. QED
      BY <3>1, <3>2 DEF CallOf
  <2>3. QED
    BY <2>1, <2>2
<1>2. calls' = calls
  BY <1>1 DEF calls
<1>3. QED
  BY <1>2 DEF calls, Promise!promiseVars

LEMMA PromiseStep ==
  ASSUME Numbered, ~LoadsMayPanic, PromiseInv, [SourceNext]_sourceVars
  PROVE  [Promise!Next]_(Promise!promiseVars)
<1> DEFINE Goal == [Promise!Next]_(Promise!promiseVars)
<1>i. SourceTypes /\ TypeInv
  BY DEF PromiseInv, SourceInv, CacheInv, FlightInv
<1>f. /\ frame \in [Callers -> Frame]
      /\ asked \in [Callers -> [at : Nat, led : Nat, floor : Nat]]
  BY <1>i DEF TypeInv, TypeOK, SourceTypes
<1>1. ASSUME NEW p \in Callers, NEW k \in Keys, Asks(p, k) PROVE Goal
  <2>1. /\ frame[p].pc = "idle" /\ frame'[p].pc = "enter" /\ frame'[p].key = k
        /\ asked'[p].at = now /\ asked'[p].floor = seen[k]
        /\ UNCHANGED <<now, born, seen>>
        /\ \A q \in Callers : q # p => frame'[q] = frame[q] /\ asked'[q] = asked[q]
    BY <1>1, <1>f DEF Asks, Call, IdleFrame
  <2>2. calls' = [calls EXCEPT ![p] = [Promise!NoCall EXCEPT !.state = "pending", !.key = k,
                                                    !.at = now, !.floor = seen[k]]]
    BY <2>1 DEF calls, CallOf, Promise!NoCall, NoResult, Numbered
  <2>3. calls[p].state = "idle"
    BY <2>1 DEF calls, CallOf
  <2>4. Promise!Invoke(p, k)
    BY <2>1, <2>2, <2>3 DEF Promise!Invoke, calls
  <2>5. QED
    BY <2>4 DEF Promise!Next
<1>2. ASSUME NEW p \in Callers, Hits(p) \/ Answers(p) PROVE Goal
  <2> DEFINE k == frame[p].key
             o == frame'[p].out
  <2>1. /\ k \in Keys
        /\ o \in [val : Nat, err : {"nil", "error"}]
        /\ asked[p].floor <= o.val /\ o.val <= Current(k)
        /\ o.err = "nil" => o.val # 0 /\ Since(born[k], o.val, asked[p].at - MaxStale)
    BY <1>2, AnswerAllowed
  <2>2. /\ frame[p].pc \in {"enter", "wait", "clear"} /\ frame'[p].pc = "returned"
        /\ frame'[p].key = k
        /\ \A q \in Callers : q # p => frame'[q] = frame[q]
        /\ UNCHANGED <<now, born, asked>>
        /\ seen' = [seen EXCEPT ![k] = IF o.val > @ THEN o.val ELSE @]
    BY <1>2, <1>i, AnswerReturns, KeptWhilePending DEF Hits, Answers, Returns
  <2>3. o.val \in 0 .. Len(born[k]) /\ o.err \in {"nil", "error"}
    BY <2>1, <1>i DEF Current, SourceTypes
  <2>4. /\ calls[p].state = "pending" /\ calls[p].key = k
        /\ calls[p].floor = asked[p].floor /\ calls[p].at = asked[p].at
    BY <2>2 DEF calls, CallOf
  <2>5. calls' = [calls EXCEPT ![p] = [calls[p] EXCEPT !.state = "returned",
                                              !.out = [val |-> o.val, err |-> o.err]]]
    <3>1. o = [val |-> o.val, err |-> o.err]
      BY <2>1
    <3>2. CallOf(p)' = [CallOf(p) EXCEPT !.state = "returned",
                                         !.out = [val |-> o.val, err |-> o.err]]
      <4> DEFINE out  == [val |-> o.val, err |-> o.err]
                 Done == [state : {"returned"}, key : {k}, at : {asked[p].at},
                          floor : {asked[p].floor}, out : {out}]
      <4>1. CallOf(p) \in [state : {"pending"}, key : {k}, at : {asked[p].at},
                           floor : {asked[p].floor}, out : {NoResult}]
        BY <2>2 DEF CallOf
      <4>2. CallOf(p)' \in [state : {"returned"}, key : {k}, at : {asked[p].at},
                            floor : {asked[p].floor}, out : {o}]
        BY <2>2 DEF CallOf
      <4>3. o = out
        BY <3>1
      <4> HIDE DEF out
      <4>4. CallOf(p)' \in Done
        BY <4>2, <4>3
      <4>5. [CallOf(p) EXCEPT !.state = "returned", !.out = out] \in Done
        BY <4>1
      <4>6. CallOf(p)' = [CallOf(p) EXCEPT !.state = "returned", !.out = out]
        BY <4>4, <4>5
      <4>7. QED
        BY <4>6 DEF out
    <3>3. \A q \in Callers : q # p => CallOf(q)' = CallOf(q)
      BY <2>2 DEF CallOf
    <3>4. QED
      BY <3>2, <3>3 DEF calls
  <2>6. Promise!Allowed(calls[p], o.val, o.err)
    <3>1. asked[p].floor \in Nat /\ o.val \in Nat /\ Len(born[k]) \in Nat
      BY <2>1, <1>f, <1>i DEF SourceTypes
    <3>2. o.val >= asked[p].floor
      BY <2>1, <3>1
    <3>3. CASE o.err = "nil"
      <4>1. o.val \in 1 .. Len(born[k])
        BY <2>1, <2>3, <3>1, <3>3
      <4>2. Promise!CurrentSince(k, o.val, asked[p].at - MaxStale)
        BY <2>1, <3>3 DEF Since, Promise!CurrentSince
      <4>3. QED
        BY <2>4, <3>2, <3>3, <4>1, <4>2 DEF Promise!Allowed
    <3>4. CASE o.err = "error"
      <4>1. o.val \in asked[p].floor .. Len(born[k])
        BY <2>1, <2>3, <3>1
      <4>2. QED
        BY <2>4, <3>4, <4>1 DEF Promise!Allowed
    <3>5. QED
      BY <2>1, <3>3, <3>4
  <2>7. Promise!Respond(p)
    BY <2>2, <2>3, <2>4, <2>5, <2>6 DEF Promise!Respond, calls
  <2>8. QED
    BY <2>7 DEF Promise!Next
<1>3. ASSUME NEW p \in Callers, Joins(p) PROVE Goal
  <2>1. {frame[p].pc, frame'[p].pc} \cap {"idle", "returned"} = {}
    BY <1>3, <1>f DEF Joins, Join
  <2>2. QED
    BY <1>3, <1>i, <1>f, <2>1, Unseen DEF Joins, Join
<1>4. ASSUME NEW p \in Callers, Leads(p) PROVE Goal
  <2>1. /\ {frame[p].pc, frame'[p].pc} \cap {"idle", "returned"} = {}
        /\ \A q \in Callers : q # p => frame'[q] = frame[q] /\ asked'[q] = asked[q]
    BY <1>4, <1>f DEF Leads, Lead
  <2>2. QED
    BY <1>4, <1>i, <2>1, Unseen DEF Leads
<1>5. ASSUME NEW p \in Callers, ReadsSource(p) PROVE Goal
  BY <1>5, <1>i, Unseen DEF ReadsSource, cacheVars
<1>6. ASSUME NEW p \in Callers, LoadReturns(p) PROVE Goal
  <2>1. /\ {frame[p].pc, frame'[p].pc} \cap {"idle", "returned"} = {}
        /\ \A q \in Callers : q # p => frame'[q] = frame[q]
    <3>1. CASE LoadOK(p, read[p])
      BY <3>1, <1>f DEF LoadOK
    <3>2. CASE LoadErr(p)
      BY <3>2, <1>f DEF LoadErr
    <3>3. QED
      BY <1>6, <3>1, <3>2 DEF LoadReturns, LoadPanic
  <2>2. QED
    BY <1>6, <1>i, <2>1, Unseen DEF LoadReturns
<1>7. ASSUME NEW p \in Callers, Finishes(p) PROVE Goal
  <2>1. /\ {frame[p].pc, frame'[p].pc} \cap {"idle", "returned"} = {}
        /\ \A q \in Callers : q # p => frame'[q] = frame[q]
    BY <1>7, <1>f DEF Finishes, Store, Publish
  <2>2. QED
    BY <1>7, <1>i, <2>1, Unseen DEF Finishes
<1>8. ASSUME NEW p \in Callers, Leaves(p) PROVE Goal
  <2>1. /\ frame[p].pc = "returned" /\ frame'[p] = IdleFrame /\ asked'[p] = NotAsked
        /\ UNCHANGED <<now, born, seen>>
        /\ \A q \in Callers : q # p => frame'[q] = frame[q] /\ asked'[q] = asked[q]
    BY <1>8, <1>f DEF Leaves, Return
  <2>2. calls' = [calls EXCEPT ![p] = Promise!NoCall] /\ calls[p].state = "returned"
    <3>1. CallOf(p)' = Promise!NoCall
      BY <2>1 DEF CallOf, IdleFrame, NotAsked, NoResult, Promise!NoCall, Numbered
    <3>2. \A q \in Callers : q # p => CallOf(q)' = CallOf(q)
      BY <2>1 DEF CallOf
    <3>3. calls[p].state = "returned"
      BY <2>1 DEF calls, CallOf
    <3>4. QED
      BY <3>1, <3>2, <3>3 DEF calls
  <2>3. Promise!Forget(p)
    BY <2>1, <2>2 DEF Promise!Forget, calls
  <2>4. QED
    BY <2>3 DEF Promise!Next
<1>9. ASSUME NEW k \in Keys, Change(k) PROVE Goal
  <2>1. calls' = calls
    BY <1>9 DEF Change, cacheVars, calls, CallOf
  <2>2. Promise!Change(k)
    BY <1>9, <2>1 DEF Change, Promise!Change, calls
  <2>3. QED
    BY <2>2 DEF Promise!Next
<1>10. CASE Passes
  <2>1. calls' = calls
    BY <1>10 DEF Passes, Tick, cacheVars, calls, CallOf
  <2>2. Promise!Tick
    BY <1>10, <2>1 DEF Passes, Tick, Promise!Tick, calls
  <2>3. QED
    BY <2>2 DEF Promise!Next
<1>11. CASE UNCHANGED sourceVars
  BY <1>11, <1>i, Unseen DEF sourceVars
<1>12. QED
  BY <1>1, <1>2, <1>3, <1>4, <1>5, <1>6, <1>7, <1>8, <1>9, <1>10, <1>11 DEF SourceNext

\* Get (cache.go:70-115) keeps CachePromise: whatever the interleaving of callers,
\* Loads and changes of the source, a result is no older than anything returned
\* before the call, and was current MaxStale ticks before it unless it comes with
\* an error.
THEOREM GetKeepsPromise ==
  ASSUME Numbered, ~LoadsMayPanic
  PROVE  SourceSpec => KeepsPromise
<1>1. SourceInit => PromiseInv /\ Promise!Init
  BY PromiseInvInit, PromiseInit
<1>2. PromiseInv /\ [SourceNext]_sourceVars => PromiseInv'
  BY PromiseInvStep
<1>3. PromiseInv /\ [SourceNext]_sourceVars => [Promise!Next]_(Promise!promiseVars)
  BY PromiseStep
<1>4. QED
  BY <1>1, <1>2, <1>3, PTL DEF SourceSpec, KeepsPromise, Promise!Spec
=============================================================================
