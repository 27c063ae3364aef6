------------------------------ MODULE TTLCache ------------------------------
(***************************************************************************)
(* The singleflight TTL cache of internal/ttlcache/cache.go.               *)
(*                                                                         *)
(* Callers are goroutines that call Get.  Every step is one critical       *)
(* section of c.mu, one call of the Load callback, or one use of the       *)
(* flight's WaitGroup, so the interleavings are those of the Go program.   *)
(* What Load returns is left open here (any member of Val, an error, and   *)
(* a panic when LoadsMayPanic): CachedSource and PolicyCache compose this  *)
(* module with the sources that are loaded.                                *)
(***************************************************************************)
EXTENDS Integers

CONSTANTS
    Callers,        \* goroutines that call Get
    Keys,           \* cache keys
    Val,            \* what a successful Load may return
    Zero,           \* Go's zero value of the value type
    Flights,        \* heap cells for *flight values
    NoFlight,       \* the nil *flight
    NoKey,          \* key of a frame that is not inside Get
    TTL,            \* c.ttl: 0 disables caching
    LoadsMayPanic,  \* whether the embedder's Load callback may panic
    MaxTime         \* bound on the clock

ASSUME ConstantsOK ==
    /\ Zero \notin Val
    /\ NoFlight \notin Flights
    /\ NoKey \notin Keys
    /\ TTL \in Nat
    /\ MaxTime \in Nat
    /\ LoadsMayPanic \in BOOLEAN

VARIABLES
    now,        \* time.Now(), in ticks
    entries,    \* c.entries
    inflight,   \* c.inflight: the flight of a key, or NoFlight
    flights,    \* contents of the *flight cells
    frame       \* the locals of each caller's Get

cacheVars == <<entries, inflight, flights, frame>>
vars == <<now, entries, inflight, flights, frame>>

-----------------------------------------------------------------------------
Errs    == {"nil", "error", "panic"}
Values  == Val \cup {Zero}
Result  == [val : Values, err : Errs]
Entry   == [have : BOOLEAN, val : Values, until : Nat]
Flight  == [done : BOOLEAN, val : Values, err : {"nil", "error"}]

PCs == {"idle", "enter", "wait", "load", "store", "publish", "clear", "returned"}

Frame == [pc : PCs, key : Keys \cup {NoKey}, ptr : Flights \cup {NoFlight},
          stale : Entry, out : Result]

NoEntry   == [have |-> FALSE, val |-> Zero, until |-> 0]
NewFlight == [done |-> FALSE, val |-> Zero, err |-> "nil"]
NoResult  == [val |-> Zero, err |-> "nil"]
IdleFrame == [pc |-> "idle", key |-> NoKey, ptr |-> NoFlight,
              stale |-> NoEntry, out |-> NoResult]

Leading == {"load", "store", "publish", "clear"}

\* A cell is in use while a frame or c.inflight still points to it; a Get
\* that creates a flight takes a cell that is not.
InUse(f) == \/ \E k \in Keys : inflight[k] = f
            \/ \E p \in Callers : frame[p].ptr = f

\* When p drops the last pointer to its cell, the cell is garbage.
Release(p) ==
    IF \E q \in Callers \ {p} : frame[q].ptr = frame[p].ptr
    THEN flights
    ELSE [flights EXCEPT ![frame[p].ptr] = NewFlight]

\* Mutant of Fresh: an entry is still fresh at its deadline.
FreshInclusive(e) == e.have /\ TTL > 0 /\ now <= e.until

Fresh(e) == /\ e.have
            /\ TTL > 0
            /\ now < e.until

CacheInit ==
    /\ entries  = [k \in Keys |-> NoEntry]
    /\ inflight = [k \in Keys |-> NoFlight]
    /\ flights  = [f \in Flights |-> NewFlight]
    /\ frame    = [p \in Callers |-> IdleFrame]

Init == now = 0 /\ CacheInit

-----------------------------------------------------------------------------
(* A goroutine calls Get and has not taken c.mu yet. *)
Call(p, k) ==
    /\ frame[p].pc = "idle"
    /\ frame' = [frame EXCEPT ![p] = [IdleFrame EXCEPT !.pc = "enter", !.key = k]]
    /\ UNCHANGED <<entries, inflight, flights>>

(* The first critical section of Get has three outcomes. *)
Hit(p) ==
    LET e == entries[frame[p].key] IN
    /\ frame[p].pc = "enter"
    /\ Fresh(e)
    /\ frame' = [frame EXCEPT ![p] = [@ EXCEPT !.pc = "returned",
                                           !.out = [val |-> e.val, err |-> "nil"]]]
    /\ UNCHANGED <<entries, inflight, flights>>

Join(p) ==
    LET k == frame[p].key IN
    /\ frame[p].pc = "enter"
    /\ ~Fresh(entries[k])
    /\ inflight[k] # NoFlight
    /\ frame' = [frame EXCEPT ![p] = [@ EXCEPT !.pc = "wait", !.ptr = inflight[k]]]
    /\ UNCHANGED <<entries, inflight, flights>>

\* Mutant of Lead: the check of c.inflight is dropped.
LeadUnchecked(p) ==
    LET k == frame[p].key IN
    /\ frame[p].pc = "enter"
    /\ ~Fresh(entries[k])
    /\ \E f \in Flights :
         /\ ~InUse(f)
         /\ flights'  = [flights EXCEPT ![f] = NewFlight]
         /\ inflight' = [inflight EXCEPT ![k] = f]
         /\ frame'    = [frame EXCEPT ![p] = [@ EXCEPT !.pc = "load", !.ptr = f,
                                                   !.stale = entries[k]]]
    /\ UNCHANGED entries

Lead(p) ==
    LET k == frame[p].key IN
    /\ frame[p].pc = "enter"
    /\ ~Fresh(entries[k])
    /\ inflight[k] = NoFlight
    /\ \E f \in Flights :
         /\ ~InUse(f)
         /\ flights'  = [flights EXCEPT ![f] = NewFlight]
         /\ inflight' = [inflight EXCEPT ![k] = f]
         /\ frame'    = [frame EXCEPT ![p] = [@ EXCEPT !.pc = "load", !.ptr = f,
                                                   !.stale = entries[k]]]
    /\ UNCHANGED entries

(* The Load callback returns, outside the lock. *)

LoadOK(p, v) ==
    /\ frame[p].pc = "load"
    /\ frame' = [frame EXCEPT ![p] = [@ EXCEPT !.pc = "store",
                                           !.out = [val |-> v, err |-> "nil"]]]
    /\ UNCHANGED <<entries, inflight, flights>>

\* Mutant of StaleVal: only an unexpired entry is handed out on error.
StaleValIfFresh(e) == IF Fresh(e) THEN e.val ELSE Zero

StaleVal(e) == IF e.have THEN e.val ELSE Zero

LoadErr(p) ==
    /\ frame[p].pc = "load"
    /\ frame' = [frame EXCEPT ![p] = [@ EXCEPT !.pc = "publish",
                                           !.out = [val |-> StaleVal(frame[p].stale),
                                                          err |-> "error"]]]
    /\ UNCHANGED <<entries, inflight, flights>>

\* Mutant of LoadPanic: wg.Done() is not deferred.
LoadPanicSkipsDone(p) ==
    /\ LoadsMayPanic
    /\ frame[p].pc = "load"
    /\ frame' = [frame EXCEPT ![p] = [@ EXCEPT !.pc = "clear",
                                           !.out = [val |-> Zero, err |-> "panic"]]]
    /\ UNCHANGED <<entries, inflight, flights>>

LoadPanic(p) ==
    /\ LoadsMayPanic
    /\ frame[p].pc = "load"
    /\ frame' = [frame EXCEPT ![p] = [@ EXCEPT !.pc = "publish",
                                           !.out = [val |-> Zero, err |-> "panic"]]]
    /\ UNCHANGED <<entries, inflight, flights>>

\* Mutants of Store: the flight is deleted together with the store; the TTL is
\* subtracted.
StoreDeletes(p) ==
    /\ frame[p].pc = "store"
    /\ entries' = [entries EXCEPT ![frame[p].key] =
                     [have |-> TRUE, val |-> frame[p].out.val,
                      until |-> IF TTL > 0 THEN now + TTL ELSE 0]]
    /\ inflight' = [inflight EXCEPT ![frame[p].key] = NoFlight]
    /\ frame' = [frame EXCEPT ![p].pc = "publish"]
    /\ UNCHANGED flights

(* The second critical section: the loaded value becomes the entry. *)
Store(p) ==
    /\ frame[p].pc = "store"
    /\ entries' = [entries EXCEPT ![frame[p].key] =
                     [have |-> TRUE, val |-> frame[p].out.val,
                      until |-> IF TTL > 0 THEN now + TTL ELSE 0]]
    /\ frame' = [frame EXCEPT ![p].pc = "publish"]
    /\ UNCHANGED <<inflight, flights>>

\* Mutant of FlightResult: the error path forgets f.val = stale.val.
FlightResultNoStale(out) ==
    IF out.err = "nil" THEN out ELSE [NoResult EXCEPT !.err = "error"]

(* f.val and f.err are assigned before the deferred wg.Done() and read only *)
(* after it.  A Load that panics leaves both at their zero values.          *)
FlightResult(out) ==
    IF out.err = "panic" THEN NoResult ELSE out

\* Mutant of Publish: wg.Done() is forgotten.
PublishWithoutDone(p) ==
    /\ frame[p].pc = "publish"
    /\ frame' = [frame EXCEPT ![p].pc = "clear"]
    /\ UNCHANGED <<entries, inflight, flights>>

Publish(p) ==
    /\ frame[p].pc = "publish"
    /\ flights' = [flights EXCEPT ![frame[p].ptr] =
                     [done |-> TRUE, val |-> FlightResult(frame[p].out).val,
                      err |-> FlightResult(frame[p].out).err]]
    /\ frame' = [frame EXCEPT ![p].pc = "clear"]
    /\ UNCHANGED <<entries, inflight>>

(* The last critical section: delete(c.inflight, key), then Get returns. *)
Clear(p) ==
    /\ frame[p].pc = "clear"
    /\ inflight' = [inflight EXCEPT ![frame[p].key] = NoFlight]
    /\ frame' = [frame EXCEPT ![p] = [@ EXCEPT !.pc = "returned", !.ptr = NoFlight]]
    /\ flights' = Release(p)
    /\ UNCHANGED entries

(* f.wg.Wait() is over: a waiter returns what the leader published. *)
Wake(p) ==
    /\ frame[p].pc = "wait"
    /\ flights[frame[p].ptr].done
    /\ frame' = [frame EXCEPT ![p] = [@ EXCEPT !.pc = "returned", !.ptr = NoFlight,
                                           !.out = [val |-> flights[frame[p].ptr].val,
                                                       err |-> flights[frame[p].ptr].err]]]
    /\ flights' = Release(p)
    /\ UNCHANGED <<entries, inflight>>

(* The caller has used the result and its frame is gone. *)
Return(p) ==
    /\ frame[p].pc = "returned"
    /\ frame' = [frame EXCEPT ![p] = IdleFrame]
    /\ UNCHANGED <<entries, inflight, flights>>

-----------------------------------------------------------------------------
Enter(p) == Hit(p) \/ Join(p) \/ Lead(p)

LoadEnds(p) == (\E v \in Val : LoadOK(p, v)) \/ LoadErr(p) \/ LoadPanic(p)

\* What the goroutine does by itself.
Proceed(p) ==
    Enter(p) \/ Store(p) \/ Publish(p) \/ Clear(p) \/ Wake(p) \/ Return(p)

Step(p) == (\E k \in Keys : Call(p, k)) \/ LoadEnds(p) \/ Proceed(p)

Tick == /\ now < MaxTime
        /\ now' = now + 1
        /\ UNCHANGED cacheVars

Next == \/ Tick
        \/ (\E p \in Callers : Step(p)) /\ UNCHANGED now

Spec == Init /\ [][Next]_vars

(* Runnable goroutines are scheduled, and a Load callback returns.  Nothing *)
(* makes a goroutine call Get.                                              *)
Fairness == \A p \in Callers : /\ WF_vars(Proceed(p) /\ UNCHANGED now)
                               /\ WF_vars(LoadEnds(p) /\ UNCHANGED now)

FairSpec == Spec /\ Fairness

-----------------------------------------------------------------------------
TypeOK ==
    /\ now \in Nat
    /\ entries \in [Keys -> Entry]
    /\ inflight \in [Keys -> Flights \cup {NoFlight}]
    /\ flights \in [Flights -> Flight]
    /\ frame \in [Callers -> Frame]

\* Singleflight (cache.go:30, "Concurrent Gets for the same key share one
\* Load"): two goroutines are never both between registering a flight and
\* deleting it for the same key.
SingleFlight ==
    \A p, q \in Callers :
        /\ frame[p].pc \in Leading
        /\ frame[q].pc \in Leading
        /\ frame[p].key = frame[q].key
        => p = q

\* The deferred delete(c.inflight, key) of a leader (cache.go:87-92) removes
\* its own flight and never one that a later Get registered: while a
\* goroutine leads, c.inflight holds its flight, and a registered flight
\* always has a leader that will finish it.
FlightOwnership ==
    \A k \in Keys :
        /\ \A p \in Callers :
             frame[p].pc \in Leading /\ frame[p].key = k => inflight[k] = frame[p].ptr
        /\ inflight[k] # NoFlight =>
             \E p \in Callers : /\ frame[p].pc \in Leading
                                /\ frame[p].key = k
                                /\ frame[p].ptr = inflight[k]

\* No waiter is stranded in f.wg.Wait() (cache.go:78): its flight is finished,
\* or the goroutine that will call wg.Done() on it is still inside Get.
WaitersServed ==
    \A p \in Callers :
        frame[p].pc = "wait" =>
            \/ flights[frame[p].ptr].done
            \/ \E q \in Callers : /\ frame[q].pc \in Leading \ {"clear"}
                                  /\ frame[q].ptr = frame[p].ptr

\* "A stale value is returned together with the error (both the leader and
\* waiters)", cache.go:68-69: once a flight is finished, a leader that returns
\* at all returns the value and the error that its waiters read from the
\* flight.
WaitersAgree ==
    \A p \in Callers :
        frame[p].pc = "clear" /\ frame[p].out.err # "panic" =>
            /\ frame[p].out.val = flights[frame[p].ptr].val
            /\ frame[p].out.err = flights[frame[p].ptr].err

\* A Get that reports an error still hands out the last good value whenever
\* the key has one ("On Load error, a stale value is returned if one
\* exists", cache.go:31-32): an error with the zero value is only returned
\* while nothing was ever stored when its flight began.
StaleOnError ==
    \A p \in Callers :
        /\ frame[p].pc \in {"publish", "clear"}
        /\ frame[p].out.err = "error"
        => /\ entries[frame[p].key].have => frame[p].out.val = entries[frame[p].key].val
           /\ ~entries[frame[p].key].have => frame[p].out.val = Zero

\* Every Get returns (its caller is never stranded in f.wg.Wait()), as long as
\* Load callbacks return or panic (cache.go:76-92).
GetReturns ==
    \A p \in Callers : frame[p].pc # "idle" ~> frame[p].pc = "returned"
=============================================================================
