---------------------------- MODULE CachePromise ----------------------------
(***************************************************************************)
(* What ttlcache.Get promises its callers, with no mention of locks,       *)
(* flights or entries.  A source keeps a growing history of revisions per  *)
(* key.  A Get is called, and some time later it responds:                 *)
(*   - a successful response carries a revision no older than anything a   *)
(*     Get of the same key had returned when this one was called, and one  *)
(*     that was still current MaxStale ticks before the call;              *)
(*   - a failed response carries the zero value only if no Get had ever    *)
(*     returned a revision, and otherwise a revision just as recent.       *)
(***************************************************************************)
EXTENDS Integers, Sequences

CONSTANTS
    Callers, Keys, NoKey,
    MaxStale        \* how long a superseded revision may still be returned

VARIABLES
    now,
    born,       \* born[k][r]: when revision r of key k became current
    seen,       \* newest revision a Get of the key has returned
    call        \* the call each goroutine is making

promiseVars == <<now, born, seen, call>>

NoCall == [state |-> "idle", key |-> NoKey, at |-> 0, floor |-> 0,
           out |-> [val |-> 0, err |-> "nil"]]

Init ==
    /\ now = 0
    /\ born = [k \in Keys |-> <<0>>]
    /\ seen = [k \in Keys |-> 0]
    /\ call = [p \in Callers |-> NoCall]

Tick == now' = now + 1 /\ UNCHANGED <<born, seen, call>>

Change(k) == /\ born' = [born EXCEPT ![k] = Append(@, now)]
             /\ UNCHANGED <<now, seen, call>>

Invoke(p, k) ==
    /\ call[p].state = "idle"
    /\ call' = [call EXCEPT ![p] =
                  [NoCall EXCEPT !.state = "pending", !.key = k, !.at = now,
                                 !.floor = seen[k]]]
    /\ UNCHANGED <<now, born, seen>>

\* Revision v of key k was current at time t or later.
CurrentSince(k, v, t) == v < Len(born[k]) => born[k][v + 1] >= t

Allowed(c, val, err) ==
    \/ /\ err = "nil"
       /\ val \in 1 .. Len(born[c.key])
       /\ val >= c.floor
       /\ CurrentSince(c.key, val, c.at - MaxStale)
    \/ /\ err = "error"
       /\ val \in c.floor .. Len(born[c.key])

Respond(p) ==
    LET c == call[p] IN
    /\ c.state = "pending"
    /\ \E val \in 0 .. Len(born[c.key]), err \in {"nil", "error"} :
         /\ Allowed(c, val, err)
         /\ call' = [call EXCEPT ![p] = [@ EXCEPT !.state = "returned",
                                                  !.out = [val |-> val, err |-> err]]]
         /\ seen' = [seen EXCEPT ![c.key] = IF val > @ THEN val ELSE @]
    /\ UNCHANGED <<now, born>>

Forget(p) ==
    /\ call[p].state = "returned"
    /\ call' = [call EXCEPT ![p] = NoCall]
    /\ UNCHANGED <<now, born, seen>>

Next ==
    \/ Tick
    \/ \E k \in Keys : Change(k)
    \/ \E p \in Callers : (\E k \in Keys : Invoke(p, k)) \/ Respond(p) \/ Forget(p)

Spec == Init /\ [][Next]_promiseVars
=============================================================================
