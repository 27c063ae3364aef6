---------------------------- MODULE CachedSource ----------------------------
(***************************************************************************)
(* TTLCache over a source that changes: revision r of a key becomes        *)
(* current at born[key][r], and a Load reads the revision current at one   *)
(* instant of its execution.  The module states what that makes a Get      *)
(* worth, and that it keeps CachePromise.                                  *)
(*                                                                         *)
(* asked and seen are history variables: they record when a Get was called *)
(* and what had been returned by then, and no guard of the code reads them.*)
(***************************************************************************)
EXTENDS TTLCache, Sequences

CONSTANT MaxFlight  \* ticks a flight lasts: the Load call and the scheduling
                    \* delays around it (an assumption on the host)

ASSUME SourceOK == MaxFlight \in Nat

\* Revisions are numbered from 1, and the first one is there from the start; the
\* zero value is none of them.
Numbered == 1 \in Val /\ Val \subseteq Nat \ {0} /\ Zero = 0

VARIABLES
    born,   \* per key, the times at which its revisions became current
    read,   \* what the Load in progress has read, or Zero
    asked,  \* per caller: when Get was called, when it began to lead, and
            \* the newest revision returned before that
    seen    \* per key, the newest revision any Get has returned

sourceVars == <<now, entries, inflight, flights, frame, born, read, asked, seen>>

NotAsked == [at |-> 0, led |-> 0, floor |-> 0]

SourceInit ==
    /\ Init
    /\ born  = [k \in Keys |-> <<0>>]
    /\ read  = [p \in Callers |-> Zero]
    /\ asked = [p \in Callers |-> NotAsked]
    /\ seen  = [k \in Keys |-> 0]

Current(k) == Len(born[k])

-----------------------------------------------------------------------------
\* The embedder publishes a new revision.
Change(k) ==
    /\ Current(k) + 1 \in Val
    /\ born' = [born EXCEPT ![k] = Append(@, now)]
    /\ UNCHANGED <<now, cacheVars, read, asked, seen>>

Asks(p, k) ==
    /\ Call(p, k)
    /\ asked' = [asked EXCEPT ![p] = [at |-> now, led |-> 0, floor |-> seen[k]]]
    /\ UNCHANGED <<now, born, read, seen>>

Returns(p, val) ==
    seen' = [seen EXCEPT ![frame[p].key] = IF val > @ THEN val ELSE @]

Hits(p) == /\ Hit(p)
           /\ Returns(p, frame'[p].out.val)
           /\ UNCHANGED <<now, born, read, asked>>

Joins(p) == Join(p) /\ UNCHANGED <<now, born, read, asked, seen>>

Leads(p) == /\ Lead(p)
            /\ asked' = [asked EXCEPT ![p].led = now]
            /\ UNCHANGED <<now, born, read, seen>>

ReadsSource(p) ==
    /\ frame[p].pc = "load"
    /\ read[p] = Zero
    /\ read' = [read EXCEPT ![p] = Current(frame[p].key)]
    /\ UNCHANGED <<now, cacheVars, born, asked, seen>>

LoadReturns(p) ==
    /\ \/ read[p] # Zero /\ LoadOK(p, read[p])
       \/ LoadErr(p)
       \/ LoadPanic(p)
    /\ read' = [read EXCEPT ![p] = Zero]
    /\ UNCHANGED <<now, born, asked, seen>>

Finishes(p) ==
    /\ Store(p) \/ Publish(p)
    /\ UNCHANGED <<now, born, read, asked, seen>>

Answers(p) ==
    /\ Clear(p) \/ Wake(p)
    /\ Returns(p, frame'[p].out.val)
    /\ UNCHANGED <<now, born, read, asked>>

Leaves(p) ==
    /\ Return(p)
    /\ asked' = [asked EXCEPT ![p] = NotAsked]
    /\ UNCHANGED <<now, born, read, seen>>

\* Time passes, but no flight outlasts MaxFlight.
Passes ==
    /\ \A p \in Callers : frame[p].pc \in Leading => now < asked[p].led + MaxFlight
    /\ Tick
    /\ UNCHANGED <<born, read, asked, seen>>

SourceNext ==
    \/ Passes
    \/ \E k \in Keys : Change(k)
    \/ \E p \in Callers :
         \/ \E k \in Keys : Asks(p, k)
         \/ Hits(p) \/ Joins(p) \/ Leads(p)
         \/ ReadsSource(p) \/ LoadReturns(p)
         \/ Finishes(p) \/ Answers(p) \/ Leaves(p)

SourceSpec == SourceInit /\ [][SourceNext]_sourceVars

-----------------------------------------------------------------------------
\* The entry of a key never goes back to an older revision: a slow Load
\* cannot overwrite what a later one stored (cache.go:106-112).
EntriesAdvance ==
    [][\A k \in Keys : entries'[k].val >= entries[k].val]_sourceVars

\* The age a revision can have: a hit happens strictly before the deadline of
\* an entry, and only a flight's own duration counts when caching is disabled.
MaxStale == MaxFlight + IF TTL > 0 THEN TTL - 1 ELSE 0

-----------------------------------------------------------------------------
\* The refinement: what a caller sees of its Get.
CallOf(p) ==
    LET f == frame[p] IN
    [state |-> CASE f.pc = "idle"     -> "idle"
                 [] f.pc = "returned" -> "returned"
                 [] OTHER             -> "pending",
     key   |-> f.key,
     at    |-> asked[p].at,
     floor |-> asked[p].floor,
     out   |-> IF f.pc = "returned" THEN f.out ELSE NoResult]

Promise == INSTANCE CachePromise WITH call <- [p \in Callers |-> CallOf(p)]

\* Get (cache.go:70-115) keeps CachePromise when no Load panics.
KeepsPromise == Promise!Spec
=============================================================================
