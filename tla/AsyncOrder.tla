----------------------------- MODULE AsyncOrder -----------------------------
(***************************************************************************)
(* The petstore example's purchasePet workflow: the MCP server's executor  *)
(* (examples/petstore/mcp-server/executor.go) places an order on the       *)
(* asynchronous order adapter and polls it for the confirmation            *)
(* (examples/petstore/async-order-server/server.go); the adapter places    *)
(* the order on Petstore and remembers it in memory by correlation id.     *)
(*                                                                         *)
(* Requests and answers are lost when a connection fails, a client gives   *)
(* up while the handler goes on, and the adapter may restart.  Time is     *)
(* what is left of a run's confirmWait.                                    *)
(***************************************************************************)
EXTENDS Integers, FiniteSets

CONSTANTS
    Runs,          \* runs of the workflow (a caller's retry is another run)
    Corrs,         \* correlation ids
    CorrChoices,   \* which of them the callers choose; two runs may choose one
    Wait,          \* confirmWait, in units of time
    RestartMillis, \* milliseconds a restart of the adapter takes at least
    MaxRestarts    \* bound: restarts of the adapter

ASSUME OrderConstantsOK ==
    /\ IsFiniteSet(Runs)
    /\ CorrChoices \subseteq [Runs -> Corrs]
    /\ Wait \in Nat \ {0}
    /\ MaxRestarts \in Nat
    /\ RestartMillis \in Nat /\ RestartMillis >= Cardinality(Runs)

VARIABLES
    run,      \* the executor's side of each run
    handler,  \* the adapter's place-order handler for each run
    wire,     \* the confirm-order exchange of each run
    byCorr,   \* the adapter's memory: confirmations by correlation id
    counter,  \* the adapter's orderIDs
    restarts, \* restarts of the adapter so far
    orders    \* what Petstore accepted

orderVars == <<run, handler, wire, byCorr, counter, restarts, orders>>

NoOrder == -1
Hosted(id) == 1000 + id          \* the id a hosted Petstore gives an order
Millis == 1 + restarts * RestartMillis

Exchange(at) == [at |-> at, order |-> NoOrder]

Start(corr) ==
    [at |-> "place", corr |-> corr, left |-> 0, cancelled |-> FALSE,
     last |-> FALSE, result |-> "none", order |-> NoOrder]

Init ==
    /\ \E choice \in CorrChoices : run = [r \in Runs |-> Start(choice[r])]
    /\ handler = [r \in Runs |-> [at |-> "none", id |-> NoOrder, order |-> NoOrder, in |-> 0]]
    /\ wire = [r \in Runs |-> Exchange("none")]
    /\ byCorr = [c \in Corrs |-> NoOrder]
    /\ counter = 0
    /\ restarts = 0
    /\ orders = {}

AdapterVars == <<handler, byCorr, counter, restarts, orders>>

-----------------------------------------------------------------------------
(* The executor.  Execute makes one call for the place step and polls for  *)
(* the confirm step; a 4xx or 5xx is an answer, a lost one is a Go error.  *)

Finish(r, result, order) ==
    run' = [run EXCEPT ![r] = [@ EXCEPT !.at = "done", !.result = result, !.order = order]]

At(r, step) == run' = [run EXCEPT ![r] = [@ EXCEPT !.at = step]]

SendPlace(r) ==
    /\ run[r].at = "place"
    /\ At(r, "placing")
    /\ handler' = IF run[r].cancelled THEN handler
                  ELSE [handler EXCEPT ![r] = [@ EXCEPT !.at = "sent"]]
    /\ UNCHANGED <<wire, byCorr, counter, restarts, orders>>

\* $statusCode == 200 is the place step's success criterion; confirmPetPurchaseStep follows.
PlaceAnswered(r) ==
    /\ run[r].at = "placing"
    /\ \/ /\ handler[r].at = "answered200"
          /\ run' = [run EXCEPT ![r] = [@ EXCEPT !.at = "ask", !.left = Wait]]
       \/ /\ handler[r].at \in {"answered400", "answered502"}
          /\ Finish(r, "refused", NoOrder)
    /\ UNCHANGED <<wire, AdapterVars>>

\* client.Do fails: no connection, a broken one, its Timeout, or ctx.
PlaceFails(r) ==
    /\ run[r].at = "placing"
    /\ Finish(r, "error", NoOrder)
    /\ UNCHANGED <<wire, AdapterVars>>

Ask(r) ==
    /\ run[r].at = "ask"
    /\ At(r, "asking")
    /\ wire' = [wire EXCEPT ![r] = Exchange(IF run[r].cancelled THEN "none" ELSE "request")]
    /\ UNCHANGED AdapterVars

\* Mutant of NotReadyYet: the first 404 is the step's answer.
NotReadyYetNever(r) == FALSE

\* A 404 to a poll, with time left.
NotReadyYet(r) == run[r].left > 0

\* The exchange is over; an answer on its way is lost.
Hangup(r) == wire' = [wire EXCEPT ![r] = Exchange("none")]

Confirmed(r) ==
    /\ run[r].at = "asking" /\ wire[r].at = "confirmed"
    /\ Finish(r, "confirmed", wire[r].order)
    /\ Hangup(r)
    /\ UNCHANGED AdapterVars

NotReady(r) ==
    /\ run[r].at = "asking" /\ wire[r].at = "notready"
    /\ IF NotReadyYet(r)
       THEN run' = [run EXCEPT ![r] = [@ EXCEPT !.at = "round", !.last = TRUE]]
       ELSE Finish(r, "notready", NoOrder)
    /\ Hangup(r)
    /\ UNCHANGED AdapterVars

AskFails(r) ==
    /\ run[r].at = "asking"
    /\ At(r, "round")
    /\ Hangup(r)
    /\ UNCHANGED AdapterVars

\* Mutant of MoreRounds: the deadline is forgotten between rounds.
MoreRoundsAlways(r) == TRUE

MoreRounds(r) == run[r].left > 0

\* The end of a round reads the clock again; `last` wins over lastErr.
EndRound(r) ==
    /\ run[r].at = "round"
    /\ IF MoreRounds(r)
       THEN At(r, "sleep")
       ELSE Finish(r, IF run[r].last THEN "notready" ELSE "error", NoOrder)
    /\ UNCHANGED <<wire, AdapterVars>>

Wake(r) ==
    /\ run[r].at = "sleep"
    /\ IF run[r].cancelled THEN Finish(r, "error", NoOrder) ELSE At(r, "ask")
    /\ UNCHANGED <<wire, AdapterVars>>

\* The caller goes away or the REST timeout fires.
Cancel(r) ==
    /\ run[r].at # "done" /\ ~run[r].cancelled
    /\ run' = [run EXCEPT ![r].cancelled = TRUE]
    /\ UNCHANGED <<wire, AdapterVars>>

Tick ==
    /\ \E r \in Runs : run[r].left > 0
    /\ run' = [r \in Runs |->
                 [run[r] EXCEPT !.left = IF @ > 0 THEN @ - 1 ELSE 0]]
    /\ UNCHANGED <<wire, AdapterVars>>

-----------------------------------------------------------------------------
(* The adapter.  A handler outlives the client that gave up on it.         *)

Handler(r, step) == handler' = [handler EXCEPT ![r] = [@ EXCEPT !.at = step]]

\* handlePlaceOrder up to nextOrderID's Load; a request without the
\* correlation id or a usable petId is refused.
PlaceArrives(r) ==
    /\ handler[r].at = "sent"
    /\ \/ Handler(r, "answered400")
       \/ Handler(r, IF counter = 0 THEN "seed" ELSE "add")
    /\ UNCHANGED <<run, wire, byCorr, counter, restarts, orders>>

\* Mutant of Seeded: a plain store in place of CompareAndSwap.
SeededAlways(c) == Millis

Seeded(c) == IF c = 0 THEN Millis ELSE c

SeedOrderIDs(r) ==
    /\ handler[r].at = "seed"
    /\ counter' = Seeded(counter)
    /\ Handler(r, "add")
    /\ UNCHANGED <<run, wire, byCorr, restarts, orders>>

NextOrderID(r) ==
    /\ handler[r].at = "add"
    /\ counter' = counter + 1
    /\ handler' = [handler EXCEPT ![r] = [@ EXCEPT !.at = "posting", !.id = counter + 1]]
    /\ UNCHANGED <<run, wire, byCorr, restarts, orders>>

\* Mutant of ReportedID: a Petstore that answers id 0 is believed.
ReportedIDAsGiven(answered, posted) == answered

ReportedID(answered, posted) == IF answered = 0 THEN posted ELSE answered

\* Petstore keeps the posted id (answering it, or 0) or gives its own; the
\* answer reaches the adapter or is lost after the order was accepted.
PetstoreAccepts(r) ==
    /\ handler[r].at = "posting"
    /\ \E kept \in {handler[r].id, Hosted(handler[r].id)} :
         /\ orders' = orders \cup {[id |-> kept, run |-> r]}
         /\ \/ \E answered \in {kept} \cup (IF kept = handler[r].id THEN {0} ELSE {}) :
                 handler' = [handler EXCEPT
                   ![r] = [@ EXCEPT !.at = "store", !.order = ReportedID(answered, handler[r].id)]]
            \/ Handler(r, "answered502")
    /\ UNCHANGED <<run, wire, byCorr, counter, restarts>>

PetstoreFails(r) ==
    /\ handler[r].at = "posting"
    /\ Handler(r, "answered502")
    /\ UNCHANGED <<run, wire, byCorr, counter, restarts, orders>>

\* Mutant of StoreConfirmation: the answer leaves before the map is written.
AnswerWithoutStore(r) ==
    /\ handler[r].at = "store"
    /\ handler' = [handler EXCEPT ![r] = [@ EXCEPT !.at = "answered200", !.in = restarts]]
    /\ UNCHANGED <<run, wire, byCorr, counter, restarts, orders>>

\* s.byCorr[corr] = order under the mutex, then 200.
StoreConfirmation(r) ==
    /\ handler[r].at = "store"
    /\ byCorr' = [byCorr EXCEPT ![run[r].corr] = handler[r].order]
    /\ handler' = [handler EXCEPT ![r] = [@ EXCEPT !.at = "answered200", !.in = restarts]]
    /\ UNCHANGED <<run, wire, counter, restarts, orders>>

\* handleConfirmOrder: one read under the mutex.
Confirm(r) ==
    /\ wire[r].at = "request"
    /\ LET order == byCorr[run[r].corr] IN
         wire' = [wire EXCEPT ![r] = [at    |-> IF order = NoOrder THEN "notready" ELSE "confirmed",
                                      order |-> order]]
    /\ UNCHANGED <<run, handler, byCorr, counter, restarts, orders>>

Answered == {"answered200", "answered400", "answered502"}

\* The process exits with its handlers and memory and starts again; answers
\* it has sent are on their way.
Restart ==
    /\ restarts < MaxRestarts
    /\ restarts' = restarts + 1
    /\ counter' = 0
    /\ byCorr' = [c \in Corrs |-> NoOrder]
    /\ handler' = [r \in Runs |-> IF handler[r].at \in Answered \cup {"none"} THEN handler[r]
                                  ELSE [handler[r] EXCEPT !.at = "gone"]]
    /\ wire' = [r \in Runs |-> IF wire[r].at = "request" THEN Exchange("none")
                                ELSE wire[r]]
    /\ UNCHANGED <<run, orders>>

-----------------------------------------------------------------------------
Executor(r) ==
    \/ SendPlace(r) \/ PlaceAnswered(r) \/ PlaceFails(r)
    \/ Ask(r) \/ Confirmed(r) \/ NotReady(r) \/ AskFails(r) \/ EndRound(r) \/ Wake(r)

Adapter(r) ==
    \/ PlaceArrives(r) \/ SeedOrderIDs(r) \/ NextOrderID(r)
    \/ PetstoreAccepts(r) \/ PetstoreFails(r) \/ StoreConfirmation(r) \/ Confirm(r)

Done == (\A r \in Runs : run[r].at = "done") /\ UNCHANGED orderVars

Next == Tick \/ Restart \/ Done \/ \E r \in Runs : Executor(r) \/ Adapter(r) \/ Cancel(r)

\* http.Client.Timeout bounds every call and the clock goes on; the adapter
\* owes nothing.
Fairness == WF_orderVars(Tick) /\ \A r \in Runs : WF_orderVars(Executor(r))

Spec == Init /\ [][Next]_orderVars /\ Fairness

-----------------------------------------------------------------------------
(* What the order flow promises.                                           *)

Alone(r) == \A q \in Runs \ {r} : run[q].corr # run[r].corr

\* A confirmed purchase (orderId of confirmPetPurchaseStep) is an order that
\* Petstore accepted under the run's correlation id, and the run's own when
\* no other run uses that id.
ConfirmsOwnOrder ==
    \A r \in Runs : run[r].result = "confirmed" =>
        \E o \in orders : /\ o.id = run[r].order
                          /\ run[o.run].corr = run[r].corr
                          /\ Alone(r) => o.run = r

\* handlePlaceOrder stores before it answers 200: a run whose order was
\* placed ends with the poll's 404 only when the adapter lost its memory.
NotReadyMeansRestart ==
    \A r \in Runs : run[r].result = "notready" => restarts # handler[r].in

\* nextOrderID never gives two orders one id, whoever seeds the counter and
\* whatever the restarts: Petstore would replace the first order.
OrderIdsUnique ==
    \A r, q \in Runs : r # q /\ handler[r].id # NoOrder => handler[r].id # handler[q].id

\* Execute stops polling with no confirmation only when confirmWait is over
\* or its context is done, though it reads the deadline twice per round.
GivesUpAtDeadline ==
    \A r \in Runs : run[r].result \in {"notready", "error"} =>
        run[r].left = 0 \/ run[r].cancelled

\* Every purchase ends, though the adapter may answer 404, or nothing, forever.
EveryPurchaseEnds == \A r \in Runs : <>(run[r].at = "done")
=============================================================================
