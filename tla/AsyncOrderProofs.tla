-------------------------- MODULE AsyncOrderProofs --------------------------
(***************************************************************************)
(* Proofs about AsyncOrder for any number of purchases, any choice of      *)
(* correlation ids, any confirmWait and any number of restarts.  What a    *)
(* purchase is told is related to what the adapter remembers of it and to  *)
(* what Petstore accepted.                                                 *)
(***************************************************************************)
EXTENDS AsyncOrder, FiniteSetTheorems, TLAPS

Polling == {"ask", "asking", "round", "sleep"}
Steps   == {"place", "placing", "done"} \cup Polling
Results == {"none", "refused", "error", "notready", "confirmed"}
Places  == {"none", "sent", "seed", "add", "posting", "store", "gone"} \cup Answered

RunRecord == [at : Steps, corr : Corrs, left : Nat, cancelled : BOOLEAN, last : BOOLEAN,
              result : Results, order : Int]
HandlerRecord == [at : Places, id : Int, order : Int, in : Nat]

OrderTypes ==
    /\ run \in [Runs -> RunRecord]
    /\ handler \in [Runs -> HandlerRecord]
    /\ wire \in [Runs -> [at : {"none", "request", "notready", "confirmed"}, order : Int]]
    /\ byCorr \in [Corrs -> Int]
    /\ counter \in Nat
    /\ restarts \in Nat
    /\ orders \subseteq [id : Int, run : Runs]

-----------------------------------------------------------------------------
\* Petstore accepted order x from a run with correlation id c.
Accepted(x, c) == \E o \in orders : o.id = x /\ run[o.run].corr = c

\* The adapter was restarted since it answered.
Forgotten(r) == handler[r].at = "answered200" /\ handler[r].in # restarts

\* What a run x and its confirm exchange w may be: a run that polls has an
\* order that was stored, one that saw a 404 has one that was forgotten.
RunGood(r, x, w) ==
    /\ x.at = "place" => handler[r].at = "none"
    /\ x.at \in Polling => handler[r].at = "answered200"
    /\ w.at # "none" => x.at = "asking"
    /\ w.at = "notready" \/ x.last \/ x.result = "notready" => Forgotten(r)
    /\ w.at = "confirmed" => Accepted(w.order, x.corr)
    /\ x.result = "confirmed" => Accepted(x.order, x.corr)
    /\ x.at \in {"place", "placing"} => x.left = 0
    /\ x.result # "none" => x.at = "done"
    /\ x.result \in {"notready", "error"} => x.left = 0 \/ x.cancelled

\* What a handler h may be: an order is accepted before it is stored, and
\* stored before it is answered.
HandlerGood(r, h) ==
    /\ h.at = "store" => h.order \in Nat /\ [id |-> h.order, run |-> r] \in orders
    /\ h.at = "answered200" =>
         /\ h.in <= restarts
         /\ h.in = restarts => byCorr[run[r].corr] # NoOrder

MemoryGood == \A c \in Corrs : byCorr[c] # NoOrder => Accepted(byCorr[c], c)

-----------------------------------------------------------------------------
\* Every id given so far is at most what the next one is counted from.
Numbered == {r \in Runs : handler[r].id # NoOrder}

IdsCounted ==
    /\ \A r \in Runs :
         /\ handler[r].at \in {"none", "sent", "seed", "add", "answered400"} => handler[r].id = NoOrder
         /\ handler[r].at = "add" => counter # 0
         /\ handler[r].at = "posting" => handler[r].id \in Nat
         /\ handler[r].id <= IF counter = 0 THEN Millis ELSE counter
    /\ counter <= Millis + Cardinality(Numbered)
    /\ OrderIdsUnique

OrderInv ==
    /\ OrderTypes
    /\ \A r \in Runs : RunGood(r, run[r], wire[r]) /\ HandlerGood(r, handler[r])
    /\ MemoryGood
    /\ IdsCounted

LEMMA MillisType == restarts \in Nat => Millis \in Nat /\ Millis > 0
  BY OrderConstantsOK DEF Millis

LEMMA OrderInit == Init => OrderInv
<1> SUFFICES ASSUME Init PROVE OrderInv
  OBVIOUS
<1>1. OrderTypes
  BY OrderConstantsOK DEF Init, OrderTypes, Start, Exchange, RunRecord, HandlerRecord, NoOrder,
     Steps, Results, Places
<1>2. (\A r \in Runs : RunGood(r, run[r], wire[r]) /\ HandlerGood(r, handler[r])) /\ MemoryGood
  BY OrderConstantsOK DEF Init, RunGood, HandlerGood, MemoryGood, Start, Exchange, Polling
<1>3. IdsCounted
  <2>1. Numbered = {}
    BY DEF Numbered, Init
  <2>2. Cardinality(Numbered) = 0 /\ Millis = 1 /\ counter = 0
    BY <2>1, FS_EmptySet, OrderConstantsOK DEF Millis, Init
  <2>3. QED
    BY <2>2 DEF Init, IdsCounted, OrderIdsUnique, NoOrder
<1>4. QED
  BY <1>1, <1>2, <1>3 DEF OrderInv

-----------------------------------------------------------------------------
\* A step of the executor leaves the adapter's ids alone.
LEMMA IdsKept ==
  ASSUME IdsCounted, UNCHANGED <<counter, restarts>>,
         OrderTypes, handler' \in [Runs -> HandlerRecord],
         \A r \in Runs : /\ handler'[r].id = handler[r].id
                         /\ handler'[r].at \in {"none", "seed", "sent", "add", "answered400"} =>
                              handler[r].at \in {"none", "seed", "sent", "add", "answered400"}
                         /\ handler'[r].at = "add" => counter # 0
                         /\ handler'[r].at = "posting" => handler[r].at = "posting"
  PROVE  IdsCounted'
<1>1. Numbered' = Numbered /\ Millis' = Millis
  BY DEF Numbered, Millis
<1>2. QED
  BY <1>1 DEF IdsCounted, OrderIdsUnique

LEMMA IdsOfHandler ==
  ASSUME OrderInv, NEW r \in Runs, NEW h \in HandlerRecord,
         handler' = [handler EXCEPT ![r] = h], UNCHANGED <<counter, restarts>>,
         h.id = handler[r].id,
         h.at \in {"none", "sent", "seed", "add", "answered400"} =>
           handler[r].at \in {"none", "sent", "seed", "add", "answered400"},
         h.at = "add" => counter # 0,
         h.at = "posting" => handler[r].at = "posting"
  PROVE  IdsCounted'
<1>1. OrderTypes /\ IdsCounted
  BY DEF OrderInv
<1>2. /\ handler' \in [Runs -> HandlerRecord] /\ handler'[r] = h
      /\ \A q \in Runs \ {r} : handler'[q] = handler[q]
  BY <1>1 DEF OrderTypes
<1>3. \A q \in Runs : handler[q].at = "add" => counter # 0
  BY <1>1 DEF IdsCounted
<1>4. QED
  BY <1>1, <1>2, <1>3, IdsKept

\* A step of the executor: run r and its exchange change.
LEMMA RunStep ==
  ASSUME OrderInv, NEW r \in Runs, NEW x \in RunRecord,
         NEW w \in [at : {"none", "request", "notready", "confirmed"}, order : Int],
         run' = [run EXCEPT ![r] = x], wire' = [wire EXCEPT ![r] = w], UNCHANGED AdapterVars,
         x.corr = run[r].corr, RunGood(r, x, w)
  PROVE  OrderInv'
<1>1. /\ OrderTypes /\ UNCHANGED <<handler, byCorr, counter, restarts, orders>>
      /\ run'[r] = x /\ wire'[r] = w
      /\ \A q \in Runs \ {r} : run'[q] = run[q] /\ wire'[q] = wire[q]
      /\ \A q \in Runs : run'[q].corr = run[q].corr
  BY DEF OrderInv, OrderTypes, AdapterVars
<1>2. OrderTypes'
  BY <1>1 DEF OrderTypes
<1>3. \A y, c : Accepted(y, c) => Accepted(y, c)'
  BY <1>1 DEF Accepted, OrderTypes
<1>4. \A q \in Runs : RunGood(q, run[q], wire[q])'
  <2> SUFFICES ASSUME NEW q \in Runs PROVE RunGood(q, run[q], wire[q])'
    OBVIOUS
  <2>1. RunGood(q, run'[q], wire'[q])
    BY <1>1 DEF OrderInv
  <2>2. QED
    BY <2>1, <1>1, <1>3 DEF RunGood, Forgotten
<1>5. \A q \in Runs : HandlerGood(q, handler[q])'
  BY <1>1 DEF OrderInv, HandlerGood
<1>6. MemoryGood'
  BY <1>1, <1>3 DEF OrderInv, MemoryGood
<1>7. IdsCounted'
  BY <1>1 DEF OrderInv, IdsCounted, OrderIdsUnique, Numbered, Millis
<1>8. QED
  BY <1>2, <1>4, <1>5, <1>6, <1>7 DEF OrderInv

LEMMA ExecutorKeeps ==
  ASSUME OrderInv, NEW r \in Runs, Executor(r) \/ Cancel(r), ~SendPlace(r)
  PROVE  OrderInv'
<1> DEFINE Exchanges == [at : {"none", "request", "notready", "confirmed"}, order : Int]
<1>1. /\ run[r] \in RunRecord /\ wire[r] \in Exchanges
      /\ run \in [Runs -> RunRecord] /\ wire \in [Runs -> Exchanges]
      /\ RunGood(r, run[r], wire[r]) /\ HandlerGood(r, handler[r])
      /\ Wait \in Nat
  BY OrderConstantsOK DEF OrderInv, OrderTypes
<1>2. CASE PlaceAnswered(r) /\ handler[r].at = "answered200"
  <2> DEFINE x == [run[r] EXCEPT !.at = "ask", !.left = Wait]
  <2>1. /\ run' = [run EXCEPT ![r] = x] /\ wire' = [wire EXCEPT ![r] = wire[r]]
        /\ UNCHANGED AdapterVars
    BY <1>1, <1>2 DEF PlaceAnswered
  <2>2. x \in RunRecord /\ wire[r] \in Exchanges /\ x.corr = run[r].corr
    <3>1. "ask" \in Steps
      BY <1>1 DEF Steps, Polling, Results, NoOrder
    <3>2. QED
      BY <1>1, <3>1 DEF RunRecord
  <2>3. RunGood(r, x, wire[r])
    BY <1>1, <1>2 DEF RunGood, HandlerGood, PlaceAnswered, RunRecord, Polling, Exchange
  <2>4. QED
    BY <2>1, <2>2, <2>3, RunStep
<1>3. CASE PlaceAnswered(r) /\ handler[r].at # "answered200"
  <2> DEFINE x == [run[r] EXCEPT !.at = "done", !.result = "refused", !.order = NoOrder]
  <2>1. /\ run' = [run EXCEPT ![r] = x] /\ wire' = [wire EXCEPT ![r] = wire[r]]
        /\ UNCHANGED AdapterVars
    BY <1>1, <1>3 DEF PlaceAnswered, Finish
  <2>2. x \in RunRecord /\ wire[r] \in Exchanges /\ x.corr = run[r].corr
    <3>1. "done" \in Steps /\ "refused" \in Results /\ NoOrder \in Int
      BY <1>1 DEF Steps, Polling, Results, NoOrder
    <3>2. QED
      BY <1>1, <3>1 DEF RunRecord
  <2>3. RunGood(r, x, wire[r])
    BY <1>1, <1>3 DEF RunGood, HandlerGood, PlaceAnswered, RunRecord, Polling, Exchange
  <2>4. QED
    BY <2>1, <2>2, <2>3, RunStep
<1>4. CASE PlaceFails(r)
  <2> DEFINE x == [run[r] EXCEPT !.at = "done", !.result = "error", !.order = NoOrder]
  <2>1. /\ run' = [run EXCEPT ![r] = x] /\ wire' = [wire EXCEPT ![r] = wire[r]]
        /\ UNCHANGED AdapterVars
    BY <1>1, <1>4 DEF PlaceFails, Finish
  <2>2. x \in RunRecord /\ wire[r] \in Exchanges /\ x.corr = run[r].corr
    <3>1. "done" \in Steps /\ "error" \in Results /\ NoOrder \in Int
      BY <1>1 DEF Steps, Polling, Results, NoOrder
    <3>2. QED
      BY <1>1, <3>1 DEF RunRecord
  <2>3. RunGood(r, x, wire[r])
    BY <1>1, <1>4 DEF RunGood, HandlerGood, PlaceFails, RunRecord, Polling, Exchange
  <2>4. QED
    BY <2>1, <2>2, <2>3, RunStep
<1>5. CASE Ask(r)
  <2> DEFINE x == [run[r] EXCEPT !.at = "asking"]
             w == Exchange(IF run[r].cancelled THEN "none" ELSE "request")
  <2>1. /\ run' = [run EXCEPT ![r] = x] /\ wire' = [wire EXCEPT ![r] = w]
        /\ UNCHANGED AdapterVars
    BY <1>1, <1>5 DEF Ask, At
  <2>2. x \in RunRecord /\ w \in Exchanges /\ x.corr = run[r].corr
    BY <1>1 DEF RunRecord, Steps, Polling, Results, NoOrder, Exchange
  <2>3. RunGood(r, x, w)
    BY <1>1, <1>5 DEF RunGood, HandlerGood, Ask, RunRecord, Polling, Exchange
  <2>4. QED
    BY <2>1, <2>2, <2>3, RunStep
<1>6. CASE Confirmed(r)
  <2> DEFINE x == [run[r] EXCEPT !.at = "done", !.result = "confirmed", !.order = wire[r].order]
             w == Exchange("none")
  <2>1. /\ run' = [run EXCEPT ![r] = x] /\ wire' = [wire EXCEPT ![r] = w]
        /\ UNCHANGED AdapterVars
    BY <1>1, <1>6 DEF Confirmed, Finish, Hangup
  <2>2. x \in RunRecord /\ w \in Exchanges /\ x.corr = run[r].corr
    <3>1. "done" \in Steps /\ "confirmed" \in Results /\ wire[r].order \in Int /\ Exchange("none") \in Exchanges
      BY <1>1 DEF Steps, Polling, Results, NoOrder, Exchange
    <3>2. QED
      BY <1>1, <3>1 DEF RunRecord
  <2>3. RunGood(r, x, w)
    BY <1>1, <1>6 DEF RunGood, HandlerGood, Confirmed, RunRecord, Polling, Exchange
  <2>4. QED
    BY <2>1, <2>2, <2>3, RunStep
<1>7. CASE NotReady(r) /\ NotReadyYet(r)
  <2> DEFINE x == [run[r] EXCEPT !.at = "round", !.last = TRUE]
             w == Exchange("none")
  <2>1. /\ run' = [run EXCEPT ![r] = x] /\ wire' = [wire EXCEPT ![r] = w]
        /\ UNCHANGED AdapterVars
    BY <1>1, <1>7 DEF NotReady, Hangup
  <2>2. x \in RunRecord /\ w \in Exchanges /\ x.corr = run[r].corr
    <3>1. "round" \in Steps /\ Exchange("none") \in Exchanges
      BY <1>1 DEF Steps, Polling, Results, NoOrder, Exchange
    <3>2. QED
      BY <1>1, <3>1 DEF RunRecord
  <2>3. RunGood(r, x, w)
    BY <1>1, <1>7 DEF RunGood, HandlerGood, NotReady, RunRecord, Polling, Exchange
  <2>4. QED
    BY <2>1, <2>2, <2>3, RunStep
<1>8. CASE NotReady(r) /\ ~NotReadyYet(r)
  <2> DEFINE x == [run[r] EXCEPT !.at = "done", !.result = "notready", !.order = NoOrder]
             w == Exchange("none")
  <2>1. /\ run' = [run EXCEPT ![r] = x] /\ wire' = [wire EXCEPT ![r] = w]
        /\ UNCHANGED AdapterVars
    BY <1>1, <1>8 DEF NotReady, Finish, Hangup
  <2>2. x \in RunRecord /\ w \in Exchanges /\ x.corr = run[r].corr
    <3>1. "done" \in Steps /\ "notready" \in Results /\ NoOrder \in Int /\ Exchange("none") \in Exchanges
      BY <1>1 DEF Steps, Polling, Results, NoOrder, Exchange
    <3>2. QED
      BY <1>1, <3>1 DEF RunRecord
  <2>3. RunGood(r, x, w)
    BY <1>1, <1>8 DEF RunGood, HandlerGood, NotReady, RunRecord, Polling, Exchange, NotReadyYet
  <2>4. QED
    BY <2>1, <2>2, <2>3, RunStep
<1>9. CASE AskFails(r)
  <2> DEFINE x == [run[r] EXCEPT !.at = "round"]
             w == Exchange("none")
  <2>1. /\ run' = [run EXCEPT ![r] = x] /\ wire' = [wire EXCEPT ![r] = w]
        /\ UNCHANGED AdapterVars
    BY <1>1, <1>9 DEF AskFails, At, Hangup
  <2>2. x \in RunRecord /\ w \in Exchanges /\ x.corr = run[r].corr
    BY <1>1 DEF RunRecord, Steps, Polling, Results, NoOrder, Exchange
  <2>3. RunGood(r, x, w)
    BY <1>1, <1>9 DEF RunGood, HandlerGood, AskFails, RunRecord, Polling, Exchange
  <2>4. QED
    BY <2>1, <2>2, <2>3, RunStep
<1>10. CASE EndRound(r) /\ MoreRounds(r)
  <2> DEFINE x == [run[r] EXCEPT !.at = "sleep"]
  <2>1. /\ run' = [run EXCEPT ![r] = x] /\ wire' = [wire EXCEPT ![r] = wire[r]]
        /\ UNCHANGED AdapterVars
    BY <1>1, <1>10 DEF EndRound, At
  <2>2. x \in RunRecord /\ wire[r] \in Exchanges /\ x.corr = run[r].corr
    BY <1>1 DEF RunRecord, Steps, Polling, Results, NoOrder, Exchange
  <2>3. RunGood(r, x, wire[r])
    BY <1>1, <1>10 DEF RunGood, HandlerGood, EndRound, RunRecord, Polling, Exchange
  <2>4. QED
    BY <2>1, <2>2, <2>3, RunStep
<1>11. CASE EndRound(r) /\ ~MoreRounds(r)
  <2> DEFINE x == [run[r] EXCEPT !.at = "done", !.result = IF run[r].last THEN "notready" ELSE "error", !.order = NoOrder]
  <2>1. /\ run' = [run EXCEPT ![r] = x] /\ wire' = [wire EXCEPT ![r] = wire[r]]
        /\ UNCHANGED AdapterVars
    BY <1>1, <1>11 DEF EndRound, Finish
  <2>2. x \in RunRecord /\ wire[r] \in Exchanges /\ x.corr = run[r].corr
    <3>1. "done" \in Steps /\ {"error", "notready"} \subseteq Results /\ NoOrder \in Int
      BY <1>1 DEF Steps, Polling, Results, NoOrder
    <3>2. QED
      BY <1>1, <3>1 DEF RunRecord
  <2>3. RunGood(r, x, wire[r])
    BY <1>1, <1>11 DEF RunGood, HandlerGood, EndRound, RunRecord, Polling, Exchange, MoreRounds
  <2>4. QED
    BY <2>1, <2>2, <2>3, RunStep
<1>12. CASE Wake(r) /\ run[r].cancelled
  <2> DEFINE x == [run[r] EXCEPT !.at = "done", !.result = "error", !.order = NoOrder]
  <2>1. /\ run' = [run EXCEPT ![r] = x] /\ wire' = [wire EXCEPT ![r] = wire[r]]
        /\ UNCHANGED AdapterVars
    BY <1>1, <1>12 DEF Wake, Finish
  <2>2. x \in RunRecord /\ wire[r] \in Exchanges /\ x.corr = run[r].corr
    <3>1. "done" \in Steps /\ "error" \in Results /\ NoOrder \in Int
      BY <1>1 DEF Steps, Polling, Results, NoOrder
    <3>2. QED
      BY <1>1, <3>1 DEF RunRecord
  <2>3. RunGood(r, x, wire[r])
    BY <1>1, <1>12 DEF RunGood, HandlerGood, Wake, RunRecord, Polling, Exchange
  <2>4. QED
    BY <2>1, <2>2, <2>3, RunStep
<1>13. CASE Wake(r) /\ ~run[r].cancelled
  <2> DEFINE x == [run[r] EXCEPT !.at = "ask"]
  <2>1. /\ run' = [run EXCEPT ![r] = x] /\ wire' = [wire EXCEPT ![r] = wire[r]]
        /\ UNCHANGED AdapterVars
    BY <1>1, <1>13 DEF Wake, At
  <2>2. x \in RunRecord /\ wire[r] \in Exchanges /\ x.corr = run[r].corr
    BY <1>1 DEF RunRecord, Steps, Polling, Results, NoOrder, Exchange
  <2>3. RunGood(r, x, wire[r])
    BY <1>1, <1>13 DEF RunGood, HandlerGood, Wake, RunRecord, Polling, Exchange
  <2>4. QED
    BY <2>1, <2>2, <2>3, RunStep
<1>14. CASE Cancel(r)
  <2> DEFINE x == [run[r] EXCEPT !.cancelled = TRUE]
  <2>1. /\ run' = [run EXCEPT ![r] = x] /\ wire' = [wire EXCEPT ![r] = wire[r]]
        /\ UNCHANGED AdapterVars
    BY <1>1, <1>14 DEF Cancel
  <2>2. x \in RunRecord /\ wire[r] \in Exchanges /\ x.corr = run[r].corr
    BY <1>1 DEF RunRecord, Steps, Polling, Results, NoOrder, Exchange
  <2>3. RunGood(r, x, wire[r])
    BY <1>1, <1>14 DEF RunGood, HandlerGood, Cancel, RunRecord, Polling, Exchange
  <2>4. QED
    BY <2>1, <2>2, <2>3, RunStep
<1>15. QED
  BY <1>2, <1>3, <1>4, <1>5, <1>6, <1>7, <1>8, <1>9, <1>10, <1>11, <1>12, <1>13, <1>14 DEF Executor

LEMMA ConfirmKeeps ==
  ASSUME OrderInv, NEW r \in Runs, Confirm(r)
  PROVE  OrderInv'
<1> DEFINE order == byCorr[run[r].corr]
           w == [at |-> IF order = NoOrder THEN "notready" ELSE "confirmed", order |-> order]
<1>1. /\ run \in [Runs -> RunRecord] /\ run[r] \in RunRecord /\ run[r].corr \in Corrs
      /\ RunGood(r, run[r], wire[r]) /\ HandlerGood(r, handler[r]) /\ MemoryGood
      /\ order \in Int
  BY DEF OrderInv, OrderTypes, RunRecord
<1>2. /\ run' = [run EXCEPT ![r] = run[r]] /\ wire' = [wire EXCEPT ![r] = w]
      /\ UNCHANGED AdapterVars /\ wire[r].at = "request"
  BY <1>1 DEF Confirm, AdapterVars
<1>3. RunGood(r, run[r], w)
  BY <1>1, <1>2 DEF RunGood, HandlerGood, MemoryGood, Forgotten, Polling
<1>4. QED
  BY <1>1, <1>2, <1>3, RunStep

\* The place call leaves the executor.
LEMMA SendPlaceKeeps ==
  ASSUME OrderInv, NEW r \in Runs, SendPlace(r)
  PROVE  OrderInv'
<1>1. /\ OrderTypes /\ run[r].at = "place" /\ handler[r].at = "none"
      /\ RunGood(r, run[r], wire[r])
      /\ run' = [run EXCEPT ![r] = [@ EXCEPT !.at = "placing"]]
      /\ UNCHANGED <<wire, byCorr, counter, restarts, orders>>
  BY DEF OrderInv, RunGood, SendPlace, At
<1>2. /\ handler' \in [Runs -> HandlerRecord]
      /\ handler'[r].at \in {"none", "sent"} /\ handler'[r].id = handler[r].id
      /\ \A q \in Runs \ {r} : handler'[q] = handler[q]
  BY <1>1 DEF SendPlace, OrderTypes, HandlerRecord, Places
<1>3. /\ run' \in [Runs -> RunRecord]
      /\ \A q \in Runs \ {r} : run'[q] = run[q]
      /\ run'[r].at = "placing" /\ run'[r].left = run[r].left
      /\ run'[r].result = run[r].result /\ run'[r].last = run[r].last
      /\ \A q \in Runs : run'[q].corr = run[q].corr
  BY <1>1 DEF OrderTypes, RunRecord, Steps
<1>4. OrderTypes'
  BY <1>1, <1>2, <1>3 DEF OrderTypes
<1>5. \A y, c : Accepted(y, c) => Accepted(y, c)'
  BY <1>1, <1>3 DEF Accepted, OrderTypes
<1>6. ASSUME NEW q \in Runs
      PROVE  RunGood(q, run[q], wire[q])' /\ HandlerGood(q, handler[q])'
  <2>1. RunGood(q, run[q], wire[q]) /\ HandlerGood(q, handler[q])
    BY DEF OrderInv
  <2>2. CASE q = r
    BY <1>1, <1>2, <1>3, <2>1, <2>2 DEF RunGood, HandlerGood, Forgotten, Polling
  <2>3. CASE q # r
    BY <1>1, <1>2, <1>3, <1>5, <2>1, <2>3 DEF RunGood, HandlerGood, Forgotten
  <2>4. QED
    BY <2>2, <2>3
<1>7. MemoryGood'
  BY <1>1, <1>5 DEF OrderInv, MemoryGood
<1>8. IdsCounted'
  <2>1. IdsCounted /\ \A q \in Runs : handler[q].at = "add" => counter # 0
    BY DEF OrderInv, IdsCounted
  <2>2. QED
    BY <1>1, <1>2, <2>1, IdsKept
<1>9. QED
  BY <1>4, <1>6, <1>7, <1>8 DEF OrderInv

LEMMA TickKeeps == OrderInv /\ Tick => OrderInv'
<1> SUFFICES ASSUME OrderInv, Tick PROVE OrderInv'
  OBVIOUS
<1>1. /\ OrderTypes /\ UNCHANGED <<wire, handler, byCorr, counter, restarts, orders>>
      /\ run' = [r \in Runs |-> [run[r] EXCEPT !.left = IF @ > 0 THEN @ - 1 ELSE 0]]
  BY DEF OrderInv, Tick, AdapterVars
<1>2. ASSUME NEW r \in Runs
      PROVE  /\ run'[r] \in RunRecord
             /\ run[r].left = 0 => run'[r].left = 0
             /\ \A f \in {"at", "corr", "cancelled", "last", "result", "order"} :
                  run'[r][f] = run[r][f]
             /\ run'[r].at = run[r].at /\ run'[r].corr = run[r].corr
             /\ run'[r].cancelled = run[r].cancelled /\ run'[r].last = run[r].last
             /\ run'[r].result = run[r].result /\ run'[r].order = run[r].order
  <2>1. run[r] \in RunRecord /\ (IF run[r].left > 0 THEN run[r].left - 1 ELSE 0) \in Nat
    BY <1>1 DEF OrderTypes, RunRecord
  <2>2. run'[r] = [run[r] EXCEPT !.left = IF run[r].left > 0 THEN run[r].left - 1 ELSE 0]
    BY <1>1
  <2>3. QED
    BY <2>1, <2>2 DEF RunRecord
<1>3. OrderTypes'
  BY <1>1, <1>2 DEF OrderTypes
<1>4. \A y, c : Accepted(y, c) => Accepted(y, c)'
  BY <1>1, <1>2 DEF Accepted, OrderTypes
<1>5. ASSUME NEW r \in Runs
      PROVE  RunGood(r, run[r], wire[r])' /\ HandlerGood(r, handler[r])'
  <2>1. RunGood(r, run[r], wire[r]) /\ HandlerGood(r, handler[r])
    BY DEF OrderInv
  <2>2. QED
    BY <1>1, <1>2, <1>4, <2>1 DEF RunGood, HandlerGood, Forgotten
<1>6. MemoryGood'
  BY <1>1, <1>4 DEF OrderInv, MemoryGood
<1>7. IdsCounted'
  <2>1. IdsCounted /\ handler' = handler /\ counter' = counter /\ restarts' = restarts
    BY <1>1 DEF OrderInv
  <2>2. QED
    BY <2>1 DEF IdsCounted, OrderIdsUnique, Numbered, Millis
<1>8. QED
  BY <1>3, <1>5, <1>6, <1>7 DEF OrderInv

-----------------------------------------------------------------------------
\* A step of the adapter: handler r moves, memory and Petstore may gain.
LEMMA HandlerStep ==
  ASSUME OrderInv, NEW r \in Runs, handler' \in [Runs -> HandlerRecord],
         \A q \in Runs \ {r} : handler'[q] = handler[q], UNCHANGED <<run, wire, restarts>>,
         handler[r].at \notin {"none", "answered200"},
         orders \subseteq orders', orders' \subseteq [id : Int, run : Runs],
         byCorr' \in [Corrs -> Int],
         \A c \in Corrs : \/ byCorr'[c] = byCorr[c]
                          \/ byCorr'[c] # NoOrder /\ Accepted(byCorr[c], c)',
         counter' \in Nat,
         HandlerGood(r, handler[r])', IdsCounted'
  PROVE  OrderInv'
<1>1. OrderTypes
  BY DEF OrderInv
<1>2. OrderTypes'
  BY <1>1 DEF OrderTypes
<1>3. \A y, c : Accepted(y, c) => Accepted(y, c)'
  BY DEF Accepted
<1>4. ASSUME NEW q \in Runs
      PROVE  RunGood(q, run[q], wire[q])' /\ HandlerGood(q, handler[q])'
  <2>1. RunGood(q, run[q], wire[q]) /\ HandlerGood(q, handler[q])
    BY DEF OrderInv
  <2>2. CASE q = r
    BY <1>1, <1>3, <2>1, <2>2 DEF RunGood, Forgotten
  <2>3. CASE q # r
    <3>1. run[q].corr \in Corrs
      BY <1>1 DEF OrderTypes, RunRecord
    <3>2. QED
      BY <1>1, <1>3, <2>1, <2>3, <3>1 DEF RunGood, HandlerGood, Forgotten
  <2>4. QED
    BY <2>2, <2>3
<1>5. MemoryGood'
  <2> SUFFICES ASSUME NEW c \in Corrs, byCorr'[c] # NoOrder
               PROVE  Accepted(byCorr[c], c)'
    BY DEF MemoryGood
  <2>1. byCorr'[c] = byCorr[c] => Accepted(byCorr[c], c)
    BY DEF OrderInv, MemoryGood
  <2>2. QED
    BY <2>1 DEF Accepted
<1>6. QED
  BY <1>2, <1>4, <1>5 DEF OrderInv

LEMMA PlaceHandled ==
  ASSUME OrderInv, NEW r \in Runs, PlaceArrives(r) \/ SeedOrderIDs(r) \/ NextOrderID(r)
  PROVE  OrderInv'
<1>1. /\ OrderTypes /\ handler[r] \in HandlerRecord /\ IdsCounted
      /\ Millis \in Nat /\ Millis > 0
      /\ UNCHANGED <<run, wire, byCorr, restarts, orders>>
  BY MillisType DEF OrderInv, OrderTypes, PlaceArrives, SeedOrderIDs, NextOrderID
<1>2. IsFiniteSet(Numbered) /\ Cardinality(Numbered) \in Nat
  <2>1. Numbered \in SUBSET Runs /\ IsFiniteSet(Runs)
    BY OrderConstantsOK DEF Numbered
  <2>2. QED
    BY <2>1, FS_Subset, FS_CardinalityType
<1>3. CASE PlaceArrives(r)
  <2>1. PICK at \in {"answered400", "seed", "add"} :
          /\ handler' = [handler EXCEPT ![r] = [handler[r] EXCEPT !.at = at]]
          /\ at = "add" => counter # 0
    BY <1>3 DEF PlaceArrives, Handler
  <2> DEFINE h == [handler[r] EXCEPT !.at = at]
  <2>2. h \in HandlerRecord /\ h.at = at /\ h.id = handler[r].id
    BY <1>1 DEF HandlerRecord, Places, Answered
  <2>20. /\ handler' \in [Runs -> HandlerRecord] /\ handler'[r] = h
        /\ \A q \in Runs \ {r} : handler'[q] = handler[q]
    BY <1>1, <2>1, <2>2 DEF OrderTypes
  <2>3. handler[r].at = "sent" /\ counter' = counter
    BY <1>3 DEF PlaceArrives
  <2>4. HandlerGood(r, handler[r])'
    BY <2>2, <2>20 DEF HandlerGood
  <2>5. IdsCounted'
    BY <2>1, <2>2, <2>3, <1>1, IdsOfHandler
  <2>6. QED
    BY <1>1, <2>1, <2>2, <2>3, <2>4, <2>5, <2>20, HandlerStep DEF OrderTypes
<1>4. CASE SeedOrderIDs(r)
  <2> DEFINE h == [handler[r] EXCEPT !.at = "add"]
  <2>1. /\ handler' = [handler EXCEPT ![r] = h] /\ handler[r].at = "seed"
        /\ counter' = IF counter = 0 THEN Millis ELSE counter
    BY <1>4 DEF SeedOrderIDs, Handler, Seeded
  <2>2. h \in HandlerRecord /\ h.at = "add" /\ h.id = handler[r].id
    BY <1>1 DEF HandlerRecord, Places
  <2>20. /\ handler' \in [Runs -> HandlerRecord] /\ handler'[r] = h
        /\ \A q \in Runs \ {r} : handler'[q] = handler[q]
    BY <1>1, <2>1, <2>2 DEF OrderTypes
  <2>3. HandlerGood(r, handler[r])' /\ counter' \in Nat
    BY <1>1, <2>1, <2>2, <2>20 DEF HandlerGood, OrderTypes
  <2>4. IdsCounted'
    <3>1. Numbered' = Numbered /\ Millis' = Millis /\ counter' # 0
      BY <1>1, <2>1, <2>2 DEF Numbered, Millis, OrderTypes
    <3>2. \A q \in Runs : /\ handler'[q].id = handler[q].id
                          /\ handler'[q].at = handler[q].at \/ (q = r /\ handler'[q].at = "add")
      BY <1>1, <2>1, <2>2 DEF OrderTypes
    <3>3. \A q \in Runs : handler[q].id \in Int
      BY <1>1 DEF OrderTypes, HandlerRecord
    <3>4. QED
      BY <1>1, <1>2, <2>1, <3>1, <3>2, <3>3 DEF IdsCounted, OrderIdsUnique, OrderTypes
  <2>5. QED
    BY <1>1, <2>1, <2>2, <2>3, <2>4, <2>20, HandlerStep DEF OrderTypes
<1>5. CASE NextOrderID(r)
  <2> DEFINE h == [handler[r] EXCEPT !.at = "posting", !.id = counter + 1]
  <2>1. /\ handler' = [handler EXCEPT ![r] = h] /\ handler[r].at = "add"
        /\ counter' = counter + 1
    BY <1>5 DEF NextOrderID
  <2>2. h \in HandlerRecord /\ h.at = "posting" /\ h.id = counter + 1
    <3>1. counter + 1 \in Int /\ "posting" \in Places
      BY <1>1 DEF Places, OrderTypes
    <3>2. QED
      BY <1>1, <3>1 DEF HandlerRecord
  <2>20. /\ handler' \in [Runs -> HandlerRecord] /\ handler'[r] = h
        /\ \A q \in Runs \ {r} : handler'[q] = handler[q]
    BY <1>1, <2>1, <2>2 DEF OrderTypes
  <2> HIDE DEF h
  <2>3. HandlerGood(r, handler[r])' /\ counter' \in Nat
    <3>1. HandlerGood(r, handler[r])'
      BY <2>2, <2>20 DEF HandlerGood
    <3>2. QED
      BY <1>1, <2>1, <3>1 DEF OrderTypes
  <2>4. IdsCounted'
    <3>1. /\ handler'[r] = h /\ handler[r].id = NoOrder /\ counter # 0
          /\ \A q \in Runs \ {r} : handler'[q] = handler[q]
          /\ \A q \in Runs : handler[q].id \in Int /\ handler[q].id <= counter
      BY <1>1, <2>1 DEF OrderTypes, HandlerRecord, IdsCounted
    <3>2. Numbered' = Numbered \cup {r} /\ r \notin Numbered
      BY <1>1, <2>2, <3>1 DEF Numbered, OrderTypes, NoOrder
    <3>3. Cardinality(Numbered') = Cardinality(Numbered) + 1
      BY <1>2, <3>2, FS_AddElement
    <3>4. Millis' = Millis
      BY <1>1 DEF Millis
    <3>5. counter' <= Millis' + Cardinality(Numbered')
      BY <1>1, <1>2, <2>1, <3>3, <3>4 DEF IdsCounted, OrderTypes
    <3>6. OrderIdsUnique'
      BY <1>1, <2>2, <3>1 DEF IdsCounted, OrderIdsUnique, OrderTypes
    <3>7. QED
      BY <1>1, <2>1, <2>2, <3>1, <3>4, <3>5, <3>6 DEF IdsCounted, OrderTypes
  <2>5. /\ handler[r].at \notin {"none", "answered200"}
        /\ orders' = orders /\ orders \subseteq [id : Int, run : Runs]
        /\ byCorr' = byCorr /\ byCorr \in [Corrs -> Int]
    BY <1>1, <2>1 DEF OrderTypes
  <2>6. QED
    BY <1>1, <2>1, <2>2, <2>3, <2>4, <2>5, <2>20, HandlerStep
<1>6. QED
  BY <1>3, <1>4, <1>5

LEMMA OrderPosted ==
  ASSUME OrderInv, NEW r \in Runs,
         PetstoreAccepts(r) \/ PetstoreFails(r) \/ StoreConfirmation(r)
  PROVE  OrderInv'
<1>1. /\ OrderTypes /\ handler[r] \in HandlerRecord /\ IdsCounted
      /\ run[r].corr \in Corrs /\ HandlerGood(r, handler[r])
      /\ UNCHANGED <<run, wire, counter, restarts>>
  BY DEF OrderInv, OrderTypes, RunRecord, PetstoreAccepts, PetstoreFails, StoreConfirmation
<1>2. CASE PetstoreFails(r)
  <2> DEFINE h == [handler[r] EXCEPT !.at = "answered502"]
  <2>1. /\ handler' = [handler EXCEPT ![r] = h] /\ handler[r].at = "posting"
        /\ UNCHANGED <<byCorr, orders>>
    BY <1>2 DEF PetstoreFails, Handler
  <2>2. h \in HandlerRecord /\ h.at = "answered502" /\ h.id = handler[r].id
    BY <1>1 DEF HandlerRecord, Places, Answered
  <2>20. /\ handler' \in [Runs -> HandlerRecord] /\ handler'[r] = h
        /\ \A q \in Runs \ {r} : handler'[q] = handler[q]
    BY <1>1, <2>1, <2>2 DEF OrderTypes
  <2>3. HandlerGood(r, handler[r])'
    BY <2>2, <2>20 DEF HandlerGood
  <2>4. IdsCounted'
    BY <1>1, <2>1, <2>2, IdsOfHandler
  <2>5. QED
    BY <1>1, <2>1, <2>2, <2>3, <2>4, <2>20, HandlerStep DEF OrderTypes
<1>3. CASE PetstoreAccepts(r)
  <2>1. /\ handler[r].at = "posting" /\ handler[r].id \in Nat /\ byCorr' = byCorr
    BY <1>1, <1>3 DEF PetstoreAccepts, IdsCounted
  <2>2. PICK kept \in {handler[r].id, Hosted(handler[r].id)} :
          /\ orders' = orders \cup {[id |-> kept, run |-> r]}
          /\ \/ \E answered \in {kept} \cup (IF kept = handler[r].id THEN {0} ELSE {}) :
                  handler' = [handler EXCEPT
                    ![r] = [@ EXCEPT !.at = "store",
                                     !.order = ReportedID(answered, handler[r].id)]]
             \/ handler' = [handler EXCEPT ![r] = [@ EXCEPT !.at = "answered502"]]
    BY <1>3 DEF PetstoreAccepts, Handler
  <2>3. PICK h \in HandlerRecord :
          /\ handler' = [handler EXCEPT ![r] = h] /\ h.id = handler[r].id
          /\ \/ h.at = "store" /\ h.order = kept
             \/ h.at = "answered502"
    <3>1. CASE handler' = [handler EXCEPT ![r] = [@ EXCEPT !.at = "answered502"]]
      <4> DEFINE x == [handler[r] EXCEPT !.at = "answered502"]
      <4>1. x \in HandlerRecord /\ x.at = "answered502" /\ x.id = handler[r].id
        BY <1>1 DEF HandlerRecord, Places, Answered
      <4>2. handler' = [handler EXCEPT ![r] = x]
        BY <3>1
      <4>3. QED
        BY <4>1, <4>2
    <3>2. ASSUME NEW answered \in {kept} \cup (IF kept = handler[r].id THEN {0} ELSE {}),
                 handler' = [handler EXCEPT
                    ![r] = [@ EXCEPT !.at = "store",
                                     !.order = ReportedID(answered, handler[r].id)]]
          PROVE  \E y \in HandlerRecord :
                   /\ handler' = [handler EXCEPT ![r] = y] /\ y.id = handler[r].id
                   /\ y.at = "store" /\ y.order = kept
      <4>1. ReportedID(answered, handler[r].id) = kept /\ kept \in Int
        BY <2>1 DEF ReportedID, Hosted
      <4> DEFINE x == [handler[r] EXCEPT !.at = "store", !.order = kept]
      <4>2. x \in HandlerRecord /\ x.at = "store" /\ x.id = handler[r].id /\ x.order = kept
        BY <1>1, <4>1 DEF HandlerRecord, Places
      <4>3. handler' = [handler EXCEPT ![r] = x]
        BY <3>2, <4>1
      <4>4. QED
        BY <4>2, <4>3
    <3>3. QED
      BY <2>2, <3>1, <3>2
  <2>20. /\ handler' \in [Runs -> HandlerRecord] /\ handler'[r] = h
        /\ \A q \in Runs \ {r} : handler'[q] = handler[q]
    BY <1>1, <2>3 DEF OrderTypes
  <2>4. kept \in Nat
    BY <2>1 DEF Hosted
  <2>5. HandlerGood(r, handler[r])'
    BY <2>2, <2>3, <2>4, <2>20 DEF HandlerGood
  <2>6. IdsCounted'
    BY <1>1, <2>1, <2>3, IdsOfHandler
  <2>7. orders \subseteq orders' /\ orders' \subseteq [id : Int, run : Runs]
    <3>1. orders' = orders \cup {[id |-> kept, run |-> r]}
      BY <2>2
    <3>2. [id |-> kept, run |-> r] \in [id : Int, run : Runs]
      BY <2>4
    <3>3. QED
      BY <1>1, <3>1, <3>2 DEF OrderTypes
  <2>8. QED
    BY <1>1, <2>1, <2>3, <2>5, <2>6, <2>7, <2>20, HandlerStep DEF OrderTypes
<1>4. CASE StoreConfirmation(r)
  <2> DEFINE h == [handler[r] EXCEPT !.at = "answered200", !.in = restarts]
  <2>1. /\ handler' = [handler EXCEPT ![r] = h] /\ handler[r].at = "store"
        /\ byCorr' = [byCorr EXCEPT ![run[r].corr] = handler[r].order]
        /\ orders' = orders
    BY <1>4 DEF StoreConfirmation
  <2>2. /\ h \in HandlerRecord /\ h.at = "answered200" /\ h.in = restarts
        /\ h.id = handler[r].id
    BY <1>1 DEF HandlerRecord, Places, Answered, OrderTypes
  <2>20. /\ handler' \in [Runs -> HandlerRecord] /\ handler'[r] = h
        /\ \A q \in Runs \ {r} : handler'[q] = handler[q]
    BY <1>1, <2>1, <2>2 DEF OrderTypes
  <2>3. handler[r].order \in Nat /\ [id |-> handler[r].order, run |-> r] \in orders
    BY <1>1, <2>1 DEF HandlerGood
  <2>4. /\ byCorr' \in [Corrs -> Int]
        /\ byCorr'[run[r].corr] = handler[r].order
        /\ \A c \in Corrs \ {run[r].corr} : byCorr'[c] = byCorr[c]
    BY <1>1, <2>1, <2>3 DEF OrderTypes
  <2>6. HandlerGood(r, handler[r])'
    BY <1>1, <2>2, <2>3, <2>4, <2>20 DEF HandlerGood, NoOrder, OrderTypes
  <2>7. IdsCounted'
    BY <1>1, <2>1, <2>2, IdsOfHandler
  <2>8. /\ handler[r].at \notin {"none", "answered200"}
        /\ orders \subseteq [id : Int, run : Runs] /\ counter' \in Nat
    BY <1>1, <2>1 DEF OrderTypes
  <2>9. \A c \in Corrs : \/ byCorr'[c] = byCorr[c]
                         \/ byCorr'[c] # NoOrder /\ Accepted(byCorr[c], c)'
    <3> SUFFICES ASSUME NEW c \in Corrs, c = run[r].corr
                 PROVE  byCorr'[c] # NoOrder /\ Accepted(byCorr[c], c)'
      BY <2>4
    <3>1. byCorr'[c] = handler[r].order /\ run'[r].corr = c /\ orders' = orders
      BY <1>1, <2>1, <2>4
    <3>2. byCorr'[c] # NoOrder
      BY <2>3, <3>1 DEF NoOrder
    <3>3. \E o \in orders' : o.id = byCorr'[c] /\ run'[o.run].corr = c
      BY <2>3, <3>1
    <3>4. QED
      BY <3>2, <3>3 DEF Accepted
  <2> HIDE DEF h
  <2>10. QED
    BY <1>1, <2>1, <2>2, <2>4, <2>6, <2>7, <2>8, <2>9, <2>20, HandlerStep
<1>5. QED
  BY <1>2, <1>3, <1>4

-----------------------------------------------------------------------------
\* The adapter forgets.  The clock it seeds its ids from has gone on for
\* longer than it gave ids out.
LEMMA RestartKeeps == OrderInv /\ Restart => OrderInv'
<1> SUFFICES ASSUME OrderInv, Restart PROVE OrderInv'
  OBVIOUS
<1>1. /\ OrderTypes /\ IdsCounted /\ UNCHANGED <<run, orders>>
      /\ restarts' = restarts + 1 /\ counter' = 0
      /\ byCorr' = [c \in Corrs |-> NoOrder]
      /\ handler' = [r \in Runs |-> IF handler[r].at \in Answered \cup {"none"} THEN handler[r]
                                   ELSE [handler[r] EXCEPT !.at = "gone"]]
      /\ wire' = [r \in Runs |-> IF wire[r].at = "request" THEN Exchange("none")
                                ELSE wire[r]]
  BY DEF OrderInv, Restart
<1>2. ASSUME NEW r \in Runs
      PROVE  /\ handler'[r] \in HandlerRecord
             /\ handler'[r].id = handler[r].id /\ handler'[r].in = handler[r].in
             /\ handler[r].at \in Answered \cup {"none"} => handler'[r].at = handler[r].at
             /\ handler'[r].at \in Answered \cup {"none"} => handler'[r].at = handler[r].at
             /\ handler'[r].at \in Answered \cup {"none", "gone"}
  <2>1. handler[r] \in HandlerRecord
    BY <1>1 DEF OrderTypes
  <2>2. CASE handler[r].at \in Answered \cup {"none"}
    BY <1>1, <2>1, <2>2
  <2>3. CASE handler[r].at \notin Answered \cup {"none"}
    <3>1. handler'[r] = [handler[r] EXCEPT !.at = "gone"]
      BY <1>1, <2>3
    <3>2. /\ handler'[r] \in HandlerRecord /\ handler'[r].at = "gone"
          /\ handler'[r].id = handler[r].id /\ handler'[r].in = handler[r].in
      BY <2>1, <3>1 DEF HandlerRecord, Places
    <3>3. QED
      BY <2>3, <3>2 DEF Answered
  <2>4. QED
    BY <2>2, <2>3
<1>3. OrderTypes'
  <2>1. handler' \in [Runs -> HandlerRecord]
    BY <1>1, <1>2
  <2>2. wire' \in [Runs -> [at : {"none", "request", "notready", "confirmed"}, order : Int]]
    BY <1>1 DEF OrderTypes, Exchange, NoOrder
  <2>3. QED
    BY <1>1, <2>1, <2>2 DEF OrderTypes, NoOrder
<1>4. ASSUME NEW r \in Runs
      PROVE  RunGood(r, run[r], wire[r])' /\ HandlerGood(r, handler[r])'
  <2>1. RunGood(r, run[r], wire[r]) /\ HandlerGood(r, handler[r])
    BY DEF OrderInv
  <2>2. handler[r].in \in Nat /\ restarts \in Nat
    BY <1>1 DEF OrderTypes, HandlerRecord
  <2>3. HandlerGood(r, handler[r])'
    BY <1>1, <1>2, <2>1, <2>2 DEF HandlerGood, Answered
  <2>4. Forgotten(r) => Forgotten(r)'
    BY <1>1, <1>2, <2>1, <2>2 DEF HandlerGood, Forgotten, Answered
  <2>5. wire'[r].at = "none" \/ wire'[r] = wire[r]
    BY <1>1 DEF Exchange
  <2>6. RunGood(r, run[r], wire[r])'
    BY <1>1, <1>2, <2>1, <2>4, <2>5 DEF RunGood, Accepted, Answered
  <2>7. QED
    BY <2>3, <2>6
<1>5. MemoryGood'
  BY <1>1 DEF MemoryGood
<1>6. IdsCounted'
  <2>1. /\ Numbered \in SUBSET Runs /\ IsFiniteSet(Runs)
        /\ Numbered' = Numbered
    BY <1>2, OrderConstantsOK DEF Numbered
  <2>2. /\ Cardinality(Numbered) \in Nat /\ Cardinality(Runs) \in Nat
        /\ Cardinality(Numbered) <= Cardinality(Runs)
    BY <2>1, FS_Subset, FS_CardinalityType
  <2>3. Millis \in Nat /\ Millis' = Millis + RestartMillis
    BY <1>1, OrderConstantsOK, MillisType DEF Millis, OrderTypes
  <2>4. counter <= Millis' /\ Millis <= Millis' /\ Millis' \in Nat
    BY <1>1, <2>2, <2>3, OrderConstantsOK DEF IdsCounted, OrderTypes
  <2>5. \A r \in Runs : handler'[r].id <= Millis'
    <3> SUFFICES ASSUME NEW r \in Runs PROVE handler'[r].id <= Millis'
      OBVIOUS
    <3>1. handler[r].id \in Int /\ handler[r].id <= IF counter = 0 THEN Millis ELSE counter
      BY <1>1 DEF IdsCounted, OrderTypes, HandlerRecord
    <3>2. QED
      BY <1>1, <1>2, <2>3, <2>4, <3>1 DEF OrderTypes
  <2>6. OrderIdsUnique'
    BY <1>1, <1>2 DEF IdsCounted, OrderIdsUnique
  <2>7. \A r \in Runs :
          /\ handler'[r].at \in {"none", "sent", "seed", "add", "answered400"} =>
               handler'[r].id = NoOrder
          /\ handler'[r].at \notin {"add", "posting"}
    BY <1>1, <1>2 DEF IdsCounted, Answered
  <2>8. counter' <= Millis' + Cardinality(Numbered')
    BY <1>1, <2>1, <2>2, <2>4
  <2>9. QED
    BY <1>1, <2>5, <2>6, <2>7, <2>8 DEF IdsCounted
<1>7. QED
  BY <1>3, <1>4, <1>5, <1>6 DEF OrderInv

LEMMA OrderStep == OrderInv /\ [Next]_orderVars => OrderInv'
<1> SUFFICES ASSUME OrderInv, [Next]_orderVars PROVE OrderInv'
  OBVIOUS
<1>1. CASE Done \/ UNCHANGED orderVars
  <2>1. UNCHANGED <<run, handler, wire, byCorr, counter, restarts, orders>>
    BY <1>1 DEF Done, orderVars
  <2>2. OrderTypes' /\ MemoryGood'
    BY <2>1 DEF OrderInv, OrderTypes, MemoryGood, Accepted
  <2>3. IdsCounted'
    BY <2>1 DEF OrderInv, IdsCounted, OrderIdsUnique, Numbered, Millis
  <2>4. ASSUME NEW r \in Runs
        PROVE  RunGood(r, run[r], wire[r])' /\ HandlerGood(r, handler[r])'
    BY <2>1 DEF OrderInv, RunGood, HandlerGood, Accepted, Forgotten
  <2>5. QED
    BY <2>2, <2>3, <2>4 DEF OrderInv
<1>2. ASSUME NEW r \in Runs, Executor(r) \/ Adapter(r) \/ Cancel(r)
      PROVE  OrderInv'
  BY <1>2, ExecutorKeeps, SendPlaceKeeps, ConfirmKeeps, PlaceHandled, OrderPosted DEF Adapter
<1>3. QED
  BY <1>1, <1>2, TickKeeps, RestartKeeps DEF Next

-----------------------------------------------------------------------------
\* What the adapter remembers and what a purchase has been told come from
\* orders that Petstore accepted, whatever is lost and whoever restarts.
THEOREM OrderInvHolds == Spec => []OrderInv
BY OrderInit, OrderStep, PTL DEF Spec

\* A confirmed purchase is an order that Petstore accepted under the run's
\* correlation id, and the run's own when no other run uses the id.
THEOREM ConfirmsOwnOrderHolds == Spec => []ConfirmsOwnOrder
<1>1. OrderInv => ConfirmsOwnOrder
  <2> SUFFICES ASSUME OrderInv, NEW r \in Runs, run[r].result = "confirmed"
               PROVE  \E o \in orders : /\ o.id = run[r].order
                                        /\ run[o.run].corr = run[r].corr
                                        /\ Alone(r) => o.run = r
    BY DEF ConfirmsOwnOrder
  <2>1. PICK o \in orders : o.id = run[r].order /\ run[o.run].corr = run[r].corr
    BY DEF OrderInv, RunGood, Accepted
  <2>2. o.run \in Runs
    BY DEF OrderInv, OrderTypes
  <2>3. QED
    BY <2>1, <2>2 DEF Alone
<1>2. QED
  BY <1>1, OrderInvHolds, PTL

\* A run whose order was placed ends with the poll's 404 only when the adapter
\* lost its memory: the confirmation is stored before the 200 is sent.
THEOREM NotReadyMeansRestartHolds == Spec => []NotReadyMeansRestart
<1>1. OrderInv => NotReadyMeansRestart
  BY DEF OrderInv, RunGood, Forgotten, NotReadyMeansRestart
<1>2. QED
  BY <1>1, OrderInvHolds, PTL

\* No two orders get one id, however the first ones race to seed the counter
\* and however often the adapter restarts, as long as a restart takes a
\* millisecond for each order (OrderConstantsOK).
THEOREM OrderIdsUniqueHolds == Spec => []OrderIdsUnique
<1>1. OrderInv => OrderIdsUnique
  BY DEF OrderInv, IdsCounted
<1>2. QED
  BY <1>1, OrderInvHolds, PTL

\* Polling ends without a confirmation only at its deadline or when its
\* context is done.
THEOREM GivesUpAtDeadlineHolds == Spec => []GivesUpAtDeadline
<1>1. OrderInv => GivesUpAtDeadline
  BY DEF OrderInv, RunGood, GivesUpAtDeadline
<1>2. QED
  BY <1>1, OrderInvHolds, PTL
=============================================================================
