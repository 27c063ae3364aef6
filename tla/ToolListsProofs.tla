--------------------------- MODULE ToolListsProofs ---------------------------
(***************************************************************************)
(* Proofs about ToolLists for any number of lists, any tools on the server *)
(* and any help that is published while they are rewritten.                *)
(***************************************************************************)
EXTENDS ToolLists, FiniteSetTheorems, TLAPS

AllTools == Targets \cup Foreign
Surfaces == {"mcp", "rest"}
Fields   == {"title", "description", "restDescription", "foreign", "shared"}
TextRecord == [field : Fields, rev : Nat]
Entry    == [title : TextRecord, description : TextRecord]

\* Maps from some of the tools.
Of(S) == UNION {[D -> S] : D \in SUBSET AllTools}

ListRecord == [at : {"idle", "mcp", "rest", "listed", "failed"}, surface : Surfaces,
               todo : Seq(AllTools), entries : Of(Entry), looked : Of(SUBSET Nat), last : Of(Nat)]

ListTypes ==
    /\ revs \in [Targets -> Nat]
    /\ newest \in [Targets -> Nat]
    /\ list \in [Lists -> ListRecord]

-----------------------------------------------------------------------------
\* What the server registered for a tool, which no list ever changes.
OfServer(t) == IF t \in Foreign THEN Embedders ELSE Registered

ServerKept ==
    /\ Targets \subseteq DOMAIN server
    /\ DOMAIN server \subseteq AllTools
    /\ server = [t \in DOMAIN server |-> OfServer(t)]

\* The surface that x was last rewritten for.
Rewritten(x) == IF x.at = "rest" THEN "rest" ELSE IF x.at = "mcp" THEN "mcp" ELSE x.surface

\* Where the entry of t in x may come from.
Origin(x, t) ==
    \/ x.entries[t] = IF x.at = "mcp" THEN Pointer ELSE OfServer(t)
    \/ /\ t \notin Foreign
       /\ \E rev \in x.looked[t], surface \in {"mcp", Rewritten(x)} :
            Renders(t, rev) /\ x.entries[t] = Rendered(t, rev, surface)

\* A tool that is behind the loop has the help it was last given.
Helped(x, t) ==
    t \in Targets /\ t \notin ToSet(x.todo) /\ Renders(t, x.last[t])
      => x.entries[t] = Rendered(t, x.last[t], Rewritten(x))

ListGood(x) ==
    x.at \in {"mcp", "rest", "listed"} =>
      /\ x.at = "rest" => x.surface = "rest"
      /\ x.at = "listed" => x.todo = <<>>
      /\ DOMAIN x.looked = DOMAIN x.entries
      /\ DOMAIN x.last = DOMAIN x.entries
      /\ ToSet(x.todo) \subseteq DOMAIN x.entries
      /\ \A t \in DOMAIN x.entries : Origin(x, t) /\ Helped(x, t)

ListInv ==
    /\ ListTypes
    /\ ServerKept
    /\ \A l \in Lists : DOMAIN list[l].entries \subseteq DOMAIN server
    /\ \A l \in Lists : ListGood(list[l])

-----------------------------------------------------------------------------
\* A map is from some of the tools, and stays one when an element changes.
LEMMA MapType ==
  ASSUME NEW S, NEW f
  PROVE  f \in Of(S) <=> /\ DOMAIN f \subseteq AllTools
                         /\ f = [t \in DOMAIN f |-> f[t]]
                         /\ \A t \in DOMAIN f : f[t] \in S
<1>1. ASSUME f \in Of(S)
      PROVE  /\ DOMAIN f \subseteq AllTools
             /\ f = [t \in DOMAIN f |-> f[t]]
             /\ \A t \in DOMAIN f : f[t] \in S
  BY <1>1 DEF Of
<1>2. ASSUME DOMAIN f \subseteq AllTools, f = [t \in DOMAIN f |-> f[t]], \A t \in DOMAIN f : f[t] \in S
      PROVE  f \in Of(S)
  <2>1. f \in [DOMAIN f -> S]
    BY <1>2
  <2>2. QED
    BY <2>1, <1>2 DEF Of
<1>3. QED
  BY <1>1, <1>2

LEMMA MapChanged ==
  ASSUME NEW S, NEW f \in Of(S), NEW t \in DOMAIN f, NEW v \in S
  PROVE  [f EXCEPT ![t] = v] \in Of(S) /\ DOMAIN [f EXCEPT ![t] = v] = DOMAIN f
<1> DEFINE g == [f EXCEPT ![t] = v]
<1>1. DOMAIN g = DOMAIN f /\ g = [s \in DOMAIN f |-> IF s = t THEN v ELSE f[s]]
  BY MapType
<1>2. \A s \in DOMAIN g : g[s] \in S
  BY <1>1, MapType
<1>3. DOMAIN g \subseteq AllTools /\ g = [s \in DOMAIN g |-> g[s]]
  BY <1>1, MapType
<1> HIDE DEF g
<1>4. g \in Of(S)
  BY <1>2, <1>3, MapType
<1>5. QED
  BY <1>1, <1>4 DEF g

\* The server's list has each of its tools.
LEMMA AllListed ==
  ASSUME NEW S, IsFiniteSet(S)
  PROVE  SetToSeq(S) \in Seq(S) /\ ToSet(SetToSeq(S)) = S
<1> DEFINE n == Cardinality(S)
           q == SetToSeq(S)
<1>1. n \in Nat /\ ExistsBijection(1 .. n, S)
  BY FS_CardinalityType
<1>2. \E f \in [1 .. n -> S] : IsInjective(f)
  BY <1>1 DEF ExistsBijection, Bijection, Injection
<1>3. q \in [1 .. n -> S] /\ IsInjective(q)
  BY <1>2 DEF SetToSeq
<1>4. IsFiniteSet(1 .. n) /\ Cardinality(1 .. n) = n
  BY <1>1, FS_Interval
<1> HIDE DEF q
<1>5. q \in Injection(1 .. n, S)
  BY <1>3 DEF Injection
<1>6. q \in Surjection(1 .. n, S)
  BY <1>4, <1>5, FS_Injection
<1>7. ToSet(q) = S
  BY <1>3, <1>6 DEF ToSet, Surjection
<1>8. q \in Seq(S)
  BY <1>1, <1>3
<1>9. QED
  BY <1>7, <1>8 DEF q

LEMMA TextIn ==
  ASSUME NEW field \in Fields, NEW rev \in Nat
  PROVE  Text(field, rev) \in TextRecord
BY DEF Text, TextRecord

LEMMA TextType ==
  ASSUME NEW t \in Targets, NEW rev \in Nat, NEW surface
  PROVE  Rendered(t, rev, surface) \in Entry /\ Rendered(t, rev, surface) # Pointer
<1> "title" \in Fields /\ "description" \in Fields /\ "restDescription" \in Fields
  BY DEF Fields
<1>2. Template(t, rev, "title") \in TextRecord
  BY TextIn DEF Template
<1>3. Template(t, rev, "description") \in TextRecord
  BY TextIn DEF Template
<1>4. RestTemplate(t, rev) \in TextRecord
  BY TextIn DEF RestTemplate
<1>5. Rendered(t, rev, surface).title.field = "title"
  BY DEF Rendered, Template, Text
<1>6. Pointer.title.field = "shared"
  BY DEF Pointer, Shared, Text
<1>7. QED
  BY <1>2, <1>3, <1>4, <1>5, <1>6 DEF Rendered, Entry

LEMMA ServerType ==
  ASSUME NEW t
  PROVE  OfServer(t) \in Entry /\ OfServer(t) # Pointer /\ Pointer \in Entry
<1>1. \A field \in Fields : Text(field, 0) \in TextRecord
  BY TextIn
<1>2. OfServer(t) \in Entry /\ Pointer \in Entry
  BY <1>1 DEF OfServer, Embedders, Registered, Pointer, Shared, Entry, Fields
<1>3. OfServer(t).title.field \in {"foreign", "title"} /\ Pointer.title.field = "shared"
  BY DEF OfServer, Embedders, Registered, Pointer, Shared, Text
<1>4. QED
  BY <1>2, <1>3

-----------------------------------------------------------------------------
LEMMA ListInit == Init => ListInv
<1> SUFFICES ASSUME Init PROVE ListInv
  OBVIOUS
<1>1. DOMAIN <<>> = {} /\ <<>> = [t \in {} |-> t]
  OBVIOUS
<1>2. \A S : <<>> \in Of(S)
  BY <1>1, MapType
<1>3. NoList \in ListRecord /\ ListGood(NoList) /\ DOMAIN NoList.entries = {}
  BY <1>1, <1>2 DEF NoList, ListRecord, ListGood, Surfaces
<1>4. revs \in [Targets -> Nat] /\ newest \in [Targets -> Nat] /\ list \in [Lists -> ListRecord]
  BY <1>3 DEF Init
<1>5. ServerKept
  BY ToolListsConstantsOK DEF Init, ServerKept, OfServer, AllTools
<1>6. QED
  BY <1>3, <1>4, <1>5 DEF Init, ListInv, ListTypes

\* It is enough to look at the list that a step is about.
LEMMA ListStep ==
  ASSUME ListInv, NEW l \in Lists, NEW x \in ListRecord,
         list' = [list EXCEPT ![l] = x], UNCHANGED <<server, revs>>, newest' \in [Targets -> Nat],
         DOMAIN x.entries \subseteq DOMAIN server, ListGood(x)
  PROVE  ListInv'
<1>1. list' \in [Lists -> ListRecord] /\ \A m \in Lists : list'[m] = IF m = l THEN x ELSE list[m]
  BY DEF ListInv, ListTypes
<1>2. ListTypes'
  BY <1>1 DEF ListInv, ListTypes
<1>3. ServerKept'
  BY DEF ListInv, ServerKept
<1>4. \A m \in Lists : DOMAIN list'[m].entries \subseteq DOMAIN server' /\ ListGood(list'[m])
  BY <1>1 DEF ListInv
<1>5. QED
  BY <1>2, <1>3, <1>4 DEF ListInv

LEMMA ListKeeps ==
  ASSUME ListInv, NEW l \in Lists, NEW surface \in Surfaces, List(l, surface)
  PROVE  ListInv'
<1> DEFINE D == DOMAIN server
           x == [at |-> "mcp", surface |-> surface, todo |-> SetToSeq(D),
                 entries |-> [t \in D |-> Pointer], looked |-> [t \in D |-> {}],
                 last |-> [t \in D |-> 0]]
<1>1. D \subseteq AllTools
  BY DEF ListInv, ServerKept
<1>2. IsFiniteSet(D)
  BY <1>1, ToolListsConstantsOK, FS_Union, FS_Subset DEF AllTools
<1>3. SetToSeq(D) \in Seq(D) /\ ToSet(SetToSeq(D)) = D
  BY <1>2, AllListed
<1>4. SetToSeq(D) \in Seq(AllTools)
  BY <1>1, <1>3
<1>5. /\ [t \in D |-> Pointer] \in Of(Entry)
      /\ [t \in D |-> {}] \in Of(SUBSET Nat)
      /\ [t \in D |-> 0] \in Of(Nat)
  BY <1>1, ServerType DEF Of
<1>6. x \in ListRecord
  BY <1>4, <1>5 DEF ListRecord
<1>7. x.at = "mcp" /\ x.todo = SetToSeq(D) /\ x.entries = [t \in D |-> Pointer] /\ DOMAIN x.looked = D /\ DOMAIN x.last = D
  OBVIOUS
<1>8. list' = [list EXCEPT ![l] = x] /\ UNCHANGED <<server, revs, newest>>
  BY DEF List
<1> HIDE DEF x
<1>9. ListGood(x)
  BY <1>3, <1>7 DEF ListGood, Origin, Helped
<1>10. QED
  BY <1>6, <1>7, <1>8, <1>9, ListStep DEF ListInv, ListTypes

\* What is left to rewrite, and its head.
LEMMA TodoType ==
  ASSUME ListInv, NEW l \in Lists, Rewriting(l)
  PROVE  /\ Next1(l) \in DOMAIN list[l].entries
         /\ Tail(list[l].todo) \in Seq(AllTools)
         /\ ToSet(list[l].todo) = ToSet(Tail(list[l].todo)) \cup {Next1(l)}
<1> DEFINE q == list[l].todo
<1>1. list[l] \in ListRecord /\ ListGood(list[l])
  BY DEF ListInv, ListTypes
<1>2. q \in Seq(AllTools) /\ q # <<>>
  BY <1>1 DEF ListRecord, Rewriting
<1>3. ToSet(q) \subseteq DOMAIN list[l].entries
  BY <1>1 DEF ListGood, Rewriting
<1> HIDE DEF q
<1>4. Tail(q) \in Seq(AllTools) /\ Len(q) \in Nat /\ Len(q) > 0 /\ Len(Tail(q)) = Len(q) - 1
  BY <1>2
<1>5. Head(q) = q[1] /\ \A i \in 1 .. Len(q) - 1 : Tail(q)[i] = q[i + 1]
  BY <1>2
<1>6. DOMAIN q = 1 .. Len(q) /\ DOMAIN Tail(q) = 1 .. Len(q) - 1
  BY <1>2, <1>4
<1>7. ToSet(q) \subseteq ToSet(Tail(q)) \cup {Head(q)}
  <2> SUFFICES ASSUME NEW i \in 1 .. Len(q), i # 1 PROVE q[i] \in ToSet(Tail(q))
    BY <1>5, <1>6 DEF ToSet
  <2>1. i - 1 \in 1 .. Len(q) - 1 /\ Tail(q)[i - 1] = q[i]
    BY <1>4, <1>5
  <2>2. QED
    BY <2>1, <1>6 DEF ToSet
<1>8. ToSet(Tail(q)) \cup {Head(q)} \subseteq ToSet(q)
  <2>1. \A i \in 1 .. Len(q) - 1 : i + 1 \in 1 .. Len(q)
    BY <1>4
  <2>2. 1 \in 1 .. Len(q)
    BY <1>4
  <2>3. QED
    BY <2>1, <2>2, <1>5, <1>6 DEF ToSet
<1>9. QED
  BY <1>3, <1>4, <1>7, <1>8 DEF Next1, q

\* One round of apply's loop: the entry becomes what it is rendered to, or
\* stays where its templates fail.
LEMMA Advanced ==
  ASSUME ListInv, NEW l \in Lists, Rewriting(l), Next1(l) \in Targets, NEW rev \in Nat, NEW entry,
         \/ /\ Renders(Next1(l), rev)
            /\ entry = Rendered(Next1(l), rev, list[l].at)
         \/ /\ ~Renders(Next1(l), rev)
            /\ entry = list[l].entries[Next1(l)],
         Advance(l, entry, rev), UNCHANGED <<server, revs>>, newest' \in [Targets -> Nat]
  PROVE  ListInv'
<1> DEFINE o == list[l]
           t == Next1(l)
           x == [o EXCEPT !.todo = Tail(o.todo), !.entries = [o.entries EXCEPT ![t] = entry],
                   !.looked = [o.looked EXCEPT ![t] = @ \cup {rev}], !.last = [o.last EXCEPT ![t] = rev]]
<1>1. o \in ListRecord /\ ListGood(o) /\ DOMAIN o.entries \subseteq DOMAIN server
  BY DEF ListInv, ListTypes
<1>2. o.at \in {"mcp", "rest"}
  BY DEF Rewriting
<1>3. /\ t \in DOMAIN o.entries
      /\ DOMAIN o.looked = DOMAIN o.entries
      /\ DOMAIN o.last = DOMAIN o.entries
      /\ Tail(o.todo) \in Seq(AllTools)
      /\ ToSet(o.todo) = ToSet(Tail(o.todo)) \cup {t}
  BY <1>1, <1>2, TodoType DEF ListGood
<1>4. o.entries \in Of(Entry) /\ o.looked \in Of(SUBSET Nat) /\ o.last \in Of(Nat)
  BY <1>1 DEF ListRecord
<1>5. entry \in Entry
  BY <1>3, <1>4, TextType, MapType
<1>6. o.looked[t] \cup {rev} \in SUBSET Nat
  BY <1>3, <1>4, MapType
<1>7. /\ x.at = o.at /\ x.surface = o.surface /\ x.todo = Tail(o.todo)
      /\ x.entries = [o.entries EXCEPT ![t] = entry]
      /\ x.looked = [o.looked EXCEPT ![t] = @ \cup {rev}]
      /\ x.last = [o.last EXCEPT ![t] = rev]
  BY <1>1 DEF ListRecord
<1>8. /\ [o.entries EXCEPT ![t] = entry] \in Of(Entry)
      /\ [o.looked EXCEPT ![t] = @ \cup {rev}] \in Of(SUBSET Nat)
      /\ [o.last EXCEPT ![t] = rev] \in Of(Nat)
  BY <1>3, <1>4, <1>5, <1>6, MapChanged
<1>9. x \in ListRecord
  BY <1>1, <1>3, <1>8 DEF ListRecord
<1>10. list' = [list EXCEPT ![l] = x]
  BY DEF Advance
<1> HIDE DEF x
<1>11. DOMAIN x.entries = DOMAIN o.entries /\ DOMAIN x.looked = DOMAIN o.entries /\ DOMAIN x.last = DOMAIN o.entries
  BY <1>3, <1>7
<1>12. /\ x.entries[t] = entry /\ x.looked[t] = o.looked[t] \cup {rev} /\ x.last[t] = rev
       /\ \A s \in DOMAIN o.entries \ {t} :
            x.entries[s] = o.entries[s] /\ x.looked[s] = o.looked[s] /\ x.last[s] = o.last[s]
  BY <1>3, <1>7
<1>13. Rewritten(x) = o.at /\ Rewritten(o) = o.at
  BY <1>2, <1>7 DEF Rewritten
<1>14. ASSUME NEW s \in DOMAIN x.entries
       PROVE  Origin(x, s) /\ Helped(x, s)
  <2>1. s \in DOMAIN o.entries /\ Origin(o, s) /\ Helped(o, s)
    BY <1>1, <1>2, <1>11, <1>14 DEF ListGood
  <2>2. CASE s # t
    <3>1. Origin(x, s)
      BY <2>1, <2>2, <1>7, <1>12, <1>13 DEF Origin
    <3>2. Helped(x, s)
      BY <2>1, <2>2, <1>3, <1>7, <1>12, <1>13 DEF Helped
    <3>3. QED
      BY <3>1, <3>2
  <2>3. CASE s = t
    <3>1. Helped(x, t)
      BY <1>12, <1>13 DEF Helped
    <3>2. t \notin Foreign
      BY ToolListsConstantsOK
    <3>3. CASE Renders(t, rev) /\ entry = Rendered(t, rev, o.at)
      BY <3>1, <3>2, <3>3, <2>3, <1>12, <1>13 DEF Origin
    <3>4. CASE entry = o.entries[t]
      BY <3>1, <3>4, <2>1, <2>3, <1>7, <1>12, <1>13 DEF Origin
    <3>5. QED
      BY <3>3, <3>4
  <2>4. QED
    BY <2>2, <2>3
<1>15. ListGood(x)
  BY <1>1, <1>2, <1>3, <1>7, <1>11, <1>14 DEF ListGood
<1>16. QED
  BY <1>1, <1>9, <1>10, <1>11, <1>15, ListStep

LEMMA RewriteKeeps ==
  ASSUME ListInv, NEW l \in Lists, Rewrite(l)
  PROVE  ListInv'
<1>1. Rewriting(l) /\ Next1(l) \in Targets
  BY DEF Rewrite
<1>2. PICK rev \in newest[Next1(l)] .. revs[Next1(l)] :
        /\ newest' = [newest EXCEPT ![Next1(l)] = rev]
        /\ IF Renders(Next1(l), rev)
           THEN Replace(l, Rendered(Next1(l), rev, list[l].at), rev)
           ELSE Keep(l, rev)
  BY DEF Rewrite
<1>3. newest \in [Targets -> Nat] /\ revs \in [Targets -> Nat]
  BY DEF ListInv, ListTypes
<1>4. rev \in Nat /\ newest' \in [Targets -> Nat]
  BY <1>1, <1>2, <1>3
<1>5. UNCHANGED <<server, revs>>
  BY <1>2 DEF Replace, Keep, Rewrite
<1>6. CASE Renders(Next1(l), rev)
  <2>1. Advance(l, Rendered(Next1(l), rev, list[l].at), rev)
    BY <1>2, <1>6 DEF Replace
  <2>2. QED
    BY <2>1, <1>1, <1>4, <1>5, <1>6, Advanced
<1>7. CASE ~Renders(Next1(l), rev)
  <2>1. Advance(l, list[l].entries[Next1(l)], rev)
    BY <1>2, <1>7 DEF Keep
  <2>2. QED
    BY <2>1, <1>1, <1>4, <1>5, <1>7, Advanced
<1>8. QED
  BY <1>6, <1>7

LEMMA SkipKeeps ==
  ASSUME ListInv, NEW l \in Lists, Skip(l)
  PROVE  ListInv'
<1> DEFINE o == list[l]
           x == [o EXCEPT !.todo = Tail(o.todo)]
<1>1. o \in ListRecord /\ ListGood(o) /\ DOMAIN o.entries \subseteq DOMAIN server
  BY DEF ListInv, ListTypes
<1>2. Rewriting(l) /\ Next1(l) \notin Targets /\ o.at \in {"mcp", "rest"}
  BY DEF Skip, Rewriting
<1>3. Tail(o.todo) \in Seq(AllTools) /\ ToSet(o.todo) = ToSet(Tail(o.todo)) \cup {Next1(l)}
  BY <1>2, TodoType
<1>4. x \in ListRecord /\ x.at = o.at /\ x.surface = o.surface /\ x.todo = Tail(o.todo)
      /\ x.entries = o.entries /\ x.looked = o.looked /\ x.last = o.last
  BY <1>1, <1>3 DEF ListRecord
<1>5. list' = [list EXCEPT ![l] = x] /\ UNCHANGED <<server, revs>> /\ newest' = newest
  BY DEF Skip
<1> HIDE DEF x
<1>6. \A s : Origin(o, s) => Origin(x, s)
  BY <1>4 DEF Origin, Rewritten
<1>7. \A s : Helped(o, s) => Helped(x, s)
  BY <1>2, <1>3, <1>4 DEF Helped, Rewritten
<1>8. ListGood(x)
  BY <1>1, <1>2, <1>3, <1>4, <1>6, <1>7 DEF ListGood
<1>9. QED
  BY <1>1, <1>4, <1>5, <1>8, ListStep DEF ListInv, ListTypes

\* What the encoder reads through the pointers of a list that is done.
LEMMA ResolvedEntries ==
  ASSUME ListInv, NEW l \in Lists, list[l].at \in {"mcp", "rest"}
  PROVE  /\ Resolved(l) \in Of(Entry)
         /\ DOMAIN Resolved(l) = Tools(l)
         /\ \A t \in Tools(l) :
              \/ Resolved(l)[t] = OfServer(t)
              \/ /\ t \in Targets /\ t \notin Foreign
                 /\ \E rev \in list[l].looked[t], surface \in {"mcp", list[l].at} :
                      Renders(t, rev) /\ Resolved(l)[t] = Rendered(t, rev, surface)
         /\ \A t \in Tools(l) :
              list[l].entries[t] # Pointer => Resolved(l)[t] = list[l].entries[t]
<1> DEFINE o == list[l]
<1>1. o \in ListRecord /\ ListGood(o) /\ Tools(l) \subseteq DOMAIN server
  BY DEF ListInv, ListTypes, Tools
<1>2. DOMAIN Resolved(l) = Tools(l) /\ Resolved(l) = [t \in Tools(l) |-> Resolved(l)[t]]
  BY DEF Resolved
<1>3. \A t \in Tools(l) :
        Resolved(l)[t] = IF o.entries[t] = Pointer THEN server[t] ELSE o.entries[t]
  BY DEF Resolved
<1>4. \A t \in Tools(l) : server[t] = OfServer(t)
  BY <1>1 DEF ListInv, ServerKept
<1>5. o.entries \in Of(Entry) /\ Tools(l) \subseteq AllTools
  BY <1>1, MapType DEF ListRecord, Tools
<1>6. \A t \in Tools(l) : Resolved(l)[t] \in Entry
  BY <1>3, <1>4, <1>5, ServerType, MapType DEF Tools
<1>7. Resolved(l) \in Of(Entry)
  BY <1>2, <1>5, <1>6, MapType
<1>8. ASSUME NEW t \in Tools(l), Resolved(l)[t] # OfServer(t)
      PROVE  /\ t \in Targets /\ t \notin Foreign
             /\ \E rev \in o.looked[t], surface \in {"mcp", o.at} :
                  Renders(t, rev) /\ Resolved(l)[t] = Rendered(t, rev, surface)
  <2>1. o.entries[t] # Pointer /\ Resolved(l)[t] = o.entries[t]
    BY <1>3, <1>4, <1>8
  <2>2. Origin(o, t)
    BY <1>1 DEF ListGood, Tools
  <2>3. t \notin Foreign /\ \E rev \in o.looked[t], surface \in {"mcp", Rewritten(o)} :
          Renders(t, rev) /\ o.entries[t] = Rendered(t, rev, surface)
    BY <1>8, <2>1, <2>2 DEF Origin
  <2>4. Rewritten(o) = o.at
    BY DEF Rewritten
  <2>5. t \in Targets
    BY <1>5, <2>3 DEF AllTools
  <2>6. QED
    BY <2>1, <2>3, <2>4, <2>5
<1>9. QED
  BY <1>2, <1>3, <1>7, <1>8

LEMMA EncodeKeeps ==
  ASSUME ListInv, NEW l \in Lists, Encode(l)
  PROVE  ListInv'
<1> DEFINE o == list[l]
<1>1. o \in ListRecord /\ ListGood(o) /\ Tools(l) \subseteq DOMAIN server
  BY DEF ListInv, ListTypes, Tools
<1>2. o.at \in {"mcp", "rest"} /\ o.todo = <<>> /\ UNCHANGED <<server, revs>> /\ newest' = newest
  BY DEF Encode
<1>3. /\ Resolved(l) \in Of(Entry)
      /\ DOMAIN Resolved(l) = Tools(l)
      /\ \A t \in Tools(l) :
           \/ Resolved(l)[t] = OfServer(t)
           \/ /\ t \in Targets /\ t \notin Foreign
              /\ \E rev \in o.looked[t], surface \in {"mcp", o.at} :
                   Renders(t, rev) /\ Resolved(l)[t] = Rendered(t, rev, surface)
      /\ \A t \in Tools(l) :
           o.entries[t] # Pointer => Resolved(l)[t] = o.entries[t]
  BY <1>2, ResolvedEntries
<1>4. DOMAIN o.looked = Tools(l) /\ DOMAIN o.last = Tools(l) /\ (o.at = "rest" => o.surface = "rest")
  BY <1>1, <1>2 DEF ListGood, Tools
<1>5. newest' \in [Targets -> Nat]
  BY <1>2 DEF ListInv, ListTypes
<1>6. CASE o.at = o.surface
  <2> DEFINE x == [o EXCEPT !.at = "listed", !.entries = Resolved(l)]
  <2>1. x \in ListRecord
    BY <1>1, <1>3 DEF ListRecord
  <2>2. /\ x.at = "listed" /\ x.surface = o.at /\ x.todo = <<>> /\ x.entries = Resolved(l)
        /\ x.looked = o.looked /\ x.last = o.last
    BY <1>1, <1>2, <1>6 DEF ListRecord
  <2>3. list' = [list EXCEPT ![l] = x]
    BY <1>6 DEF Encode
  <2> HIDE DEF x
  <2>4. Rewritten(x) = o.at /\ Rewritten(o) = o.at
    BY <1>2, <2>2 DEF Rewritten
  <2>5. ASSUME NEW t \in Tools(l) PROVE Origin(x, t)
    BY <1>3, <2>2, <2>4 DEF Origin
  <2>6. ASSUME NEW t \in Tools(l) PROVE Helped(x, t)
    <3> SUFFICES ASSUME t \in Targets, Renders(t, o.last[t])
                 PROVE  Resolved(l)[t] = Rendered(t, o.last[t], o.at)
      BY <2>2, <2>4 DEF Helped
    <3>1. ToSet(o.todo) = {}
      BY <1>2 DEF ToSet
    <3>2. o.entries[t] = Rendered(t, o.last[t], o.at)
      BY <1>1, <1>2, <2>4, <3>1 DEF ListGood, Helped, Tools
    <3>3. o.last[t] \in Nat
      BY <1>1, <1>4, MapType DEF ListRecord
    <3>4. QED
      BY <1>3, <3>2, <3>3, TextType
  <2>7. ListGood(x)
    BY <1>3, <1>4, <2>2, <2>5, <2>6 DEF ListGood, ToSet
  <2>8. QED
    BY <1>1, <1>2, <1>3, <1>5, <2>1, <2>2, <2>3, <2>7, ListStep
<1>7. CASE o.at # o.surface
  <2> DEFINE x == [o EXCEPT !.at = "rest", !.entries = Resolved(l), !.todo = SetToSeq(Tools(l))]
  <2>1. IsFiniteSet(Tools(l)) /\ Tools(l) \subseteq AllTools
    BY <1>1, ToolListsConstantsOK, FS_Union, FS_Subset DEF AllTools, ListInv, ServerKept
  <2>2. SetToSeq(Tools(l)) \in Seq(AllTools) /\ ToSet(SetToSeq(Tools(l))) = Tools(l)
    BY <2>1, AllListed
  <2>3. o.at = "mcp" /\ o.surface = "rest"
    BY <1>1, <1>2, <1>4, <1>7 DEF ListRecord, Surfaces
  <2>4. x \in ListRecord
    BY <1>1, <1>3, <2>2 DEF ListRecord
  <2>5. /\ x.at = "rest" /\ x.surface = "rest" /\ x.todo = SetToSeq(Tools(l))
        /\ x.entries = Resolved(l) /\ x.looked = o.looked /\ x.last = o.last
    BY <1>1, <2>3 DEF ListRecord
  <2>6. list' = [list EXCEPT ![l] = x]
    BY <1>7 DEF Encode
  <2> HIDE DEF x
  <2>7. Rewritten(x) = "rest"
    BY <2>5 DEF Rewritten
  <2>8. ASSUME NEW t \in Tools(l) PROVE Origin(x, t)
    BY <1>3, <2>3, <2>5, <2>7 DEF Origin
  <2>9. ASSUME NEW t \in Tools(l) PROVE Helped(x, t)
    BY <2>2, <2>5 DEF Helped
  <2>10. ListGood(x)
    BY <1>3, <1>4, <2>2, <2>5, <2>8, <2>9 DEF ListGood
  <2>11. QED
    BY <1>1, <1>2, <1>3, <1>5, <2>4, <2>5, <2>6, <2>10, ListStep
<1>8. QED
  BY <1>6, <1>7

LEMMA FailKeeps ==
  ASSUME ListInv, NEW l \in Lists, Fail(l)
  PROVE  ListInv'
<1> DEFINE x == [list[l] EXCEPT !.at = "failed"]
<1>1. list[l] \in ListRecord /\ DOMAIN list[l].entries \subseteq DOMAIN server
  BY DEF ListInv, ListTypes
<1>2. x \in ListRecord /\ x.at = "failed" /\ x.entries = list[l].entries
  BY <1>1 DEF ListRecord
<1>3. list' = [list EXCEPT ![l] = x] /\ UNCHANGED <<server, revs>> /\ newest' = newest
  BY DEF Fail
<1>4. ListGood(x)
  BY <1>2 DEF ListGood
<1>5. QED
  BY <1>1, <1>2, <1>3, <1>4, ListStep DEF ListInv, ListTypes

LEMMA PublishKeeps ==
  ASSUME ListInv, NEW t \in Targets, Publish(t)
  PROVE  ListInv'
<1>1. revs' \in [Targets -> Nat] /\ UNCHANGED <<server, newest, list>>
  BY DEF Publish, ListInv, ListTypes
<1>2. ListTypes' /\ ServerKept'
  BY <1>1 DEF ListInv, ListTypes, ServerKept
<1>3. QED
  BY <1>1, <1>2 DEF ListInv

LEMMA AddToolKeeps ==
  ASSUME ListInv, NEW t \in Foreign, AddTool(t)
  PROVE  ListInv'
<1>1. UNCHANGED <<revs, newest, list>>
  BY DEF AddTool
<1>2. ListTypes'
  BY <1>1 DEF ListInv, ListTypes
<1>3. DOMAIN server' = DOMAIN server \cup {t}
  BY DEF AddTool
<1>4. ServerKept'
  BY <1>3 DEF AddTool, ListInv, ServerKept, OfServer, AllTools
<1>5. QED
  BY <1>1, <1>2, <1>3, <1>4 DEF ListInv

LEMMA ListNext == ListInv /\ [Next]_listVars => ListInv'
<1> SUFFICES ASSUME ListInv, [Next]_listVars PROVE ListInv'
  OBVIOUS
<1>1. CASE UNCHANGED listVars
  <2>1. ListTypes' /\ ServerKept'
    BY <1>1 DEF ListInv, ListTypes, ServerKept, listVars
  <2>2. QED
    BY <1>1, <2>1 DEF ListInv, listVars
<1>2. ASSUME NEW t \in Targets, Publish(t) PROVE ListInv'
  BY <1>2, PublishKeeps
<1>3. ASSUME NEW t \in Foreign, AddTool(t) PROVE ListInv'
  BY <1>3, AddToolKeeps
<1>4. ASSUME NEW l \in Lists, NEW surface \in Surfaces, List(l, surface) PROVE ListInv'
  BY <1>4, ListKeeps
<1>5. ASSUME NEW l \in Lists, Rewrite(l) PROVE ListInv'
  BY <1>5, RewriteKeeps
<1>6. ASSUME NEW l \in Lists, Skip(l) PROVE ListInv'
  BY <1>6, SkipKeeps
<1>7. ASSUME NEW l \in Lists, Encode(l) PROVE ListInv'
  BY <1>7, EncodeKeeps
<1>8. ASSUME NEW l \in Lists, Fail(l) PROVE ListInv'
  BY <1>8, FailKeeps
<1>9. QED
  BY <1>1, <1>2, <1>3, <1>4, <1>5, <1>6, <1>7, <1>8 DEF Next, Done, Surfaces

-----------------------------------------------------------------------------
\* Types, the server's tools as they were registered, and where every entry of
\* every list comes from (help.go:111-149, tools.go:47-89).
THEOREM ListInvHolds == Spec => []ListInv
BY ListInit, ListNext, PTL DEF Spec

\* What a client is shown is the server's own text or was rendered for its
\* request from one revision of the help (help.go:111-140).
THEOREM EntriesAreOwnHolds == Spec => []EntriesAreOwn
<1>1. ListInv => EntriesAreOwn
  <2> SUFFICES ASSUME ListInv, NEW l \in Lists, Listed(l), NEW t \in Tools(l)
               PROVE  IF t \in Foreign THEN list[l].entries[t] = Embedders
                      ELSE \/ list[l].entries[t] = Registered
                           \/ \E rev \in list[l].looked[t], surface \in {"mcp", "rest"} :
                                /\ surface \in {"mcp", list[l].surface}
                                /\ Renders(t, rev)
                                /\ list[l].entries[t] = Rendered(t, rev, surface)
    BY DEF EntriesAreOwn
  <2>1. list[l].at = "listed" /\ Rewritten(list[l]) = list[l].surface /\ list[l].surface \in Surfaces
    BY DEF Listed, Rewritten, ListInv, ListTypes, ListRecord
  <2>2. Origin(list[l], t)
    BY <2>1 DEF ListInv, ListGood, Tools
  <2>3. QED
    BY <2>1, <2>2 DEF Origin, OfServer, Surfaces
<1>2. QED
  BY <1>1, ListInvHolds, PTL

\* A tool whose help renders shows it, in the words of the surface that was
\* asked (help.go:111-149, toolhelp.go:61-98).
THEOREM HelpReachesItsToolHolds == Spec => []HelpReachesItsTool
<1>1. ListInv => HelpReachesItsTool
  <2> SUFFICES ASSUME ListInv, NEW l \in Lists, Listed(l), NEW t \in Tools(l) \cap Targets,
                      Renders(t, list[l].last[t])
               PROVE  LET rev == list[l].last[t]
                          help == Help(t, rev)
                          shown == list[l].entries[t]
                      IN  /\ shown.title.rev = IF help.title = "" THEN 0 ELSE rev
                          /\ list[l].surface = "mcp" => shown.description.field = "description"
                          /\ list[l].surface = "rest" /\ shown.description.field = "description"
                                => help.restDescription = ""
                          /\ help.description # "" => shown.description.rev = rev
    BY DEF HelpReachesItsTool
  <2> DEFINE rev == list[l].last[t]
  <2>1. list[l].at = "listed" /\ Rewritten(list[l]) = list[l].surface /\ list[l].surface \in Surfaces
    BY DEF Listed, Rewritten, ListInv, ListTypes, ListRecord
  <2>2. list[l].todo = <<>> /\ Helped(list[l], t)
    BY <2>1 DEF ListInv, ListGood, Tools
  <2>3. list[l].entries[t] = Rendered(t, rev, list[l].surface)
    BY <2>1, <2>2 DEF Helped, ToSet
  <2>4. Rendered(t, rev, list[l].surface).title.rev = IF Help(t, rev).title = "" THEN 0 ELSE rev
    BY DEF Rendered, Template, Text
  <2>5. CASE list[l].surface = "mcp"
    <3>1. Rendered(t, rev, "mcp").description = Template(t, rev, "description")
      BY DEF Rendered
    <3>2. Template(t, rev, "description").field = "description"
      BY DEF Template, Text
    <3>3. Help(t, rev).description # "" => Template(t, rev, "description").rev = rev
      BY DEF Template, Text
    <3>4. QED
      BY <2>3, <2>4, <2>5, <3>1, <3>2, <3>3
  <2>6. CASE list[l].surface = "rest"
    <3>1. Rendered(t, rev, "rest").description = RestTemplate(t, rev)
      BY DEF Rendered
    <3>2. RestTemplate(t, rev).field = "description" => Help(t, rev).restDescription = ""
      BY DEF RestTemplate, Text
    <3>3. Help(t, rev).description # "" => RestTemplate(t, rev).rev = rev
      BY DEF RestTemplate, Text
    <3>4. QED
      BY <2>3, <2>4, <2>6, <3>1, <3>2, <3>3
  <2>7. QED
    BY <2>1, <2>5, <2>6 DEF Surfaces
<1>2. QED
  BY <1>1, ListInvHolds, PTL
=============================================================================
