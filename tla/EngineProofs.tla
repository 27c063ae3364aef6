------------------------------ MODULE EngineProofs ------------------------------
(***************************************************************************)
(* Proofs about what an engine serves: Catalog, for any documents,         *)
(* versions, ranks and templates, and RestContract, for any schemas,       *)
(* documents, options, names and redactions.                               *)
(*                                                                         *)
(* Nothing loaded is lost, nothing faulty is served, the latest version of *)
(* a plan is its newest, and tools, routes and OpenAPI documents lead to   *)
(* the entries they describe.  What is published of an entry shows nothing *)
(* of the engine's own, a request that follows it is admitted, both        *)
(* transports take the same inputs, an HTTP field means one thing, and a   *)
(* reply shows the mask in exactly the places that its pointers denote.    *)
(*                                                                         *)
(* VersionsOf, PickLatest, Valid, walk and applyRedact are loops, written  *)
(* as recursive functions.  What they compute is proved by induction, with *)
(* FromFirst below: it is stated for sets, and so needs no operator as a   *)
(* parameter.                                                              *)
(***************************************************************************)
EXTENDS Catalog, RestContract, SequenceTheorems, WellFoundedInduction, TLAPS

Faults == {"none", "parse", "validate", "collision", "schema"}

CatalogTypes ==
    /\ docs \in Seq(Documents)
    /\ name \in [Plans \X Versions -> Names \cup {NoName}]
    /\ phase \in {"load", "check", "query", "tools", "serving", "failed"}
    /\ next \in Nat \ {0}
    /\ entries \in Seq(1 .. Len(docs))
    /\ byKey \in [Plans \X Versions -> Nat]
    /\ latest \in [Plans -> Versions \cup {NoVersion}]
    /\ tools \in [Names -> Int]
    /\ targets = tools

-----------------------------------------------------------------------------
Kept(i) == docs[i].plan # NoPlan /\ docs[i].version # NoVersion

\* Document i went through AddSource: it is found, and has no fault that is
\* found there.
Entered(i) ==
    Kept(i) =>
        /\ byKey[Key(i)] = i
        /\ docs[i].version \in DOMAIN Rank
        /\ docs[i].fault \notin {"parse", "validate"}
        /\ \E n \in DOMAIN entries : entries[n] = i

\* Entry n went through RegisterTool.
Tooled(n) ==
    /\ docs[entries[n]].fault # "schema"
    /\ name[Key(entries[n])] \in Names
    /\ tools[name[Key(entries[n])]] = entries[n]

OfPlan(n, plan) == docs[entries[n]].plan = plan

VersionOf(n) == docs[entries[n]].version

\* What LatestIsNewest says, of the list of entries instead of byKey.
Newest(plan, version) ==
    IF \E n \in DOMAIN entries : OfPlan(n, plan)
    THEN /\ \E n \in DOMAIN entries : OfPlan(n, plan) /\ VersionOf(n) = version
         /\ \A n \in DOMAIN entries : OfPlan(n, plan) => Rank[VersionOf(n)] <= Rank[version]
    ELSE version = NoVersion

\* byKey leads to entries of the list, each under its own key.
KeysLeadToEntries ==
    \A k \in Plans \X Versions :
        byKey[k] # 0 => \E n \in DOMAIN entries : entries[n] = byKey[k] /\ Key(entries[n]) = k

CatalogInv ==
    /\ CatalogTypes
    /\ KeysLeadToEntries
    /\ \A n \in DOMAIN entries : Kept(entries[n])
    /\ phase = "load" => \A i \in DOMAIN docs : i < next => Entered(i)
    /\ phase \notin {"load", "failed"} => \A i \in DOMAIN docs : Entered(i)
    /\ phase \notin {"load", "failed"} => \A p \in Plans : Newest(p, latest[p])
    /\ phase \in {"query", "tools", "serving"} =>
         \A n \in DOMAIN entries : docs[entries[n]].fault # "collision"
    /\ phase = "tools" => \A n \in DOMAIN entries : n < next => Tooled(n)
    /\ phase = "serving" => \A n \in DOMAIN entries : Tooled(n)
    /\ \A n \in Names : tools[n] > 0 => \E m \in DOMAIN entries : entries[m] = tools[n]

\* What a document and an entry are.
LEMMA DocumentType ==
  ASSUME CatalogTypes, NEW i \in DOMAIN docs
  PROVE  /\ i \in 1 .. Len(docs) /\ i \in Nat /\ i > 0
         /\ docs[i].plan \in Plans \cup {NoPlan}
         /\ docs[i].version \in Versions \cup {NoVersion}
         /\ docs[i].fault \in Faults
         /\ Kept(i) => Key(i) \in Plans \X Versions
<1>1. docs[i] \in Documents /\ i \in 1 .. Len(docs) /\ Len(docs) \in Nat
  BY DEF CatalogTypes
<1>2. docs[i] \in [plan : Plans \cup {NoPlan}, version : Versions \cup {NoVersion},
                   workflows : SUBSET Workflows, fault : Faults]
  BY <1>1, CatalogConstantsOK DEF Faults
<1>3. QED
  BY <1>1, <1>2 DEF Kept, Key

\* Entries lead to documents.
LEMMA EntryType ==
  ASSUME CatalogTypes, NEW n \in DOMAIN entries
  PROVE  /\ n \in 1 .. Len(entries) /\ Len(entries) \in Nat
         /\ entries[n] \in DOMAIN docs /\ entries[n] > 0
BY DEF CatalogTypes

-----------------------------------------------------------------------------
(* What a loop computes. *)

\* Induction, for a set of numbers.
LEMMA FromFirst ==
  ASSUME NEW a \in Nat, NEW N \in Nat, NEW S, a \in S,
         \A n \in a .. N : n # a /\ n - 1 \in S => n \in S
  PROVE  \A n \in a .. N : n \in S
<1> DEFINE T == {n \in Nat : n \in a .. N /\ n \notin S}
<1> SUFFICES ASSUME T # {} PROVE FALSE
  OBVIOUS
<1>1. PICK m \in T : \A k \in T : ~ (<<k, m>> \in OpToRel(<, Nat))
  <2>1. T \subseteq Nat /\ IsWellFoundedOn(OpToRel(<, Nat), Nat)
    BY NatLessThanWellFounded
  <2> HIDE DEF T
  <2>2. QED
    BY <2>1, WFMin
<1>2. m \in Nat /\ m \in a .. N /\ m \notin S /\ m # a
  OBVIOUS
<1>3. m - 1 \in Nat /\ m - 1 < m /\ m - 1 \in a .. N
  BY <1>2
<1>4. <<m - 1, m>> \in OpToRel(<, Nat)
  BY <1>2, <1>3 DEF OpToRel
<1>5. m - 1 \notin T
  BY <1>1, <1>4
<1>6. m - 1 \in S
  BY <1>3, <1>5
<1>7. QED
  BY <1>2, <1>3, <1>6

\* f[n] is what the loop's variable holds after round n.
LoopOf(f, a, N, V, first, step) ==
    /\ f \in [a .. N -> V]
    /\ f[a] = first
    /\ \A n \in a .. N : n # a => f[n] = step[n][f[n - 1]]

\* A loop computes something.
LEMMA LoopRuns ==
  ASSUME NEW a \in Nat, NEW N \in Nat, a <= N, NEW V, NEW first \in V,
         NEW step \in [a .. N -> [V -> V]]
  PROVE  \E f : LoopOf(f, a, N, V, first, step)
<1> DEFINE S == {m \in Nat : m \in a .. N /\ \E f : LoopOf(f, a, m, V, first, step)}
<1>1. a \in S
  <2>1. LoopOf([n \in a .. a |-> first], a, a, V, first, step)
    BY DEF LoopOf
  <2>2. QED
    BY <2>1
<1>2. ASSUME NEW m \in a .. N, m # a, m - 1 \in S
      PROVE  m \in S
  <2>1. PICK f : LoopOf(f, a, m - 1, V, first, step)
    BY <1>2
  <2>2. m \in Nat /\ m \in a .. N /\ m - 1 \in a .. m - 1 /\ m - 1 \in Nat
    BY <1>2
  <2> DEFINE g == [n \in a .. m |-> IF n = m THEN step[m][f[m - 1]] ELSE f[n]]
  <2>3. \A n \in a .. m : g[n] = IF n = m THEN step[m][f[m - 1]] ELSE f[n]
    OBVIOUS
  <2>4. \A n \in a .. m - 1 : f[n] \in V
    BY <2>1 DEF LoopOf
  <2>5. step[m][f[m - 1]] \in V
    BY <2>2, <2>4
  <2>6. g \in [a .. m -> V]
    BY <2>2, <2>4, <2>5
  <2>7. g[a] = first
    BY <2>1, <2>2, <2>3 DEF LoopOf
  <2>8. ASSUME NEW n \in a .. m, n # a PROVE g[n] = step[n][g[n - 1]]
    <3>1. n - 1 \in a .. m /\ n \in a .. m /\ n - 1 # m
      BY <2>8
    <3>2. g[n - 1] = f[n - 1]
      BY <2>3, <3>1
    <3>3. CASE n = m
      BY <2>3, <3>1, <3>2, <3>3
    <3>4. CASE n # m
      <4>1. n \in a .. m - 1
        BY <3>4
      <4>2. f[n] = step[n][f[n - 1]]
        BY <2>1, <2>8, <4>1 DEF LoopOf
      <4>3. QED
        BY <2>3, <3>1, <3>2, <3>4, <4>2
    <3>5. QED
      BY <3>3, <3>4
  <2> HIDE DEF g
  <2>9. LoopOf(g, a, m, V, first, step)
    BY <2>6, <2>7, <2>8 DEF LoopOf
  <2>10. QED
    BY <2>2, <2>9
<1>3. N \in S
  <2> HIDE DEF S
  <2>1. \A n \in a .. N : n \in S
    BY <1>1, <1>2, FromFirst
  <2>2. QED
    BY <2>1
<1>4. PICK f : LoopOf(f, a, N, V, first, step)
  BY <1>3
<1>5. QED
  BY <1>4
\* computeLatest's loop collects the versions of a plan's entries
\* (catalog.go:192-195).
LEMMA VersionsAreLoaded ==
  ASSUME CatalogTypes, NEW plan \in Plans,
         \A n \in DOMAIN entries : docs[entries[n]].version \in DOMAIN Rank
  PROVE  /\ VersionsOf(plan) \in Seq(DOMAIN Rank)
         /\ {VersionsOf(plan)[m] : m \in DOMAIN VersionsOf(plan)} =
              {docs[entries[n]].version :
                 n \in {i \in DOMAIN entries : docs[entries[i]].plan = plan}}
<1> DEFINE N == Len(entries)
           vers[n \in 0 .. N] ==
             IF n = 0 THEN <<>>
             ELSE IF docs[entries[n]].plan = plan
                  THEN Append(vers[n - 1], docs[entries[n]].version) ELSE vers[n - 1]
           Loaded(n) == {docs[entries[m]].version :
                           m \in {i \in 1 .. n : docs[entries[i]].plan = plan}}
<1>1. N \in Nat /\ 0 \in Nat /\ 0 <= N /\ DOMAIN entries = 1 .. N
  BY DEF CatalogTypes
<1>2. VersionsOf(plan) = vers[N]
  BY DEF VersionsOf
<1> HIDE DEF N
<1>3. \E f : f = [n \in 0 .. N |->
             IF n = 0 THEN <<>>
             ELSE IF docs[entries[n]].plan = plan
                  THEN Append(f[n - 1], docs[entries[n]].version) ELSE f[n - 1]]
  <2> DEFINE V == Seq(DOMAIN Rank)
             step == [n \in 0 .. N |-> [s \in V |->
                        IF n = 0 THEN s
                        ELSE IF docs[entries[n]].plan = plan
                        THEN Append(s, docs[entries[n]].version) ELSE s]]
  <2>1. step \in [0 .. N -> [V -> V]]
    <3>1. \A n \in 0 .. N : n # 0 => docs[entries[n]].version \in DOMAIN Rank
      BY <1>1
    <3>2. ASSUME NEW n \in 0 .. N, NEW s \in V
          PROVE  (IF n = 0 THEN s
                  ELSE IF docs[entries[n]].plan = plan
                  THEN Append(s, docs[entries[n]].version) ELSE s) \in V
      <4>1. CASE n # 0 /\ docs[entries[n]].plan = plan
        <5>1. PICK v \in DOMAIN Rank : v = docs[entries[n]].version
          BY <3>1, <4>1
        <5>2. Append(s, v) \in V
          OBVIOUS
        <5> HIDE DEF V
        <5>3. QED
          BY <4>1, <5>1, <5>2
      <4>2. CASE ~ (n # 0 /\ docs[entries[n]].plan = plan)
        BY <4>2
      <4>3. QED
        BY <4>1, <4>2
    <3> HIDE DEF V
    <3>3. QED
      BY <3>2
  <2>2. \A n \in 0 .. N, s \in V :
          n # 0 => step[n][s] = IF docs[entries[n]].plan = plan
                                THEN Append(s, docs[entries[n]].version) ELSE s
    <3> HIDE DEF V
    <3>1. QED
      OBVIOUS
  <2>3. <<>> \in V
    OBVIOUS
  <2> HIDE DEF step, V, vers
  <2>4. PICK f : LoopOf(f, 0, N, V, <<>>, step)
    BY <1>1, <2>1, <2>3, LoopRuns
  <2>5. ASSUME NEW n \in 0 .. N
        PROVE  f[n] = IF n = 0 THEN <<>>
                      ELSE IF docs[entries[n]].plan = plan
                           THEN Append(f[n - 1], docs[entries[n]].version) ELSE f[n - 1]
    <3>1. CASE n = 0
      BY <2>4, <3>1 DEF LoopOf
    <3>2. CASE n # 0
      <4>1. n - 1 \in 0 .. N /\ f[n - 1] \in V
        BY <1>1, <2>4, <3>2 DEF LoopOf
      <4>2. QED
        BY <2>2, <2>4, <3>2, <4>1 DEF LoopOf
    <3>3. QED
      BY <3>1, <3>2
  <2>6. f = [n \in 0 .. N |->
             IF n = 0 THEN <<>>
             ELSE IF docs[entries[n]].plan = plan
                  THEN Append(f[n - 1], docs[entries[n]].version) ELSE f[n - 1]]
    BY <2>4, <2>5 DEF LoopOf
  <2>7. QED
    BY <2>6
<1>4. vers = [n \in 0 .. N |->
             IF n = 0 THEN <<>>
             ELSE IF docs[entries[n]].plan = plan
                  THEN Append(vers[n - 1], docs[entries[n]].version) ELSE vers[n - 1]]
  BY <1>3, Zenon
<1> HIDE DEF vers
<1> DEFINE S == {n \in 0 .. N : /\ vers[n] \in Seq(DOMAIN Rank)
                                /\ {vers[n][m] : m \in DOMAIN vers[n]} = Loaded(n)}
<1>5. 0 \in S
  <2>1. vers[0] = <<>> /\ 0 \in 0 .. N
    BY <1>1, <1>4
  <2>2. Loaded(0) = {}
    OBVIOUS
  <2>3. vers[0] \in Seq(DOMAIN Rank) /\ DOMAIN vers[0] = {}
    BY <2>1
  <2>4. QED
    BY <2>1, <2>2, <2>3
<1>6. ASSUME NEW n \in 0 .. N, n # 0, n - 1 \in S
      PROVE  n \in S
  <2>1. n \in 1 .. N /\ n - 1 \in 0 .. N /\ n \in Nat
    BY <1>1, <1>6
  <2>2. vers[n - 1] \in Seq(DOMAIN Rank)
        /\ {vers[n - 1][m] : m \in DOMAIN vers[n - 1]} = Loaded(n - 1)
    BY <1>6
  <2>3. docs[entries[n]].version \in DOMAIN Rank
    BY <1>1, <2>1
  <2>4. CASE docs[entries[n]].plan = plan
    <3>1. vers[n] = Append(vers[n - 1], docs[entries[n]].version)
      BY <1>4, <1>6, <2>4
    <3>2. Loaded(n) = Loaded(n - 1) \cup {docs[entries[n]].version}
      BY <2>1, <2>4
    <3>3. PICK s \in Seq(DOMAIN Rank), v \in DOMAIN Rank :
             s = vers[n - 1] /\ v = docs[entries[n]].version
      BY <2>2, <2>3
    <3>4. /\ Append(s, v) \in Seq(DOMAIN Rank)
          /\ DOMAIN Append(s, v) = DOMAIN s \cup {Len(s) + 1}
          /\ Append(s, v)[Len(s) + 1] = v
          /\ \A m \in DOMAIN s : Append(s, v)[m] = s[m]
      OBVIOUS
    <3>5. {Append(s, v)[m] : m \in DOMAIN Append(s, v)} = {s[m] : m \in DOMAIN s} \cup {v}
      BY <3>4
    <3>6. vers[n] = Append(s, v) /\ {s[m] : m \in DOMAIN s} = Loaded(n - 1)
      BY <2>2, <3>1, <3>3
    <3>7. Loaded(n) = Loaded(n - 1) \cup {v}
      BY <3>2, <3>3
    <3> HIDE DEF Loaded
    <3>8. {vers[n][m] : m \in DOMAIN vers[n]} = Loaded(n)
      BY <3>5, <3>6, <3>7
    <3>9. QED
      BY <2>1, <3>4, <3>6, <3>8
  <2>5. CASE docs[entries[n]].plan # plan
    <3>1. vers[n] = vers[n - 1]
      BY <1>4, <1>6, <2>5
    <3>2. Loaded(n) = Loaded(n - 1)
      BY <2>1, <2>5
    <3> HIDE DEF Loaded
    <3>3. QED
      BY <2>1, <2>2, <3>1, <3>2
  <2>6. QED
    BY <2>4, <2>5
<1>7. N \in S
  <2> HIDE DEF S
  <2>1. \A n \in 0 .. N : n \in S
    BY <1>1, <1>5, <1>6, FromFirst
  <2>2. QED
    BY <1>1, <2>1
<1>8. QED
  BY <1>1, <1>2, <1>7

\* pickLatest's loop keeps the index of the best version so far
\* (catalog.go:216-222).
LEMMA PickLatestPicks ==
  ASSUME NEW vers \in Seq(DOMAIN Rank)
  PROVE  IF vers = <<>> THEN PickLatest(vers) = NoVersion
         ELSE \E m \in DOMAIN vers :
                /\ PickLatest(vers) = vers[m]
                /\ \A n \in DOMAIN vers : Rank[vers[n]] <= Rank[vers[m]]
<1>1. CASE vers = <<>>
  BY <1>1 DEF PickLatest
<1>2. CASE vers # <<>>
  <2> DEFINE N == Len(vers)
             best[n \in 1 .. N] ==
               IF n = 1 THEN 1
               ELSE IF Rank[vers[n]] > Rank[vers[best[n - 1]]] THEN n ELSE best[n - 1]
  <2>1. N \in Nat /\ 1 <= N /\ DOMAIN vers = 1 .. N
    BY <1>2
  <2>2. \A n \in 1 .. N : Rank[vers[n]] \in Nat
    BY <2>1, CatalogConstantsOK
  <2>3. \E f : f = [n \in 1 .. N |->
               IF n = 1 THEN 1
               ELSE IF Rank[vers[n]] > Rank[vers[f[n - 1]]] THEN n ELSE f[n - 1]]
    <3> DEFINE step == [n \in 1 .. N |-> [b \in Nat |->
                          IF Rank[vers[n]] > Rank[vers[b]] THEN n ELSE b]]
    <3>1. step \in [1 .. N -> [Nat -> Nat]]
      <4>1. \A n \in 1 .. N : n \in Nat
        BY <2>1
      <4>2. QED
        BY <4>1
    <3>2. \A n \in 1 .. N, b \in Nat :
            step[n][b] = IF Rank[vers[n]] > Rank[vers[b]] THEN n ELSE b
      OBVIOUS
    <3> HIDE DEF step, N
    <3>3. PICK f : LoopOf(f, 1, N, Nat, 1, step)
      BY <2>1, <3>1, LoopRuns
    <3> HIDE DEF best
    <3>4. ASSUME NEW n \in 1 .. N
          PROVE  f[n] = IF n = 1 THEN 1
                        ELSE IF Rank[vers[n]] > Rank[vers[f[n - 1]]] THEN n ELSE f[n - 1]
      <4>1. CASE n = 1
        BY <2>1, <3>3, <4>1 DEF LoopOf
      <4>2. CASE n # 1
        <5>1. n - 1 \in 1 .. N /\ f[n - 1] \in Nat
          BY <2>1, <3>3, <4>2 DEF LoopOf
        <5>2. QED
          BY <3>2, <3>3, <4>2, <5>1 DEF LoopOf
      <4>3. QED
        BY <4>1, <4>2
    <3>5. f = [n \in 1 .. N |->
               IF n = 1 THEN 1
               ELSE IF Rank[vers[n]] > Rank[vers[f[n - 1]]] THEN n ELSE f[n - 1]]
      BY <3>3, <3>4 DEF LoopOf
    <3>6. QED
      BY <3>5
  <2>4. best = [n \in 1 .. N |->
               IF n = 1 THEN 1
               ELSE IF Rank[vers[n]] > Rank[vers[best[n - 1]]] THEN n ELSE best[n - 1]]
    BY <2>3, Zenon
  <2>5. PickLatest(vers) = vers[best[N]]
    BY <1>2 DEF PickLatest
  <2> HIDE DEF best, N
  <2> DEFINE S == {n \in 1 .. N :
                    /\ best[n] \in 1 .. n
                    /\ \A k \in 1 .. n : Rank[vers[k]] <= Rank[vers[best[n]]]}
  <2>6. 1 \in S
    <3>1. best[1] = 1
      BY <2>1, <2>4
    <3>2. QED
      BY <2>1, <2>2, <3>1
  <2>7. ASSUME NEW n \in 1 .. N, n # 1, n - 1 \in S
        PROVE  n \in S
    <3>1. n \in Nat /\ n \in 1 .. N /\ n # 1 /\ n - 1 \in Nat /\ n - 1 \in 1 .. N
      BY <2>1, <2>7
    <3>2. /\ best[n - 1] \in 1 .. n - 1
          /\ \A k \in 1 .. n - 1 : Rank[vers[k]] <= Rank[vers[best[n - 1]]]
      BY <2>7
    <3>3. best[n] = IF Rank[vers[n]] > Rank[vers[best[n - 1]]] THEN n ELSE best[n - 1]
      BY <2>4, <3>1
    <3>4. /\ best[n] \in 1 .. n /\ best[n - 1] \in 1 .. N
          /\ Rank[vers[best[n - 1]]] <= Rank[vers[best[n]]]
          /\ Rank[vers[n]] <= Rank[vers[best[n]]]
      BY <2>1, <2>2, <3>1, <3>2, <3>3
    <3>5. ASSUME NEW k \in 1 .. n PROVE Rank[vers[k]] <= Rank[vers[best[n]]]
      <4>1. CASE k = n
        BY <3>4, <4>1
      <4>2. CASE k # n
        <5>1. k \in 1 .. n - 1 /\ k \in 1 .. N /\ best[n] \in 1 .. N
          BY <2>1, <3>1, <3>4, <4>2
        <5>2. QED
          BY <2>2, <3>2, <3>4, <5>1
      <4>3. QED
        BY <4>1, <4>2
    <3>6. QED
      BY <3>1, <3>4, <3>5
  <2>8. N \in S
    <3> HIDE DEF S
    <3>1. \A n \in 1 .. N : n \in S
      BY <2>1, <2>6, <2>7, FromFirst
    <3>2. QED
      BY <2>1, <3>1
  <2>9. QED
    BY <1>2, <2>1, <2>5, <2>8
<1>3. QED
  BY <1>1, <1>2
\* pickLatest, of the versions of a plan, is the newest of them, or "" where
\* there are none (catalog.go:191-227).
LEMMA PickedIsNewest ==
  ASSUME CatalogTypes, NEW plan \in Plans,
         \A n \in DOMAIN entries : VersionOf(n) \in DOMAIN Rank
  PROVE  Newest(plan, PickLatest(VersionsOf(plan)))
<1>1. PICK vers \in Seq(DOMAIN Rank) : vers = VersionsOf(plan)
  BY VersionsAreLoaded DEF VersionOf
<1>2. {vers[m] : m \in DOMAIN vers} =
        {docs[entries[n]].version :
           n \in {i \in DOMAIN entries : docs[entries[i]].plan = plan}}
  BY <1>1, VersionsAreLoaded DEF VersionOf
<1>3. \A n \in DOMAIN entries : OfPlan(n, plan) =>
        \E m \in DOMAIN vers : vers[m] = VersionOf(n)
  BY <1>2 DEF OfPlan, VersionOf
<1>4. \A m \in DOMAIN vers : \E n \in DOMAIN entries :
        OfPlan(n, plan) /\ VersionOf(n) = vers[m]
  BY <1>2 DEF OfPlan, VersionOf
<1>5. CASE vers = <<>>
  <2>1. PickLatest(vers) = NoVersion
    BY <1>5, PickLatestPicks
  <2>2. DOMAIN vers = {}
    BY <1>5
  <2>3. QED
    BY <1>1, <1>3, <2>1, <2>2 DEF Newest
<1>6. CASE vers # <<>>
  <2>1. PICK m \in DOMAIN vers :
          /\ PickLatest(vers) = vers[m]
          /\ \A n \in DOMAIN vers : Rank[vers[n]] <= Rank[vers[m]]
    BY <1>6, PickLatestPicks
  <2>2. QED
    BY <1>1, <1>3, <1>4, <2>1 DEF Newest
<1>7. QED
  BY <1>5, <1>6

\* What is picked is a version, or none.
LEMMA PickedType ==
  ASSUME CatalogTypes, NEW plan \in Plans,
         \A n \in DOMAIN entries : VersionOf(n) \in DOMAIN Rank
  PROVE  PickLatest(VersionsOf(plan)) \in Versions \cup {NoVersion}
BY PickedIsNewest, CatalogConstantsOK DEF Newest

-----------------------------------------------------------------------------

\* It holds of an empty catalog.
LEMMA CatalogInit == Init => CatalogInv
<1> SUFFICES ASSUME Init PROVE CatalogInv
  OBVIOUS
<1>1. docs \in Seq(Documents)
  BY SeqDef DEF Init
<1>2. name \in [Plans \X Versions -> Names \cup {NoName}]
  BY CatalogConstantsOK DEF Init
<1>3. CatalogTypes
  BY <1>1, <1>2 DEF Init, CatalogTypes, NoTool
<1>4. QED
  BY <1>1, <1>3 DEF Init, CatalogInv, KeysLeadToEntries, NoTool

-----------------------------------------------------------------------------

\* A fault ends New, and disturbs nothing.
LEMMA AbortKeeps ==
  ASSUME CatalogInv, Abort
  PROVE  CatalogInv'
BY DEF CatalogInv, CatalogTypes, KeysLeadToEntries, Abort, Kept, Key

\* AddSource takes the next document in.
LEMMA AddSourceKeeps ==
  ASSUME CatalogInv, AddSource, ~Abort
  PROVE  CatalogInv'
<1>1. /\ CatalogTypes /\ phase = "load" /\ next \in DOMAIN docs /\ ~Rejected(next)
      /\ next' = next + 1
      /\ UNCHANGED <<docs, name, phase, latest, tools, targets>>
  BY DEF CatalogInv, CatalogTypes, AddSource
<1>2. CASE Skipped(docs[next])
  <2>1. UNCHANGED <<entries, byKey>> /\ ~Kept(next)
    BY <1>1, <1>2 DEF AddSource, Skipped, Kept
  <2>2. \A i \in DOMAIN docs : i < next + 1 => Entered(i)
    BY <1>1, <2>1, DocumentType DEF CatalogInv, Entered, CatalogTypes
  <2>3. CatalogTypes'
    BY <1>1, <2>1 DEF CatalogTypes
  <2>4. QED
    BY <1>1, <2>1, <2>2, <2>3 DEF CatalogInv, KeysLeadToEntries, Entered, Kept, Key
<1>3. CASE ~Skipped(docs[next])
  <2>1. /\ entries' = Append(entries, next) /\ byKey' = [byKey EXCEPT ![Key(next)] = next]
        /\ docs[next].fault \notin {"parse", "validate"}
        /\ Kept(next) /\ docs[next].version \in DOMAIN Rank /\ byKey[Key(next)] = 0
    BY <1>1, <1>3 DEF AddSource, Rejected, Skipped, Duplicate, Kept
  <2>2. /\ Key(next) \in Plans \X Versions /\ next \in 1 .. Len(docs) /\ next \in Nat
        /\ next > 0
    BY <1>1, <2>1, DocumentType
  <2>3. /\ entries' \in Seq(1 .. Len(docs))
        /\ DOMAIN entries' = DOMAIN entries \cup {Len(entries) + 1}
        /\ entries'[Len(entries) + 1] = next
        /\ \A n \in DOMAIN entries : entries'[n] = entries[n]
    BY <1>1, <2>1, <2>2 DEF CatalogTypes
  <2>4. CatalogTypes'
    BY <1>1, <2>1, <2>2, <2>3 DEF CatalogTypes
  <2>5. \A n \in DOMAIN entries' : Kept(entries'[n])
    BY <2>1, <2>3 DEF CatalogInv
  <2>6. ASSUME NEW i \in DOMAIN docs, i < next + 1
        PROVE  Entered(i)'
    <3>1. i \in Nat /\ i > 0 /\ (Kept(i) => Key(i) \in Plans \X Versions)
      BY <1>1, DocumentType
    <3>2. CASE i = next
      BY <1>1, <2>1, <2>2, <2>3, <3>2 DEF Entered, Kept, Key, CatalogTypes
    <3>3. CASE i # next
      <4>1. Entered(i)
        BY <1>1, <2>2, <2>6, <3>1, <3>3 DEF CatalogInv
      <4>2. Kept(i) => Key(i) # Key(next)
        BY <2>1, <3>1, <4>1 DEF Entered
      <4>3. Kept(i) => byKey'[Key(i)] = i
        BY <1>1, <2>1, <3>1, <4>1, <4>2 DEF Entered, CatalogTypes
      <4>4. QED
        BY <1>1, <2>3, <4>1, <4>3 DEF Entered, Kept, Key
    <3>4. QED
      BY <3>2, <3>3
  <2>7. \A n \in Names : tools[n] > 0 => \E m \in DOMAIN entries' : entries'[m] = tools[n]
    BY <2>3 DEF CatalogInv
  <2>8. KeysLeadToEntries'
    <3> SUFFICES ASSUME NEW k \in Plans \X Versions, byKey'[k] # 0
                 PROVE  \E n \in DOMAIN entries' : entries'[n] = byKey'[k] /\ Key(entries'[n]) = k
      BY <1>1 DEF KeysLeadToEntries, Key
    <3>1. CASE k = Key(next)
      BY <2>1, <2>2, <2>3, <3>1 DEF CatalogInv, CatalogTypes
    <3>2. CASE k # Key(next)
      <4>1. byKey'[k] = byKey[k]
        BY <1>1, <2>1, <3>2 DEF CatalogTypes
      <4>2. PICK n \in DOMAIN entries : entries[n] = byKey[k] /\ Key(entries[n]) = k
        BY <4>1 DEF CatalogInv, KeysLeadToEntries
      <4>3. n \in DOMAIN entries' /\ entries'[n] = entries[n]
        BY <2>3
      <4>4. QED
        BY <4>1, <4>2, <4>3
    <3>3. QED
      BY <3>1, <3>2
  <2>9. QED
    BY <1>1, <2>4, <2>5, <2>6, <2>7, <2>8 DEF CatalogInv, Kept
<1>4. QED
  BY <1>2, <1>3

\* The steps that only go on.
LEMMA ChecksKeep ==
  ASSUME CatalogInv, ComputeLatest \/ CheckCatalog \/ Serve, ~Abort
  PROVE  CatalogInv'
<1>1. /\ CatalogTypes /\ KeysLeadToEntries
      /\ UNCHANGED <<docs, name, next, entries, byKey, tools, targets>>
      /\ \A n \in DOMAIN docs : n \in 1 .. Len(docs) /\ Len(docs) \in Nat
      /\ \A n \in DOMAIN entries : n \in 1 .. Len(entries) /\ Len(entries) \in Nat
  BY DEF CatalogInv, CatalogTypes, ComputeLatest, CheckCatalog, Serve
<1>2. /\ \A i : Kept(i)' = Kept(i) /\ Entered(i)' = Entered(i) /\ Tooled(i)' = Tooled(i)
      /\ KeysLeadToEntries'
  BY <1>1 DEF Kept, Entered, Tooled, KeysLeadToEntries, Key
<1>3. \A p, v : Newest(p, v)' = Newest(p, v)
  BY <1>1 DEF Newest, OfPlan, VersionOf
<1>4. CASE ComputeLatest
  <2>1. /\ phase = "load" /\ phase' = "check" /\ \A i \in DOMAIN docs : i < next
        /\ latest' = [p \in Plans |-> PickLatest(VersionsOf(p))]
    BY <1>1, <1>4 DEF ComputeLatest, CatalogTypes
  <2>2. \A i \in DOMAIN docs : Entered(i)
    BY <2>1 DEF CatalogInv
  <2>3. \A n \in DOMAIN entries : VersionOf(n) \in DOMAIN Rank
    BY <1>1, <2>2, EntryType DEF CatalogInv, Entered, VersionOf
  <2>4. CatalogTypes'
    <3>1. latest' \in [Plans -> Versions \cup {NoVersion}]
      BY <1>1, <2>1, <2>3, PickedType
    <3>2. QED
      BY <1>1, <2>1, <3>1 DEF CatalogTypes
  <2>5. \A p \in Plans : Newest(p, latest'[p])
    BY <1>1, <2>1, <2>3, PickedIsNewest
  <2>6. \A p \in Plans : Newest(p, latest[p])'
    BY <1>3, <2>5
  <2>7. QED
    BY <1>1, <1>2, <2>1, <2>2, <2>4, <2>6 DEF CatalogInv
<1>5. CASE CheckCatalog
  <2>1. /\ phase = "check" /\ phase' = "query" /\ UNCHANGED latest
        /\ \A n \in DOMAIN entries : docs[entries[n]].fault # "collision"
    BY <1>5 DEF CheckCatalog
  <2>2. CatalogTypes' /\ \A p : Newest(p, latest[p])' = Newest(p, latest[p])
    BY <1>1, <2>1 DEF CatalogTypes, Newest, OfPlan, VersionOf
  <2>3. QED
    BY <1>1, <1>2, <2>1, <2>2 DEF CatalogInv
<1>6. CASE Serve
  <2>1. /\ phase = "tools" /\ phase' = "serving" /\ UNCHANGED latest
        /\ \A n \in DOMAIN entries : n < next
    BY <1>1, <1>6 DEF Serve, CatalogTypes
  <2>2. CatalogTypes' /\ \A p : Newest(p, latest[p])' = Newest(p, latest[p])
    BY <1>1, <2>1 DEF CatalogTypes, Newest, OfPlan, VersionOf
  <2>3. QED
    BY <1>1, <1>2, <2>1, <2>2 DEF CatalogInv
<1>7. QED
  BY <1>4, <1>5, <1>6

\* The query tool, if there is one, is no entry's.
LEMMA RegisterQueryKeeps ==
  ASSUME CatalogInv, RegisterQuery
  PROVE  CatalogInv'
<1>1. /\ CatalogTypes /\ phase = "query" /\ phase' = "tools" /\ next' = 1
      /\ UNCHANGED <<docs, name, entries, byKey, latest>>
      /\ \A n \in DOMAIN entries : n \in 1 .. Len(entries) /\ Len(entries) \in Nat
  BY DEF CatalogInv, CatalogTypes, RegisterQuery
<1>2. /\ tools' \in [Names -> Int] /\ targets' = tools'
      /\ \A n \in Names : tools'[n] > 0 => tools[n] > 0 /\ tools'[n] = tools[n]
  BY <1>1, CatalogConstantsOK DEF RegisterQuery, CatalogTypes, Query
<1>3. CatalogTypes'
  BY <1>1, <1>2 DEF CatalogTypes
<1>4. /\ \A i : Kept(i)' = Kept(i) /\ Entered(i)' = Entered(i)
      /\ \A p : Newest(p, latest[p])' = Newest(p, latest[p])
      /\ KeysLeadToEntries' = KeysLeadToEntries
  BY <1>1 DEF Kept, Entered, Key, KeysLeadToEntries, Newest, OfPlan, VersionOf
<1>5. QED
  BY <1>1, <1>2, <1>3, <1>4 DEF CatalogInv

\* RegisterTool adds the tool of the next entry.
LEMMA RegisterToolKeeps ==
  ASSUME CatalogInv, RegisterTool, ~Abort
  PROVE  CatalogInv'
<1> DEFINE i == entries[next]
           n == name[Key(i)]
<1>1. /\ CatalogTypes /\ phase = "tools" /\ next \in DOMAIN entries
      /\ n # NoName /\ ~NameTaken(next) /\ docs[i].fault # "schema"
      /\ tools' = [tools EXCEPT ![n] = i] /\ targets' = [targets EXCEPT ![n] = i]
      /\ next' = next + 1
      /\ UNCHANGED <<docs, name, phase, entries, byKey, latest>>
  BY DEF CatalogInv, CatalogTypes, RegisterTool
<1>2. i \in DOMAIN docs /\ i > 0 /\ i \in Int /\ Kept(i) /\ Key(i) \in Plans \X Versions
  BY <1>1, EntryType, DocumentType DEF CatalogInv
<1>3. n \in Names
  BY <1>1, <1>2 DEF CatalogTypes
<1>4. /\ tools' \in [Names -> Int] /\ targets' = tools' /\ tools'[n] = i
      /\ \A m \in Names \ {n} : tools'[m] = tools[m]
  BY <1>1, <1>2, <1>3 DEF CatalogTypes
<1>5. CatalogTypes'
  BY <1>1, <1>4 DEF CatalogTypes
<1>6. /\ \A j : Kept(j)' = Kept(j) /\ Entered(j)' = Entered(j)
      /\ \A p : Newest(p, latest[p])' = Newest(p, latest[p])
      /\ KeysLeadToEntries' = KeysLeadToEntries
  BY <1>1 DEF Kept, Entered, Key, KeysLeadToEntries, Newest, OfPlan, VersionOf
<1>7. ASSUME NEW m \in DOMAIN entries, m < next + 1
      PROVE  Tooled(m)'
  <2>1. m \in 1 .. Len(entries) /\ Len(entries) \in Nat /\ next \in Nat
    BY <1>1 DEF CatalogTypes
  <2>2. CASE m = next
    BY <1>1, <1>3, <1>4, <2>2 DEF Tooled, Key
  <2>3. CASE m # next
    <3>1. Tooled(m) /\ m \in 1 .. next - 1
      BY <1>1, <1>7, <2>1, <2>3 DEF CatalogInv
    <3>2. name[Key(entries[m])] # n
      BY <1>1, <3>1 DEF NameTaken
    <3>3. QED
      BY <1>1, <1>4, <3>1, <3>2 DEF Tooled, Key
  <2>4. QED
    BY <2>2, <2>3
<1>8. \A m \in Names : tools'[m] > 0 => \E k \in DOMAIN entries : entries[k] = tools'[m]
  BY <1>1, <1>4 DEF CatalogInv
<1>9. QED
  BY <1>1, <1>5, <1>6, <1>7, <1>8 DEF CatalogInv

\* Every step of New keeps it.
LEMMA CatalogStep == CatalogInv /\ [Next]_catalogVars => CatalogInv'
<1> SUFFICES ASSUME CatalogInv, [Next]_catalogVars PROVE CatalogInv'
  OBVIOUS
<1>1. CASE Abort
  BY <1>1, AbortKeeps
<1>2. CASE UNCHANGED catalogVars
  BY <1>2 DEF catalogVars, CatalogInv, CatalogTypes, KeysLeadToEntries, Kept, Entered, Tooled,
                 Key, Newest, OfPlan, VersionOf
<1>3. CASE ~Abort /\ Next
  BY <1>3, AddSourceKeeps, ChecksKeep, RegisterQueryKeeps, RegisterToolKeeps
     DEF Next, LoaderFails
<1>4. QED
  BY <1>1, <1>2, <1>3

-----------------------------------------------------------------------------

\* Each step of engine.New has dealt with the documents and entries before
\* `next`, and only with good ones.
THEOREM CatalogInvHolds == Spec => []CatalogInv
BY CatalogInit, CatalogStep, PTL DEF Spec

\* An engine that serves has every document that names a plan and a version,
\* under that plan and version, and none of them is faulty
\* (catalog.go:54-132, engine.go:335-377).
THEOREM ServesWhatItLoadedHolds == Spec => []ServesWhatItLoaded
<1>1. CatalogInv => ServesWhatItLoaded
  <2> SUFFICES ASSUME CatalogInv, phase = "serving", NEW i \in DOMAIN docs, Kept(i)
               PROVE  /\ Get(docs[i].plan, docs[i].version) = i
                      /\ docs[i].version \in DOMAIN Rank
                      /\ docs[i].fault = "none"
    BY DEF ServesWhatItLoaded, Kept
  <2>1. Entered(i)
    BY DEF CatalogInv
  <2>2. PICK n \in DOMAIN entries : entries[n] = i
    BY <2>1 DEF Entered
  <2>3. docs[i].fault \notin {"collision", "schema"}
    BY <2>2 DEF CatalogInv, Tooled
  <2>4. docs[i].fault \in Faults
    BY DocumentType DEF CatalogInv
  <2>5. QED
    BY <2>1, <2>3, <2>4 DEF Entered, Get, Key, Faults
<1>2. QED
  BY <1>1, CatalogInvHolds, PTL

\* Every plan version has a tool of its own name that runs it, and every plan
\* tool is of one (mcp.go:70-117, help.go:82-86).
THEOREM ToolsReachEntriesHolds == Spec => []ToolsReachEntries
<1>1. CatalogInv => ToolsReachEntries
  BY DEF CatalogInv, CatalogTypes, Tooled, ToolsReachEntries
<1>2. QED
  BY <1>1, CatalogInvHolds, PTL

-----------------------------------------------------------------------------

\* The entries of a catalog that is served are those that byKey finds, and
\* the latest version of a plan that has one is an entry.
LEMMA ServedEntries ==
  ASSUME CatalogInv, phase = "serving"
  PROVE  /\ \A n \in DOMAIN entries :
              /\ entries[n] \in Nat /\ entries[n] # 0
              /\ Key(entries[n]) \in Plans \X Versions
              /\ byKey[Key(entries[n])] = entries[n]
              /\ VersionOf(n) \in DOMAIN Rank
         /\ \A plan \in Plans, version \in Versions : Get(plan, version) # 0 =>
              \E n \in DOMAIN entries : OfPlan(n, plan) /\ VersionOf(n) = version
<1>1. ASSUME NEW n \in DOMAIN entries
      PROVE  /\ entries[n] \in Nat /\ entries[n] # 0
             /\ Key(entries[n]) \in Plans \X Versions
             /\ byKey[Key(entries[n])] = entries[n]
             /\ VersionOf(n) \in DOMAIN Rank
  <2>1. /\ CatalogTypes /\ entries[n] \in DOMAIN docs /\ Kept(entries[n])
        /\ Entered(entries[n])
    BY EntryType DEF CatalogInv
  <2>2. entries[n] \in Nat /\ entries[n] > 0 /\ Key(entries[n]) \in Plans \X Versions
    BY <2>1, DocumentType
  <2>3. QED
    BY <2>1, <2>2 DEF Entered, VersionOf
<1>2. ASSUME NEW plan \in Plans, NEW version \in Versions, Get(plan, version) # 0
      PROVE  \E n \in DOMAIN entries : OfPlan(n, plan) /\ VersionOf(n) = version
  <2>1. PICK n \in DOMAIN entries : Key(entries[n]) = <<plan, version>>
    BY <1>2 DEF CatalogInv, KeysLeadToEntries, Get
  <2>2. QED
    BY <2>1 DEF Key, OfPlan, VersionOf
<1>3. QED
  BY <1>1, <1>2

\* The latest entry of a plan is a newest one,
LEMMA LatestEntry ==
  ASSUME CatalogInv, phase = "serving", NEW plan \in Plans, latest[plan] # NoVersion
  PROVE  \E n \in DOMAIN entries :
           /\ OfPlan(n, plan) /\ Latest(plan) = entries[n] /\ entries[n] # 0
           /\ \A m \in DOMAIN entries : OfPlan(m, plan) =>
                Rank[VersionOf(m)] <= Rank[latest[plan]]
<1>1. Newest(plan, latest[plan])
  BY DEF CatalogInv
<1>2. PICK n \in DOMAIN entries : OfPlan(n, plan) /\ VersionOf(n) = latest[plan]
  BY <1>1 DEF Newest
<1>3. Key(entries[n]) = <<plan, latest[plan]>>
  BY <1>2 DEF Key, OfPlan, VersionOf
<1>4. Latest(plan) = entries[n] /\ entries[n] # 0
  BY <1>3, ServedEntries DEF Latest, Get
<1>5. QED
  BY <1>1, <1>2, <1>4 DEF Newest

\* and there is none only if no entry is of the plan.
LEMMA NoLatest ==
  ASSUME CatalogInv, phase = "serving", NEW plan \in Plans, latest[plan] = NoVersion
  PROVE  \A n \in DOMAIN entries : ~ OfPlan(n, plan)
<1>1. Newest(plan, NoVersion)
  BY DEF CatalogInv
<1>2. \A n \in DOMAIN entries : VersionOf(n) # NoVersion
  BY ServedEntries, CatalogConstantsOK
<1>3. QED
  BY <1>1, <1>2 DEF Newest

\* The latest version of a plan is one that is loaded, and no loaded version
\* outranks it, in whatever order the documents came (catalog.go:191-227).
THEOREM LatestIsNewestHolds == Spec => []LatestIsNewest
<1>1. CatalogInv => LatestIsNewest
  <2> SUFFICES ASSUME CatalogInv, phase = "serving", NEW plan \in Plans
               PROVE  IF \E v \in DOMAIN Rank : Get(plan, v) # 0
                      THEN /\ Latest(plan) # 0
                           /\ \A v \in DOMAIN Rank :
                                Get(plan, v) # 0 => Rank[v] <= Rank[latest[plan]]
                      ELSE Latest(plan) = 0
    BY DEF LatestIsNewest
  <2>1. \A v \in DOMAIN Rank : Get(plan, v) # 0 =>
          \E n \in DOMAIN entries : OfPlan(n, plan) /\ VersionOf(n) = v
    BY ServedEntries, CatalogConstantsOK
  <2>2. CASE latest[plan] = NoVersion
    <3>1. \A n \in DOMAIN entries : ~ OfPlan(n, plan)
      BY <2>2, NoLatest
    <3>2. Latest(plan) = 0
      BY <2>2 DEF Latest
    <3>3. QED
      BY <2>1, <3>1, <3>2
  <2>3. CASE latest[plan] # NoVersion
    <3>1. PICK n \in DOMAIN entries :
            /\ OfPlan(n, plan) /\ Latest(plan) = entries[n] /\ entries[n] # 0
            /\ \A m \in DOMAIN entries : OfPlan(m, plan) =>
                 Rank[VersionOf(m)] <= Rank[latest[plan]]
      BY <2>3, LatestEntry
    <3>2. Get(plan, VersionOf(n)) # 0 /\ VersionOf(n) \in DOMAIN Rank
      BY <3>1, ServedEntries DEF Get, Key, OfPlan, VersionOf
    <3>3. QED
      BY <2>1, <3>1, <3>2
  <2>4. QED
    BY <2>2, <2>3
<1>2. QED
  BY <1>1, CatalogInvHolds, PTL

-----------------------------------------------------------------------------

\* A path without its workflow.
LEMMA PrefixIs ==
  ASSUME NEW S, NEW s \in Seq(S), NEW t \in Seq(S), Len(t) <= Len(s),
         \A n \in DOMAIN t : s[n] = t[n]
  PROVE  SubSeq(s, 1, Len(t)) = t
<1> DEFINE u == SubSeq(s, 1, Len(t))
<1>1. u \in Seq(S) /\ Len(u) = Len(t) /\ \A n \in 1 .. Len(t) : u[n] = t[n]
  OBVIOUS
<1> HIDE DEF u
<1>2. u = t
  BY <1>1, SeqEqual
<1>3. QED
  BY <1>2 DEF u

\* The address of a version in a path,
LEMMA VersionedAddress ==
  ASSUME NEW a, NEW b, NEW w
  PROVE  SubSeq(<<a, b, w>>, 1, 2) = <<a, b>>
<1> DEFINE S == {a, b, w}
<1>1. PICK s, t : s = <<a, b, w>> /\ t = <<a, b>>
  OBVIOUS
<1>2. s \in Seq(S) /\ t \in Seq(S) /\ Len(s) = 3 /\ Len(t) = 2 /\ DOMAIN t = 1 .. 2
  BY <1>1
<1>3. s[1] = t[1] /\ s[2] = t[2]
  BY <1>1
<1> HIDE DEF S
<1>4. SubSeq(s, 1, 2) = t
  BY <1>2, <1>3, PrefixIs
<1>5. QED
  BY <1>1, <1>4

\* and that of the latest one.
LEMMA LatestAddress ==
  ASSUME NEW a, NEW w
  PROVE  SubSeq(<<a, w>>, 1, 1) = <<a>>
<1> DEFINE S == {a, w}
<1>1. PICK s, t : s = <<a, w>> /\ t = <<a>>
  OBVIOUS
<1>2. s \in Seq(S) /\ t \in Seq(S) /\ Len(s) = 2 /\ Len(t) = 1 /\ DOMAIN t = 1 .. 1
  BY <1>1
<1>3. s[1] = t[1]
  BY <1>1
<1> HIDE DEF S
<1>4. SubSeq(s, 1, 1) = t
  BY <1>2, <1>3, PrefixIs
<1>5. QED
  BY <1>1, <1>4

\* A child document of an entry has a path for each workflow, and each of
\* these paths runs its workflow on the entry (openapi.go:106-173,
\* plans.go:82-168).
LEMMA VersionDocument ==
  ASSUME CatalogInv, phase = "serving", NEW n \in DOMAIN entries
  PROVE  {<<path[3], Executes(path)>> :
            path \in OpenAPIJSON(<<docs[entries[n]].plan, VersionSegment(entries[n])>>)}
           = docs[entries[n]].workflows \X {entries[n]}
<1> DEFINE i == entries[n]
           doc == <<docs[i].plan, VersionSegment(i)>>
           pathOf(w) == <<docs[i].plan, VersionSegment(i), w>>
           W == docs[i].workflows
<1>1. i # 0 /\ EntryAt(doc) = i
  BY ServedEntries DEF EntryAt, GetBySegment, VersionSegment, Get, Key
<1>2. OpenAPIJSON(doc) = {pathOf(w) : w \in W}
  BY <1>1 DEF OpenAPIJSON, executePath
<1>3. ASSUME NEW w \in W
      PROVE  pathOf(w)[3] = w /\ Executes(pathOf(w)) = i
  <2> DEFINE path == pathOf(w)
  <2>1. Len(path) = 3 /\ Len(path) - 1 = 2 /\ path[3] = w
    OBVIOUS
  <2>2. SubSeq(path, 1, 2) = doc
    BY VersionedAddress
  <2>3. w \in docs[i].workflows
    OBVIOUS
  <2> HIDE DEF path, pathOf, doc, i
  <2>4. Executes(path) = i
    BY <1>1, <2>1, <2>2, <2>3 DEF Executes
  <2>5. QED
    BY <2>1, <2>4 DEF path
<1> HIDE DEF pathOf, W, doc, i
<1>4. {<<path[3], Executes(path)>> : path \in OpenAPIJSON(doc)} = {<<w, i>> : w \in W}
  BY <1>2, <1>3
<1>5. {<<w, i>> : w \in W} = W \X {i}
  OBVIOUS
<1>6. QED
  BY <1>4, <1>5 DEF W, doc, i

\* What the index refers to is in the latest document of its plan, and runs on
\* the latest version (openapi.go:262-286, plans.go:82-103).
LEMMA IndexDocument ==
  ASSUME CatalogInv, phase = "serving", NEW ref \in CatalogOpenAPIJSON
  PROVE  /\ ref.path \in OpenAPIJSON(ref.doc)
         /\ Executes(ref.path) = Latest(ref.path[1])
<1>1. PICK plan \in Plans : \E w \in docs[Latest(plan)].workflows :
        /\ latest[plan] # NoVersion
        /\ ref = [doc |-> <<plan>>, path |-> executePath(Latest(plan), w, TRUE)]
  BY DEF CatalogOpenAPIJSON
<1>2. PICK w \in docs[Latest(plan)].workflows :
        /\ latest[plan] # NoVersion
        /\ ref = [doc |-> <<plan>>, path |-> executePath(Latest(plan), w, TRUE)]
  BY <1>1
<1>3. Latest(plan) # 0 /\ docs[Latest(plan)].plan = plan
  BY <1>2, LatestEntry DEF OfPlan
<1>4. ref.doc = <<plan>> /\ ref.path = <<plan, w>>
  BY <1>2, <1>3 DEF executePath
<1>5. EntryAt(<<plan>>) = Latest(plan)
  BY DEF EntryAt
<1>6. <<plan, w>> \in OpenAPIJSON(<<plan>>)
  BY <1>2, <1>3, <1>5 DEF OpenAPIJSON, executePath
<1>7. Executes(<<plan, w>>) = Latest(plan)
  <2> DEFINE path == <<plan, w>>
  <2>1. Len(path) = 2 /\ Len(path) - 1 = 1 /\ path[2] = w
    OBVIOUS
  <2>2. SubSeq(path, 1, 1) = <<plan>>
    BY LatestAddress
  <2> HIDE DEF path
  <2>3. Executes(path) = Latest(plan)
    BY <1>2, <1>3, <1>5, <2>1, <2>2 DEF Executes
  <2>4. QED
    BY <2>3 DEF path
<1>8. QED
  BY <1>4, <1>6, <1>7

\* Both surfaces lead to the catalog's entries: tools, routes and documents,
\* those of versions and those of the latest one (mcp.go:70-117,
\* openapi.go:106-286, plans.go:82-168).
THEOREM SurfacesReachEntriesHolds == Spec => []SurfacesReachEntries
<1>1. CatalogInv => DocumentsReachEntries
  BY VersionDocument, IndexDocument DEF DocumentsReachEntries
<1>2. QED
  BY <1>1, CatalogInvHolds, ToolsReachEntriesHolds, PTL DEF SurfacesReachEntries

-----------------------------------------------------------------------------
(* RestContract: what an engine that serves has checked, and what became  *)
(* of a call.                                                              *)

\* What engine.New has found out when it goes on to a stage.
OptionsPassed ==
    /\ NormalizeRESTCommonParams(host.options.common)
    /\ \A s \in Range(host.options.schemes) :
         LocationsOf(s) \cap keysOf(Range(host.options.common)) = {}

DocumentLoaded ==
    /\ ~walkXSource(host.workflow.inputs)
    /\ ~outputFault(host.workflow.out)

CommonParamsPassed ==
    \A p \in Range(lifted) : ~collides(p, keysOf(Range(host.options.common)))

SecurityPassed ==
    \A s \in Range(host.options.schemes) : \A p \in Range(lifted) : ~collides(p, LocationsOf(s))

Stages == {"options", "load", "common", "schemes", "security", "serving", "failed"}

RestInv ==
    /\ host \in Cases
    /\ stage \in Stages
    /\ stage \notin {"options", "failed"} => OptionsPassed
    /\ stage \notin {"options", "load", "failed"} => DocumentLoaded
    /\ stage \in {"schemes", "security", "serving"} => CommonParamsPassed
    /\ stage \in {"security", "serving"} => SecurityPassed
    /\ call.at \in {"idle", "sent", "running", "refused", "replied"}
    /\ call.at = "sent" => call.req \in Requests
    /\ call.at = "running" => /\ call.req \in Requests /\ refusal(call.req) = "none"
                              /\ call.inputs = inputsOf(call.req)
    /\ call.at = "refused" => refusal(call.req) # "none"
    /\ call.at = "replied" => call.reply = replyTo(call.req)

\* The predicates above are about the host, which no step changes.
LEMMA HostRemains ==
  ASSUME RestNext
  PROVE  /\ host' = host
         /\ OptionsPassed' = OptionsPassed /\ CommonParamsPassed' = CommonParamsPassed
         /\ SecurityPassed' = SecurityPassed /\ DocumentLoaded' = DocumentLoaded
<1>1. host' = host
  BY DEF RestNext, CheckOptions, LoadDocument, CheckCommonParamCollisions, CheckSecurityCollisions,
         CheckWorkflowSecurity, Unless, Send, Run, Reply, Forget, NotBuilt, restVars
<1>2. OptionsPassed' = OptionsPassed
  BY <1>1 DEF OptionsPassed
<1>3. lifted' = lifted
  BY <1>1 DEF lifted
<1>4. CommonParamsPassed' = CommonParamsPassed
  BY <1>1, <1>3 DEF CommonParamsPassed
<1>5. SecurityPassed' = SecurityPassed
  BY <1>1, <1>3 DEF SecurityPassed
<1>6. DocumentLoaded' = DocumentLoaded
  BY <1>1 DEF DocumentLoaded
<1> QED
  BY <1>1, <1>2, <1>4, <1>5, <1>6

\* So are a request's fate and its reply.
LEMMA RequestRemains ==
  ASSUME host' = host, call'.req = call.req
  PROVE  /\ refusal(call.req)' = refusal(call.req)
         /\ inputsOf(call.req)' = inputsOf(call.req)
         /\ replyTo(call.req)' = replyTo(call.req)
         /\ Requests' = Requests
<1>1. lifted' = lifted /\ InputSchema' = InputSchema /\ operation' = operation
  BY DEF lifted, InputSchema, operation, operationSecurity
<1>2. inputsOf(call.req)' = inputsOf(call.req)
  BY <1>1 DEF inputsOf, Bound
<1>3. refusal(call.req)' = refusal(call.req)
  BY <1>1, <1>2 DEF refusal, PassesSDK, checkWorkflowScopes, mergeFault, Bound, rejectUnexpectedInputs
<1>4. replyTo(call.req)' = replyTo(call.req)
  BY DEF replyTo, SplitRESTOutputs
<1>5. Requests' = Requests
  BY <1>1 DEF Requests, Places
<1> QED
  BY <1>2, <1>3, <1>4, <1>5

\* It holds of a case of which nothing was checked yet.
LEMMA RestInvInit == RestInit => RestInv
BY DEF RestInit, RestInv, Stages, NoCall

\* Each check of New adds what it checked, and each step of a call
\* what became of it.
LEMMA RestInvStep == RestInv /\ [RestNext]_restVars => RestInv'
<1> SUFFICES ASSUME RestInv, [RestNext]_restVars PROVE RestInv'
  OBVIOUS
<1>1. CASE UNCHANGED restVars
  <2>1. host' = host /\ stage' = stage /\ call' = call
    BY <1>1 DEF restVars
  <2>2. /\ OptionsPassed' = OptionsPassed /\ CommonParamsPassed' = CommonParamsPassed
        /\ SecurityPassed' = SecurityPassed /\ DocumentLoaded' = DocumentLoaded
    BY <2>1 DEF OptionsPassed, CommonParamsPassed, SecurityPassed, DocumentLoaded, lifted
  <2>3. QED
    BY <2>1, <2>2, RequestRemains DEF RestInv
<1>2. CASE RestNext
  <2>1. /\ host' = host
        /\ OptionsPassed' = OptionsPassed /\ CommonParamsPassed' = CommonParamsPassed
        /\ SecurityPassed' = SecurityPassed /\ DocumentLoaded' = DocumentLoaded
    BY <1>2, HostRemains
  <2>2. CASE call' = call
    <3>1. stage' \in Stages /\ (stage' \notin {"options", "failed"} => OptionsPassed)
      BY <1>2, <2>2 DEF RestNext, RestInv, CheckOptions, LoadDocument, CheckCommonParamCollisions,
         CheckSecurityCollisions, CheckWorkflowSecurity, Unless, Send, Run, Reply, Forget, NotBuilt,
         restVars, Stages, OptionsPassed
    <3>2. stage' \in {"schemes", "security", "serving"} => CommonParamsPassed
      BY <1>2, <2>2 DEF RestNext, RestInv, CheckOptions, LoadDocument, CheckCommonParamCollisions,
         CheckSecurityCollisions, CheckWorkflowSecurity, Unless, Send, Run, Reply, Forget, NotBuilt,
         restVars, Stages, CommonParamsPassed
    <3>3. stage' \in {"security", "serving"} => SecurityPassed
      BY <1>2, <2>2 DEF RestNext, RestInv, CheckOptions, LoadDocument, CheckCommonParamCollisions,
         CheckSecurityCollisions, CheckWorkflowSecurity, Unless, Send, Run, Reply, Forget, NotBuilt,
         restVars, Stages, SecurityPassed
    <3>4. stage' \notin {"options", "load", "failed"} => DocumentLoaded
      BY <1>2, <2>2 DEF RestNext, RestInv, CheckOptions, LoadDocument, CheckCommonParamCollisions,
         CheckSecurityCollisions, CheckWorkflowSecurity, Unless, Send, Run, Reply, Forget, NotBuilt,
         restVars, Stages, DocumentLoaded
    <3>5. QED
      BY <2>1, <2>2, <3>1, <3>2, <3>3, <3>4, RequestRemains DEF RestInv
  <2>3. ASSUME Send PROVE RestInv'
    <3>1. PICK r \in Requests : call' = [at |-> "sent", req |-> r] /\ stage' = stage
      BY <2>3 DEF Send
    <3>2. Requests' = Requests
      BY <2>1 DEF Requests, Places, operation, operationSecurity
    <3>3. QED
      BY <2>1, <3>1, <3>2 DEF RestInv
  <2>4. ASSUME Run PROVE RestInv'
    <3>1. /\ call' = [at |-> IF refusal(call.req) = "none" THEN "running" ELSE "refused",
                      req |-> call.req, inputs |-> inputsOf(call.req)]
          /\ stage' = stage /\ call.req \in Requests
      BY <2>4 DEF Run, RestInv
    <3>2. call'.req = call.req
      BY <3>1
    <3>3. QED
      BY <2>1, <3>1, <3>2, RequestRemains DEF RestInv
  <2>5. ASSUME Reply PROVE RestInv'
    <3>1. /\ call' = [at |-> "replied", req |-> call.req, inputs |-> call.inputs,
                      reply |-> replyTo(call.req)]
          /\ stage' = stage
      BY <2>5 DEF Reply
    <3>2. call'.req = call.req
      BY <3>1
    <3>3. QED
      BY <2>1, <3>1, <3>2, RequestRemains DEF RestInv
  <2>6. ASSUME Forget PROVE RestInv'
    BY <2>1, <2>6 DEF Forget, NoCall, RestInv
  <2>7. QED
    BY <1>2, <2>2, <2>3, <2>4, <2>5, <2>6
       DEF RestNext, CheckOptions, LoadDocument, CheckCommonParamCollisions,
           CheckSecurityCollisions, CheckWorkflowSecurity, Unless, NotBuilt, restVars
<1>3. QED
  BY <1>1, <1>2

\* What engine.New checked holds of every engine that serves, and a
\* call was refused, went through or was answered as refusal and replyTo say of
\* its request, for every case (engine.go:288-310, runner.go:104-135,
\* policy.go:438-461).
THEOREM RestInvHolds == RestSpec => []RestInv
BY RestInvInit, RestInvStep, PTL DEF RestSpec

\* What New compared keeps the fields of an operation apart.
LEMMA RestFields == RestInv => FieldsMeanOneThing
<1> SUFFICES ASSUME RestInv, stage = "serving" PROVE FieldsMeanOneThing
  BY DEF FieldsMeanOneThing
<1> DEFINE common == host.options.common
<1>1. OptionsPassed /\ CommonParamsPassed /\ SecurityPassed
  BY DEF RestInv
<1>2. keysOf(Range(lifted)) \cap keysOf(Range(common)) = {}
  BY <1>1 DEF CommonParamsPassed, collides, keysOf
<1>3. ASSUME NEW s \in Range(host.options.schemes)
      PROVE  LocationsOf(s) \cap (keysOf(Range(lifted)) \cup keysOf(Range(common))) = {}
  BY <1>1 DEF OptionsPassed, SecurityPassed, collides, keysOf
<1>4. Distinct(common, LAMBDA p : restCommonParamKey(p.in, p.name))
  BY <1>1 DEF OptionsPassed, NormalizeRESTCommonParams
<1> QED
  BY <1>2, <1>3, <1>4 DEF FieldsMeanOneThing
\* A node for each of some places.
IsNodes(s) ==
    /\ s \in [DOMAIN s -> Node]
    /\ \A p \in DOMAIN s : p \in Seq(Parts \X STRING)

\* No source is left where walks come by.
Clean(s) == \A p \in DOMAIN s : Through(p, Visited) => s[p].source = NoSource

\* A place is the step to a top-level property and a place in that.
LEMMA InProperty ==
  ASSUME NEW p \in Seq(Parts \X STRING), p # <<>>
  PROVE  /\ <<Head(p)>> \o Tail(p) = p
         /\ Tail(p) \in Seq(Parts \X STRING) /\ Head(p) \in Parts \X STRING
         /\ Head(p) = p[1]
<1>1. Len(p) \in Nat /\ Len(p) > 0 /\ Head(p) = p[1] /\ p[1] \in Parts \X STRING
  BY EmptySeq
<1>2. Tail(p) \in Seq(Parts \X STRING) /\ Len(Tail(p)) = Len(p) - 1
      /\ \A i \in 1 .. Len(Tail(p)) : Tail(p)[i] = p[i + 1]
  BY HeadTailProperties
<1>3. <<p[1]>> \in Seq(Parts \X STRING) /\ Len(<<p[1]>>) = 1 /\ <<p[1]>>[1] = p[1]
  BY <1>1
<1> DEFINE q == <<p[1]>> \o Tail(p)
<1>4. q \in Seq(Parts \X STRING) /\ Len(q) = Len(p)
  BY <1>1, <1>2, <1>3
<1>5. ASSUME NEW i \in 1 .. Len(p)
      PROVE  q[i] = p[i]
  <2>1. CASE i = 1
    BY <1>3, <1>2, <2>1
  <2>2. CASE i > 1
    <3>1. i - 1 \in 1 .. Len(Tail(p)) /\ (i - 1) + 1 = i
      BY <1>1, <1>2, <2>2
    <3>2. q[i] = Tail(p)[i - 1]
      BY <1>2, <1>3, <2>2, <3>1
    <3>3. QED
      BY <1>2, <3>1, <3>2
  <2>3. QED
    BY <2>1, <2>2
<1> HIDE DEF q
<1>6. q = p
  BY <1>4, <1>5, SeqEqual
<1> QED
  BY <1>1, <1>2, <1>6 DEF q

\* Stripping takes the sources where it comes by, and nothing else.
LEMMA StripCleans ==
  ASSUME NEW s, IsNodes(s)
  PROVE  /\ DOMAIN stripVendorInputAttrs(s) = DOMAIN s
         /\ Clean(stripVendorInputAttrs(s))
         /\ \A p \in DOMAIN s : \/ stripVendorInputAttrs(s)[p] = s[p]
                                \/ stripVendorInputAttrs(s)[p] = [s[p] EXCEPT !.source = NoSource]
<1>1. /\ DOMAIN stripVendorInputAttrs(s) = DOMAIN s
      /\ \A p \in DOMAIN s :
           stripVendorInputAttrs(s)[p] =
             IF Through(p, Visited) THEN [s[p] EXCEPT !.source = NoSource] ELSE s[p]
  BY DEF stripVendorInputAttrs
<1>2. \A p \in DOMAIN s : s[p] \in Node
  BY DEF IsNodes
<1>3. ASSUME NEW n \in Node
      PROVE  [n EXCEPT !.source = NoSource].source = NoSource
  BY DEF Node
<1>4. Clean(stripVendorInputAttrs(s))
  BY <1>1, <1>2, <1>3 DEF Clean
<1> QED
  BY <1>1, <1>4

\* What is decoded for the tool is a schema of nodes again.
LEMMA DecodedNodes ==
  ASSUME NEW s, IsNodes(s)
  PROVE  IsNodes(decodeConsumerInputSchema(s))
<1>1. ASSUME NEW t, IsNodes(t)
      PROVE  IsNodes(stripReservedInputSchema(t))
  BY <1>1 DEF IsNodes, stripReservedInputSchema, Node
<1>2. ASSUME NEW t, IsNodes(t)
      PROVE  IsNodes(closeConsumerInputSchema(t))
  BY <1>2 DEF IsNodes, closeConsumerInputSchema, Node
<1> QED
  BY <1>1, <1>2 DEF decodeConsumerInputSchema

\* So is the body without what was lifted,
LEMMA BodyNodes ==
  ASSUME NEW s, IsNodes(s), NEW keys
  PROVE  IsNodes(bodyWithout(s, keys))
BY DEF IsNodes, bodyWithout, Node

\* and the schema of a property.
LEMMA PropNodes ==
  ASSUME NEW s, IsNodes(s), NEW k
  PROVE  IsNodes(Prop(s, k))
<1> DEFINE D == {Tail(q) : q \in {r \in DOMAIN s : r # <<>> /\ Head(r) = <<"props", k>>}}
<1>1. ASSUME NEW p \in D
      PROVE  p \in Seq(Parts \X STRING) /\ s[Top(k) \o p] \in Node
  <2>1. PICK q \in DOMAIN s : q # <<>> /\ Head(q) = <<"props", k>> /\ p = Tail(q)
    OBVIOUS
  <2>2. q \in Seq(Parts \X STRING)
    BY DEF IsNodes
  <2>3. Top(k) \o p = q /\ p \in Seq(Parts \X STRING)
    BY <2>1, <2>2, InProperty DEF Top
  <2>4. QED
    BY <2>3 DEF IsNodes
<1>2. Prop(s, k) = [p \in D |-> s[Top(k) \o p]]
  BY DEF Prop
<1> HIDE DEF D
<1> QED
  BY <1>1, <1>2 DEF IsNodes

\* The schema of anything has no source and no properties.
LEMMA AnythingClean ==
  /\ Clean(Anything) /\ DOMAIN Anything = {<<>>} /\ Anything[<<>>] = AnyNode
  /\ Props(Anything) = {}
<1>1. DOMAIN Anything = {<<>>} /\ Anything[<<>>] = AnyNode
  BY DEF Anything
<1>2. Props(Anything) = {}
  BY <1>1 DEF Props, PropsAt, Children
<1>3. Clean(Anything)
  <2>1. AnyNode.source = NoSource
    BY DEF AnyNode
  <2>2. QED
    BY <1>1, <2>1 DEF Clean
<1> QED
  BY <1>1, <1>2, <1>3

\* A place in a top-level property, taken apart.
LEMMA BelowTop ==
  ASSUME NEW k, NEW A, NEW q \in Seq(A)
  PROVE  /\ Top(k) \o q # <<>>
         /\ Head(Top(k) \o q) = <<"props", k>>
         /\ Tail(Top(k) \o q) = q
<1> DEFINE B == A \cup {<<"props", k>>}
           t == Top(k)
           p == t \o q
<1>1. t \in Seq(B) /\ Len(t) = 1 /\ t[1] = <<"props", k>> /\ q \in Seq(B)
  BY DEF Top
<1> HIDE DEF t, B
<1>2. p \in Seq(B) /\ Len(p) = 1 + Len(q) /\ p[1] = <<"props", k>>
      /\ \A i \in 1 .. Len(q) : p[i + 1] = q[i]
  <2>1. /\ p \in Seq(B) /\ Len(p) = Len(t) + Len(q)
        /\ \A i \in 1 .. Len(t) + Len(q) : p[i] = IF i <= Len(t) THEN t[i] ELSE q[i - Len(t)]
    BY <1>1, ConcatProperties
  <2> HIDE DEF p
  <2>2. Len(q) \in Nat /\ Len(t) = 1
    BY <1>1
  <2>3. p[1] = t[1]
    BY <2>1, <2>2
  <2>4. ASSUME NEW i \in 1 .. Len(q)
        PROVE  p[i + 1] = q[i]
    <3>1. i + 1 \in 1 .. Len(t) + Len(q) /\ ~(i + 1 <= Len(t)) /\ (i + 1) - Len(t) = i
      BY <2>2
    <3>2. QED
      BY <2>1, <3>1
  <2>5. QED
    BY <1>1, <2>1, <2>2, <2>3, <2>4
<1>3. Len(q) \in Nat /\ p # <<>>
  BY <1>2
<1> HIDE DEF p
<1>4. Head(p) = p[1] /\ Tail(p) \in Seq(B) /\ Len(Tail(p)) = Len(q)
      /\ \A i \in 1 .. Len(Tail(p)) : Tail(p)[i] = p[i + 1]
  BY <1>2, <1>3, HeadTailProperties
<1>5. Tail(p) = q
  BY <1>1, <1>2, <1>4, SeqEqual
<1> QED
  BY <1>2, <1>3, <1>4, <1>5 DEF p, t

\* Walks that come by a place in a property come by it in the property's schema.
LEMMA ThroughTop ==
  ASSUME NEW k, NEW A, NEW q \in Seq(A), NEW parts, Through(Top(k) \o q, parts)
  PROVE  Through(q, parts)
<1> DEFINE B == A \cup {<<"props", k>>}
           t == Top(k)
           p == t \o q
<1>1. t \in Seq(B) /\ Len(t) = 1 /\ q \in Seq(B)
  BY DEF Top
<1> HIDE DEF t, B
<1>2. /\ p \in Seq(B) /\ Len(p) = Len(t) + Len(q)
      /\ \A i \in 1 .. Len(t) + Len(q) : p[i] = IF i <= Len(t) THEN t[i] ELSE q[i - Len(t)]
  BY <1>1, ConcatProperties
<1>3. Through(p, parts)
  BY DEF p, t
<1> HIDE DEF p
<1>4. ASSUME NEW i \in DOMAIN q
      PROVE  q[i][1] \in parts
  <2>1. i \in 1 .. Len(q) /\ Len(q) \in Nat
    BY <1>1
  <2>2. i + 1 \in 1 .. Len(t) + Len(q) /\ ~(i + 1 <= Len(t)) /\ (i + 1) - Len(t) = i
    BY <1>1, <2>1
  <2>3. p[i + 1] = q[i] /\ i + 1 \in DOMAIN p
    BY <1>2, <2>2
  <2>4. QED
    BY <1>3, <2>3 DEF Through
<1> QED
  BY <1>4 DEF Through

\* What splitOpenAPIInputs and splitOpenAPIOutputs hand out has no x-source left.
LEMMA InputsClean ==
  ASSUME NEW s, IsNodes(s)
  PROVE  /\ Clean(nodeToJSON(s))
         /\ Clean(splitOpenAPIInputs(s).body)
         /\ \A k \in DOMAIN splitOpenAPIInputs(s).params :
              Clean(splitOpenAPIInputs(s).params[k].schema)
<1> DEFINE d == decodeConsumerInputSchema(s)
           keys == {k \in Props(d) : liftsInput(SourceOf(d, k))}
<1>1. IsNodes(d)
  BY DecodedNodes
<1>2. Clean(nodeToJSON(s))
  BY <1>1, StripCleans DEF nodeToJSON
<1>3. splitOpenAPIInputs(s).body = stripVendorInputAttrs(bodyWithout(d, keys))
  BY DEF splitOpenAPIInputs
<1>4. /\ DOMAIN splitOpenAPIInputs(s).params = keys
      /\ \A k \in keys :
           splitOpenAPIInputs(s).params[k].schema = stripVendorInputAttrs(Prop(d, k))
  BY DEF splitOpenAPIInputs
<1> HIDE DEF d, keys
<1>5. Clean(splitOpenAPIInputs(s).body)
  BY <1>1, <1>3, BodyNodes, StripCleans
<1>6. ASSUME NEW k \in keys
      PROVE  Clean(splitOpenAPIInputs(s).params[k].schema)
  BY <1>1, <1>4, PropNodes, StripCleans
<1> QED
  BY <1>2, <1>4, <1>5, <1>6

\* No schema of an output has a source left, in the body or in a header.
LEMMA OutputsClean ==
  ASSUME NEW out, out.schema = <<>> \/ IsNodes(out.schema[1])
  PROVE  /\ Clean(splitOpenAPIOutputs(out).body)
         /\ \A k \in DOMAIN splitOpenAPIOutputs(out).params :
              Clean(splitOpenAPIOutputs(out).params[k].schema)
<1> DEFINE s == IF out.schema = <<>> THEN Anything ELSE out.schema[1]
           keys == LiftedOutputs(s)
           Declared(k) == IF k \in Props(s) THEN stripVendorInputAttrs(Prop(s, k)) ELSE Anything
           A == Parts \X STRING
<1>1. s = Anything \/ IsNodes(s)
  OBVIOUS
<1>2. /\ splitOpenAPIOutputs(out).body =
            ObjectOf(out.names \ keys, Declared, s[<<>>].required \ keys)
      /\ DOMAIN splitOpenAPIOutputs(out).params = keys
      /\ \A k \in keys : splitOpenAPIOutputs(out).params[k].schema = Declared(k)
  BY DEF splitOpenAPIOutputs
<1> HIDE DEF s, keys
<1>3. ASSUME NEW k
      PROVE  Clean(Declared(k)) /\ \A p \in DOMAIN Declared(k) : p \in Seq(A)
  <2>1. CASE k \notin Props(s)
    <3>1. Declared(k) = Anything
      BY <2>1
    <3>2. <<>> \in Seq(A)
      BY EmptySeq
    <3>3. QED
      BY <3>1, <3>2, AnythingClean
  <2>2. CASE k \in Props(s)
    <3>1. IsNodes(Prop(s, k))
      BY <1>1, <2>2, AnythingClean, PropNodes
    <3>2. /\ Clean(stripVendorInputAttrs(Prop(s, k)))
          /\ DOMAIN stripVendorInputAttrs(Prop(s, k)) = DOMAIN Prop(s, k)
      BY <3>1, StripCleans
    <3>3. QED
      BY <2>2, <3>1, <3>2 DEF IsNodes
  <2>3. QED
    BY <2>1, <2>2
<1> HIDE DEF Declared
<1>4. ASSUME NEW names, NEW required
      PROVE  Clean(ObjectOf(names, Declared, required))
  <2> DEFINE D == {<<>>} \cup UNION {{Top(k) \o q : q \in DOMAIN Declared(k)} : k \in names}
             o == ObjectOf(names, Declared, required)
  <2>1. /\ DOMAIN o = D
        /\ \A p \in D : o[p] = IF p = <<>> THEN [AnyNode EXCEPT !.type = "object", !.required = required]
                               ELSE Declared(Head(p)[2])[Tail(p)]
    BY DEF ObjectOf
  <2> HIDE DEF o
  <2>2. ASSUME NEW p \in D, Through(p, Visited)
        PROVE  o[p].source = NoSource
    <3>1. CASE p = <<>>
      <4>1. [AnyNode EXCEPT !.type = "object", !.required = required].source = NoSource
        BY DEF AnyNode
      <4>2. QED
        BY <2>1, <3>1, <4>1
    <3>2. CASE p # <<>>
      <4>1. PICK k \in names : \E q \in DOMAIN Declared(k) : p = Top(k) \o q
        BY <3>2
      <4>2. PICK q \in DOMAIN Declared(k) : p = Top(k) \o q
        BY <4>1
      <4>3. Head(p) = <<"props", k>> /\ Tail(p) = q
        BY <1>3, <4>2, BelowTop
      <4>4. Head(p)[2] = k
        BY <4>3
      <4>5. o[p] = Declared(Head(p)[2])[Tail(p)]
        BY <2>1, <3>2
      <4>6. o[p] = Declared(k)[q]
        BY <4>3, <4>4, <4>5
      <4>7. Declared(k)[q].source = NoSource
        <5>1. q \in Seq(A)
          BY <1>3, <4>2
        <5>2. Through(q, Visited)
          BY <2>2, <4>2, <5>1, ThroughTop
        <5>3. QED
          BY <1>3, <4>2, <5>2 DEF Clean
      <4>8. QED
        BY <4>6, <4>7
    <3>3. QED
      BY <3>1, <3>2
  <2>3. QED
    BY <2>1, <2>2 DEF Clean, o
<1> QED
  BY <1>2, <1>3, <1>4

\* Reserved names are gone where the inputs are described.
NothingReserved(s) ==
    \A p \in {q \in DOMAIN s : Through(q, SameLevel)} :
        Reserved \cap (PropsAt(s, p) \cup s[p].required) = {}

\* Stripping leaves no reserved name where inputs are described.
LEMMA StripsReserved ==
  ASSUME NEW s, IsNodes(s)
  PROVE  NothingReserved(stripReservedInputSchema(s))
<1> DEFINE r == stripReservedInputSchema(s)
<1>1. /\ \A q \in DOMAIN r : q \in DOMAIN s
      /\ \A q \in DOMAIN r : \A i \in DOMAIN q :
            ~ (q[i][1] = "props" /\ q[i][2] \in Reserved /\ Through(SubSeq(q, 1, i - 1), SameLevel))
      /\ \A q \in DOMAIN r : Through(q, SameLevel) => r[q] = [s[q] EXCEPT !.required = @ \ Reserved]
  BY DEF stripReservedInputSchema, Passes
<1> HIDE DEF r
<1>2. ASSUME NEW p \in DOMAIN r, Through(p, SameLevel)
      PROVE  Reserved \cap (PropsAt(r, p) \cup r[p].required) = {}
  <2>1. s[p] \in Node
    BY <1>1, <1>2 DEF IsNodes
  <2>2. r[p].required = s[p].required \ Reserved
    BY <1>1, <1>2, <2>1 DEF Node
  <2>3. ASSUME NEW k \in PropsAt(r, p)
        PROVE  k \notin Reserved
    <3>1. PICK q \in DOMAIN r : q # <<>> /\ Front(q) = p /\ Last(q)[1] = "props" /\ Last(q)[2] = k
      BY <2>3 DEF PropsAt, Children
    <3>2. q \in Seq(Parts \X STRING) /\ Len(q) \in DOMAIN q
      <4>1. q \in Seq(Parts \X STRING)
        BY <1>1, <3>1 DEF IsNodes
      <4>2. QED
        BY <4>1, <3>1, EmptySeq
    <3>3. QED
      BY <1>1, <1>2, <3>1, <3>2 DEF Front, Last
  <2>4. QED
    BY <2>2, <2>3
<1> QED
  BY <1>2 DEF NothingReserved, r

\* Nor does a schema that declares and requires less.
LEMMA NothingComesBack ==
  ASSUME NEW s, NEW t, NothingReserved(s), DOMAIN t \subseteq DOMAIN s,
         \A p \in DOMAIN t : t[p].required \subseteq s[p].required
  PROVE  NothingReserved(t)
<1>1. ASSUME NEW p \in DOMAIN t, Through(p, SameLevel)
      PROVE  Reserved \cap (PropsAt(t, p) \cup t[p].required) = {}
  <2>1. PropsAt(t, p) \subseteq PropsAt(s, p)
    BY DEF PropsAt, Children
  <2>2. Reserved \cap (PropsAt(s, p) \cup s[p].required) = {}
    BY <1>1 DEF NothingReserved
  <2>3. QED
    BY <2>1, <2>2
<1> QED
  BY <1>1 DEF NothingReserved

\* So the schemas of the tool and of the body have none.
LEMMA PublishedUnreserved ==
  ASSUME NEW s, IsNodes(s)
  PROVE  NothingReserved(nodeToJSON(s)) /\ NothingReserved(splitOpenAPIInputs(s).body)
<1> DEFINE r == stripReservedInputSchema(s)
           d == decodeConsumerInputSchema(s)
           keys == {k \in Props(d) : liftsInput(SourceOf(d, k))}
<1>1. IsNodes(r) /\ IsNodes(d) /\ d = closeConsumerInputSchema(r)
  <2>1. IsNodes(r)
    BY DEF IsNodes, stripReservedInputSchema, Node
  <2>2. IsNodes(d) /\ d = closeConsumerInputSchema(r)
    BY DecodedNodes DEF decodeConsumerInputSchema
  <2>3. QED
    BY <2>1, <2>2
<1>2. NothingReserved(r)
  BY StripsReserved
<1> HIDE DEF r
<1>3. DOMAIN d \subseteq DOMAIN r /\ \A p \in DOMAIN d : d[p].required = r[p].required
  <2>1. /\ DOMAIN d \subseteq DOMAIN r
        /\ \A p \in DOMAIN d : d[p] = r[p] \/ d[p] = [r[p] EXCEPT !.closed = TRUE]
    BY <1>1 DEF closeConsumerInputSchema
  <2>2. \A p \in DOMAIN r : r[p] \in Node
    BY <1>1 DEF IsNodes
  <2> HIDE DEF d
  <2>3. QED
    BY <2>1, <2>2 DEF Node
<1>4. splitOpenAPIInputs(s).body = stripVendorInputAttrs(bodyWithout(d, keys))
  BY DEF splitOpenAPIInputs
<1>5. nodeToJSON(s) = stripVendorInputAttrs(d)
  BY DEF nodeToJSON
<1> HIDE DEF d, keys
<1>6. NothingReserved(d)
  BY <1>2, <1>3, NothingComesBack
<1>7. ASSUME NEW t, IsNodes(t), NothingReserved(t)
      PROVE  NothingReserved(stripVendorInputAttrs(t))
  <2>1. \A p \in DOMAIN t : t[p] \in Node
    BY <1>7 DEF IsNodes
  <2>2. ASSUME NEW n \in Node
        PROVE  [n EXCEPT !.source = NoSource].required = n.required
    BY DEF Node
  <2>3. \A p \in DOMAIN t : stripVendorInputAttrs(t)[p].required = t[p].required
    BY <1>7, <2>1, <2>2, StripCleans
  <2>4. QED
    BY <1>7, <2>3, StripCleans, NothingComesBack
<1>8. NothingReserved(bodyWithout(d, keys))
  <2>1. /\ DOMAIN bodyWithout(d, keys) \subseteq DOMAIN d
        /\ \A p \in DOMAIN bodyWithout(d, keys) : bodyWithout(d, keys)[p].required \subseteq d[p].required
    BY <1>1 DEF bodyWithout, IsNodes, Node
  <2>2. QED
    BY <1>6, <2>1, NothingComesBack
<1> QED
  BY <1>1, <1>4, <1>5, <1>6, <1>7, <1>8, BodyNodes

\* The schemas of a case are schemas of nodes.
LEMMA CaseNodes ==
  ASSUME host \in Cases
  PROVE  /\ IsSchema(host.workflow.inputs) /\ IsNodes(host.workflow.inputs)
         /\ host.workflow.out.schema = <<>> \/ IsNodes(host.workflow.out.schema[1])
BY CasesOK DEF IsSchema, IsNodes

\* Whatever a case declares, what is published of it is clean.
LEMMA RestClean == RestInv => PublishedClean
<1> SUFFICES ASSUME RestInv PROVE PublishedClean
  OBVIOUS
<1> DEFINE split == splitOpenAPIInputs(host.workflow.inputs)
           outs  == splitOpenAPIOutputs(host.workflow.out)
<1>1. host \in Cases
  BY DEF RestInv
<1>2. /\ IsNodes(host.workflow.inputs)
      /\ host.workflow.out.schema = <<>> \/ IsNodes(host.workflow.out.schema[1])
  BY <1>1, CaseNodes
<1>3. /\ Clean(InputSchema) /\ Clean(split.body)
      /\ \A k \in DOMAIN split.params : Clean(split.params[k].schema)
  BY <1>2, InputsClean DEF InputSchema
<1>4. Clean(outs.body) /\ \A k \in DOMAIN outs.params : Clean(outs.params[k].schema)
  BY <1>2, OutputsClean
<1>5. NothingReserved(InputSchema) /\ NothingReserved(split.body)
  BY <1>2, PublishedUnreserved DEF InputSchema
<1>6. /\ lifted = split.params
      /\ operation.headers = Range(outs.params) /\ operation.response = outs.body
      /\ operation.body = IF hasJSONRequestBody(split) THEN <<split.body>> ELSE <<>>
  BY DEF lifted, operation
<1> HIDE DEF split, outs
<1>7. \A s \in Range(operation.body) : s = split.body
  BY <1>6 DEF Range
<1>8. \A s \in Published : Clean(s)
  BY <1>3, <1>4, <1>6, <1>7 DEF Published, Range
<1> QED
  BY <1>3, <1>5, <1>7, <1>8 DEF PublishedClean, Clean, NothingReserved
\* The places of a schema, and a bound on their depth.
Bounded(s) ==
    /\ <<>> \in DOMAIN s
    /\ \A p \in DOMAIN s : p \in Seq(Parts \X STRING)
    /\ \E d \in Nat : \A p \in DOMAIN s : Len(p) <= d

\* What Valid says of the schema at p, if v tells it of those inside.
ValidAt(s, given, p, v) ==
    /\ s[p].type \in {"", "object"}
    /\ s[p].required \subseteq given
    /\ s[p].closed => given \subseteq PropsAt(s, p)
    /\ \/ Children(s, p, "oneOf") = {}
       \/ \E q \in Children(s, p, "oneOf") :
            v[q] /\ \A r \in Children(s, p, "oneOf") \ {q} : ~v[r]
    /\ \A q \in Children(s, p, "allOf") : v[q]
    /\ \A q \in Children(s, p, "not") : ~v[q]

\* v tells it right of all places below a depth.
RightBelow(s, given, v, depth) ==
    /\ v \in [DOMAIN s -> BOOLEAN]
    /\ \A p \in DOMAIN s : Len(p) > depth => v[p] = ValidAt(s, given, p, v)

\* The schemas inside one lie one step deeper.
LEMMA ChildIsDeeper ==
  ASSUME NEW s, NEW p, NEW part, NEW q \in Children(s, p, part), q \in Seq(Parts \X STRING)
  PROVE  Len(q) \in Nat /\ Len(p) \in Nat /\ Len(q) = Len(p) + 1
<1>1. q # <<>> /\ p = SubSeq(q, 1, Len(q) - 1)
  BY DEF Children, Front
<1>2. Len(q) \in Nat \ {0}
  BY <1>1, EmptySeq
<1>3. \A i \in 1 .. Len(q) - 1 : q[i] \in Parts \X STRING
  BY <1>2
<1>4. Len(SubSeq(q, 1, Len(q) - 1)) = IF 1 <= Len(q) - 1 THEN (Len(q) - 1) - 1 + 1 ELSE 0
  BY <1>2, <1>3, SubSeqProperties
<1>5. Len(p) = IF 1 <= Len(q) - 1 THEN (Len(q) - 1) - 1 + 1 ELSE 0
  BY <1>1, <1>4
<1> DEFINE n == Len(q)
<1>6. n \in Nat /\ n > 0
  BY <1>2
<1> HIDE DEF n
<1>7. (IF 1 <= n - 1 THEN (n - 1) - 1 + 1 ELSE 0) = n - 1
  BY <1>6
<1> QED
  BY <1>5, <1>6, <1>7 DEF n

\* ValidAt looks no further than the schemas right inside.
LEMMA ValidAtAgrees ==
  ASSUME NEW s, NEW given, NEW p, NEW v, NEW w,
         \A part \in {"oneOf", "allOf", "not"} : \A q \in Children(s, p, part) : v[q] = w[q]
  PROVE  ValidAt(s, given, p, v) = ValidAt(s, given, p, w)
<1>1. /\ \A q \in Children(s, p, "oneOf") : v[q] = w[q]
      /\ \A q \in Children(s, p, "allOf") : v[q] = w[q]
      /\ \A q \in Children(s, p, "not") : v[q] = w[q]
  OBVIOUS
<1> QED
  BY <1>1 DEF ValidAt

\* What is right below a depth can be made right one step higher.
LEMMA RightOneUp ==
  ASSUME NEW s, Bounded(s), NEW given, NEW v, NEW depth \in Int, RightBelow(s, given, v, depth)
  PROVE  \E w : RightBelow(s, given, w, depth - 1)
<1> DEFINE w == [p \in DOMAIN s |-> IF Len(p) = depth THEN ValidAt(s, given, p, v) ELSE v[p]]
<1>1. w \in [DOMAIN s -> BOOLEAN]
  <2>1. ASSUME NEW p \in DOMAIN s
        PROVE  w[p] \in BOOLEAN
    <3>1. ValidAt(s, given, p, v) \in BOOLEAN
      BY DEF ValidAt
    <3>2. v[p] \in BOOLEAN
      BY DEF RightBelow
    <3>3. QED
      BY <3>1, <3>2
  <2>2. QED
    BY <2>1
<1>2. ASSUME NEW p \in DOMAIN s, Len(p) > depth - 1
      PROVE  w[p] = ValidAt(s, given, p, w)
  <2>1. Len(p) \in Nat
    BY DEF Bounded
  <2>2. ASSUME NEW part, NEW q \in Children(s, p, part)
        PROVE  v[q] = w[q]
    <3>1. q \in DOMAIN s /\ q \in Seq(Parts \X STRING)
      BY DEF Children, Bounded
    <3>2. Len(q) = Len(p) + 1
      BY <3>1, ChildIsDeeper
    <3>3. Len(q) # depth
      BY <1>2, <2>1, <3>2
    <3>4. QED
      BY <3>1, <3>3
  <2>3. ValidAt(s, given, p, v) = ValidAt(s, given, p, w)
    <3> HIDE DEF w
    <3>1. QED
      BY <2>2, ValidAtAgrees
  <2>4. CASE Len(p) = depth
    <3>1. w[p] = ValidAt(s, given, p, v)
      BY <2>4
    <3>2. QED
      BY <2>3, <3>1
  <2>5. CASE Len(p) # depth
    <3>1. w[p] = v[p] /\ Len(p) > depth
      BY <1>2, <2>1, <2>5
    <3>2. v[p] = ValidAt(s, given, p, v)
      BY <3>1 DEF RightBelow
    <3>3. QED
      BY <2>3, <3>1, <3>2
  <2>6. QED
    BY <2>4, <2>5
<1>3. RightBelow(s, given, w, depth - 1)
  <2> HIDE DEF w
  <2>1. QED
    BY <1>1, <1>2 DEF RightBelow
<1> QED
  BY <1>3

\* Valid is decided at the root, by the root's own keywords and the schemas
\* in its combinators.
LEMMA ValidAtRoot ==
  ASSUME NEW s, Bounded(s), NEW given
  PROVE  \E v : Valid(s, given) <=> ValidAt(s, given, <<>>, v)
<1>1. PICK d \in Nat : \A p \in DOMAIN s : Len(p) <= d
  BY DEF Bounded
<1> DEFINE S == {n \in Nat : \E v : RightBelow(s, given, v, d - n)}
<1>2. 0 \in S
  <2>1. RightBelow(s, given, [p \in DOMAIN s |-> TRUE], d - 0)
    <3>1. \A p \in DOMAIN s : ~ Len(p) > d - 0
      BY <1>1 DEF Bounded
    <3>2. QED
      BY <3>1 DEF RightBelow
  <2>2. QED
    BY <2>1
<1>3. ASSUME NEW n \in 0 .. d + 1, n # 0 /\ n - 1 \in S
      PROVE  n \in S
  <2>1. PICK v : RightBelow(s, given, v, d - (n - 1))
    BY <1>3
  <2>2. d - (n - 1) \in Int /\ d - (n - 1) - 1 = d - n /\ n \in Nat
    BY <1>3
  <2>3. \E w : RightBelow(s, given, w, d - (n - 1) - 1)
    BY <2>1, <2>2, RightOneUp
  <2>4. QED
    BY <2>2, <2>3
<1>4. d + 1 \in S
  <2> HIDE DEF S
  <2>1. \A n \in 0 .. d + 1 : n \in S
    BY <1>2, <1>3, FromFirst
  <2>2. QED
    BY <2>1
<1>5. PICK v : RightBelow(s, given, v, d - (d + 1))
  BY <1>4
<1>6. \A p \in DOMAIN s : v[p] = ValidAt(s, given, p, v)
  <2>1. \A p \in DOMAIN s : Len(p) \in Nat
    BY DEF Bounded
  <2>2. \A p \in DOMAIN s : Len(p) > d - (d + 1)
    BY <2>1
  <2>3. QED
    BY <1>5, <2>2 DEF RightBelow
<1>7. v = [p \in DOMAIN s |-> ValidAt(s, given, p, v)]
  BY <1>5, <1>6 DEF RightBelow
<1> DEFINE valid[p \in DOMAIN s] ==
            /\ s[p].type \in {"", "object"}
            /\ s[p].required \subseteq given
            /\ s[p].closed => given \subseteq PropsAt(s, p)
            /\ \/ Children(s, p, "oneOf") = {}
               \/ \E q \in Children(s, p, "oneOf") :
                    valid[q] /\ \A r \in Children(s, p, "oneOf") \ {q} : ~valid[r]
            /\ \A q \in Children(s, p, "allOf") : valid[q]
            /\ \A q \in Children(s, p, "not") : ~valid[q]
<1>8. \E f : f = [p \in DOMAIN s |-> ValidAt(s, given, p, f)]
  BY <1>7
<1>9. valid = [p \in DOMAIN s |-> ValidAt(s, given, p, valid)]
  BY <1>8, Zenon DEF ValidAt
<1>10. Valid(s, given) <=> valid[<<>>]
  BY DEF Valid
<1> HIDE DEF valid
<1>11. valid[<<>>] = ValidAt(s, given, <<>>, valid)
  BY <1>9 DEF Bounded
<1> QED
  BY <1>10, <1>11

\* The root lies inside nothing.
LEMMA RootNotPassed ==
  ASSUME NEW parts
  PROVE  Through(<<>>, parts)
BY DEF Through

\* A place right below the root has one step.
LEMMA TopPlace ==
  ASSUME NEW q \in Seq(Parts \X STRING), q # <<>>, Front(q) = <<>>
  PROVE  Last(q) = Head(q)
<1>1. Len(q) \in Nat \ {0} /\ Head(q) = q[1]
  BY EmptySeq
<1>2. \A i \in 1 .. Len(q) - 1 : q[i] \in Parts \X STRING
  BY <1>1
<1>3. Len(Front(q)) = IF 1 <= Len(q) - 1 THEN (Len(q) - 1) - 1 + 1 ELSE 0
  BY <1>1, <1>2, SubSeqProperties DEF Front
<1>4. Len(Front(q)) = 0
  OBVIOUS
<1> DEFINE n == Len(q)
<1>5. n \in Nat /\ n > 0
  BY <1>1
<1>6. (IF 1 <= n - 1 THEN (n - 1) - 1 + 1 ELSE 0) = 0
  BY <1>3, <1>4
<1> HIDE DEF n
<1>7. n = 1
  BY <1>5, <1>6
<1> QED
  BY <1>1, <1>7 DEF n, Last

\* The tool's schema is closed at its root if it is one of an object.
LEMMA DecodedRoot ==
  ASSUME NEW s, IsSchema(s)
  PROVE  LET d == decodeConsumerInputSchema(s) IN
         /\ IsNodes(d) /\ Bounded(d)
         /\ d[<<>>].type \in {"", "object"} => d[<<>>].closed
<1> DEFINE r == stripReservedInputSchema(s)
           d == decodeConsumerInputSchema(s)
<1>1. IsNodes(s) /\ <<>> \in DOMAIN s /\ Bounded(s)
  BY EmptySeq DEF IsSchema, IsNodes, Bounded
<1>2. IsNodes(r) /\ IsNodes(d) /\ d = closeConsumerInputSchema(r)
  <2>1. IsNodes(r)
    BY <1>1 DEF IsNodes, stripReservedInputSchema, Node
  <2>2. IsNodes(d) /\ d = closeConsumerInputSchema(r)
    BY <1>1, DecodedNodes DEF decodeConsumerInputSchema
  <2>3. QED
    BY <2>1, <2>2
<1>3. <<>> \in DOMAIN r /\ DOMAIN r \subseteq DOMAIN s
  BY <1>1 DEF stripReservedInputSchema, Passes
<1> HIDE DEF r, d
<1>4. <<>> \in DOMAIN d /\ DOMAIN d \subseteq DOMAIN r
  <2> DEFINE Shut(p) == Through(p, SameLevel) /\ r[p].type \in {"", "object"}
             Hidden(q) == Passes(q, LAMBDA x : x[1] = "extra", Shut)
  <2>1. DOMAIN d = {q \in DOMAIN r : ~Hidden(q)}
    BY <1>2, Zenon DEF closeConsumerInputSchema
  <2>2. ~Hidden(<<>>)
    BY DEF Passes
  <2>3. QED
    BY <1>3, <2>1, <2>2
<1>5. d[<<>>] = IF r[<<>>].type \in {"", "object"} THEN [r[<<>>] EXCEPT !.closed = TRUE] ELSE r[<<>>]
  <2>1. Through(<<>>, SameLevel)
    BY RootNotPassed
  <2>2. QED
    BY <1>2, <1>3, <1>4, <2>1 DEF closeConsumerInputSchema
<1>6. d[<<>>].type \in {"", "object"} => d[<<>>].closed
  <2>1. r[<<>>] \in Node
    BY <1>2, <1>3 DEF IsNodes
  <2>2. QED
    BY <1>5, <2>1 DEF Node
<1>7. Bounded(d)
  BY <1>1, <1>3, <1>4 DEF Bounded
<1> QED
  BY <1>2, <1>6, <1>7 DEF d

\* What the tool's schema and the body of the operation have in common.
LEMMA SplitRoot ==
  ASSUME NEW s, IsSchema(s), NEW keys, keys = DOMAIN splitOpenAPIInputs(s).params
  PROVE  LET tool  == nodeToJSON(s)
             body  == splitOpenAPIInputs(s).body
         IN  /\ Bounded(tool) /\ Bounded(body)
             /\ tool[<<>>].type \in {"", "object"} => tool[<<>>].closed
             /\ body[<<>>].type = tool[<<>>].type /\ body[<<>>].closed = tool[<<>>].closed
             /\ body[<<>>].required = tool[<<>>].required \ keys
             /\ keys \subseteq Props(tool) /\ Props(body) = Props(tool) \ keys
             /\ \A part \in {"oneOf", "allOf", "not"} :
                  Children(body, <<>>, part) = Children(tool, <<>>, part)
             /\ \A k \in keys :
                  splitOpenAPIInputs(s).params[k].required = (k \in tool[<<>>].required)
             /\ Props(tool) \subseteq consumerInputKeys(tool)
<1> DEFINE d == decodeConsumerInputSchema(s)
           tool == nodeToJSON(s)
           rest == bodyWithout(d, keys)
           body == splitOpenAPIInputs(s).body
<1>1. /\ IsNodes(d) /\ Bounded(d)
      /\ d[<<>>].type \in {"", "object"} => d[<<>>].closed
  BY DecodedRoot
<1>2. tool = stripVendorInputAttrs(d)
  BY DEF nodeToJSON
<1>3. keys = {k \in Props(d) : liftsInput(SourceOf(d, k))}
  BY DEF splitOpenAPIInputs
<1>4. /\ body = stripVendorInputAttrs(rest)
      /\ \A k \in keys : splitOpenAPIInputs(s).params[k].required = (k \in d[<<>>].required)
  BY <1>3 DEF splitOpenAPIInputs
<1> HIDE DEF d, tool, body
<1>5. IsNodes(rest) /\ <<>> \in DOMAIN d /\ d[<<>>] \in Node
  BY <1>1, BodyNodes DEF Bounded, IsNodes
<1>6. /\ DOMAIN rest = {q \in DOMAIN d : ~InLifted(q, keys)}
      /\ <<>> \in DOMAIN rest /\ rest[<<>>] = [d[<<>>] EXCEPT !.required = @ \ keys]
  BY <1>5 DEF bodyWithout, InLifted
<1>7. /\ rest[<<>>].required = d[<<>>].required \ keys
      /\ rest[<<>>].type = d[<<>>].type /\ rest[<<>>].closed = d[<<>>].closed
  BY <1>5, <1>6 DEF Node
<1>8. rest[<<>>] \in Node
  BY <1>5, <1>6 DEF IsNodes
<1> HIDE DEF rest
<1>9. ASSUME NEW t, IsNodes(t), <<>> \in DOMAIN t
      PROVE  LET u == stripVendorInputAttrs(t)
             IN  /\ DOMAIN u = DOMAIN t
                 /\ u[<<>>].type = t[<<>>].type /\ u[<<>>].closed = t[<<>>].closed
                 /\ u[<<>>].required = t[<<>>].required
                 /\ Props(u) = Props(t)
                 /\ \A part : Children(u, <<>>, part) = Children(t, <<>>, part)
  <2> DEFINE u == stripVendorInputAttrs(t)
  <2>1. /\ DOMAIN u = DOMAIN t
        /\ u[<<>>] = t[<<>>] \/ u[<<>>] = [t[<<>>] EXCEPT !.source = NoSource]
    BY <1>9, StripCleans
  <2>2. t[<<>>] \in Node
    BY <1>9 DEF IsNodes
  <2> HIDE DEF u
  <2>3. /\ u[<<>>].type = t[<<>>].type /\ u[<<>>].closed = t[<<>>].closed
        /\ u[<<>>].required = t[<<>>].required
    BY <2>1, <2>2 DEF Node
  <2>4. \A part : Children(u, <<>>, part) = Children(t, <<>>, part)
    BY <2>1 DEF Children
  <2>5. Props(u) = Props(t)
    BY <2>4 DEF Props, PropsAt
  <2> QED
    BY <2>1, <2>3, <2>4, <2>5 DEF u
<1>10. /\ DOMAIN tool = DOMAIN d
       /\ tool[<<>>].type = d[<<>>].type /\ tool[<<>>].closed = d[<<>>].closed
       /\ tool[<<>>].required = d[<<>>].required
       /\ Props(tool) = Props(d)
       /\ \A part : Children(tool, <<>>, part) = Children(d, <<>>, part)
  BY <1>1, <1>2, <1>5, <1>9
<1>11. /\ DOMAIN body = DOMAIN rest
       /\ body[<<>>].type = rest[<<>>].type /\ body[<<>>].closed = rest[<<>>].closed
       /\ body[<<>>].required = rest[<<>>].required
       /\ Props(body) = Props(rest)
       /\ \A part : Children(body, <<>>, part) = Children(rest, <<>>, part)
  BY <1>4, <1>5, <1>6, <1>9
<1>12. ASSUME NEW part, NEW q \in Children(d, <<>>, part)
       PROVE  /\ q # <<>> /\ q \in DOMAIN d /\ q \in Seq(Parts \X STRING)
              /\ Head(q) = Last(q) /\ Head(q)[1] = part
              /\ InLifted(q, keys) <=> part = "props" /\ Last(q)[2] \in keys
  <2>1. q # <<>> /\ q \in DOMAIN d /\ q \in Seq(Parts \X STRING) /\ Front(q) = <<>> /\ Last(q)[1] = part
    BY <1>1 DEF Children, IsNodes
  <2>2. Head(q) = Last(q)
    BY <2>1, TopPlace
  <2>3. QED
    BY <2>1, <2>2 DEF InLifted
<1>13. ASSUME NEW part \in {"oneOf", "allOf", "not"}
       PROVE  Children(rest, <<>>, part) = Children(d, <<>>, part)
  <2>1. \A q \in Children(d, <<>>, part) : q \in DOMAIN rest
    BY <1>6, <1>12
  <2>2. QED
    BY <1>6, <2>1 DEF Children
<1>14. Props(rest) = Props(d) \ keys
  <2>1. ASSUME NEW k \in Props(rest)
        PROVE  k \in Props(d) \ keys
    <3>1. PICK q \in Children(rest, <<>>, "props") : k = Last(q)[2]
      BY <2>1 DEF Props, PropsAt
    <3>2. q \in Children(d, <<>>, "props") /\ ~InLifted(q, keys)
      BY <1>6, <3>1 DEF Children
    <3>3. k \notin keys
      BY <1>12, <3>1, <3>2
    <3>4. QED
      BY <3>1, <3>2, <3>3 DEF Props, PropsAt
  <2>2. ASSUME NEW k \in Props(d), k \notin keys
        PROVE  k \in Props(rest)
    <3>1. PICK q \in Children(d, <<>>, "props") : k = Last(q)[2]
      BY <2>2 DEF Props, PropsAt
    <3>2. ~InLifted(q, keys)
      BY <1>12, <2>2, <3>1
    <3>3. q \in Children(rest, <<>>, "props")
      BY <1>6, <3>1, <3>2 DEF Children
    <3>4. QED
      BY <3>1, <3>3 DEF Props, PropsAt
  <2>3. QED
    BY <2>1, <2>2
<1>15. Bounded(tool) /\ Bounded(body)
  BY <1>1, <1>6, <1>10, <1>11 DEF Bounded
<1>16. Props(tool) \subseteq consumerInputKeys(tool)
  <2>1. <<>> \in {q \in DOMAIN tool : Through(q, Combinators)}
    BY <1>15, RootNotPassed DEF Bounded
  <2>2. QED
    BY <2>1 DEF consumerInputKeys, Props
<1>17. keys \subseteq Props(tool)
  BY <1>3, <1>10
<1>18. Props(body) = Props(tool) \ keys
  BY <1>10, <1>11, <1>14
<1>19. \A part \in {"oneOf", "allOf", "not"} :
          Children(body, <<>>, part) = Children(tool, <<>>, part)
  BY <1>10, <1>11, <1>13
<1> QED
  BY <1>1, <1>4, <1>7, <1>10, <1>11, <1>15, <1>16, <1>17, <1>18, <1>19 DEF tool, body
Tool == InputSchema
Body == splitOpenAPIInputs(host.workflow.inputs).body
Lifted == DOMAIN lifted

\* The parts of the operation.
LEMMA OperationParts ==
  ASSUME host \in Cases
  PROVE  /\ IsSchema(host.workflow.inputs)
         /\ lifted = splitOpenAPIInputs(host.workflow.inputs).params
         /\ operation.params = Range(lifted) \cup Range(host.options.common)
         /\ operation.body = IF Lifted = {} \/ Props(Body) # {} THEN <<Body>> ELSE <<>>
         /\ operation.security = operationSecurity
BY CasesOK DEF lifted, operation, hasJSONRequestBody, Body, Lifted

\* How the roots of the tool's schema and of the body relate: the body
\* declares and requires what the tool does, without what was lifted.
LEMMA ContractRoot ==
  ASSUME host \in Cases
  PROVE  /\ Bounded(Tool) /\ Bounded(Body)
         /\ Tool[<<>>].type \in {"", "object"} => Tool[<<>>].closed
         /\ Body[<<>>].type = Tool[<<>>].type /\ Body[<<>>].closed = Tool[<<>>].closed
         /\ Body[<<>>].required = Tool[<<>>].required \ Lifted
         /\ Lifted \subseteq Props(Tool) /\ Props(Body) = Props(Tool) \ Lifted
         /\ \A part \in {"oneOf", "allOf", "not"} :
              Children(Body, <<>>, part) = Children(Tool, <<>>, part)
         /\ \A k \in Lifted : lifted[k].required = (k \in Tool[<<>>].required)
         /\ Props(Tool) \subseteq consumerInputKeys(Tool)
<1> DEFINE s == host.workflow.inputs
           split == splitOpenAPIInputs(s)
           keys == DOMAIN split.params
<1>1. IsSchema(s) /\ Tool = nodeToJSON(s) /\ Body = split.body /\ lifted = split.params
      /\ Lifted = keys
  BY OperationParts DEF Tool, InputSchema, Body, Lifted
<1> HIDE DEF s, keys
<1>2. keys = DOMAIN splitOpenAPIInputs(s).params
  BY DEF keys
<1>3. /\ Bounded(nodeToJSON(s)) /\ Bounded(splitOpenAPIInputs(s).body)
      /\ nodeToJSON(s)[<<>>].type \in {"", "object"} => nodeToJSON(s)[<<>>].closed
      /\ splitOpenAPIInputs(s).body[<<>>].type = nodeToJSON(s)[<<>>].type
      /\ splitOpenAPIInputs(s).body[<<>>].closed = nodeToJSON(s)[<<>>].closed
      /\ splitOpenAPIInputs(s).body[<<>>].required = nodeToJSON(s)[<<>>].required \ keys
      /\ keys \subseteq Props(nodeToJSON(s))
      /\ Props(splitOpenAPIInputs(s).body) = Props(nodeToJSON(s)) \ keys
      /\ \A part \in {"oneOf", "allOf", "not"} :
           Children(splitOpenAPIInputs(s).body, <<>>, part) = Children(nodeToJSON(s), <<>>, part)
      /\ \A k \in keys :
           splitOpenAPIInputs(s).params[k].required = (k \in nodeToJSON(s)[<<>>].required)
      /\ Props(nodeToJSON(s)) \subseteq consumerInputKeys(nodeToJSON(s))
  BY <1>1, <1>2, SplitRoot
<1> QED
  BY <1>1, <1>3

\* No body is published only if it would declare nothing.
LEMMA PublishedBody ==
  ASSUME host \in Cases
  PROVE  /\ operation.body = <<>> => Props(Body) = {}
         /\ operation.body # <<>> => operation.body[1] = Body
BY OperationParts

\* What a valid object has to have, and may have.
LEMMA ValidObject ==
  ASSUME NEW s, Bounded(s), NEW given, Valid(s, given), s[<<>>].type \in {"", "object"} => s[<<>>].closed
  PROVE  s[<<>>].type \in {"", "object"} /\ s[<<>>].required \subseteq given /\ given \subseteq Props(s)
<1>1. PICK v : Valid(s, given) <=> ValidAt(s, given, <<>>, v)
  BY ValidAtRoot
<1> QED
  BY <1>1 DEF ValidAt, Props

\* Without combinators nothing else is asked for.
LEMMA PlainObjectValid ==
  ASSUME NEW s, Bounded(s), NEW given,
         \A part \in {"oneOf", "allOf", "not"} : Children(s, <<>>, part) = {},
         s[<<>>].type \in {"", "object"}, s[<<>>].required \subseteq given, given \subseteq Props(s)
  PROVE  Valid(s, given)
<1>1. PICK v : Valid(s, given) <=> ValidAt(s, given, <<>>, v)
  BY ValidAtRoot
<1>2. Children(s, <<>>, "oneOf") = {} /\ Children(s, <<>>, "allOf") = {} /\ Children(s, <<>>, "not") = {}
  OBVIOUS
<1> QED
  BY <1>1, <1>2 DEF ValidAt, Props

\* The body of a REST request that follows the operation.
LEMMA FollowsBody ==
  ASSUME host \in Cases, NEW req, req.via # "mcp", Follows(req)
  PROVE  /\ req.body \subseteq Props(Body)
         /\ operation.body # <<>> => Tool[<<>>].type \in {"", "object"}
                                     /\ Tool[<<>>].required \ Lifted \subseteq req.body
         /\ operation.body = <<>> => req.body = {} /\ Props(Tool) = Lifted
<1>1. CASE operation.body = <<>>
  <2>1. req.body = {}
    BY <1>1 DEF Follows
  <2>2. Props(Body) = {}
    BY <1>1, PublishedBody
  <2>3. Props(Tool) = Lifted
    BY <2>2, ContractRoot
  <2>4. QED
    BY <1>1, <2>1, <2>3
<1>2. CASE operation.body # <<>>
  <2>1. operation.body[1] = Body
    BY <1>2, PublishedBody
  <2>2. Valid(Body, req.body)
    BY <1>2, <2>1 DEF Follows
  <2>3. Body[<<>>].type \in {"", "object"} /\ Body[<<>>].required \subseteq req.body
        /\ req.body \subseteq Props(Body)
    BY <2>2, ContractRoot, ValidObject
  <2>4. QED
    BY <1>2, <2>3, ContractRoot
<1> QED
  BY <1>1, <1>2

\* A parameter that is required is given.
LEMMA FollowsParams ==
  ASSUME host \in Cases, NEW req, req.via # "mcp", Follows(req), NEW k \in Lifted, lifted[k].required
  PROVE  k \in Bound(req)
<1>1. lifted[k] \in operation.params
  BY OperationParts DEF Range, Lifted
<1>2. HasRequired(operation.params, req.http)
  BY DEF Follows
<1> QED
  BY <1>1, <1>2 DEF HasRequired, Bound, Lifted

\* A caller that follows has the scopes.
LEMMA FollowsScopes ==
  ASSUME host \in Cases, NEW req, Follows(req)
  PROVE  checkWorkflowScopes(req) = "none"
<1>1. Satisfied(host.workflow.xsec.reqs, req.token) \/ Satisfied(operation.security, req.token)
  BY DEF Follows
<1>2. host.workflow.xsec.reqs # {} => operation.security = host.workflow.xsec.reqs
  BY OperationParts DEF operationSecurity
<1> DEFINE reqs == host.workflow.xsec.reqs
<1>3. CASE reqs = {}
  BY <1>3 DEF checkWorkflowScopes
<1>4. CASE reqs # {}
  <2>1. Satisfied(reqs, req.token)
    BY <1>1, <1>2, <1>4
  <2>2. req.token # NoToken /\ scopesSatisfied(req.token, reqs)
    BY <1>4, <2>1 DEF Satisfied
  <2>3. QED
    BY <1>4, <2>2 DEF checkWorkflowScopes
<1> QED
  BY <1>3, <1>4

\* What follows the publication passes every check of Run.
LEMMA FollowsIsAdmitted ==
  ASSUME host \in Cases, NEW req, Follows(req)
  PROVE  refusal(req) = "none"
<1>1. checkWorkflowScopes(req) = "none"
  BY FollowsScopes
<1>2. CASE req.via = "mcp"
  <2>1. Valid(Tool, req.body)
    BY <1>2 DEF Follows, Tool
  <2>2. req.body \subseteq Props(Tool)
    BY <2>1, ContractRoot, ValidObject
  <2>3. inputsOf(req) = req.body
    BY <1>2 DEF inputsOf
  <2>4. ~rejectUnexpectedInputs(inputsOf(req))
    BY <2>2, <2>3, ContractRoot DEF rejectUnexpectedInputs, Tool
  <2>5. QED
    BY <1>1, <1>2, <2>1, <2>4 DEF refusal, PassesSDK, Tool
<1>3. CASE req.via # "mcp"
  <2>1. req.body \subseteq Props(Tool) \ Lifted
    BY <1>3, FollowsBody, ContractRoot
  <2>2. ~mergeFault(req)
    BY <1>3, <2>1, FollowsParams DEF mergeFault, Lifted
  <2>3. inputsOf(req) \subseteq Props(Tool)
    <3>1. Bound(req) \subseteq Lifted
      BY DEF Bound, Lifted
    <3>2. QED
      BY <2>1, <3>1, ContractRoot DEF inputsOf
  <2>4. ~rejectUnexpectedInputs(inputsOf(req))
    BY <2>3, ContractRoot DEF rejectUnexpectedInputs, Tool
  <2>5. QED
    BY <1>1, <1>3, <2>2, <2>4 DEF refusal, PassesSDK
<1> QED
  BY <1>2, <1>3

\* So no call that was refused follows it.
LEMMA RestAdmitted == RestInv => PublishedRequestsAdmitted
BY FollowsIsAdmitted DEF RestInv, PublishedRequestsAdmitted

\* What REST takes passes the tool's schema, and the other way round.
LEMMA RestAgrees == RestInv => TransportsAgree
<1> DEFINE Plain == \A part \in {"oneOf", "allOf", "not"} : Children(Tool, <<>>, part) = {}
<1> SUFFICES ASSUME RestInv, call.at = "running", Plain,
                    Tool[<<>>].type \in {"", "object"}, Tool[<<>>].required \subseteq Props(Tool),
                    Follows(call.req), Satisfied(operation.security, call.req.token)
             PROVE  IF call.req.via = "rest" THEN Valid(Tool, call.inputs)
                                             ELSE Follows(AsREST(call.inputs))
  BY DEF TransportsAgree, Tool
<1> DEFINE req == call.req
<1>1. host \in Cases /\ call.inputs = inputsOf(req) /\ req \in Requests
  BY DEF RestInv
<1>2. req.via = "rest" \/ req.via = "mcp"
  BY <1>1 DEF Requests
<1> HIDE DEF req
<1>3. CASE req.via = "rest"
  <2>1. call.inputs = req.body \cup Bound(req) /\ Bound(req) \subseteq Lifted
    BY <1>1, <1>3 DEF inputsOf, Bound, Lifted
  <2>2. call.inputs \subseteq Props(Tool)
    BY <1>1, <1>3, <2>1, FollowsBody, ContractRoot DEF req
  <2>3. ASSUME NEW k \in Tool[<<>>].required
        PROVE  k \in call.inputs
    <3>1. CASE k \in Lifted
      <4>1. lifted[k].required
        BY <1>1, <3>1, ContractRoot
      <4>2. QED
        BY <1>1, <1>3, <2>1, <3>1, <4>1, FollowsParams DEF req
    <3>2. CASE k \notin Lifted
      <4>1. operation.body # <<>>
        BY <1>1, <1>3, <3>2, FollowsBody DEF req
      <4>2. QED
        BY <1>1, <1>3, <2>1, <3>2, <4>1, FollowsBody DEF req
    <3>3. QED
      BY <3>1, <3>2
  <2>4. Valid(Tool, call.inputs)
    BY <1>1, <2>2, <2>3, ContractRoot, PlainObjectValid
  <2>5. QED
    BY <1>3, <2>4 DEF req
<1>4. CASE req.via = "mcp"
  <2> DEFINE as == AsREST(call.inputs)
  <2>1. call.inputs = req.body
    BY <1>1, <1>4 DEF inputsOf
  <2>2. Valid(Tool, call.inputs)
    BY <1>4, <2>1 DEF Follows, Tool, req
  <2>3. Tool[<<>>].required \subseteq call.inputs /\ call.inputs \subseteq Props(Tool)
    BY <1>1, <2>2, ContractRoot, ValidObject
  <2>4. /\ as.via = "rest" /\ as.body = call.inputs \ Lifted /\ as.token = call.req.token
        /\ as.http = keysOf({lifted[k] : k \in Lifted \cap call.inputs})
                       \cup keysOf(Range(host.options.common))
    BY DEF AsREST, Lifted
  <2> HIDE DEF as
  <2>5. HasRequired(operation.params, as.http)
    <3>1. ASSUME NEW p \in operation.params, p.required
          PROVE  restCommonParamKey(p.in, p.name) \in as.http
      <4>1. CASE p \in Range(host.options.common)
        BY <2>4, <4>1 DEF keysOf
      <4>2. CASE p \in Range(lifted)
        <5>1. PICK k \in Lifted : p = lifted[k]
          BY <4>2 DEF Range, Lifted
        <5>2. k \in call.inputs
          BY <1>1, <2>3, <3>1, <5>1, ContractRoot
        <5>3. QED
          BY <2>4, <5>1, <5>2 DEF keysOf
      <4>3. QED
        BY <1>1, <4>1, <4>2, OperationParts
    <3>2. QED
      BY <3>1 DEF HasRequired
  <2>6. CASE operation.body = <<>>
    <3>1. Props(Body) = {}
      BY <1>1, <2>6, PublishedBody
    <3>2. as.body = {}
      BY <1>1, <2>3, <2>4, <3>1, ContractRoot
    <3>3. QED
      BY <1>4, <2>4, <2>5, <2>6, <3>2 DEF Follows, as, req
  <2>7. CASE operation.body # <<>>
    <3>1. operation.body[1] = Body
      BY <1>1, <2>7, PublishedBody
    <3>2. Valid(Body, as.body)
      <4>1. \A part \in {"oneOf", "allOf", "not"} : Children(Body, <<>>, part) = {}
        BY <1>1, ContractRoot
      <4>2. /\ Body[<<>>].type \in {"", "object"} /\ Body[<<>>].required \subseteq as.body
            /\ as.body \subseteq Props(Body)
        BY <1>1, <2>3, <2>4, ContractRoot
      <4>3. QED
        BY <1>1, <4>1, <4>2, ContractRoot, PlainObjectValid
    <3>3. QED
      BY <1>4, <2>4, <2>5, <2>7, <3>1, <3>2 DEF Follows, as, req
  <2>8. QED
    BY <2>6, <2>7
<1> QED
  BY <1>2, <1>3, <1>4

-----------------------------------------------------------------------------
(* Redaction: places, and the starts of the ways to them.                  *)

\* The first steps of a place.
LEMMA Starts ==
  ASSUME NEW A, NEW p \in Seq(A), NEW n \in 0 .. Len(p)
  PROVE  /\ SubSeq(p, 1, n) \in Seq(A) /\ Len(SubSeq(p, 1, n)) = n
         /\ \A i \in 1 .. n : SubSeq(p, 1, n)[i] = p[i]
         /\ n = Len(p) => SubSeq(p, 1, n) = p
         /\ \A m \in 0 .. n : SubSeq(SubSeq(p, 1, n), 1, m) = SubSeq(p, 1, m)
<1>1. Len(p) \in Nat /\ n \in Nat
  BY LenProperties
<1>2. ASSUME NEW s \in Seq(A), NEW m \in 0 .. Len(s)
      PROVE  SubSeq(s, 1, m) \in Seq(A) /\ Len(SubSeq(s, 1, m)) = m
             /\ \A i \in 1 .. m : SubSeq(s, 1, m)[i] = s[i]
  <2>1. \A i \in 1 .. m : s[i] \in A
    BY <1>2, ElementOfSeq
  <2>2. Len(s) \in Nat /\ m \in Nat /\ 1 \in Int /\ m \in Int
    BY <1>2, LenProperties
  <2>3. /\ SubSeq(s, 1, m) \in Seq(A)
        /\ Len(SubSeq(s, 1, m)) = IF 1 <= m THEN m - 1 + 1 ELSE 0
        /\ \A i \in 1 .. m - 1 + 1 : SubSeq(s, 1, m)[i] = s[1 + i - 1]
    BY <2>1, <2>2, SubSeqProperties
  <2>4. (IF 1 <= m THEN m - 1 + 1 ELSE 0) = m /\ m - 1 + 1 = m
    BY <2>2
  <2>5. \A i \in 1 .. m : 1 + i - 1 = i
    BY <2>2
  <2>6. QED
    BY <2>3, <2>4, <2>5
<1> DEFINE s == SubSeq(p, 1, n)
<1>3. s \in Seq(A) /\ Len(s) = n /\ \A i \in 1 .. n : s[i] = p[i]
  BY <1>2
<1> HIDE DEF s
<1>4. n = Len(p) => s = p
  BY <1>3, SeqEqual
<1>5. ASSUME NEW m \in 0 .. n
      PROVE  SubSeq(s, 1, m) = SubSeq(p, 1, m)
  <2>1. m \in 0 .. Len(s) /\ m \in 0 .. Len(p) /\ \A i \in 1 .. m : i \in 1 .. n
    BY <1>1, <1>3
  <2>2. /\ SubSeq(s, 1, m) \in Seq(A) /\ Len(SubSeq(s, 1, m)) = m
        /\ \A i \in 1 .. m : SubSeq(s, 1, m)[i] = s[i]
    BY <1>2, <1>3, <2>1
  <2>3. /\ SubSeq(p, 1, m) \in Seq(A) /\ Len(SubSeq(p, 1, m)) = m
        /\ \A i \in 1 .. m : SubSeq(p, 1, m)[i] = p[i]
    BY <1>2, <2>1
  <2> DEFINE t == SubSeq(s, 1, m)
             u == SubSeq(p, 1, m)
  <2>4. t \in Seq(A) /\ u \in Seq(A) /\ Len(t) = Len(u) /\ \A i \in 1 .. Len(t) : t[i] = u[i]
    BY <1>3, <2>1, <2>2, <2>3
  <2> HIDE DEF t, u
  <2>5. t = u
    BY <2>4, SeqEqual
  <2>6. QED
    BY <2>5 DEF t, u
<1> QED
  BY <1>3, <1>4, <1>5 DEF s

\* Places with the same first steps start alike.
LEMMA SameStart ==
  ASSUME NEW A, NEW p \in Seq(A), NEW q \in Seq(A), NEW n \in Nat, n <= Len(p), n <= Len(q),
         \A i \in 1 .. n : p[i] = q[i]
  PROVE  SubSeq(p, 1, n) = SubSeq(q, 1, n)
<1>1. n \in 0 .. Len(p) /\ n \in 0 .. Len(q)
  BY LenProperties
<1> DEFINE s == SubSeq(p, 1, n)
           t == SubSeq(q, 1, n)
<1>2. s \in Seq(A) /\ Len(s) = n /\ \A i \in 1 .. n : s[i] = p[i]
  BY <1>1, Starts
<1>3. t \in Seq(A) /\ Len(t) = n /\ \A i \in 1 .. n : t[i] = q[i]
  BY <1>1, Starts
<1> HIDE DEF s, t
<1>4. s = t
  BY <1>2, <1>3, SeqEqual
<1> QED
  BY <1>4 DEF s, t

\* A strict prefix is shorter, and starts the longer place.
LEMMA StrictPrefix ==
  ASSUME NEW A, NEW p \in Seq(A), NEW q \in Seq(A)
  PROVE  IsStrictPrefix(p, q) <=> Len(p) < Len(q) /\ SubSeq(q, 1, Len(p)) = p
<1>1. Len(p) \in Nat /\ Len(q) \in Nat
  BY LenProperties
<1>2. SubSeq(p, 1, Len(p)) = p
  BY <1>1, Starts
<1>3. IsStrictPrefix(p, q) <=> Len(p) <= Len(q) /\ p = SubSeq(q, 1, Len(p)) /\ p # q
  BY <1>2 DEF IsStrictPrefix, IsPrefix
<1>4. Len(p) = Len(q) => SubSeq(q, 1, Len(p)) = q
  <2>1. SubSeq(q, 1, Len(q)) = q
    BY <1>1, Starts
  <2>2. QED
    BY <2>1
<1> QED
  BY <1>1, <1>3, <1>4

\* The places of a document, and the starts of the ways to them.
LEMMA DocPlaces ==
  ASSUME NEW d, IsDocument(d), NEW p \in DOMAIN d, NEW n \in 0 .. Len(p)
  PROVE  /\ p \in Seq(STRING) /\ Len(p) \in Nat
         /\ SubSeq(p, 1, n) \in DOMAIN d
         /\ SubSeq(p, 1, n) \in Seq(STRING) /\ Len(SubSeq(p, 1, n)) = n
         /\ n # Len(p) => d[SubSeq(p, 1, n)].kind # "leaf"
<1>1. p \in Seq(STRING) /\ Len(p) \in Nat
  BY LenProperties DEF IsDocument
<1>2. SubSeq(p, 1, n) \in Seq(STRING) /\ Len(SubSeq(p, 1, n)) = n
      /\ (n = Len(p) => SubSeq(p, 1, n) = p)
  BY <1>1, Starts
<1>3. n # Len(p) => n \in 0 .. (Len(p) - 1)
  BY <1>1
<1>4. n # Len(p) => SubSeq(p, 1, n) \in DOMAIN d /\ d[SubSeq(p, 1, n)].kind # "leaf"
  BY <1>3 DEF IsDocument
<1>5. CASE n = Len(p)
  BY <1>1, <1>2, <1>5
<1>6. CASE n # Len(p)
  BY <1>1, <1>2, <1>4, <1>6
<1> QED
  BY <1>5, <1>6

\* One key more.
LEMMA OneMore ==
  ASSUME NEW A, NEW p \in Seq(A), NEW key
  PROVE  /\ Append(p, key) \in Seq(A \cup {key}) /\ Len(Append(p, key)) = Len(p) + 1
         /\ Append(p, key)[Len(p) + 1] = key
         /\ SubSeq(Append(p, key), 1, Len(p)) = p
         /\ \A q \in Seq(A) : /\ Len(q) = Len(p) + 1 /\ SubSeq(q, 1, Len(p)) = p /\ q[Len(p) + 1] = key
                              => q = Append(p, key)
<1> DEFINE B == A \cup {key}
           t == Append(p, key)
<1>1. Len(p) \in Nat
  BY LenProperties
<1>2. \A q \in Seq(A) : q \in Seq(B)
  <2>1. A \subseteq B
    OBVIOUS
  <2>2. QED
    BY <2>1, SeqMonotonic
<1>3. p \in Seq(B) /\ key \in B
  BY <1>2
<1> HIDE DEF B
<1>4. t \in Seq(B) /\ Len(t) = Len(p) + 1 /\ (\A i \in 1 .. Len(p) : t[i] = p[i]) /\ t[Len(p) + 1] = key
  BY <1>3, AppendProperties
<1> HIDE DEF t
<1>5. SubSeq(t, 1, Len(p)) = p
  <2>1. \A i \in 1 .. Len(p) : t[i] = p[i]
    BY <1>4
  <2>2. Len(p) <= Len(t) /\ Len(p) <= Len(p)
    BY <1>1, <1>4
  <2>3. SubSeq(t, 1, Len(p)) = SubSeq(p, 1, Len(p))
    BY <1>1, <1>3, <1>4, <2>1, <2>2, SameStart
  <2>4. SubSeq(p, 1, Len(p)) = p
    BY <1>1, Starts
  <2>5. QED
    BY <2>3, <2>4
<1>6. ASSUME NEW q \in Seq(A), Len(q) = Len(p) + 1, SubSeq(q, 1, Len(p)) = p, q[Len(p) + 1] = key
      PROVE  q = t
  <2>1. Len(p) \in 0 .. Len(q)
    BY <1>1, <1>6
  <2>2. \A i \in 1 .. Len(p) : p[i] = q[i]
    BY <1>6, <2>1, Starts
  <2>3. \A i \in 1 .. Len(q) : q[i] = t[i]
    <3> TAKE i \in 1 .. Len(q)
    <3>1. i \in 1 .. Len(p) \/ i = Len(p) + 1
      BY <1>1, <1>6
    <3>2. QED
      BY <1>4, <1>6, <2>2, <3>1
  <2>4. q \in Seq(B)
    BY <1>2
  <2>5. QED
    BY <1>4, <1>6, <2>3, <2>4, SeqEqual
<1> QED
  BY <1>4, <1>5, <1>6 DEF t, B

Leads(d, tokens, n) == {p \in DOMAIN d : Len(p) = n /\ LeadTo(d, tokens, p)}

\* Where a place lies that tokens lead to, they lead through its starts.
LEMMA LeadStart ==
  ASSUME NEW d, IsDocument(d), NEW tokens \in Seq(STRING), NEW p \in DOMAIN d,
         LeadTo(d, tokens, p), NEW n \in 0 .. Len(p)
  PROVE  SubSeq(p, 1, n) \in Leads(d, tokens, n)
<1>1. /\ p \in Seq(STRING) /\ Len(p) \in Nat
      /\ SubSeq(p, 1, n) \in DOMAIN d /\ Len(SubSeq(p, 1, n)) = n
  BY DocPlaces
<1>2. /\ \A i \in 1 .. n : SubSeq(p, 1, n)[i] = p[i]
      /\ \A m \in 0 .. n : SubSeq(SubSeq(p, 1, n), 1, m) = SubSeq(p, 1, m)
  BY <1>1, Starts
<1>3. Len(tokens) \in Nat /\ Len(p) <= Len(tokens)
  BY LenProperties DEF LeadTo
<1> DEFINE s == SubSeq(p, 1, n)
<1>4. \A i \in 1 .. n : i \in 1 .. Len(p) /\ i - 1 \in 0 .. n
  BY <1>1
<1>5. \A i \in 1 .. n : s[i] = KeyFor(d[SubSeq(s, 1, i - 1)], tokens[i])
  <2> TAKE i \in 1 .. n
  <2>1. s[i] = p[i] /\ SubSeq(s, 1, i - 1) = SubSeq(p, 1, i - 1)
    BY <1>2, <1>4
  <2>2. p[i] = KeyFor(d[SubSeq(p, 1, i - 1)], tokens[i])
    BY <1>4 DEF LeadTo
  <2> HIDE DEF s
  <2>3. QED
    BY <2>1, <2>2
<1>6. Len(s) = n /\ n <= Len(tokens) /\ s \in DOMAIN d
  BY <1>1, <1>3
<1> HIDE DEF s
<1>7. LeadTo(d, tokens, s)
  BY <1>5, <1>6 DEF LeadTo
<1> QED
  BY <1>6, <1>7 DEF Leads, s

\* The tokens lead to one place at most, at each step.
LEMMA OneWay ==
  ASSUME NEW d, IsDocument(d), NEW tokens \in Seq(STRING), NEW n, NEW p \in Leads(d, tokens, n),
         NEW q \in Leads(d, tokens, n)
  PROVE  p = q
<1>1. /\ p \in DOMAIN d /\ q \in DOMAIN d /\ Len(p) = n /\ Len(q) = n
      /\ \A i \in 1 .. n : p[i] = KeyFor(d[SubSeq(p, 1, i - 1)], tokens[i])
      /\ \A i \in 1 .. n : q[i] = KeyFor(d[SubSeq(q, 1, i - 1)], tokens[i])
  BY DEF Leads, LeadTo
<1>2. p \in Seq(STRING) /\ q \in Seq(STRING) /\ n \in Nat
  BY <1>1, LenProperties DEF IsDocument
<1> DEFINE S == {k \in Nat : \A i \in 1 .. k : p[i] = q[i]}
<1>3. 0 \in S
  OBVIOUS
<1>4. ASSUME NEW k \in 0 .. n, k # 0 /\ k - 1 \in S
      PROVE  k \in S
  <2>1. k - 1 \in Nat /\ k - 1 <= Len(p) /\ k - 1 <= Len(q) /\ \A i \in 1 .. k - 1 : p[i] = q[i]
    BY <1>1, <1>2, <1>4
  <2>2. SubSeq(p, 1, k - 1) = SubSeq(q, 1, k - 1)
    BY <1>2, <2>1, SameStart
  <2>3. k \in 1 .. n
    BY <1>2, <1>4
  <2>4. p[k] = q[k]
    BY <1>1, <2>2, <2>3
  <2>5. \A i \in 1 .. k : i = k \/ i \in 1 .. k - 1
    BY <2>3
  <2>6. QED
    BY <2>1, <2>3, <2>4, <2>5
<1>5. n \in S
  <2> HIDE DEF S
  <2>1. \A k \in 0 .. n : k \in S
    BY <1>2, <1>3, <1>4, FromFirst
  <2>2. QED
    BY <1>2, <2>1
<1> QED
  BY <1>1, <1>2, <1>5, SeqEqual

\* One step on.
LEMMA LeadOn ==
  ASSUME NEW d, IsDocument(d), NEW tokens \in Seq(STRING), NEW n \in 1 .. Len(tokens),
         NEW q \in DOMAIN d
  PROVE  q \in Leads(d, tokens, n) <=>
           \E p \in Leads(d, tokens, n - 1) : q = Append(p, KeyFor(d[p], tokens[n]))
<1>0. n \in Nat /\ n - 1 \in Nat /\ n \in 1 .. n /\ n - 1 + 1 = n
      /\ Len(tokens) \in Nat /\ n - 1 <= Len(tokens) /\ n <= Len(tokens)
  BY LenProperties
<1>1. ASSUME q \in Leads(d, tokens, n)
      PROVE  \E p \in Leads(d, tokens, n - 1) : q = Append(p, KeyFor(d[p], tokens[n]))
  <2>1. Len(q) = n /\ LeadTo(d, tokens, q) /\ n - 1 \in 0 .. Len(q) /\ n \in 1 .. Len(q)
    BY <1>0, <1>1 DEF Leads
  <2> DEFINE p == SubSeq(q, 1, n - 1)
  <2>2. p \in Leads(d, tokens, n - 1)
    BY <2>1, LeadStart
  <2>3. q[n] = KeyFor(d[p], tokens[n])
    BY <2>1 DEF LeadTo
  <2> HIDE DEF p
  <2>4. q \in Seq(STRING) /\ p \in Seq(STRING) /\ Len(p) = n - 1
    BY <2>2 DEF IsDocument, Leads
  <2>5. Len(q) = Len(p) + 1 /\ SubSeq(q, 1, Len(p)) = p /\ q[Len(p) + 1] = KeyFor(d[p], tokens[n])
    BY <1>0, <2>1, <2>3, <2>4 DEF p
  <2>6. q = Append(p, KeyFor(d[p], tokens[n]))
    BY <2>4, <2>5, OneMore
  <2>7. QED
    BY <2>2, <2>6
<1>2. ASSUME NEW p \in Leads(d, tokens, n - 1), q = Append(p, KeyFor(d[p], tokens[n]))
      PROVE  q \in Leads(d, tokens, n)
  <2>1. p \in Seq(STRING) /\ Len(p) = n - 1 /\ q \in Seq(STRING) /\ LeadTo(d, tokens, p)
    BY DEF IsDocument, Leads
  <2>2. Len(q) = n /\ q[n] = KeyFor(d[p], tokens[n]) /\ SubSeq(q, 1, n - 1) = p
    BY <1>0, <1>2, <2>1, OneMore
  <2>3. n - 1 \in 0 .. Len(q)
    BY <1>0, <2>2
  <2>4. /\ \A i \in 1 .. n - 1 : p[i] = q[i]
        /\ \A m \in 0 .. n - 1 : SubSeq(p, 1, m) = SubSeq(q, 1, m)
    BY <2>1, <2>2, <2>3, Starts
  <2>5. \A i \in 1 .. n - 1 : p[i] = KeyFor(d[SubSeq(p, 1, i - 1)], tokens[i])
    BY <2>1 DEF LeadTo
  <2>6. \A i \in 1 .. n : i # n => i \in 1 .. n - 1 /\ i - 1 \in 0 .. n - 1
    BY <1>0
  <2>7. \A i \in 1 .. n : q[i] = KeyFor(d[SubSeq(q, 1, i - 1)], tokens[i])
    <3> TAKE i \in 1 .. n
    <3>1. CASE i = n
      BY <2>2, <3>1
    <3>2. CASE i # n
      <4>1. i \in 1 .. n - 1 /\ i - 1 \in 0 .. n - 1
        BY <2>6, <3>2
      <4>2. QED
        BY <2>4, <2>5, <4>1
    <3>3. QED
      BY <3>1, <3>2
  <2>8. QED
    BY <1>0, <2>2, <2>7 DEF Leads, LeadTo
<1> QED
  BY <1>1, <1>2

-----------------------------------------------------------------------------
(* walk in closed form: where tokens lead, and where they get stuck.       *)

Stuck(d, tokens, n) ==
    \E p \in DOMAIN d :
        /\ LeadTo(d, tokens, p) /\ Len(p) < n
        /\ d[p].kind = "array" /\ ~isIndex(tokens[Len(p) + 1])

\* Where walk is after n tokens.
WalkAt(d, tokens, n) ==
    IF Stuck(d, tokens, n) THEN Failed
    ELSE IF Leads(d, tokens, n) = {} THEN Missing
    ELSE At(CHOOSE p \in Leads(d, tokens, n) : TRUE)

\* The outcomes of walk are told apart.
LEMMA Outcomes == /\ Failed.outcome # "at" /\ Missing.outcome # "at"
                  /\ \A p : At(p).outcome = "at" /\ At(p).place = p
BY DEF Failed, Missing, At

\* child is one step of it.
LEMMA WalkStep ==
  ASSUME NEW d, IsDocument(d), NEW tokens \in Seq(STRING), NEW n \in 1 .. Len(tokens)
  PROVE  WalkAt(d, tokens, n) =
           IF WalkAt(d, tokens, n - 1).outcome = "at"
           THEN child(d, WalkAt(d, tokens, n - 1).place, tokens[n]) ELSE WalkAt(d, tokens, n - 1)
<1>0. n \in Nat /\ n - 1 \in Nat /\ n - 1 + 1 = n /\ n - 1 \in 0 .. n /\ n - 1 < n
      /\ \A p \in DOMAIN d : Len(p) \in Nat /\ (Len(p) < n <=> Len(p) < n - 1 \/ Len(p) = n - 1)
  BY LenProperties DEF IsDocument
<1>1. CASE Stuck(d, tokens, n - 1)
  <2>1. Stuck(d, tokens, n)
    BY <1>0, <1>1 DEF Stuck
  <2>2. WalkAt(d, tokens, n) = Failed /\ WalkAt(d, tokens, n - 1) = Failed
    BY <1>1, <2>1 DEF WalkAt
  <2>3. QED
    BY <2>2, Outcomes
<1>2. ASSUME NEW q \in Leads(d, tokens, n)
      PROVE  \E p \in Leads(d, tokens, n - 1) : q = Append(p, KeyFor(d[p], tokens[n]))
  <2>1. q \in DOMAIN d
    BY DEF Leads
  <2>2. QED
    BY <2>1, LeadOn
<1>3. Stuck(d, tokens, n) <=>
        \/ Stuck(d, tokens, n - 1)
        \/ \E p \in Leads(d, tokens, n - 1) : d[p].kind = "array" /\ ~isIndex(tokens[n])
  BY <1>0 DEF Stuck, Leads
<1>4. CASE ~Stuck(d, tokens, n - 1) /\ Leads(d, tokens, n - 1) = {}
  <2>1. ~Stuck(d, tokens, n) /\ Leads(d, tokens, n) = {}
    BY <1>2, <1>3, <1>4
  <2>2. WalkAt(d, tokens, n) = Missing /\ WalkAt(d, tokens, n - 1) = Missing
    BY <1>4, <2>1 DEF WalkAt
  <2>3. QED
    BY <2>2, Outcomes
<1>5. ASSUME ~Stuck(d, tokens, n - 1), NEW p \in Leads(d, tokens, n - 1)
      PROVE  WalkAt(d, tokens, n - 1) = At(p) /\ WalkAt(d, tokens, n) = child(d, p, tokens[n])
  <2>1. \A q \in Leads(d, tokens, n - 1) : q = p
    BY OneWay
  <2>2. WalkAt(d, tokens, n - 1) = At(p)
    BY <1>5, <2>1 DEF WalkAt
  <2>3. p \in DOMAIN d /\ p \in Seq(STRING) /\ Len(p) = n - 1 /\ d[p].kind \in {"object", "array", "leaf"}
    BY DEF Leads, IsDocument
  <2> DEFINE key == KeyFor(d[p], tokens[n])
  <2>4. \A q \in Leads(d, tokens, n) : q = Append(p, key)
    BY <1>2, <2>1
  <2>5. Append(p, key) \in DOMAIN d => Append(p, key) \in Leads(d, tokens, n)
    BY LeadOn
  <2>6. \A q \in Leads(d, tokens, n) : q \in DOMAIN d
    BY DEF Leads
  <2>7. ~Stuck(d, tokens, n) => WalkAt(d, tokens, n) = Enter(d, Append(p, key))
    <3> HIDE DEF key
    <3>1. CASE Append(p, key) \in DOMAIN d
      <4> DEFINE q == Append(p, key)
      <4>1. q \in Leads(d, tokens, n) /\ \A r \in Leads(d, tokens, n) : r = q
        BY <2>4, <2>5, <3>1
      <4> HIDE DEF q
      <4>2. ~Stuck(d, tokens, n) => WalkAt(d, tokens, n) = At(q)
        BY <4>1 DEF WalkAt
      <4>3. QED
        BY <3>1, <4>2 DEF Enter, q
    <3>2. CASE Append(p, key) \notin DOMAIN d
      <4>1. Leads(d, tokens, n) = {}
        BY <2>4, <2>6, <3>2
      <4>2. QED
        BY <3>2, <4>1 DEF WalkAt, Enter
    <3>3. QED
      BY <3>1, <3>2
  <2>8. Stuck(d, tokens, n) <=> d[p].kind = "array" /\ ~isIndex(tokens[n])
    BY <1>3, <1>5, <2>1
  <2>9. CASE d[p].kind = "object"
    <3>1. key = tokens[n]
      BY <2>9 DEF KeyFor
    <3>2. child(d, p, tokens[n]) = Enter(d, Append(p, tokens[n]))
      BY <2>9 DEF child
    <3>3. QED
      BY <2>2, <2>7, <2>8, <2>9, <3>1, <3>2
  <2>10. CASE d[p].kind = "array" /\ isIndex(tokens[n])
    <3>1. key = Atoi[tokens[n]]
      BY <2>10 DEF KeyFor, isIndex
    <3>2. child(d, p, tokens[n]) = Enter(d, Append(p, Atoi[tokens[n]]))
      BY <2>10 DEF child
    <3>3. QED
      BY <2>2, <2>7, <2>8, <2>10, <3>1, <3>2
  <2>11. CASE d[p].kind = "array" /\ ~isIndex(tokens[n])
    <3>1. child(d, p, tokens[n]) = Failed
      BY <2>11 DEF child
    <3>2. WalkAt(d, tokens, n) = Failed
      BY <2>8, <2>11 DEF WalkAt
    <3>3. QED
      BY <2>2, <3>1, <3>2
  <2>12. CASE d[p].kind = "leaf"
    <3>1. Append(p, key) \notin DOMAIN d
      <4> SUFFICES ASSUME Append(p, key) \in DOMAIN d PROVE FALSE
        OBVIOUS
      <4> DEFINE q == Append(p, key)
      <4>1. Len(q) = n /\ SubSeq(q, 1, n - 1) = p
        <5> HIDE DEF key
        <5>1. QED
          BY <1>0, <2>3, OneMore
      <4>2. q \in DOMAIN d /\ n - 1 \in 0 .. Len(q) /\ n - 1 # Len(q)
        BY <1>0, <4>1
      <4> HIDE DEF q
      <4>3. d[SubSeq(q, 1, n - 1)].kind # "leaf"
        BY <4>2, DocPlaces
      <4>4. QED
        BY <2>12, <4>1, <4>3
    <3>2. child(d, p, tokens[n]) = Missing
      BY <2>12 DEF child
    <3>3. QED
      BY <2>2, <2>7, <2>8, <2>12, <3>1, <3>2 DEF Enter
  <2>13. QED
    BY <2>3, <2>9, <2>10, <2>11, <2>12
<1>6. CASE ~Stuck(d, tokens, n - 1) /\ Leads(d, tokens, n - 1) # {}
  <2>1. PICK p \in Leads(d, tokens, n - 1) : TRUE
    BY <1>6
  <2>2. QED
    BY <1>5, <1>6, <2>1, Outcomes
<1> QED
  BY <1>1, <1>4, <1>6

\* walk, by its own definition.
LEMMA WalkEnds ==
  ASSUME NEW d, IsDocument(d), NEW tokens \in Seq(STRING)
  PROVE  walk(d, tokens) = WalkAt(d, tokens, Len(tokens))
<1>0. Len(tokens) \in Nat
  BY LenProperties
<1> DEFINE f == [n \in 0 .. Len(tokens) |-> WalkAt(d, tokens, n)]
<1>1. WalkAt(d, tokens, 0) = At(<<>>)
  <2>1. \A p \in DOMAIN d : Len(p) \in Nat /\ p \in Seq(STRING)
    BY LenProperties DEF IsDocument
  <2>2. ~Stuck(d, tokens, 0)
    BY <2>1 DEF Stuck
  <2>3. <<>> \in DOMAIN d
    BY DEF IsDocument
  <2>4. <<>> \in Leads(d, tokens, 0)
    BY <1>0, <2>3 DEF Leads, LeadTo
  <2>5. \A p \in Leads(d, tokens, 0) : p = <<>>
    BY <2>4, OneWay
  <2>6. QED
    BY <2>2, <2>4, <2>5 DEF WalkAt
<1>2. \A n \in 0 .. Len(tokens) :
        f[n] = IF n = 0 THEN At(<<>>)
               ELSE IF f[n - 1].outcome = "at" THEN child(d, f[n - 1].place, tokens[n])
               ELSE f[n - 1]
  <2> TAKE n \in 0 .. Len(tokens)
  <2>1. CASE n = 0
    BY <1>0, <1>1, <2>1
  <2>2. CASE n # 0
    <3>1. n \in 1 .. Len(tokens) /\ n - 1 \in 0 .. Len(tokens)
      BY <1>0, <2>2
    <3>2. f[n] = WalkAt(d, tokens, n) /\ f[n - 1] = WalkAt(d, tokens, n - 1)
      BY <3>1
    <3>3. QED
      BY <2>2, <3>1, <3>2, WalkStep
  <2>3. QED
    BY <2>1, <2>2
<1> DEFINE after[n \in 0 .. Len(tokens)] ==
            IF n = 0 THEN At(<<>>)
            ELSE IF after[n - 1].outcome = "at" THEN child(d, after[n - 1].place, tokens[n])
            ELSE after[n - 1]
<1>3. walk(d, tokens) = after[Len(tokens)]
  BY DEF walk
<1>4. \E g : g = [n \in 0 .. Len(tokens) |->
            IF n = 0 THEN At(<<>>)
            ELSE IF g[n - 1].outcome = "at" THEN child(d, g[n - 1].place, tokens[n])
            ELSE g[n - 1]]
  <2>1. f = [n \in 0 .. Len(tokens) |-> f[n]]
    OBVIOUS
  <2> HIDE DEF f
  <2>2. f = [n \in 0 .. Len(tokens) |->
            IF n = 0 THEN At(<<>>)
            ELSE IF f[n - 1].outcome = "at" THEN child(d, f[n - 1].place, tokens[n])
            ELSE f[n - 1]]
    BY <1>2, <2>1
  <2>3. QED
    BY <2>2
<1>5. after = [n \in 0 .. Len(tokens) |->
            IF n = 0 THEN At(<<>>)
            ELSE IF after[n - 1].outcome = "at" THEN child(d, after[n - 1].place, tokens[n])
            ELSE after[n - 1]]
  BY <1>4, Zenon
<1> HIDE DEF after
<1> DEFINE S == {n \in Nat : n <= Len(tokens) => after[n] = WalkAt(d, tokens, n)}
<1>6. 0 \in S
  BY <1>0, <1>1, <1>5
<1>7. ASSUME NEW n \in 0 .. Len(tokens), n # 0 /\ n - 1 \in S
      PROVE  n \in S
  <2>1. n \in 1 .. Len(tokens) /\ n - 1 \in Nat /\ n - 1 <= Len(tokens) /\ n \in Nat
    BY <1>0, <1>7
  <2>2. after[n - 1] = WalkAt(d, tokens, n - 1)
    BY <1>7, <2>1
  <2>3. after[n] = IF after[n - 1].outcome = "at" THEN child(d, after[n - 1].place, tokens[n])
                   ELSE after[n - 1]
    BY <1>5, <1>7
  <2>4. after[n] = WalkAt(d, tokens, n)
    BY <2>1, <2>2, <2>3, WalkStep
  <2>5. QED
    BY <2>1, <2>4
<1>8. after[Len(tokens)] = WalkAt(d, tokens, Len(tokens))
  <2> HIDE DEF S
  <2>1. \A n \in 0 .. Len(tokens) : n \in S
    BY <1>0, <1>6, <1>7, FromFirst
  <2>2. Len(tokens) \in S
    BY <1>0, <2>1
  <2>3. QED
    BY <1>0, <2>2 DEF S
<1> QED
  BY <1>3, <1>8

-----------------------------------------------------------------------------
(* Masking: what it leaves, and masking more.                              *)

\* Strict prefixes are transitive.
LEMMA PrefixOfPrefix ==
  ASSUME NEW A, NEW p \in Seq(A), NEW q \in Seq(A), NEW r \in Seq(A),
         IsStrictPrefix(p, q), IsStrictPrefix(q, r)
  PROVE  IsStrictPrefix(p, r)
<1>1. /\ Len(p) < Len(q) /\ SubSeq(q, 1, Len(p)) = p
      /\ Len(q) < Len(r) /\ SubSeq(r, 1, Len(q)) = q
  BY StrictPrefix
<1>2. Len(p) \in Nat /\ Len(q) \in Nat /\ Len(r) \in Nat
  BY LenProperties
<1>3. Len(q) \in 0 .. Len(r) /\ Len(p) \in 0 .. Len(q) /\ Len(p) < Len(r)
  BY <1>1, <1>2
<1>4. SubSeq(SubSeq(r, 1, Len(q)), 1, Len(p)) = SubSeq(r, 1, Len(p))
  BY <1>3, Starts
<1>5. SubSeq(r, 1, Len(p)) = p
  BY <1>1, <1>4
<1> QED
  BY <1>3, <1>5, StrictPrefix

\* What masking leaves.
Spared(d, places) == {r \in DOMAIN d : \A p \in places : ~IsStrictPrefix(p, r)}

\* Those are the places of the masked document,
LEMMA ReplaceKeeps ==
  ASSUME NEW d, NEW places, NEW mask
  PROVE  DOMAIN Replace(d, places, mask) = Spared(d, places)
BY DEF Replace, Spared

\* and what is at each.
LEMMA Replaced ==
  ASSUME NEW d, NEW places, NEW mask, NEW q \in DOMAIN Replace(d, places, mask)
  PROVE  Replace(d, places, mask)[q] = IF q \in places THEN mask ELSE d[q]
BY DEF Replace

\* Around a place that is left, nothing was masked.
LEMMA AroundPlace ==
  ASSUME NEW d, IsDocument(d), NEW places \in SUBSET (DOMAIN d \ {<<>>}), NEW mask,
         NEW q \in DOMAIN Replace(d, places, mask), NEW n \in 0 .. Len(q), n # Len(q)
  PROVE  /\ SubSeq(q, 1, n) \in DOMAIN Replace(d, places, mask)
         /\ SubSeq(q, 1, n) \notin places
         /\ Replace(d, places, mask)[SubSeq(q, 1, n)] = d[SubSeq(q, 1, n)]
<1> DEFINE s == SubSeq(q, 1, n)
<1>0. DOMAIN Replace(d, places, mask) = Spared(d, places)
  BY ReplaceKeeps
<1>1. q \in DOMAIN d /\ \A p \in places : ~IsStrictPrefix(p, q)
  BY <1>0 DEF Spared
<1>2. /\ q \in Seq(STRING) /\ Len(q) \in Nat
      /\ s \in DOMAIN d /\ s \in Seq(STRING) /\ Len(s) = n
  BY <1>1, DocPlaces
<1>3. \A p \in places : p \in Seq(STRING)
  BY DEF IsDocument
<1>4. IsStrictPrefix(s, q)
  <2>1. Len(s) < Len(q) /\ SubSeq(q, 1, Len(s)) = s
    BY <1>2
  <2> HIDE DEF s
  <2>2. QED
    BY <1>2, <2>1, StrictPrefix
<1> HIDE DEF s
<1>5. s \notin places
  BY <1>1, <1>4
<1>6. \A p \in places : ~IsStrictPrefix(p, s)
  <2> SUFFICES ASSUME NEW p \in places, IsStrictPrefix(p, s) PROVE FALSE
    OBVIOUS
  <2>1. IsStrictPrefix(p, q)
    BY <1>2, <1>3, <1>4, PrefixOfPrefix
  <2>2. QED
    BY <1>1, <2>1
<1>7. s \in DOMAIN Replace(d, places, mask)
  BY <1>0, <1>2, <1>6 DEF Spared
<1>8. Replace(d, places, mask)[s] = d[s]
  BY <1>5, <1>7, Replaced
<1> QED
  BY <1>5, <1>7, <1>8 DEF s

\* A masked document is a document.
LEMMA ReplacedDocument ==
  ASSUME NEW d, IsDocument(d), NEW places \in SUBSET (DOMAIN d \ {<<>>}),
         NEW mask, mask.kind = "leaf"
  PROVE  IsDocument(Replace(d, places, mask))
<1> DEFINE m == Replace(d, places, mask)
<1>1. m = [p \in DOMAIN m |-> m[p]]
  BY DEF Replace
<1>2. /\ DOMAIN m = {r \in DOMAIN d : \A p \in places : ~IsStrictPrefix(p, r)}
      /\ \A q \in DOMAIN m : m[q] = IF q \in places THEN mask ELSE d[q]
  <2>1. DOMAIN m = Spared(d, places)
    BY ReplaceKeeps
  <2>2. \A q \in DOMAIN m : m[q] = IF q \in places THEN mask ELSE d[q]
    BY Replaced
  <2> HIDE DEF m
  <2>3. QED
    BY <2>1, <2>2 DEF Spared
<1>3. \A q \in DOMAIN m : \A n \in 0 .. (Len(q) - 1) :
        SubSeq(q, 1, n) \in DOMAIN m /\ m[SubSeq(q, 1, n)].kind # "leaf"
  <2> SUFFICES ASSUME NEW q \in DOMAIN m, NEW n \in 0 .. (Len(q) - 1)
               PROVE  SubSeq(q, 1, n) \in DOMAIN m /\ m[SubSeq(q, 1, n)].kind # "leaf"
    OBVIOUS
  <2>1. q \in DOMAIN d
    BY <1>2
  <2>2. q \in Seq(STRING)
    BY <2>1 DEF IsDocument
  <2>3. Len(q) \in Nat
    BY <2>2, LenProperties
  <2>4. n \in 0 .. Len(q) /\ n # Len(q)
    BY <2>3
  <2>5. d[SubSeq(q, 1, n)].kind # "leaf"
    BY <2>1, <2>4, DocPlaces
  <2>6. SubSeq(q, 1, n) \in DOMAIN m /\ m[SubSeq(q, 1, n)] = d[SubSeq(q, 1, n)]
    BY <2>4, AroundPlace
  <2>7. QED
    BY <2>5, <2>6
<1> HIDE DEF m
<1>4. <<>> \in DOMAIN m /\ m[<<>>].kind = "object"
  <2>1. \A p \in places : ~IsStrictPrefix(p, <<>>)
    <3> TAKE p \in places
    <3>1. p \in Seq(STRING) /\ <<>> \in Seq(STRING)
      BY DEF IsDocument
    <3>2. Len(p) \in Nat
      BY <3>1, LenProperties
    <3>3. ~(Len(p) < Len(<<>>))
      BY <3>2
    <3>4. QED
      BY <3>1, <3>3, StrictPrefix
  <2>2. <<>> \in DOMAIN m
    BY <1>2, <2>1 DEF IsDocument
  <2>3. m[<<>>] = d[<<>>]
    BY <1>2, <2>2
  <2>4. QED
    BY <2>2, <2>3 DEF IsDocument
<1>5. \A q \in DOMAIN m : q \in Seq(STRING) /\ m[q].kind \in {"object", "array", "leaf"}
  <2> TAKE q \in DOMAIN m
  <2>1. q \in DOMAIN d /\ m[q] = IF q \in places THEN mask ELSE d[q]
    BY <1>2
  <2>2. QED
    BY <2>1 DEF IsDocument
<1> QED
  BY <1>1, <1>3, <1>4, <1>5 DEF IsDocument, m

\* Tokens lead to the places that are left as they did before.
LEMMA LeadSame ==
  ASSUME NEW d, IsDocument(d), NEW places \in SUBSET (DOMAIN d \ {<<>>}), NEW mask,
         NEW tokens \in Seq(STRING), NEW q \in DOMAIN Replace(d, places, mask)
  PROVE  LeadTo(Replace(d, places, mask), tokens, q) <=> LeadTo(d, tokens, q)
<1> DEFINE m == Replace(d, places, mask)
<1>0. DOMAIN Replace(d, places, mask) = Spared(d, places)
  BY ReplaceKeeps
<1>1. q \in Seq(STRING)
  BY <1>0 DEF IsDocument, Spared
<1>2. Len(q) \in Nat
  BY <1>1, LenProperties
<1>3. \A i \in 1 .. Len(q) : m[SubSeq(q, 1, i - 1)] = d[SubSeq(q, 1, i - 1)]
  <2> TAKE i \in 1 .. Len(q)
  <2>1. i - 1 \in 0 .. Len(q) /\ i - 1 # Len(q)
    BY <1>2
  <2>2. QED
    BY <2>1, AroundPlace
<1> HIDE DEF m
<1>4. LeadTo(m, tokens, q) <=> LeadTo(d, tokens, q)
  BY <1>3 DEF LeadTo
<1> QED
  BY <1>4 DEF m

\* Masking one more place that is left, in a second turn or in one.
LEMMA ReplaceOneMore ==
  ASSUME NEW d, NEW places, NEW p, NEW mask, p \in DOMAIN Replace(d, places, mask)
  PROVE  Replace(Replace(d, places, mask), {p}, mask) = Replace(d, places \cup {p}, mask)
<1> DEFINE m == Replace(d, places, mask)
           l == Replace(m, {p}, mask)
           r == Replace(d, places \cup {p}, mask)
<1>1. DOMAIN m = {q \in DOMAIN d : \A k \in places : ~IsStrictPrefix(k, q)}
  BY ReplaceKeeps DEF Spared
<1>2. {q \in DOMAIN m : \A k \in {p} : ~IsStrictPrefix(k, q)}
        = {q \in DOMAIN d : \A k \in places \cup {p} : ~IsStrictPrefix(k, q)}
  BY <1>1
<1>3. \A q \in DOMAIN m : m[q] = IF q \in places THEN mask ELSE d[q]
  BY Replaced
<1>4. \A q \in {x \in DOMAIN m : \A k \in {p} : ~IsStrictPrefix(k, x)} :
        (IF q \in {p} THEN mask ELSE m[q]) = IF q \in places \cup {p} THEN mask ELSE d[q]
  BY <1>3
<1>5. l = [q \in {x \in DOMAIN m : \A k \in {p} : ~IsStrictPrefix(k, x)} |->
             IF q \in {p} THEN mask ELSE m[q]]
  BY DEF Replace
<1>6. r = [q \in {x \in DOMAIN d : \A k \in places \cup {p} : ~IsStrictPrefix(k, x)} |->
             IF q \in places \cup {p} THEN mask ELSE d[q]]
  BY DEF Replace
<1> HIDE DEF m, l, r
<1>7. l = r
  BY <1>2, <1>4, <1>5, <1>6
<1> QED
  BY <1>7 DEF l, r, m

\* What is gone cannot be masked again.
LEMMA ReplaceNoMore ==
  ASSUME NEW d, IsDocument(d), NEW places \in SUBSET (DOMAIN d \ {<<>>}), NEW mask,
         NEW more \in SUBSET (DOMAIN d),
         \A p \in more : p \notin DOMAIN Replace(d, places, mask)
  PROVE  Replace(d, places \cup more, mask) = Replace(d, places, mask)
<1> DEFINE D == {x \in DOMAIN d : \A k \in places : ~IsStrictPrefix(k, x)}
           E == {x \in DOMAIN d : \A k \in places \cup more : ~IsStrictPrefix(k, x)}
<1>0. DOMAIN Replace(d, places, mask) = D
  BY ReplaceKeeps DEF Spared
<1>1. \A p \in DOMAIN d : p \in Seq(STRING)
  BY DEF IsDocument
<1>2. ASSUME NEW x \in D, NEW k \in more, IsStrictPrefix(k, x)
      PROVE  FALSE
  <2>1. k \in DOMAIN d /\ k \notin D
    BY <1>0
  <2>2. PICK j \in places : IsStrictPrefix(j, k)
    BY <2>1
  <2>3. IsStrictPrefix(j, x)
    BY <1>1, <1>2, <2>1, <2>2, PrefixOfPrefix
  <2>4. QED
    BY <2>3
<1>3. D = E
  BY <1>2
<1>4. \A q \in D : (q \in places \cup more) <=> (q \in places)
  BY <1>0
<1>5. Replace(d, places \cup more, mask) = [q \in E |-> IF q \in places \cup more THEN mask ELSE d[q]]
  BY DEF Replace
<1>6. Replace(d, places, mask) = [q \in D |-> IF q \in places THEN mask ELSE d[q]]
  BY DEF Replace
<1> HIDE DEF D, E
<1> QED
  BY <1>3, <1>4, <1>5, <1>6

\* Tokens lead to places of the document.
LEMMA LeadingPlaces ==
  ASSUME NEW d, NEW tokens, NEW n
  PROVE  Leads(d, tokens, n) \subseteq DOMAIN d
BY DEF Leads

\* One pointer, on a document with some of its places masked.
LEMMA RedactOneMore ==
  ASSUME NEW d, IsDocument(d), NEW places \in SUBSET (DOMAIN d \ {<<>>}),
         NEW mask, mask.kind = "leaf", NEW pointer, IsPointer(pointer)
  PROVE  redactAt(Replace(d, places, mask), pointer, mask) =
           IF Senseless(Replace(d, places, mask), pointer) THEN Failed
           ELSE Done(Replace(d, places \cup Leads(d, pointer.tokens, Len(pointer.tokens)), mask))
<1> DEFINE m == Replace(d, places, mask)
           t == pointer.tokens
           n == Len(t)
           l == Leads(d, t, n)
           k == Leads(m, t, n)
<1>1. t \in Seq(STRING) /\ IsDocument(m)
  BY ReplacedDocument DEF IsPointer
<1>2. walk(m, t) = WalkAt(m, t, n)
  <2> HIDE DEF m, t
  <2>1. QED
    BY <1>1, WalkEnds
<1>3. Senseless(m, pointer) <=> ~pointer.ok \/ t = <<>> \/ Stuck(m, t, n)
  <2> HIDE DEF m
  <2>1. QED
    BY DEF Senseless, Stuck, isIndex
<1>4. \A p \in l : p \in DOMAIN m => p \in k
  <2> TAKE p \in l
  <2> SUFFICES ASSUME p \in DOMAIN m PROVE p \in k
    OBVIOUS
  <2>1. Len(p) = n /\ LeadTo(d, t, p)
    BY DEF Leads
  <2>2. LeadTo(m, t, p)
    BY <1>1, <2>1, LeadSame
  <2> HIDE DEF m
  <2>3. QED
    BY <2>1, <2>2 DEF Leads
<1>5. \A p \in k : p \in DOMAIN m /\ p \in l
  <2> TAKE p \in k
  <2>1. Len(p) = n /\ LeadTo(m, t, p) /\ p \in DOMAIN m
    <3> HIDE DEF m
    <3>1. QED
      BY DEF Leads
  <2>2. LeadTo(d, t, p)
    BY <1>1, <2>1, LeadSame
  <2>3. DOMAIN m = Spared(d, places)
    BY ReplaceKeeps
  <2>4. p \in DOMAIN d
    BY <2>1, <2>3 DEF Spared
  <2>5. QED
    BY <2>1, <2>2, <2>4 DEF Leads
<1>6. \A p \in l : \A q \in l : p = q
  <2> HIDE DEF t
  <2>1. QED
    BY <1>1, OneWay
<1>7. k = {} => Replace(d, places \cup l, mask) = m
  <2> SUFFICES ASSUME k = {} PROVE Replace(d, places \cup l, mask) = m
    OBVIOUS
  <2>1. \A p \in l : p \notin DOMAIN m
    BY <1>4
  <2>2. l \in SUBSET (DOMAIN d)
    BY LeadingPlaces
  <2> HIDE DEF l
  <2>3. QED
    BY <2>1, <2>2, ReplaceNoMore
<1>8. ASSUME NEW p \in k
      PROVE  Replace(d, places \cup l, mask) = Replace(m, {p}, mask)
  <2>1. l = {p}
    <3> HIDE DEF l, k
    <3>1. QED
      BY <1>5, <1>6
  <2>2. p \in DOMAIN m
    BY <1>5
  <2>3. Replace(m, {p}, mask) = Replace(d, places \cup {p}, mask)
    BY <2>2, ReplaceOneMore
  <2> HIDE DEF l, m
  <2>4. QED
    BY <2>1, <2>3
<1>9. \A p : Done(p).outcome = "done" /\ At(p).outcome = "at" /\ At(p).place = p
  BY DEF Done, At
<1> DEFINE e == WalkAt(m, t, n)
<1>10. redactAt(m, pointer, mask) =
         IF ~pointer.ok \/ t = <<>> THEN Failed
         ELSE IF e.outcome = "at" THEN Done(Replace(m, {e.place}, mask))
         ELSE IF e.outcome = "missing" THEN Done(m) ELSE e
  <2> HIDE DEF m, e, t
  <2>1. e.outcome = "at" => setPointer(m, t, mask) = Done(Replace(m, {e.place}, mask))
    BY <1>2 DEF e, setPointer
  <2>2. e.outcome # "at" => setPointer(m, t, mask) = e
    BY <1>2 DEF e, setPointer
  <2>3. redactAt(m, pointer, mask) =
          IF ~pointer.ok \/ t = <<>> THEN Failed
          ELSE IF setPointer(m, t, mask).outcome = "missing" THEN Done(m) ELSE setPointer(m, t, mask)
    BY DEF redactAt, t
  <2>4. \A x : Done(x).outcome # "missing"
    BY DEF Done
  <2>5. QED
    BY <2>1, <2>2, <2>3, <2>4
<1>11. /\ Failed.outcome # "at" /\ Failed.outcome # "missing"
       /\ Missing.outcome = "missing"
  BY DEF Failed, Missing
<1> HIDE DEF m, t, l, k
<1>12. CASE Stuck(m, t, n)
  <2>1. e = Failed
    BY <1>12 DEF WalkAt
  <2> HIDE DEF e
  <2>2. QED
    BY <1>3, <1>10, <1>11, <1>12, <2>1 DEF m
<1>13. CASE ~Stuck(m, t, n) /\ k = {}
  <2>1. e = Missing
    BY <1>13 DEF WalkAt, k
  <2> HIDE DEF e
  <2>2. redactAt(m, pointer, mask) = IF ~pointer.ok \/ t = <<>> THEN Failed ELSE Done(m)
    BY <1>10, <1>11, <2>1
  <2>3. QED
    BY <1>3, <1>7, <1>13, <2>2 DEF m, l, t
<1>14. CASE ~Stuck(m, t, n) /\ k # {}
  <2>1. PICK p \in k : e = At(p)
    BY <1>14 DEF WalkAt, k
  <2> HIDE DEF e
  <2>2. redactAt(m, pointer, mask) =
          IF ~pointer.ok \/ t = <<>> THEN Failed ELSE Done(Replace(m, {p}, mask))
    BY <1>9, <1>10, <2>1
  <2>3. Replace(d, places \cup l, mask) = Replace(m, {p}, mask)
    BY <1>8
  <2>4. QED
    BY <1>3, <1>14, <2>2, <2>3 DEF m, l, t
<1> QED
  BY <1>12, <1>13, <1>14

Well(d, pointers, mask) ==
    /\ IsDocument(d) /\ mask.kind = "leaf"
    /\ pointers \in Seq(ToSet(pointers)) /\ \A p \in ToSet(pointers) : IsPointer(p)

\* What the first n pointers denote, and one more.
LEMMA DenotedOneMore ==
  ASSUME NEW d, IsDocument(d), NEW A, NEW pointers \in Seq(A), NEW n \in 1 .. Len(pointers),
         pointers[n].tokens \in Seq(STRING), pointers[n].tokens # <<>>
  PROVE  Denoted(d, SubSeq(pointers, 1, n))
           = Denoted(d, SubSeq(pointers, 1, n - 1))
               \cup Leads(d, pointers[n].tokens, Len(pointers[n].tokens))
<1> DEFINE s == SubSeq(pointers, 1, n)
           r == SubSeq(pointers, 1, n - 1)
<1>1. n \in 0 .. Len(pointers) /\ n - 1 \in 0 .. Len(pointers) /\ n \in 1 .. n
      /\ \A i : i \in 1 .. n <=> i \in 1 .. n - 1 \/ i = n
  BY LenProperties
<1>2. s \in Seq(A) /\ Len(s) = n /\ \A i \in 1 .. n : s[i] = pointers[i]
  BY <1>1, Starts
<1>3. r \in Seq(A) /\ Len(r) = n - 1 /\ \A i \in 1 .. n - 1 : r[i] = pointers[i]
  BY <1>1, Starts
<1>4. DOMAIN s = 1 .. n /\ DOMAIN r = 1 .. n - 1
  <2> HIDE DEF s, r
  <2>1. QED
    BY <1>2, <1>3, LenProperties
<1>5. \A p \in DOMAIN d : LeadTo(d, pointers[n].tokens, p) /\ Len(p) = Len(pointers[n].tokens) => p # <<>>
  <2>1. Len(pointers[n].tokens) # 0
    BY EmptySeq
  <2>2. QED
    BY <2>1
<1> HIDE DEF s, r
<1> DEFINE Here(i, p) == Len(p) = Len(pointers[i].tokens) /\ LeadTo(d, pointers[i].tokens, p)
<1>6. Denoted(d, s) = {p \in DOMAIN d \ {<<>>} : \E i \in 1 .. n : Here(i, p)}
  BY <1>2, <1>4 DEF Denoted
<1>7. Denoted(d, r) = {p \in DOMAIN d \ {<<>>} : \E i \in 1 .. n - 1 : Here(i, p)}
  BY <1>3, <1>4 DEF Denoted
<1>8. Leads(d, pointers[n].tokens, Len(pointers[n].tokens)) = {p \in DOMAIN d \ {<<>>} : Here(n, p)}
  BY <1>5 DEF Leads
<1> HIDE DEF Here
<1>9. \A p : (\E i \in 1 .. n : Here(i, p)) <=> Here(n, p) \/ (\E i \in 1 .. n - 1 : Here(i, p))
  BY <1>1
<1> QED
  BY <1>6, <1>7, <1>8, <1>9 DEF s, r

-----------------------------------------------------------------------------
(* applyRedact in closed form: what all pointers denote, masked at once.   *)

\* doc with what its first n pointers denote masked.
After(d, pointers, mask, n) == Masked(d, SubSeq(pointers, 1, n), mask)

SensibleTo(d, pointers, mask, n) ==
    \A i \in 1 .. n : ~Senseless(After(d, pointers, mask, i - 1), pointers[i])

RedactedTo(d, pointers, mask, n) ==
    IF SensibleTo(d, pointers, mask, n) THEN Done(After(d, pointers, mask, n)) ELSE Failed

\* The pointers of a decision, one by one.
LEMMA PointerOf ==
  ASSUME NEW d, NEW pointers, NEW mask, Well(d, pointers, mask)
  PROVE  /\ Len(pointers) \in Nat
         /\ \A n \in 1 .. Len(pointers) : IsPointer(pointers[n])
<1>1. \A n \in 1 .. Len(pointers) : pointers[n] \in ToSet(pointers)
  BY ElementOfSeq DEF Well
<1> QED
  BY <1>1, LenProperties DEF Well

\* Pointers denote places below the root.
LEMMA DenotedPlaces ==
  ASSUME NEW d, NEW pointers
  PROVE  Denoted(d, pointers) \in SUBSET (DOMAIN d \ {<<>>})
BY DEF Denoted

\* redactAt is one step of it.
LEMMA RedactStep ==
  ASSUME NEW d, NEW pointers, NEW mask, Well(d, pointers, mask), NEW n \in 1 .. Len(pointers)
  PROVE  RedactedTo(d, pointers, mask, n) =
           IF RedactedTo(d, pointers, mask, n - 1).outcome = "done"
           THEN redactAt(RedactedTo(d, pointers, mask, n - 1).doc, pointers[n], mask)
           ELSE RedactedTo(d, pointers, mask, n - 1)
<1> DEFINE p == pointers[n]
           m == After(d, pointers, mask, n - 1)
           before == Denoted(d, SubSeq(pointers, 1, n - 1))
<1>1. IsDocument(d) /\ mask.kind = "leaf" /\ IsPointer(p) /\ p.tokens \in Seq(STRING)
  BY PointerOf DEF Well, IsPointer
<1>2. m = Replace(d, before, mask)
  BY DEF After, Masked
<1>3. redactAt(m, p, mask) =
        IF Senseless(m, p) THEN Failed
        ELSE Done(Replace(d, before \cup Leads(d, p.tokens, Len(p.tokens)), mask))
  <2>1. before \in SUBSET (DOMAIN d \ {<<>>})
    BY DenotedPlaces
  <2> HIDE DEF before, m, p
  <2>2. QED
    BY <1>1, <1>2, <2>1, RedactOneMore
<1>4. ~Senseless(m, p) => Replace(d, before \cup Leads(d, p.tokens, Len(p.tokens)), mask)
                            = After(d, pointers, mask, n)
  <2> SUFFICES ASSUME ~Senseless(m, p)
               PROVE  Replace(d, before \cup Leads(d, p.tokens, Len(p.tokens)), mask)
                        = After(d, pointers, mask, n)
    OBVIOUS
  <2>1. p.tokens # <<>>
    <3> HIDE DEF m
    <3>1. QED
      BY DEF Senseless
  <2>2. pointers \in Seq(ToSet(pointers))
    BY DEF Well
  <2>3. Denoted(d, SubSeq(pointers, 1, n)) = before \cup Leads(d, p.tokens, Len(p.tokens))
    <3>1. pointers[n].tokens \in Seq(STRING) /\ pointers[n].tokens # <<>>
      BY <1>1, <2>1
    <3>2. QED
      BY <1>1, <2>2, <3>1, DenotedOneMore
  <2> HIDE DEF before, p
  <2>4. QED
    BY <2>3 DEF After, Masked
<1>5. SensibleTo(d, pointers, mask, n) <=>
        SensibleTo(d, pointers, mask, n - 1) /\ ~Senseless(m, p)
  <2> HIDE DEF m, p
  <2>1. \A i : i \in 1 .. n <=> i \in 1 .. n - 1 \/ i = n
    BY PointerOf
  <2>2. QED
    BY <2>1 DEF SensibleTo, m, p
<1>6. Failed.outcome # "done" /\ \A x : Done(x).outcome = "done" /\ Done(x).doc = x
  BY DEF Failed, Done
<1>7. RedactedTo(d, pointers, mask, n - 1) = IF SensibleTo(d, pointers, mask, n - 1) THEN Done(m) ELSE Failed
  BY DEF RedactedTo
<1>8. RedactedTo(d, pointers, mask, n)
        = IF SensibleTo(d, pointers, mask, n) THEN Done(After(d, pointers, mask, n)) ELSE Failed
  BY DEF RedactedTo
<1> HIDE DEF m, p, before
<1>9. CASE SensibleTo(d, pointers, mask, n - 1)
  BY <1>3, <1>4, <1>5, <1>6, <1>7, <1>8, <1>9 DEF p
<1>10. CASE ~SensibleTo(d, pointers, mask, n - 1)
  BY <1>5, <1>6, <1>7, <1>8, <1>10
<1> QED
  BY <1>9, <1>10

\* Nothing denoted is nothing masked.
LEMMA NothingMasked ==
  ASSUME NEW d, NEW pointers, NEW mask, Well(d, pointers, mask)
  PROVE  After(d, pointers, mask, 0) = d
<1>1. pointers \in Seq(ToSet(pointers)) /\ 0 \in 0 .. Len(pointers)
  BY PointerOf DEF Well
<1>2. SubSeq(pointers, 1, 0) \in Seq(ToSet(pointers)) /\ Len(SubSeq(pointers, 1, 0)) = 0
  BY <1>1, Starts
<1> DEFINE s == SubSeq(pointers, 1, 0)
<1>3. DOMAIN s = {}
  <2> HIDE DEF s
  <2>1. DOMAIN s = 1 .. 0
    BY <1>2, LenProperties DEF s
  <2>2. QED
    BY <2>1
<1> HIDE DEF s
<1>4. Denoted(d, s) = {}
  BY <1>3 DEF Denoted
<1>5. Replace(d, {}, mask) = [q \in DOMAIN d |-> d[q]]
  BY DEF Replace
<1>6. d = [q \in DOMAIN d |-> d[q]]
  BY DEF Well, IsDocument
<1>7. After(d, pointers, mask, 0) = Replace(d, {}, mask)
  BY <1>4 DEF After, Masked, s
<1> QED
  BY <1>5, <1>6, <1>7

\* applyRedact, by its own definition.
LEMMA RedactEnds ==
  ASSUME NEW d, NEW pointers, NEW mask, Well(d, pointers, mask)
  PROVE  applyRedact(d, pointers, mask) = RedactedTo(d, pointers, mask, Len(pointers))
<1>0. Len(pointers) \in Nat
  BY PointerOf
<1> DEFINE f == [n \in 0 .. Len(pointers) |-> RedactedTo(d, pointers, mask, n)]
<1>1. RedactedTo(d, pointers, mask, 0) = Done(d)
  <2>1. SensibleTo(d, pointers, mask, 0)
    BY DEF SensibleTo
  <2>2. QED
    BY <2>1, NothingMasked DEF RedactedTo
<1>2. \A n \in 0 .. Len(pointers) :
        f[n] = IF n = 0 THEN Done(d)
               ELSE IF f[n - 1].outcome = "done" THEN redactAt(f[n - 1].doc, pointers[n], mask)
               ELSE f[n - 1]
  <2> TAKE n \in 0 .. Len(pointers)
  <2>1. CASE n = 0
    BY <1>0, <1>1, <2>1
  <2>2. CASE n # 0
    <3>1. n \in 1 .. Len(pointers) /\ n - 1 \in 0 .. Len(pointers)
      BY <1>0, <2>2
    <3>2. f[n] = RedactedTo(d, pointers, mask, n) /\ f[n - 1] = RedactedTo(d, pointers, mask, n - 1)
      BY <3>1
    <3>3. QED
      BY <2>2, <3>1, <3>2, RedactStep
  <2>3. QED
    BY <2>1, <2>2
<1> DEFINE after[n \in 0 .. Len(pointers)] ==
            IF n = 0 THEN Done(d)
            ELSE IF after[n - 1].outcome = "done" THEN redactAt(after[n - 1].doc, pointers[n], mask)
            ELSE after[n - 1]
<1>3. applyRedact(d, pointers, mask) = after[Len(pointers)]
  BY DEF applyRedact
<1>4. \E g : g = [n \in 0 .. Len(pointers) |->
            IF n = 0 THEN Done(d)
            ELSE IF g[n - 1].outcome = "done" THEN redactAt(g[n - 1].doc, pointers[n], mask)
            ELSE g[n - 1]]
  <2>1. f = [n \in 0 .. Len(pointers) |-> f[n]]
    OBVIOUS
  <2> HIDE DEF f
  <2>2. f = [n \in 0 .. Len(pointers) |->
            IF n = 0 THEN Done(d)
            ELSE IF f[n - 1].outcome = "done" THEN redactAt(f[n - 1].doc, pointers[n], mask)
            ELSE f[n - 1]]
    BY <1>2, <2>1
  <2>3. QED
    BY <2>2
<1>5. after = [n \in 0 .. Len(pointers) |->
            IF n = 0 THEN Done(d)
            ELSE IF after[n - 1].outcome = "done" THEN redactAt(after[n - 1].doc, pointers[n], mask)
            ELSE after[n - 1]]
  BY <1>4, Zenon
<1> HIDE DEF after
<1> DEFINE S == {n \in Nat : n <= Len(pointers) => after[n] = RedactedTo(d, pointers, mask, n)}
<1>6. 0 \in S
  BY <1>0, <1>1, <1>5
<1>7. ASSUME NEW n \in 0 .. Len(pointers), n # 0 /\ n - 1 \in S
      PROVE  n \in S
  <2>1. n \in 1 .. Len(pointers) /\ n - 1 \in Nat /\ n - 1 <= Len(pointers) /\ n \in Nat
    BY <1>0, <1>7
  <2>2. after[n - 1] = RedactedTo(d, pointers, mask, n - 1)
    BY <1>7, <2>1
  <2>3. after[n] = IF after[n - 1].outcome = "done" THEN redactAt(after[n - 1].doc, pointers[n], mask)
                   ELSE after[n - 1]
    BY <1>5, <1>7
  <2>4. after[n] = RedactedTo(d, pointers, mask, n)
    BY <2>1, <2>2, <2>3, RedactStep
  <2>5. QED
    BY <2>1, <2>4
<1>8. after[Len(pointers)] = RedactedTo(d, pointers, mask, Len(pointers))
  <2> HIDE DEF S
  <2>1. \A n \in 0 .. Len(pointers) : n \in S
    BY <1>0, <1>6, <1>7, FromFirst
  <2>2. Len(pointers) \in S
    BY <1>0, <2>1
  <2>3. QED
    BY <1>0, <2>2 DEF S
<1> QED
  BY <1>3, <1>8

\* Every output is still there, if only as a mask.
LEMMA OutputsRemain ==
  ASSUME NEW d, IsDocument(d), NEW places \in SUBSET (DOMAIN d \ {<<>>}), NEW mask
  PROVE  DOMAIN outputsOf(d) \subseteq DOMAIN outputsOf(Replace(d, places, mask))
<1> DEFINE m == Replace(d, places, mask)
<1>1. ASSUME NEW p \in DOMAIN d \ {<<>>}
      PROVE  \E s \in DOMAIN m \ {<<>>} : s[1] = p[1]
  <2> DEFINE s == SubSeq(p, 1, 1)
  <2>1. p \in Seq(STRING) /\ Len(p) \in Nat /\ Len(p) # 0
    <3>1. p \in Seq(STRING)
      BY DEF IsDocument
    <3>2. QED
      BY <3>1, EmptySeq, LenProperties
  <2>2. 1 \in 0 .. Len(p) /\ 1 \in 1 .. 1
    BY <2>1
  <2>3. s \in Seq(STRING) /\ Len(s) = 1 /\ s[1] = p[1] /\ s \in DOMAIN d
    BY <2>1, <2>2, Starts, DocPlaces
  <2> HIDE DEF s, m
  <2>4. \A k \in places : ~IsStrictPrefix(k, s)
    <3> TAKE k \in places
    <3>1. k \in Seq(STRING) /\ k # <<>>
      BY DEF IsDocument
    <3>2. Len(k) \in Nat /\ Len(k) # 0
      BY <3>1, EmptySeq, LenProperties
    <3>3. ~(Len(k) < Len(s))
      BY <2>3, <3>2
    <3>4. QED
      BY <2>3, <3>1, <3>3, StrictPrefix
  <2>5. DOMAIN m = Spared(d, places)
    BY ReplaceKeeps DEF m
  <2>6. s \in DOMAIN m
    BY <2>3, <2>4, <2>5 DEF Spared
  <2>7. s # <<>>
    <3>1. s \in Seq(STRING) /\ Len(s) # 0
      BY <2>3
    <3>2. QED
      BY <3>1, EmptySeq
  <2>8. QED
    BY <2>3, <2>6, <2>7
<1> HIDE DEF m
<1>2. DOMAIN outputsOf(d) = {p[1] : p \in DOMAIN d \ {<<>>}}
  BY DEF outputsOf
<1>3. DOMAIN outputsOf(m) = {p[1] : p \in DOMAIN m \ {<<>>}}
  BY DEF outputsOf
<1>4. {p[1] : p \in DOMAIN d \ {<<>>}} \subseteq {p[1] : p \in DOMAIN m \ {<<>>}}
  BY <1>1
<1> QED
  BY <1>2, <1>3, <1>4 DEF m

\* Splitting shows each output in one place, or it is blank.
LEMMA SplitShows ==
  ASSUME NEW outputs, NEW k \in DOMAIN outputs
  PROVE  \/ Shown(SplitRESTOutputs(outputs), k) = {outputs[k]}
         \/ Shown(SplitRESTOutputs(outputs), k) = {} /\ IsBlank(outputs[k])
<1> DEFINE params == splitOpenAPIOutputs(host.workflow.out).params
           up     == {j \in DOMAIN params \cap DOMAIN outputs : HasHeader(outputs[j])}
           blank  == {j \in DOMAIN params \cap DOMAIN outputs : IsBlank(outputs[j])}
           split  == SplitRESTOutputs(outputs)
<1>1. /\ split.headers = [j \in up |-> outputs[j]]
      /\ split.body = Restrict(outputs, DOMAIN outputs \ (up \cup blank))
  BY DEF SplitRESTOutputs
<1>2. k \in blank => IsBlank(outputs[k])
  OBVIOUS
<1> HIDE DEF split, up, blank
<1>3. /\ DOMAIN split.headers = up
      /\ \A j \in up : split.headers[j] = outputs[j]
      /\ DOMAIN split.body = DOMAIN outputs \ (up \cup blank)
      /\ \A j \in DOMAIN outputs \ (up \cup blank) : split.body[j] = outputs[j]
  BY <1>1 DEF Restrict
<1>4. \/ Shown(split, k) = {outputs[k]}
      \/ Shown(split, k) = {} /\ IsBlank(outputs[k])
  BY <1>2, <1>3 DEF Shown
<1> QED
  BY <1>4 DEF split

\* So every reply shows what the pointers leave.
LEMMA RestRedacts == RestInv => RedactsAsPointed
<1> DEFINE d == host.answer.outputs
           pointers == host.answer.redact
           mask == host.answer.mask
           final == After(d, pointers, mask, Len(pointers))
           expected == outputsOf(final)
           vetted == applyRedact(d, pointers, mask)
<1> SUFFICES ASSUME RestInv, call.at = "replied"
             PROVE  /\ call.reply.err = "none" => \A k \in DOMAIN outputsOf(d) :
                         \/ Shown(call.reply, k) = {expected[k]}
                         \/ Shown(call.reply, k) = {} /\ IsBlank(expected[k])
                    /\ call.reply.err = "denied" <=>
                         \E i \in DOMAIN pointers : Senseless(After(d, pointers, mask, i - 1), pointers[i])
  BY DEF RedactsAsPointed, After
<1>1. host \in Cases /\ call.reply = replyTo(call.req)
  BY DEF RestInv
<1>2. Well(d, pointers, mask)
  BY <1>1, CasesOK DEF Well
<1>3. vetted = IF SensibleTo(d, pointers, mask, Len(pointers)) THEN Done(final) ELSE Failed
  <2> HIDE DEF d, pointers, mask
  <2>1. QED
    BY <1>2, RedactEnds DEF RedactedTo
<1>4. SensibleTo(d, pointers, mask, Len(pointers)) <=>
        ~ \E i \in DOMAIN pointers : Senseless(After(d, pointers, mask, i - 1), pointers[i])
  <2> HIDE DEF d, pointers, mask
  <2>1. DOMAIN pointers = 1 .. Len(pointers)
    BY <1>2, LenProperties DEF Well
  <2>2. QED
    BY <2>1 DEF SensibleTo
<1>5. /\ Failed.outcome # "done"
      /\ Done(final).outcome = "done" /\ Done(final).doc = final
  BY DEF Failed, Done
<1>6. /\ Refused("denied").err = "denied"
      /\ Refused("internal").err = "internal"
  BY DEF Refused
<1>7. \A outputs : SplitRESTOutputs(outputs).err \in {"internal", "none"}
  BY DEF SplitRESTOutputs
<1> DEFINE split == SplitRESTOutputs(outputsOf(vetted.doc))
<1>8. call.reply = IF vetted.outcome # "done" THEN Refused("denied")
        ELSE IF call.req.via = "mcp"
             THEN [err |-> "none", headers |-> <<>>, body |-> outputsOf(vetted.doc)]
        ELSE IF split.err # "none" THEN Refused(split.err) ELSE split
  BY <1>1 DEF replyTo
<1>9. DOMAIN outputsOf(d) \subseteq DOMAIN expected
  <2>1. IsDocument(d)
    BY <1>2 DEF Well
  <2>2. Denoted(d, SubSeq(pointers, 1, Len(pointers))) \in SUBSET (DOMAIN d \ {<<>>})
    BY DenotedPlaces
  <2> HIDE DEF d, pointers, mask
  <2>3. QED
    BY <2>1, <2>2, OutputsRemain DEF After, Masked
<1> HIDE DEF vetted, final, d, pointers, mask
<1>10. CASE SensibleTo(d, pointers, mask, Len(pointers))
  <2>1. vetted.outcome = "done" /\ outputsOf(vetted.doc) = expected
    BY <1>3, <1>5, <1>10
  <2>2. split = SplitRESTOutputs(expected) /\ split.err \in {"internal", "none"}
    BY <1>7, <2>1
  <2> HIDE DEF split, expected
  <2>3. CASE call.req.via = "mcp"
    <3>1. call.reply = [err |-> "none", headers |-> <<>>, body |-> expected]
      BY <1>8, <2>1, <2>3
    <3>2. \A k \in DOMAIN expected : Shown(call.reply, k) = {expected[k]}
      BY <3>1 DEF Shown
    <3>3. call.reply.err # "denied"
      BY <3>1
    <3>4. QED
      BY <1>4, <1>9, <1>10, <3>2, <3>3
  <2>4. CASE call.req.via # "mcp" /\ split.err = "internal"
    <3>1. call.reply = Refused("internal")
      BY <1>8, <2>1, <2>4
    <3>2. call.reply.err # "none" /\ call.reply.err # "denied"
      BY <1>6, <3>1
    <3>3. QED
      BY <1>4, <1>10, <3>2
  <2>5. CASE call.req.via # "mcp" /\ split.err = "none"
    <3>1. call.reply = split
      BY <1>8, <2>1, <2>5
    <3>2. \A k \in DOMAIN expected :
            \/ Shown(call.reply, k) = {expected[k]}
            \/ Shown(call.reply, k) = {} /\ IsBlank(expected[k])
      BY <2>2, <3>1, SplitShows
    <3>3. call.reply.err # "denied"
      BY <2>5, <3>1
    <3>4. QED
      BY <1>4, <1>9, <1>10, <3>2, <3>3
  <2>6. QED
    BY <2>2, <2>3, <2>4, <2>5
<1>11. CASE ~SensibleTo(d, pointers, mask, Len(pointers))
  <2>1. call.reply = Refused("denied")
    BY <1>3, <1>5, <1>8, <1>11
  <2>2. call.reply.err = "denied"
    BY <1>6, <2>1
  <2>3. QED
    BY <1>4, <1>11, <2>2
<1> QED
  BY <1>10, <1>11

\* All pointers together.
LEMMA RedactAll ==
  ASSUME NEW d, NEW pointers, NEW mask, Well(d, pointers, mask),
         applyRedact(d, pointers, mask).outcome = "done"
  PROVE  applyRedact(d, pointers, mask) = Done(Masked(d, pointers, mask))
<1>1. Len(pointers) \in 0 .. Len(pointers) /\ pointers \in Seq(ToSet(pointers))
  BY PointerOf DEF Well
<1>2. SubSeq(pointers, 1, Len(pointers)) = pointers
  BY <1>1, Starts
<1>3. applyRedact(d, pointers, mask) = RedactedTo(d, pointers, mask, Len(pointers))
  BY RedactEnds
<1>4. Failed.outcome # "done"
  BY DEF Failed
<1>5. RedactedTo(d, pointers, mask, Len(pointers)) = Done(After(d, pointers, mask, Len(pointers)))
  BY <1>3, <1>4 DEF RedactedTo
<1> QED
  BY <1>2, <1>3, <1>5 DEF After

\* The order and the number of times in which a decision names its pointers does
\* not matter, unless for one order a pointer makes no sense: then the decision
\* fails, as it may where an array was not masked yet (redact.go:48-65, 132-182).
THEOREM PointerOrderIsFree ==
  ASSUME NEW d, NEW mask, NEW some, NEW other, Well(d, some, mask), Well(d, other, mask),
         ToSet(some) = ToSet(other),
         applyRedact(d, some, mask).outcome = "done",
         applyRedact(d, other, mask).outcome = "done"
  PROVE  applyRedact(d, some, mask) = applyRedact(d, other, mask)
<1> DEFINE Here(pointer, p) == Len(p) = Len(pointer.tokens) /\ LeadTo(d, pointer.tokens, p)
<1>1. ASSUME NEW s
      PROVE  Denoted(d, s) = {p \in DOMAIN d \ {<<>>} : \E pointer \in ToSet(s) : Here(pointer, p)}
  BY DEF Denoted, ToSet
<1>2. Denoted(d, some) = Denoted(d, other)
  <2> HIDE DEF Here
  <2>1. /\ Denoted(d, some) = {p \in DOMAIN d \ {<<>>} : \E pointer \in ToSet(some) : Here(pointer, p)}
        /\ Denoted(d, other) = {p \in DOMAIN d \ {<<>>} : \E pointer \in ToSet(other) : Here(pointer, p)}
    BY <1>1
  <2>2. QED
    BY <2>1
<1>3. Masked(d, some, mask) = Masked(d, other, mask)
  BY <1>2 DEF Masked
<1>4. applyRedact(d, some, mask) = Done(Masked(d, some, mask))
  BY RedactAll
<1>5. applyRedact(d, other, mask) = Done(Masked(d, other, mask))
  BY RedactAll
<1> QED
  BY <1>3, <1>4, <1>5

\* What Runner takes as given of keys and fields (RunnerConstantsOK).

KeysApart ==
    /\ Props(Body) \cap (Lifted \cup Reserved) = {}
    /\ Lifted \cap Reserved = {}
    /\ DOMAIN splitOpenAPIOutputs(host.workflow.out).params \subseteq host.workflow.out.names

\* The schemas that are served keep them apart.
LEMMA RestKeys == RestInv /\ stage = "serving" => KeysApart
<1> SUFFICES ASSUME RestInv, stage = "serving" PROVE KeysApart
  OBVIOUS
<1>1. host \in Cases /\ DocumentLoaded
  BY DEF RestInv
<1>2. Props(Body) = Props(Tool) \ Lifted /\ Lifted \subseteq Props(Tool)
  BY <1>1, ContractRoot
<1>3. Reserved \cap Props(Tool) = {}
  <2>1. NothingReserved(Tool)
    BY <1>1, CaseNodes, PublishedUnreserved DEF Tool, InputSchema
  <2>2. <<>> \in DOMAIN Tool
    BY <1>1, ContractRoot DEF Bounded
  <2>3. Through(<<>>, SameLevel)
    BY RootNotPassed
  <2>4. QED
    BY <2>1, <2>2, <2>3 DEF NothingReserved, Props
<1>4. DOMAIN splitOpenAPIOutputs(host.workflow.out).params \subseteq host.workflow.out.names
  <2> DEFINE out == host.workflow.out
             s   == IF out.schema = <<>> THEN Anything ELSE out.schema[1]
  <2>1. DOMAIN splitOpenAPIOutputs(out).params = LiftedOutputs(s)
    BY DEF splitOpenAPIOutputs
  <2>2. CASE out.schema = <<>>
    <3>1. Props(s) = {}
      BY <2>2, AnythingClean
    <3>2. LiftedOutputs(s) \subseteq Props(s)
      BY DEF LiftedOutputs
    <3>3. QED
      BY <2>1, <3>1, <3>2
  <2>3. CASE out.schema # <<>>
    <3>1. s = out.schema[1]
      BY <2>3
    <3>2. s \in ToSet(out.schema)
      <4>1. out.schema = <<s>>
        BY <1>1, <2>3, <3>1, CasesOK
      <4> HIDE DEF s, out
      <4>2. QED
        BY <4>1 DEF ToSet
    <3>3. Props(s) \subseteq out.names
      BY <1>1, <3>2 DEF DocumentLoaded, outputFault
    <3>4. LiftedOutputs(s) \subseteq Props(s)
      BY DEF LiftedOutputs
    <3>5. QED
      BY <2>1, <3>3, <3>4
  <2>4. QED
    BY <2>2, <2>3
<1> QED
  BY <1>2, <1>3, <1>4 DEF KeysApart

-----------------------------------------------------------------------------

\* What the invariant says of a running system.

\* An HTTP field of an operation that is served, header names without regard to
\* case, is a common parameter's, an input's or a credential's, and of no two of
\* them, for any options and any document (schema.go:385-461, security.go:244-290).
THEOREM FieldsMeanOneThingHolds == RestSpec => []FieldsMeanOneThing
BY RestInvHolds, RestFields, PTL

\* No published schema, whole or taken out of a document's or put together from
\* several, has an x-source left at a place that is reached through the keywords
\* that the walks visit, at any depth; inside of others the document's own are
\* published.  None that describes inputs has a reserved name where it describes
\* them (schema.go:96-141, 143-232, 490-528, 592-616, 770-970).
THEOREM PublishedCleanHolds == RestSpec => []PublishedClean
BY RestInvHolds, RestClean, PTL

\* A client that follows the published operation, or the tool's schema and the
\* workflow's scopes, is not refused before the workflow runs, for any schemas
\* as Valid reads them, parameters and requirements (openapi.go:106-183, schema.go:143-232,
\* runner.go:121-135, bind.go:34-53).
THEOREM PublishedRequestsAdmittedHolds == RestSpec => []PublishedRequestsAdmitted
BY RestInvHolds, RestAdmitted, PTL

\* Where the tool's schema is one of an object without combinators at its root
\* that declares what it requires, REST and MCP accept the same inputs
\* (schema.go:58-94, 143-232, 478-588).
THEOREM TransportsAgreeHolds == RestSpec => []TransportsAgree
BY RestInvHolds, RestAgrees, PTL

\* A reply shows the mask in exactly the places that the pointers denote in the
\* outputs, though applyRedact walks what the pointers before left over; and it
\* is a denial exactly if a pointer makes no sense there, for any document and
\* any pointers in any order (policy.go:438-461, redact.go:12-182, bind.go:81-120).
THEOREM RedactsAsPointedHolds == RestSpec => []RedactsAsPointed
BY RestInvHolds, RestRedacts, PTL

\* In an engine that serves, the keys of the body, those that are lifted and the
\* reserved ones do not overlap, and headers are made of outputs that the
\* workflow has: what Runner assumes of its constants holds of those that are
\* derived from a document (schema.go:143-232, 490-528, 721-857).
THEOREM KeysApartHolds == RestSpec => [](stage = "serving" => KeysApart)
BY RestInvHolds, RestKeys, PTL
=============================================================================
