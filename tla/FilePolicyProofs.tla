-------------------------- MODULE FilePolicyProofs --------------------------
(***************************************************************************)
(* Proofs about FilePolicy for any files, releases, libraries and number   *)
(* of loads.  A step either changes the disk or moves the load; so the     *)
(* invariant says of the load only what holds whatever the disk does next: *)
(* what was read so far was there at some moment of this load.             *)
(***************************************************************************)
EXTENDS FilePolicy, TLAPS

Points  == {"idle", "stat", "inbound", "outbound", "data", "empty", "list", "libs",
            "bundle", "returned"}
Results == {"none", "error", "nil", "bundle"}

FileTypes ==
    /\ kind \in [of : {"plan", "shared"}, how : {"rename", "write", "swap"}]
    /\ disk \in [there : BOOLEAN, files : [Files -> Int]]
    /\ deploy \in [release : 1 .. Len(Releases), left : SUBSET Files]
    /\ load \in [at : Points, n : Nat, got : [Files -> Int], left : SUBSET Libs,
                 result : Results]
    /\ during \in [Files -> SUBSET Int]

LEMMA SeqElements ==
  ASSUME NEW S, NEW s \in Seq(S)
  PROVE  Len(s) \in Nat /\ \A i \in 1 .. Len(s) : s[i] \in S
  OBVIOUS

LEMMA ReleasesType ==
  ASSUME FileTypes
  PROVE  /\ Len(Releases) \in Nat /\ Len(Releases) > 0
         /\ \A i \in 1 .. Len(Releases) : Releases[i] \in [Files -> Nat]
<1>1. CASE kind.of = "plan"
  BY <1>1, FilePolicyConstantsOK, SeqElements DEF Releases, Files
<1>2. CASE kind.of = "shared"
  BY <1>2, FilePolicyConstantsOK, SeqElements DEF Releases, Files
<1>3. QED
  BY <1>1, <1>2 DEF FileTypes

-----------------------------------------------------------------------------
\* Every release has the module and files are renamed into place.
Policed(f) ==
    /\ kind.how = "rename"
    /\ f \in Modules
    /\ \A i \in 1 .. Len(Releases) : Releases[i][f] # None

\* A deployment by renames leaves whole files of some release at all times.
WholeFiles(there, files) ==
    kind.how = "rename" =>
        /\ there
        /\ \A f \in Files : \E i \in 1 .. Len(Releases) : files[f] = Releases[i][f]

Witnessed(f, value) == value \in during[f] /\ (Policed(f) => value # None)

\* What a load has, by the point it is at.
GoodLoad(l) ==
    /\ l.at \in {"list", "libs"} => kind.of = "shared"
    /\ l.at \in {"data", "empty"} => kind.of = "plan"
    /\ l.at \in {"stat", "inbound", "outbound", "list"} =>
         \A f \in Files \ (Modules \cup {"data"}) : l.got[f] = None
    /\ l.at \in {"outbound", "data", "empty", "list"} => Witnessed("inbound", l.got["inbound"])
    /\ l.at \in {"data", "empty", "list"} => Witnessed("outbound", l.got["outbound"])
    /\ l.at \in {"libs", "bundle"} =>
         \A f \in Files \ {"data"} :
            (l.at = "libs" /\ f \in l.left) \/ Witnessed(f, l.got[f])
    /\ l.at = "returned" /\ l.result \in {"nil", "bundle"} =>
         \A f \in Files \ {"data"} :
            Witnessed(f, IF l.result = "nil" THEN None ELSE l.got[f])

FileInv ==
    /\ FileTypes
    /\ WholeFiles(disk.there, disk.files)
    /\ Loading => \A f \in Files : Read(f) \in during[f]
    /\ GoodLoad(load)

LEMMA FileInit == Init => FileInv
<1> SUFFICES ASSUME Init PROVE FileInv
  OBVIOUS
<1>1. kind \in [of : {"plan", "shared"}, how : {"rename", "write", "swap"}]
  BY DEF Init
<1>2. Len(Releases) \in Nat /\ Len(Releases) > 0 /\ Releases[1] \in [Files -> Nat]
  <2>1. CASE kind.of = "plan"
    BY <2>1, FilePolicyConstantsOK, SeqElements DEF Releases, Files
  <2>2. CASE kind.of = "shared"
    BY <2>2, FilePolicyConstantsOK, SeqElements DEF Releases, Files
  <2>3. QED
    BY <1>1, <2>1, <2>2
<1>3. FileTypes
  BY <1>1, <1>2 DEF Init, FileTypes, NoLoad, Nothing, None, Points, Results
<1>4. QED
  BY <1>2, <1>3 DEF Init, FileInv, WholeFiles, Loading, GoodLoad, NoLoad

-----------------------------------------------------------------------------
\* What a read finds of a module that is policed.
LEMMA ReadWitnessed ==
  ASSUME FileInv, Loading, NEW f \in Files
  PROVE  Witnessed(f, Read(f)) /\ Read(f) \in Int
<1>1. Read(f) \in during[f]
  BY DEF FileInv
<1>2. disk.files[f] \in Int
  BY DEF FileInv, FileTypes
<1>3. ASSUME Policed(f)
      PROVE  Read(f) # None
  <2>1. PICK i \in 1 .. Len(Releases) : disk.files[f] = Releases[i][f]
    BY <1>3 DEF FileInv, WholeFiles, Policed
  <2>2. Releases[i][f] \in Nat /\ Releases[i][f] # None
    BY <1>3, ReleasesType DEF FileInv, Policed
  <2>3. disk.there
    BY <1>3 DEF FileInv, WholeFiles, Policed
  <2>4. QED
    BY <2>1, <2>2, <2>3 DEF Read, Worth, Blank
<1>4. QED
  BY <1>1, <1>2, <1>3 DEF Witnessed, Read, Worth, None

\* A step of the deployment keeps the invariant if it keeps files whole.
LEMMA DiskStep ==
  ASSUME FileInv, NEW there \in BOOLEAN, NEW files \in [Files -> Int],
         Change(there, files), WholeFiles(there, files),
         deploy' \in [release : 1 .. Len(Releases), left : SUBSET Files]
  PROVE  FileInv'
<1>1. disk' = [there |-> there, files |-> files] /\ kind' = kind /\ load' = load
  BY DEF Change
<1>2. Files' = Files /\ Releases' = Releases
  BY <1>1 DEF Files, Releases
<1>3. \A f \in Files : Worth(there, files, f) \in Int
  BY DEF Worth, None
<1>4. /\ during' \in [Files -> SUBSET Int]
      /\ \A f \in Files : during[f] \subseteq during'[f]
      /\ Loading => \A f \in Files : Worth(there, files, f) \in during'[f]
  BY <1>3 DEF Change, FileInv, FileTypes
<1>5. FileTypes'
  BY <1>1, <1>2, <1>4 DEF FileInv, FileTypes
<1>6. WholeFiles(disk.there, disk.files)'
  BY <1>1, <1>2 DEF WholeFiles
<1>7. (Loading => \A f \in Files : Read(f) \in during[f])'
  BY <1>1, <1>2, <1>4 DEF Loading, Read, Worth
<1>8. \A f \in Files : \A v : Witnessed(f, v) => Witnessed(f, v)'
  BY <1>1, <1>2, <1>4 DEF Witnessed, Policed
<1>9. GoodLoad(load)'
  <2>1. "inbound" \in Files /\ "outbound" \in Files
    BY DEF Files, FilesOf, Modules
  <2>2. GoodLoad(load)
    BY DEF FileInv
  <2>3. QED
    BY <1>1, <1>2, <1>8, <2>1, <2>2 DEF GoodLoad
<1>10. QED
  BY <1>5, <1>6, <1>7, <1>9 DEF FileInv

LEMMA DeploymentKeeps ==
  ASSUME FileInv, Begin \/ SwapOut \/ SwapIn \/ \E f \in Files : Replace(f) \/ Write(f)
  PROVE  FileInv'
<1>1. /\ FileTypes /\ WholeFiles(disk.there, disk.files)
      /\ Len(Releases) \in Nat
      /\ \A i \in 1 .. Len(Releases) : Releases[i] \in [Files -> Nat]
  BY ReleasesType DEF FileInv
<1>2. CASE Begin
  <2>1. /\ deploy' \in [release : 1 .. Len(Releases), left : SUBSET Files]
        /\ UNCHANGED <<kind, disk, load, during>>
    BY <1>1, <1>2 DEF Begin, FileTypes
  <2>2. Files' = Files /\ Releases' = Releases
    BY <2>1 DEF Files, Releases
  <2>3. QED
    BY <2>1, <2>2 DEF FileInv, FileTypes, WholeFiles, Loading, Read, Worth, GoodLoad,
       Witnessed, Policed
<1>3. CASE SwapOut
  <2>1. /\ Change(FALSE, disk.files) /\ UNCHANGED deploy /\ kind.how = "swap"
    BY <1>3 DEF SwapOut
  <2>2. WholeFiles(FALSE, disk.files)
    BY <2>1 DEF WholeFiles
  <2>3. disk.files \in [Files -> Int]
    BY <1>1 DEF FileTypes
  <2>4. QED
    BY <1>1, <2>1, <2>2, <2>3, DiskStep DEF FileTypes
<1>4. CASE SwapIn
  <2>1. /\ Change(TRUE, Releases[deploy.release]) /\ ~disk.there
        /\ deploy' = [deploy EXCEPT !.left = {}]
    BY <1>4 DEF SwapIn
  <2>2. kind.how # "rename"
    BY <1>1, <2>1 DEF WholeFiles
  <2>3. Releases[deploy.release] \in [Files -> Int]
    BY <1>1 DEF FileTypes
  <2>4. deploy' \in [release : 1 .. Len(Releases), left : SUBSET Files]
    BY <1>1, <2>1 DEF FileTypes
  <2>5. WholeFiles(TRUE, Releases[deploy.release])
    BY <2>2 DEF WholeFiles
  <2>6. QED
    BY <2>1, <2>3, <2>4, <2>5, DiskStep
<1>5. ASSUME NEW f \in Files, Replace(f)
      PROVE  FileInv'
  <2> DEFINE files == [disk.files EXCEPT ![f] = Releases[deploy.release][f]]
  <2>1. /\ Change(TRUE, files) /\ kind.how = "rename"
        /\ deploy' = [deploy EXCEPT !.left = @ \ {f}]
    BY <1>5 DEF Replace
  <2>2. files \in [Files -> Int]
    BY <1>1 DEF FileTypes
  <2>3. WholeFiles(TRUE, files)
    BY <1>1, <2>1 DEF WholeFiles, FileTypes
  <2>4. deploy' \in [release : 1 .. Len(Releases), left : SUBSET Files]
    BY <1>1, <2>1 DEF FileTypes
  <2>5. QED
    BY <2>1, <2>2, <2>3, <2>4, DiskStep
<1>6. ASSUME NEW f \in Files, Write(f)
      PROVE  FileInv'
  <2> DEFINE new  == Releases[deploy.release][f]
             next == CASE new = None -> None
                       [] new # None /\ disk.files[f] = Blank -> Half
                       [] new # None /\ disk.files[f] = Half -> new
                       [] OTHER -> Blank
  <2>1. /\ Change(TRUE, [disk.files EXCEPT ![f] = next])
        /\ deploy' = [deploy EXCEPT !.left = IF next = new THEN @ \ {f} ELSE @]
        /\ kind.how = "write"
    BY <1>6 DEF Write
  <2>2. kind.how = "write" /\ next \in Int
    <3>1. new \in Int
      BY <1>1 DEF FileTypes
    <3>2. QED
      BY <2>1, <3>1 DEF None, Half, Blank
  <2> HIDE DEF next
  <2>3. [disk.files EXCEPT ![f] = next] \in [Files -> Int]
    BY <1>1, <2>2 DEF FileTypes
  <2>4. deploy' \in [release : 1 .. Len(Releases), left : SUBSET Files]
    BY <1>1, <2>1 DEF FileTypes
  <2>5. WholeFiles(TRUE, [disk.files EXCEPT ![f] = next])
    BY <2>2 DEF WholeFiles
  <2>6. QED
    BY <2>1, <2>3, <2>4, <2>5, DiskStep
<1>7. QED
  BY <1>2, <1>3, <1>4, <1>5, <1>6

-----------------------------------------------------------------------------
\* A step of the load reads the disk and leaves it alone.
LEMMA LoadStep ==
  ASSUME FileInv, UNCHANGED <<kind, disk, deploy, during>>, Loading' => Loading,
         load' \in [at : Points, n : Nat, got : [Files -> Int], left : SUBSET Libs,
                    result : Results],
         GoodLoad(load')
  PROVE  FileInv'
<1>1. Files' = Files /\ Releases' = Releases
  BY DEF Files, Releases
<1>2. FileTypes'
  BY <1>1 DEF FileInv, FileTypes
<1>3. WholeFiles(disk.there, disk.files)'
  BY <1>1 DEF FileInv, WholeFiles
<1>4. (Loading => \A f \in Files : Read(f) \in during[f])'
  BY <1>1 DEF FileInv, Read, Worth
<1>5. GoodLoad(load)'
  BY <1>1 DEF GoodLoad, Witnessed, Policed
<1>6. QED
  BY <1>2, <1>3, <1>4, <1>5 DEF FileInv

\* A load that returns an error, and one that goes back to idle.
LEMMA QuietReturn ==
  ASSUME FileInv, UNCHANGED <<kind, disk, deploy, during>>,
         \/ Loading /\ Return("error")
         \/ load' = [load EXCEPT !.at = "idle", !.result = "none"]
  PROVE  FileInv'
<1>1. load \in [at : Points, n : Nat, got : [Files -> Int], left : SUBSET Libs,
                result : Results]
  BY DEF FileInv, FileTypes
<1>2. load' \in [at : Points, n : Nat, got : [Files -> Int], left : SUBSET Libs,
                 result : Results]
  BY <1>1 DEF Return, Points, Results
<1>3. GoodLoad(load')
  BY <1>1 DEF GoodLoad, Return
<1>4. Loading' => Loading
  BY <1>1 DEF Loading, Return
<1>5. QED
  BY <1>2, <1>3, <1>4, LoadStep

LEMMA CallKeeps == FileInv /\ Call => FileInv'
<1> SUFFICES ASSUME FileInv, Call PROVE FileInv'
  OBVIOUS
<1>1. /\ FileTypes
      /\ Files' = Files /\ Releases' = Releases
      /\ UNCHANGED <<kind, disk, deploy>>
      /\ during' = [f \in Files |-> {Read(f)}]
  BY DEF FileInv, Call, Files, Releases
<1>2. PICK ok \in BOOLEAN :
         load' = [load EXCEPT !.n = @ + 1, !.got = Fresh,
                              !.at = IF ok THEN "stat" ELSE "returned",
                              !.result = IF ok THEN "none" ELSE "error"]
  BY DEF Call
<1>3. \A f \in Files : Read(f) \in Int
  BY <1>1 DEF FileTypes, Read, Worth, None
<1>4. FileTypes'
  <2>1. during' \in [Files -> SUBSET Int]
    BY <1>1, <1>3
  <2>2. Fresh \in [Files -> Int]
    BY DEF Fresh, Nothing, None
  <2>3. load' \in [at : Points, n : Nat, got : [Files -> Int], left : SUBSET Libs,
                   result : Results]
    <3>1. load \in [at : Points, n : Nat, got : [Files -> Int], left : SUBSET Libs,
                    result : Results]
      BY <1>1 DEF FileTypes
    <3>2. load' = [load EXCEPT !.n = load.n + 1, !.got = Fresh,
                              !.at = IF ok THEN "stat" ELSE "returned",
                              !.result = IF ok THEN "none" ELSE "error"]
      BY <1>2
    <3>3. load.n + 1 \in Nat
      BY <3>1
    <3>4. QED
      BY <2>2, <3>1, <3>2, <3>3 DEF Points, Results
  <2>4. QED
    BY <1>1, <2>1, <2>3 DEF FileTypes
<1>5. WholeFiles(disk.there, disk.files)'
  BY <1>1 DEF FileInv, WholeFiles
<1>6. (Loading => \A f \in Files : Read(f) \in during[f])'
  BY <1>1 DEF Read, Worth
<1>7. GoodLoad(load')
  <2>1. /\ load'.at \in {"stat", "returned"}
        /\ load'.at = "returned" => load'.result = "error"
        /\ load'.got = Nothing
    BY <1>1, <1>2 DEF FileTypes, Fresh
  <2>2. QED
    BY <2>1 DEF GoodLoad, Nothing
<1>8. GoodLoad(load)'
  BY <1>1, <1>7, <1>2 DEF GoodLoad, FileTypes
<1>9. QED
  BY <1>4, <1>5, <1>6, <1>8 DEF FileInv

LEMMA StatKeeps == FileInv /\ Stat => FileInv'
<1> SUFFICES ASSUME FileInv, Stat PROVE FileInv'
  OBVIOUS
<1>1. /\ load \in [at : Points, n : Nat, got : [Files -> Int], left : SUBSET Libs,
                   result : Results]
      /\ GoodLoad(load) /\ WholeFiles(disk.there, disk.files) /\ Loading
      /\ UNCHANGED <<kind, disk, deploy, during>> /\ load.at = "stat"
  BY DEF FileInv, FileTypes, Stat, Loading
<1>2. CASE disk.there
  <2>1. load' = [load EXCEPT !.at = "inbound"]
    BY <1>2 DEF Stat, Goto
  <2>2. GoodLoad(load')
    BY <1>1, <2>1 DEF GoodLoad
  <2>3. load' \in [at : Points, n : Nat, got : [Files -> Int], left : SUBSET Libs,
                   result : Results]
    BY <1>1, <2>1 DEF Points
  <2>4. QED
    BY <1>1, <2>2, <2>3, LoadStep
<1>3. CASE ~disk.there
  <2>1. load' = [load EXCEPT !.at = "returned", !.result = "nil"]
    BY <1>3 DEF Stat, Return
  <2>2. \A f \in Files : Witnessed(f, None)
    <3>1. \A f \in Files : Read(f) = None /\ Witnessed(f, Read(f))
      BY <1>1, <1>3, ReadWitnessed DEF Read, Worth
    <3>2. QED
      BY <3>1
  <2>3. load'.at = "returned" /\ load'.result = "nil"
    BY <1>1, <2>1
  <2>4. GoodLoad(load')
    BY <2>2, <2>3 DEF GoodLoad
  <2>5. load' \in [at : Points, n : Nat, got : [Files -> Int], left : SUBSET Libs,
                   result : Results]
    BY <1>1, <2>1 DEF Points, Results
  <2>6. QED
    BY <1>1, <2>4, <2>5, LoadStep
<1>4. QED
  BY <1>2, <1>3

LEMMA ReadsKeep == FileInv /\ (ReadInbound \/ ReadOutbound \/ ReadData) => FileInv'
<1> SUFFICES ASSUME FileInv, ReadInbound \/ ReadOutbound \/ ReadData PROVE FileInv'
  OBVIOUS
<1>1. /\ load \in [at : Points, n : Nat, got : [Files -> Int], left : SUBSET Libs,
                   result : Results]
      /\ GoodLoad(load) /\ Loading
      /\ kind.of \in {"plan", "shared"}
      /\ UNCHANGED <<kind, disk, deploy, during>>
      /\ "inbound" \in Files /\ "outbound" \in Files
      /\ \A f \in Files : Read(f) \in Int
  BY ReadWitnessed DEF FileInv, FileTypes, ReadInbound, ReadOutbound, ReadData, Loading,
     Files, FilesOf, Modules
<1>2. CASE ReadInbound
  <2>1. /\ load' = [load EXCEPT !.at = "outbound",
                                !.got = [@ EXCEPT !["inbound"] = Read("inbound")]]
        /\ load.at = "inbound"
    BY <1>2 DEF ReadInbound, Keep
  <2>2. /\ load'.at = "outbound" /\ load'.got["inbound"] = Read("inbound")
        /\ \A f \in Files \ {"inbound"} : load'.got[f] = load.got[f]
    BY <1>1, <2>1
  <2>3. Witnessed("inbound", Read("inbound"))
    BY <1>1, ReadWitnessed
  <2>4. GoodLoad(load')
    BY <1>1, <2>1, <2>2, <2>3 DEF GoodLoad, Modules
  <2>5. load' \in [at : Points, n : Nat, got : [Files -> Int], left : SUBSET Libs,
                   result : Results]
    BY <1>1, <2>1 DEF Points
  <2>6. QED
    BY <1>1, <2>4, <2>5, LoadStep
<1>3. CASE ReadOutbound
  <2> DEFINE none == load.got["inbound"] = None /\ Read("outbound") = None
             at == CASE kind.of = "shared"         -> "list"
                     [] kind.of = "plan" /\ none   -> "empty"
                     [] kind.of = "plan" /\ ~none  -> "data"
  <2>1. /\ load' = [load EXCEPT !.at = at,
                                !.got = [@ EXCEPT !["outbound"] = Read("outbound")]]
        /\ load.at = "outbound"
    BY <1>3 DEF ReadOutbound, Keep
  <2>2. /\ at \in {"list", "empty", "data"}
        /\ at = "list" <=> kind.of = "shared"
    BY <1>1
  <2> HIDE DEF at
  <2>3. /\ load'.at = at /\ load'.got["outbound"] = Read("outbound")
        /\ \A f \in Files \ {"outbound"} : load'.got[f] = load.got[f]
    BY <1>1, <2>1
  <2>4. Witnessed("outbound", Read("outbound")) /\ Witnessed("inbound", load.got["inbound"])
    BY <1>1, <2>1, ReadWitnessed DEF GoodLoad
  <2>5. GoodLoad(load')
    BY <1>1, <2>1, <2>2, <2>3, <2>4 DEF GoodLoad, Modules
  <2>6. load' \in [at : Points, n : Nat, got : [Files -> Int], left : SUBSET Libs,
                   result : Results]
    BY <1>1, <2>1, <2>2 DEF Points
  <2>7. QED
    BY <1>1, <2>5, <2>6, LoadStep
<1>4. CASE ReadData /\ Return("error")
  BY <1>1, <1>4, QuietReturn
<1>5. CASE ReadData /\ Keep("data", Merged(Read("data")), "bundle")
  <2>1. /\ load' = [load EXCEPT !.at = "bundle",
                                !.got = [@ EXCEPT !["data"] = Merged(Read("data"))]]
        /\ load.at = "data"
    BY <1>5 DEF ReadData, Keep
  <2>2. kind.of = "plan" /\ "data" \in Files
    BY <1>1, <2>1 DEF GoodLoad, Files, FilesOf
  <2>3. /\ load'.at = "bundle"
        /\ \A f \in Files \ {"data"} : load'.got[f] = load.got[f]
    BY <1>1, <2>1
  <2>4. \A f \in Files \ {"data"} : Witnessed(f, load.got[f])
    BY <1>1, <2>1, <2>2 DEF GoodLoad, Files, FilesOf, Modules
  <2>5. GoodLoad(load')
    BY <2>2, <2>3, <2>4 DEF GoodLoad
  <2>6. load' \in [at : Points, n : Nat, got : [Files -> Int], left : SUBSET Libs,
                   result : Results]
    <3>1. Merged(Read("data")) \in Int
      BY <1>1, <2>2 DEF Merged, Struct
    <3>2. QED
      BY <1>1, <2>1, <2>2, <3>1 DEF Points
  <2>7. QED
    BY <1>1, <2>5, <2>6, LoadStep
<1>6. QED
  BY <1>2, <1>3, <1>4, <1>5 DEF ReadData

LEMMA ListLibsKeeps == FileInv /\ ListLibs => FileInv'
<1> SUFFICES ASSUME FileInv, ListLibs PROVE FileInv'
  OBVIOUS
<1> DEFINE found == {f \in Libs : disk.there /\ disk.files[f] # None}
<1>1. /\ load \in [at : Points, n : Nat, got : [Files -> Int], left : SUBSET Libs,
                   result : Results]
      /\ GoodLoad(load) /\ Loading
      /\ UNCHANGED <<kind, disk, deploy, during>> /\ load.at = "list"
      /\ load' = [load EXCEPT !.left = found, !.at = IF found = {} THEN "bundle" ELSE "libs"]
  BY DEF FileInv, FileTypes, ListLibs, Loading
<1>2. kind.of = "shared" /\ Files = Modules \cup Libs
  BY <1>1 DEF GoodLoad, Files, FilesOf
<1>3. \A f \in Files \ {"data"} : f \in found \/ Witnessed(f, load.got[f])
  <2> SUFFICES ASSUME NEW f \in Files, f # "data", f \notin found
               PROVE  Witnessed(f, load.got[f])
    OBVIOUS
  <2>1. CASE f \in Modules
    BY <1>1, <2>1 DEF GoodLoad, Modules
  <2>2. CASE f \notin Modules
    <3>1. load.got[f] = None /\ ~Policed(f)
      BY <1>1, <2>2 DEF GoodLoad, Policed
    <3>2. Read(f) = None
      BY <1>2, <2>2 DEF Read, Worth
    <3>3. QED
      BY <1>1, <3>1, <3>2, ReadWitnessed DEF Witnessed
  <2>3. QED
    BY <2>1, <2>2
<1>4. /\ load'.left = found /\ load'.got = load.got
      /\ load'.at = IF found = {} THEN "bundle" ELSE "libs"
  BY <1>1
<1>5. found \subseteq Libs
  OBVIOUS
<1> HIDE DEF found
<1>6. GoodLoad(load')
  BY <1>2, <1>3, <1>4 DEF GoodLoad
<1>7. load' \in [at : Points, n : Nat, got : [Files -> Int], left : SUBSET Libs,
                 result : Results]
  BY <1>1, <1>5 DEF Points
<1>8. QED
  BY <1>1, <1>6, <1>7, LoadStep

LEMMA ReadLibKeeps ==
  ASSUME FileInv, NEW f \in Libs, ReadLib(f)
  PROVE  FileInv'
<1>1. /\ load \in [at : Points, n : Nat, got : [Files -> Int], left : SUBSET Libs,
                   result : Results]
      /\ GoodLoad(load) /\ Loading /\ f \in load.left
      /\ UNCHANGED <<kind, disk, deploy, during>> /\ load.at = "libs"
      /\ load' = [load EXCEPT !.got = [@ EXCEPT ![f] = Read(f)], !.left = @ \ {f},
                              !.at = IF load.left = {f} THEN "bundle" ELSE "libs"]
  BY DEF FileInv, FileTypes, ReadLib, Loading
<1>2. kind.of = "shared" /\ f \in Files
  BY <1>1 DEF GoodLoad, Files, FilesOf
<1>3. Witnessed(f, Read(f)) /\ Read(f) \in Int
  BY <1>1, <1>2, ReadWitnessed
<1>4. /\ load'.left = load.left \ {f} /\ load'.got[f] = Read(f)
      /\ \A g \in Files \ {f} : load'.got[g] = load.got[g]
      /\ load'.at = IF load.left = {f} THEN "bundle" ELSE "libs"
  BY <1>1, <1>2
<1>5. \A g \in Files \ {"data"} :
         (load'.at = "libs" /\ g \in load'.left) \/ Witnessed(g, load'.got[g])
  <2> SUFFICES ASSUME NEW g \in Files, g # "data"
               PROVE  (load'.at = "libs" /\ g \in load'.left) \/ Witnessed(g, load'.got[g])
    OBVIOUS
  <2>1. CASE g = f
    BY <1>3, <1>4, <2>1
  <2>2. CASE g # f
    BY <1>1, <1>4, <2>2 DEF GoodLoad
  <2>3. QED
    BY <2>1, <2>2
<1>6. GoodLoad(load')
  BY <1>2, <1>4, <1>5 DEF GoodLoad
<1>7. load' \in [at : Points, n : Nat, got : [Files -> Int], left : SUBSET Libs,
                 result : Results]
  BY <1>1, <1>3 DEF Points
<1>8. QED
  BY <1>1, <1>6, <1>7, LoadStep

LEMMA FinishKeeps == FileInv /\ Finish => FileInv'
<1> SUFFICES ASSUME FileInv, Finish PROVE FileInv'
  OBVIOUS
<1>1. /\ load \in [at : Points, n : Nat, got : [Files -> Int], left : SUBSET Libs,
                   result : Results]
      /\ GoodLoad(load) /\ Loading /\ load.at \in {"bundle", "empty"}
      /\ UNCHANGED <<kind, disk, deploy, during>>
      /\ load' = [load EXCEPT !.at = "returned",
                              !.result = IF load.got = Nothing THEN "nil" ELSE "bundle"]
  BY DEF FileInv, FileTypes, Finish, Loading, Return
<1>2. \A f \in Files \ {"data"} : Witnessed(f, load.got[f])
  <2>1. CASE load.at = "bundle"
    BY <1>1, <2>1 DEF GoodLoad
  <2>2. CASE load.at = "empty"
    BY <1>1, <2>2 DEF GoodLoad, Files, FilesOf, Modules
  <2>3. QED
    BY <1>1, <2>1, <2>2
<1>3. \A f \in Files \ {"data"} :
         Witnessed(f, IF load'.result = "nil" THEN None ELSE load'.got[f])
  <2>1. CASE load.got = Nothing
    <3>1. load'.result = "nil" /\ \A f \in Files : load.got[f] = None
      BY <1>1, <2>1 DEF Nothing
    <3>2. QED
      BY <1>2, <3>1
  <2>2. CASE load.got # Nothing
    <3>1. load'.result = "bundle" /\ load'.got = load.got
      BY <1>1, <2>2
    <3>2. QED
      BY <1>2, <3>1
  <2>3. QED
    BY <2>1, <2>2
<1>4. load'.at = "returned"
  BY <1>1
<1>5. GoodLoad(load')
  BY <1>3, <1>4 DEF GoodLoad
<1>6. load' \in [at : Points, n : Nat, got : [Files -> Int], left : SUBSET Libs,
                 result : Results]
  BY <1>1 DEF Points, Results
<1>7. QED
  BY <1>1, <1>5, <1>6, LoadStep

LEMMA FileStep == FileInv /\ [Next]_fileVars => FileInv'
<1> SUFFICES ASSUME FileInv, [Next]_fileVars PROVE FileInv'
  OBVIOUS
<1>1. CASE ReadFails \/ Again
  BY <1>1, QuietReturn DEF ReadFails, Again, Modules, Loading
<1>2. CASE Done \/ UNCHANGED fileVars
  <2>1. UNCHANGED fileVars
    BY <1>2 DEF Done
  <2>2. Files' = Files /\ Releases' = Releases
    BY <2>1 DEF fileVars, Files, Releases
  <2>3. QED
    BY <2>1, <2>2 DEF fileVars, FileInv, FileTypes, WholeFiles, Loading, Read, Worth,
       GoodLoad, Witnessed, Policed
<1>3. QED
  BY <1>1, <1>2, DeploymentKeeps, CallKeeps, StatKeeps, ReadsKeep, ListLibsKeeps,
     ReadLibKeeps, FinishKeeps DEF Next

-----------------------------------------------------------------------------
\* What was read so far was there during this load, and modules that every
\* release has were found: the invariant behind the two theorems below.
THEOREM FileInvHolds == Spec => []FileInv
BY FileInit, FileStep, PTL DEF Spec

\* Each file of a bundle has what the file held at some moment of the load,
\* and a nil bundle means that each module was missing or blank at some
\* moment of it (filepolicy.go:60-92, 110-145).
THEOREM EachFileWasThereHolds == Spec => []EachFileWasThere
<1>1. FileInv => EachFileWasThere
  BY DEF FileInv, GoodLoad, EachFileWasThere, Loaded, Witnessed
<1>2. QED
  BY <1>1, FileInvHolds, PTL

\* Where a deployment renames files into place, a module that every release
\* has is in every bundle a load returns.
THEOREM NeverUnpolicedHolds == Spec => []NeverUnpoliced
<1>1. FileInv => NeverUnpoliced
  <2> SUFFICES ASSUME FileInv, load.at = "returned", load.result \in {"nil", "bundle"},
                      kind.how = "rename", NEW m \in Modules,
                      \A i \in 1 .. Len(Releases) : Releases[i][m] # None
               PROVE  Loaded(m) # None
    BY DEF NeverUnpoliced
  <2>1. Policed(m) /\ m \in Files \ {"data"}
    BY DEF Policed, Files, FilesOf, Modules
  <2>2. QED
    BY <2>1 DEF FileInv, GoodLoad, Loaded, Witnessed
<1>2. QED
  BY <1>1, FileInvHolds, PTL
=============================================================================
