----------------------------- MODULE FilePolicy -----------------------------
(***************************************************************************)
(* FilePolicyLoader (arazzo/filepolicy.go) while somebody deploys: Load of *)
(* a plan's directory and LoadShared of _shared read one file after the    *)
(* other, and a deployment replaces them one after the other, writes them  *)
(* in place, or swaps the directory.                                       *)
(***************************************************************************)
EXTENDS Integers, Sequences

CONSTANTS
    Libs,          \* .rego files under _shared/lib
    PlanReleases,  \* contents of a plan's directory, release after release
    SharedReleases,\* contents of _shared
    StructData,    \* FilePolicyLoader.Data is set
    MaxLoads       \* bound: loads of the directory

Modules == {"inbound", "outbound"}
FilesOf(kind) == Modules \cup (IF kind = "plan" THEN {"data"} ELSE Libs)

\* What a file holds: a version; nothing but blanks; half of a new version.  One
\* os.ReadFile is one step, though it makes several reads: where a write in place
\* comes between these it can return what the file never held, as useless as Half.
None == 0
Blank == -1
Half == -2
Struct == -3   \* data of the loader's Data field alone

ASSUME FilePolicyConstantsOK ==
    /\ PlanReleases \in Seq([FilesOf("plan") -> Nat]) /\ Len(PlanReleases) > 0
    /\ SharedReleases \in Seq([FilesOf("shared") -> Nat]) /\ Len(SharedReleases) > 0
    /\ StructData \in BOOLEAN /\ MaxLoads \in Nat

VARIABLES
    kind,    \* which directory this is, and how releases reach it
    disk,    \* the files, and whether the directory is there
    deploy,  \* the release being deployed and the files it has yet to replace
    load,    \* the Load in progress
    during   \* what each file held at some moment of the load

fileVars == <<kind, disk, deploy, load, during>>

Files == FilesOf(kind.of)
Releases == IF kind.of = "plan" THEN PlanReleases ELSE SharedReleases
Nothing == [f \in Files |-> None]

\* What a read of file f is worth: a missing or blank file is no module.
Worth(there, files, f) == IF there /\ files[f] # Blank THEN files[f] ELSE None
Read(f) == Worth(disk.there, disk.files, f)

NoLoad == [at |-> "idle", n |-> 0, got |-> Nothing, left |-> {}, result |-> "none"]

Init ==
    /\ kind \in [of : {"plan", "shared"}, how : {"rename", "write", "swap"}]
    /\ disk = [there |-> TRUE, files |-> Releases[1]]
    /\ deploy = [release |-> 1, left |-> {}]
    /\ load = NoLoad
    /\ during = [f \in Files |-> {}]

Loading == load.at \notin {"idle", "returned"}

-----------------------------------------------------------------------------
(* The deployment.  What the files hold during a load is remembered.       *)

Change(there, files) ==
    /\ disk' = [there |-> there, files |-> files]
    /\ during' = IF Loading THEN [f \in Files |-> during[f] \cup {Worth(there, files, f)}]
                 ELSE during
    /\ UNCHANGED <<kind, load>>

Begin ==
    /\ deploy.left = {} /\ disk.there /\ deploy.release < Len(Releases)
    /\ deploy' = [release |-> deploy.release + 1,
                  left |-> {f \in Files : Releases[deploy.release + 1][f] # disk.files[f]}]
    /\ UNCHANGED <<kind, disk, load, during>>

Replace(f) ==
    /\ kind.how = "rename" /\ f \in deploy.left
    /\ deploy' = [deploy EXCEPT !.left = @ \ {f}]
    /\ Change(TRUE, [disk.files EXCEPT ![f] = Releases[deploy.release][f]])

\* Truncated, half written, written; a removed file goes at once.
Write(f) ==
    LET new == Releases[deploy.release][f] IN
    /\ kind.how = "write" /\ f \in deploy.left
    /\ \A g \in deploy.left \ {f} : disk.files[g] >= None
    /\ LET next == CASE new = None -> None
                     [] new # None /\ disk.files[f] = Blank -> Half
                     [] new # None /\ disk.files[f] = Half -> new
                     [] OTHER -> Blank
       IN  /\ deploy' = [deploy EXCEPT !.left = IF next = new THEN @ \ {f} ELSE @]
           /\ Change(TRUE, [disk.files EXCEPT ![f] = next])

SwapOut ==
    /\ kind.how = "swap" /\ deploy.left # {} /\ disk.there
    /\ UNCHANGED deploy
    /\ Change(FALSE, disk.files)

SwapIn ==
    /\ ~disk.there
    /\ deploy' = [deploy EXCEPT !.left = {}]
    /\ Change(TRUE, Releases[deploy.release])

-----------------------------------------------------------------------------
(* Load and LoadShared.                                                    *)

Goto(at) == load' = [load EXCEPT !.at = at]

Return(result) == load' = [load EXCEPT !.at = "returned", !.result = result]

\* Mutant of Fresh: the libraries of the load before are kept.
FreshButLibs == [f \in Files |-> IF f \in Libs THEN load.got[f] ELSE None]

Fresh == Nothing

\* ctx.Err, the reserved planId, and policyDir's checks of the path.
Call ==
    /\ load.at = "idle" /\ load.n < MaxLoads
    /\ \E ok \in BOOLEAN :
         load' = [load EXCEPT !.n = @ + 1, !.got = Fresh,
                              !.at = IF ok THEN "stat" ELSE "returned",
                              !.result = IF ok THEN "none" ELSE "error"]
    /\ during' = [f \in Files |-> {Read(f)}]
    /\ UNCHANGED <<kind, disk, deploy>>

Stat ==
    /\ load.at = "stat"
    /\ IF disk.there THEN Goto("inbound") ELSE Return("nil")
    /\ UNCHANGED <<kind, disk, deploy, during>>

Keep(f, value, at) == load' = [load EXCEPT !.at = at, !.got = [@ EXCEPT ![f] = value]]

ReadInbound ==
    /\ load.at = "inbound"
    /\ Keep("inbound", Read("inbound"), "outbound")
    /\ UNCHANGED <<kind, disk, deploy, during>>

\* Without modules Load ends here; LoadShared looks for libraries first.
ReadOutbound ==
    /\ load.at = "outbound"
    /\ LET none == load.got["inbound"] = None /\ Read("outbound") = None IN
       Keep("outbound", Read("outbound"),
            CASE kind.of = "shared"         -> "list"
              [] kind.of = "plan" /\ none   -> "empty"
              [] kind.of = "plan" /\ ~none  -> "data")
    /\ UNCHANGED <<kind, disk, deploy, during>>

\* mergePolicyData over a file that parses.
Merged(value) == IF value = None /\ StructData THEN Struct ELSE value

ReadData ==
    /\ load.at = "data"
    /\ IF Read("data") = Half
       THEN Return("error")
       ELSE Keep("data", Merged(Read("data")), "bundle")
    /\ UNCHANGED <<kind, disk, deploy, during>>

\* filepath.WalkDir lists the directory, then visits what it listed.
ListLibs ==
    /\ load.at = "list"
    /\ LET found == {f \in Libs : disk.there /\ disk.files[f] # None} IN
       load' = [load EXCEPT !.left = found, !.at = IF found = {} THEN "bundle" ELSE "libs"]
    /\ UNCHANGED <<kind, disk, deploy, during>>

ReadLib(f) ==
    /\ load.at = "libs" /\ f \in load.left
    /\ load' = [load EXCEPT !.got = [@ EXCEPT ![f] = Read(f)], !.left = @ \ {f},
                            !.at = IF load.left = {f} THEN "bundle" ELSE "libs"]
    /\ UNCHANGED <<kind, disk, deploy, during>>

\* Mutant of ReadFails: an error that is not os.IsNotExist is taken for it.
ReadFailsSilently ==
    /\ load.at \in Modules
    /\ Keep(load.at, None, IF load.at = "inbound" THEN "outbound" ELSE "bundle")
    /\ UNCHANGED <<kind, disk, deploy, during>>

ReadFails ==
    /\ load.at \in Modules \cup {"stat", "data", "list", "libs"}
    /\ Return("error")
    /\ UNCHANGED <<kind, disk, deploy, during>>

Finish ==
    /\ load.at \in {"bundle", "empty"}
    /\ Return(IF load.got = Nothing THEN "nil" ELSE "bundle")
    /\ UNCHANGED <<kind, disk, deploy, during>>

Again ==
    /\ load.at = "returned"
    /\ load' = [load EXCEPT !.at = "idle", !.result = "none"]
    /\ UNCHANGED <<kind, disk, deploy, during>>

Done == load.at = "idle" /\ load.n = MaxLoads /\ UNCHANGED fileVars

Next ==
    \/ Begin \/ SwapOut \/ SwapIn \/ \E f \in Files : Replace(f) \/ Write(f)
    \/ Call \/ Stat \/ ReadInbound \/ ReadOutbound \/ ReadData \/ ListLibs
    \/ (\E f \in Libs : ReadLib(f)) \/ ReadFails \/ Finish \/ Again \/ Done

Spec == Init /\ [][Next]_fileVars

-----------------------------------------------------------------------------
Loaded(f) == IF load.result = "nil" THEN None ELSE load.got[f]

\* A load may mix releases, but each file of its bundle has what the file
\* held at some moment of the load, and a nil bundle, which lets every call
\* pass, means that each module was missing or blank at some moment of it
\* (filepolicy.go:60-92, 110-145).
EachFileWasThere ==
    load.at = "returned" /\ load.result \in {"nil", "bundle"} =>
        \A f \in Files \ {"data"} : Loaded(f) \in during[f]

\* When a deployment renames files into place, a module that every release
\* has is in every bundle: neither a load in the middle of a deployment nor
\* an unreadable file switches a policy off.
NeverUnpoliced ==
    load.at = "returned" /\ load.result \in {"nil", "bundle"} /\ kind.how = "rename" =>
        \A m \in Modules :
            (\A i \in 1 .. Len(Releases) : Releases[i][m] # None) => Loaded(m) # None
=============================================================================
