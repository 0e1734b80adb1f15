------------------------------ MODULE ShimStore ------------------------------
(***************************************************************************)
(* The private store of executable wrapper shims                           *)
(* (internal/infra/shimstore/store_posix.go): cooperating atr processes    *)
(* install, list and remove artifacts under one advisory flock, any of     *)
(* them may crash between two system calls, a system call may fail, and    *)
(* the user edits the same directories while no process holds the lock.    *)
(*                                                                         *)
(* One action is one mutating system call together with the checks that    *)
(* precede it since the previous one, or one read phase whose result is    *)
(* used later.                                                             *)
(***************************************************************************)
EXTENDS Naturals, FiniteSets

CONSTANTS
  Proc,          \* concurrent atr processes
  Artifact,      \* opaque references wsh1_<sha256>; a reference fixes manifest and shim bytes
  Command,       \* ordinary command names, the names of bin entries
  CommandOf,     \* the command name bound by an artifact's manifest
  Dir,           \* directory inodes for records and stages; also names the shim inode inside
  MaxArtifacts,  \* wrappershim.MaxArtifacts
  MayFail,       \* TRUE: a system call may return an I/O error
  DriftKinds     \* which passive edits the user makes inside record and stage directories

ASSUME ConstantsAssumption ==
  /\ CommandOf \in [Artifact -> Command]
  /\ MaxArtifacts \in Nat \ {0}
  /\ MayFail \in BOOLEAN
  /\ DriftKinds \subseteq {"alien", "edited", "linked"}
  /\ Dir \cap {"none", "absent", "regular", "symlink", "special"} = {}
  /\ "none" \notin Proc

NoDir  == "none"
NoProc == "none"

(* Fixed names inside one artifact directory. *)
File == {"manifest", "shim"}

(* Entries of the root, in the order openForInstall creates them; the lock *)
(* file is created afterwards by acquireLock.                              *)
Parts == <<"root", "bin", "records", "staging">>
Part  == {"root", "bin", "records", "staging", "lock"}

ForeignKind == {"regular", "symlink", "special"}
BinEntry    == {"absent"} \cup ForeignKind \cup Dir

Operation == {"install", "status", "remove"}
Area      == {"shape", "staging", "records", "bin"}
State     == {"absent", "inactive", "active", "tampered"}
Code      == {"none", "Installed", "Already", "Removed", "Listed", "Conflict",
              "Tampered", "NotFound", "Capacity", "Unsafe", "Uncertain"}

(* Program points before the lock is held, and those at which it is held. *)
Opening == {"look", "mkdir", "open", "locklook", "lockmake", "locktry"}
Holding == {"survey", "sweep", "decide", "stage", "manifest", "shim", "publish",
            "unstage", "activate", "confirm", "examine", "deactivate",
            "quarantine", "purge", "scan", "scanbin"}

VARIABLES
  (* the file system, which survives crashes *)
  shape,    \* which fixed entries of the root exist
  records,  \* records/<reference> -> directory inode
  staging,  \* directory inodes under .staging (their random names are unique)
  files,    \* fixed files present in each directory inode
  drift,    \* passive edits the user made to each directory inode
  bin,      \* bin/<command>: absent, a foreign entry, or a hard link to a shim inode
  (* the advisory lock and the processes *)
  holder,   \* the process whose open descriptor holds the flock
  pc, op, art,
  part,     \* openForInstall: index of the directory being looked up
  dir,      \* the record or stage directory the operation works on
  was,      \* Remove: the activation state of the record when it was examined
  todo,     \* residues still to be removed
  wrote,    \* parts of the store this operation has changed so far
  result,   \* what the last operation of the process returned
  listing   \* Status: the inventory being built or returned

fs    == <<shape, records, staging, files, drift, bin>>
local == <<part, dir, was, todo>>
vars  == <<fs, holder, pc, op, art, local, wrote, result, listing>>

NoListing == [records |-> [a \in Artifact |-> "absent"], collisions |-> {}]
NoResult  == [op |-> "none", art |-> "none", code |-> "none", wrote |-> {}]

FilesOK ==
  /\ shape \subseteq Part
  /\ records \in [Artifact -> Dir \cup {NoDir}]
  /\ staging \subseteq Dir
  /\ files \in [Dir -> SUBSET File]
  /\ drift \in [Dir -> SUBSET DriftKinds]
  /\ bin \in [Command -> BinEntry]

LocalOK ==
  /\ part \in [Proc -> 1..4]
  /\ dir \in [Proc -> Dir \cup {NoDir}]
  /\ was \in [Proc -> State]
  /\ todo \in [Proc -> SUBSET Dir]
  /\ wrote \in [Proc -> SUBSET Area]

ControlOK ==
  /\ holder \in Proc \cup {NoProc}
  /\ pc \in [Proc -> {"idle"} \cup Opening \cup Holding]
  /\ op \in [Proc -> Operation \cup {"none"}]
  /\ art \in [Proc -> Artifact \cup {"none"}]

ReturnedOK ==
  /\ result \in [Proc -> [op: Operation \cup {"none"}, art: Artifact \cup {"none"},
                          code: Code, wrote: SUBSET Area]]
  /\ listing \in [Proc -> [records: [Artifact -> State], collisions: SUBSET Command]]

TypeOK == FilesOK /\ LocalOK /\ ControlOK /\ ReturnedOK

Init ==
  /\ shape = {}
  /\ records = [a \in Artifact |-> NoDir]
  /\ staging = {}
  /\ files = [d \in Dir |-> {}]
  /\ drift = [d \in Dir |-> {}]
  /\ bin = [c \in Command |-> "absent"]
  /\ holder = NoProc
  /\ pc = [p \in Proc |-> "idle"]
  /\ op = [p \in Proc |-> "none"]
  /\ art = [p \in Proc |-> "none"]
  /\ part = [p \in Proc |-> 1]
  /\ dir = [p \in Proc |-> NoDir]
  /\ was = [p \in Proc |-> "absent"]
  /\ todo = [p \in Proc |-> {}]
  /\ wrote = [p \in Proc |-> {}]
  /\ result = [p \in Proc |-> NoResult]
  /\ listing = [p \in Proc |-> NoListing]

-----------------------------------------------------------------------------
(* What the inspections observe.                                           *)

Recorded == {a \in Artifact : records[a] # NoDir}
Published == {records[a] : a \in Recorded}

(* No entry anywhere names the inode: a new directory may receive it. *)
FreeDir(d) == d \notin staging /\ d \notin Published /\ \A c \in Command : bin[c] # d

(* Nlink = 1 and Nlink = 2 of the shim inode in d: its own name, plus at    *)
(* most the bin entry c, plus the link a "linked" edit adds.                *)
OneLink(d)     == "linked" \notin drift[d] /\ \A c \in Command : bin[c] # d
TwoLinks(d, c) == "linked" \notin drift[d] /\ \A x \in Command : (bin[x] = d) <=> (x = c)

(* inspectStagingResidue: only the two fixed names, each with one link. *)
WellFormedResidue(d) ==
  /\ "alien" \notin drift[d]
  /\ "shim" \in files[d] => OneLink(d)

(* inspectRecord fails outright on a directory without exactly the two      *)
(* fixed entries.                                                           *)
Broken(a) == "alien" \in drift[records[a]] \/ files[records[a]] # File

(* inspectRecord followed by activation. *)
RecordState(a) ==
  LET d == records[a]
      c == CommandOf[a]
  IN  IF d = NoDir THEN "absent"
      ELSE IF Broken(a) \/ "edited" \in drift[d] THEN "tampered"
      ELSE IF bin[c] = d THEN (IF TwoLinks(d, c) THEN "active" ELSE "tampered")
      ELSE (IF OneLink(d) THEN "inactive" ELSE "tampered")

(* openVerifiedRecord on the record the operation inspected. *)
Verified(p) == records[art[p]] = dir[p] /\ dir[p] # NoDir /\ files[dir[p]] = File

Target(p) == CommandOf[art[p]]

-----------------------------------------------------------------------------
(* Control of one process.                                                 *)

Begin(p, o, a, first) ==
  /\ pc[p] = "idle"
  /\ pc' = [pc EXCEPT ![p] = first]
  /\ op' = [op EXCEPT ![p] = o]
  /\ art' = [art EXCEPT ![p] = a]
  /\ result' = [result EXCEPT ![p] = NoResult]
  /\ listing' = [listing EXCEPT ![p] = NoListing]
  /\ UNCHANGED <<fs, holder, local, wrote>>

(* The operation goes on; the file system part is given by the caller. *)
Goto(p, next) ==
  /\ pc' = [pc EXCEPT ![p] = next]
  /\ UNCHANGED <<holder, op, art, result, listing>>

Wrote(p, areas) == wrote' = [wrote EXCEPT ![p] = @ \cup areas]

(* The operation returns: the deferred closes release the lock and every   *)
(* pinned directory. areas is what its last step changed.                  *)
Return(p, code, areas) ==
  /\ pc' = [pc EXCEPT ![p] = "idle"]
  /\ holder' = IF holder = p THEN NoProc ELSE holder
  /\ result' = [result EXCEPT ![p] = [op |-> op[p], art |-> art[p], code |-> code,
                                      wrote |-> wrote[p] \cup areas]]
  /\ op' = [op EXCEPT ![p] = "none"]
  /\ art' = [art EXCEPT ![p] = "none"]
  /\ part' = [part EXCEPT ![p] = 1]
  /\ dir' = [dir EXCEPT ![p] = NoDir]
  /\ was' = [was EXCEPT ![p] = "absent"]
  /\ todo' = [todo EXCEPT ![p] = {}]
  /\ wrote' = [wrote EXCEPT ![p] = {}]

ReturnOnly(p, code) == Return(p, code, {}) /\ UNCHANGED <<fs, listing>>


-----------------------------------------------------------------------------
(* Opening the store and taking the lock.                                  *)

InstallStart(p, a) == Begin(p, "install", a, "look")
StatusStart(p)     == Begin(p, "status", "none", "open")
RemoveStart(p, a)  == Begin(p, "remove", a, "open")

NextPart(p) ==
  /\ part' = [part EXCEPT ![p] = IF @ < 4 THEN @ + 1 ELSE @]
  /\ Goto(p, IF part[p] < 4 THEN "look" ELSE "locklook")

OpenLook(p) ==
  /\ pc[p] = "look"
  /\ IF Parts[part[p]] \in shape
       THEN NextPart(p)
       ELSE Goto(p, "mkdir") /\ UNCHANGED part
  /\ UNCHANGED <<fs, dir, was, todo, wrote>>

(* MkdirAll accepts a root another process has just created; Mkdir of a    *)
(* child does not.                                                         *)
OpenMkdir(p) ==
  /\ pc[p] = "mkdir"
  /\ \/ /\ Parts[part[p]] \notin shape
        /\ shape' = shape \cup {Parts[part[p]]}
        /\ Wrote(p, {"shape"})
        /\ NextPart(p)
        /\ UNCHANGED <<records, staging, files, drift, bin, dir, was, todo>>
     \/ /\ "root" = Parts[part[p]] /\ "root" \in shape
        /\ NextPart(p)
        /\ UNCHANGED <<fs, dir, was, todo, wrote>>
     \/ /\ "root" # Parts[part[p]] /\ Parts[part[p]] \in shape
        /\ ReturnOnly(p, "Unsafe")

OpenExisting(p) ==
  /\ pc[p] = "open"
  /\ IF "root" \notin shape
       THEN ReturnOnly(p, IF op[p] = "status" THEN "Listed" ELSE "NotFound")
       ELSE IF {"bin", "records", "staging"} \subseteq shape
              THEN Goto(p, "locklook") /\ UNCHANGED <<fs, local, wrote>>
              ELSE ReturnOnly(p, "Unsafe")

LockLook(p) ==
  /\ pc[p] = "locklook"
  /\ IF "lock" \in shape THEN Goto(p, "locktry") /\ UNCHANGED <<fs, local, wrote>>
     ELSE IF op[p] = "install" THEN Goto(p, "lockmake") /\ UNCHANGED <<fs, local, wrote>>
     ELSE ReturnOnly(p, "Unsafe")

(* Creation is exclusive: whoever loses the race reports a conflict.       *)
LockCreate(p) ==
  /\ pc[p] = "lockmake"
  /\ \/ /\ "lock" \notin shape
        /\ shape' = shape \cup {"lock"}
        /\ Wrote(p, {"shape"})
        /\ Goto(p, "locktry")
        /\ UNCHANGED <<records, staging, files, drift, bin, local>>
     \/ /\ "lock" \in shape
        /\ ReturnOnly(p, "Conflict")

(* Mutant: Status reads without the lock. *)
LockTryReaders(p) ==
  /\ pc[p] = "locktry"
  /\ \/ /\ holder = NoProc \/ op[p] = "status"
        /\ holder' = IF op[p] = "status" THEN holder ELSE p
        /\ pc' = [pc EXCEPT ![p] = CASE op[p] = "install" -> "survey"
                                     [] op[p] = "remove"  -> "examine"
                                     [] op[p] = "status"  -> "scan"]
        /\ UNCHANGED <<fs, local, op, art, wrote, result, listing>>
     \/ /\ holder # NoProc /\ op[p] # "status"
        /\ ReturnOnly(p, "Conflict")

(* Mutant: flock without LOCK_NB. *)
LockTryWaiting(p) ==
  /\ pc[p] = "locktry"
  /\ holder = NoProc
  /\ holder' = p
  /\ pc' = [pc EXCEPT ![p] = CASE op[p] = "install" -> "survey"
                               [] op[p] = "remove"  -> "examine"
                               [] op[p] = "status"  -> "scan"]
  /\ UNCHANGED <<fs, local, op, art, wrote, result, listing>>

(* flock(LOCK_EX | LOCK_NB): no waiting. *)
LockTry(p) ==
  /\ pc[p] = "locktry"
  /\ \/ /\ holder = NoProc
        /\ holder' = p
        /\ pc' = [pc EXCEPT ![p] = CASE op[p] = "install" -> "survey"
                                     [] op[p] = "remove"  -> "examine"
                                     [] op[p] = "status"  -> "scan"]
        /\ UNCHANGED <<fs, local, op, art, wrote, result, listing>>
     \/ /\ holder # NoProc
        /\ ReturnOnly(p, "Conflict")

-----------------------------------------------------------------------------
(* Residues of earlier crashes, swept by Install and Remove under the lock. *)

(* Mutant: only Install sweeps. *)
SurveyInstallOnly(p) ==
  /\ pc[p] = "survey"
  /\ todo' = [todo EXCEPT ![p] = IF op[p] = "install" THEN staging ELSE {}]
  /\ Goto(p, "sweep")
  /\ UNCHANGED <<fs, part, dir, was, wrote>>

Survey(p) ==
  /\ pc[p] = "survey"
  /\ IF \/ op[p] = "install" /\ Cardinality(Recorded) > MaxArtifacts
        \/ Cardinality(staging) > MaxArtifacts
       THEN ReturnOnly(p, "Capacity")
     ELSE IF \E d \in staging : ~WellFormedResidue(d)
       THEN ReturnOnly(p, "Tampered")
     ELSE /\ todo' = [todo EXCEPT ![p] = staging]
          /\ Goto(p, "sweep")
          /\ UNCHANGED <<fs, part, dir, was, wrote>>

(* One system call of removeStagingResidue on d: shim, then manifest, then  *)
(* the directory itself.                                                   *)
ShrinkResidue(d) ==
  /\ files' = [files EXCEPT ![d] = IF "shim" \in @ THEN @ \ {"shim"} ELSE {}]
  /\ staging' = IF files[d] = {} THEN staging \ {d} ELSE staging
  /\ drift' = [drift EXCEPT ![d] = IF files[d] = {} THEN {}
                                   ELSE IF "shim" \in files[d] THEN @ \ {"edited"} ELSE @]
  /\ UNCHANGED <<shape, records, bin>>

Sweep(p) ==
  /\ pc[p] = "sweep"
  /\ \E d \in todo[p] :
       /\ ShrinkResidue(d)
       /\ todo' = [todo EXCEPT ![p] = IF files[d] = {} THEN @ \ {d} ELSE @]
  /\ Wrote(p, {"staging"})
  /\ Goto(p, "sweep")
  /\ UNCHANGED <<part, dir, was>>

(* Mutant: an active record is quarantined without unlinking its command. *)
SweepDoneLinked(p) ==
  /\ pc[p] = "sweep"
  /\ todo[p] = {}
  /\ Goto(p, IF op[p] = "install" THEN "decide" ELSE "quarantine")
  /\ UNCHANGED <<fs, local, wrote>>

SweepDone(p) ==
  /\ pc[p] = "sweep"
  /\ todo[p] = {}
  /\ Goto(p, IF op[p] = "install" THEN "decide"
             ELSE IF was[p] = "active" THEN "deactivate" ELSE "quarantine")
  /\ UNCHANGED <<fs, local, wrote>>

-----------------------------------------------------------------------------
(* Install under the lock.                                                 *)

Decide(p) ==
  /\ pc[p] = "decide"
  /\ LET state == RecordState(art[p])
     IN  \/ /\ state = "tampered"
            /\ ReturnOnly(p, "Tampered")
         \/ /\ state = "active"
            /\ ReturnOnly(p, "Already")
         \/ /\ state = "inactive"
            /\ dir' = [dir EXCEPT ![p] = records[art[p]]]
            /\ Goto(p, "activate")
            /\ UNCHANGED <<fs, part, was, todo, wrote>>
         \/ /\ state = "absent"
            /\ IF Cardinality(Recorded) >= MaxArtifacts THEN ReturnOnly(p, "Capacity")
               ELSE IF bin[Target(p)] # "absent" THEN ReturnOnly(p, "Conflict")
               ELSE Goto(p, "stage") /\ UNCHANGED <<fs, local, wrote>>

CreateStaging(p) ==
  /\ pc[p] = "stage"
  /\ \E d \in Dir :
       /\ FreeDir(d)
       /\ staging' = staging \cup {d}
       /\ files' = [files EXCEPT ![d] = {}]
       /\ drift' = [drift EXCEPT ![d] = {}]
       /\ dir' = [dir EXCEPT ![p] = d]
  /\ Wrote(p, {"staging"})
  /\ Goto(p, "manifest")
  /\ UNCHANGED <<shape, records, bin, part, was, todo>>

(* writePrivateFile: the file is created before its bytes are written, and  *)
(* a failure in between leaves no FileInfo, so that cleanupStagingDirectory *)
(* refuses the entry and leaves the stage behind.                          *)
WriteFile(p, at, file, next) ==
  /\ pc[p] = at
  /\ files' = [files EXCEPT ![dir[p]] = @ \cup {file}]
  /\ UNCHANGED <<shape, records, staging, drift, bin>>
  /\ \/ Goto(p, next) /\ UNCHANGED <<local, wrote>>
     \/ MayFail /\ Return(p, "Unsafe", {}) /\ UNCHANGED listing

WriteManifest(p) == WriteFile(p, "manifest", "manifest", "shim")
WriteShim(p)     == WriteFile(p, "shim", "shim", "publish")

(* renameNoReplace of the complete stage; an existing record is never       *)
(* replaced.                                                               *)
Publish(p) ==
  /\ pc[p] = "publish"
  /\ IF records[art[p]] # NoDir
       THEN Goto(p, "unstage") /\ UNCHANGED <<fs, wrote>>
       ELSE /\ records' = [records EXCEPT ![art[p]] = dir[p]]
            /\ staging' = staging \ {dir[p]}
            /\ Wrote(p, {"records"})
            /\ Goto(p, "activate")
            /\ UNCHANGED <<shape, files, drift, bin>>
  /\ UNCHANGED local

UnstageCode(p) == IF records[art[p]] # NoDir THEN "Conflict" ELSE "Unsafe"

(* cleanupStagingDirectory: the files in directory order, then the stage.   *)
Unstage(p) ==
  /\ pc[p] = "unstage"
  /\ \/ /\ \E f \in files[dir[p]] : files' = [files EXCEPT ![dir[p]] = @ \ {f}]
        /\ Goto(p, "unstage")
        /\ UNCHANGED <<shape, records, staging, drift, bin, local, wrote>>
     \/ /\ files[dir[p]] = {}
        /\ staging' = staging \ {dir[p]}
        /\ Return(p, UnstageCode(p), {})
        /\ UNCHANGED <<shape, records, files, drift, bin, listing>>

(* The record was published by this very operation. *)
Fresh(p) == "records" \in wrote[p]

(* Mutant: activation replaces whatever occupies the command. *)
ActivateReplacing(p) ==
  /\ pc[p] = "activate"
  /\ bin' = [bin EXCEPT ![Target(p)] = dir[p]]
  /\ Wrote(p, {"bin"})
  /\ Goto(p, "confirm")
  /\ UNCHANGED <<shape, records, staging, files, drift, local>>

(* link(2) never replaces an existing bin entry. *)
Activate(p) ==
  /\ pc[p] = "activate"
  /\ IF ~Verified(p) \/ ~OneLink(dir[p])
       THEN ReturnOnly(p, IF Fresh(p) THEN "Uncertain" ELSE "Tampered")
     ELSE IF bin[Target(p)] # "absent"
       THEN ReturnOnly(p, IF Fresh(p) THEN "Uncertain" ELSE "Conflict")
     ELSE /\ bin' = [bin EXCEPT ![Target(p)] = dir[p]]
          /\ Wrote(p, {"bin"})
          /\ Goto(p, "confirm")
          /\ UNCHANGED <<shape, records, staging, files, drift, local>>

(* The link is read back and synced before success is reported. *)
Confirm(p) ==
  /\ pc[p] = "confirm"
  /\ ReturnOnly(p, IF TwoLinks(dir[p], Target(p)) THEN "Installed" ELSE "Uncertain")

-----------------------------------------------------------------------------
(* Remove under the lock.                                                  *)

Examine(p) ==
  /\ pc[p] = "examine"
  /\ LET state == RecordState(art[p])
     IN  \/ /\ state = "absent"
            /\ ReturnOnly(p, "NotFound")
         \/ /\ state = "tampered"
            /\ ReturnOnly(p, "Tampered")
         \/ /\ state \in {"inactive", "active"}
            /\ dir' = [dir EXCEPT ![p] = records[art[p]]]
            /\ was' = [was EXCEPT ![p] = state]
            /\ Goto(p, "survey")
            /\ UNCHANGED <<fs, part, todo, wrote>>

(* Mutant: the record is moved away before its command is unlinked. *)
DeactivateLate(p) ==
  /\ pc[p] = "deactivate"
  /\ records' = [records EXCEPT ![art[p]] = NoDir]
  /\ staging' = staging \cup {dir[p]}
  /\ Wrote(p, {"records"})
  /\ Goto(p, "purge")
  /\ UNCHANGED <<shape, files, drift, bin, local>>

Deactivate(p) ==
  /\ pc[p] = "deactivate"
  /\ IF ~Verified(p) \/ bin[Target(p)] # dir[p]
       THEN ReturnOnly(p, "Tampered")
       ELSE /\ bin' = [bin EXCEPT ![Target(p)] = "absent"]
            /\ Wrote(p, {"bin"})
            /\ Goto(p, "quarantine")
            /\ UNCHANGED <<shape, records, staging, files, drift, local>>

(* Mutant: removeRecord forgets that it has already unlinked the command. *)
DeactivatedForgotten(p) == pc[p] = "idle"

Deactivated(p) == "bin" \in wrote[p]

(* removeRecord from the check after the unlink through moveRecordToStaging. *)
Quarantine(p) ==
  /\ pc[p] = "quarantine"
  /\ \/ /\ Deactivated(p) /\ bin[Target(p)] # "absent"
        /\ ReturnOnly(p, "Uncertain")
     \/ IF ~Verified(p) \/ ~OneLink(dir[p])
          THEN ReturnOnly(p, IF Deactivated(p) THEN "Uncertain" ELSE "Tampered")
          ELSE /\ records' = [records EXCEPT ![art[p]] = NoDir]
               /\ staging' = staging \cup {dir[p]}
               /\ Wrote(p, {"records"})
               /\ Goto(p, "purge")
               /\ UNCHANGED <<shape, files, drift, bin, local>>

Purge(p) ==
  /\ pc[p] = "purge"
  /\ dir[p] \in staging
  /\ ShrinkResidue(dir[p])
  /\ Goto(p, "purge")
  /\ UNCHANGED <<local, wrote>>

PurgeDone(p) ==
  /\ pc[p] = "purge"
  /\ dir[p] \notin staging
  /\ ReturnOnly(p, "Removed")

-----------------------------------------------------------------------------
(* Status under the lock.                                                  *)

Scan(p) ==
  /\ pc[p] = "scan"
  /\ IF Cardinality(staging) > MaxArtifacts \/ Cardinality(Recorded) > MaxArtifacts
       THEN ReturnOnly(p, "Capacity")
     ELSE IF \/ \E d \in staging : ~WellFormedResidue(d)
             \/ \E a \in Recorded : Broken(a)
       THEN ReturnOnly(p, "Tampered")
     ELSE /\ listing' = [listing EXCEPT ![p].records = [a \in Artifact |-> RecordState(a)]]
          /\ pc' = [pc EXCEPT ![p] = "scanbin"]
          /\ UNCHANGED <<fs, holder, op, art, local, wrote, result>>

ListedActive(p, c) == \E a \in Artifact : /\ CommandOf[a] = c
                                          /\ listing[p].records[a] = "active"
                                          /\ bin[c] = records[a]

ScanBin(p) ==
  /\ pc[p] = "scanbin"
  /\ LET entries == {c \in Command : bin[c] # "absent"}
     IN  IF Cardinality(entries) > MaxArtifacts THEN ReturnOnly(p, "Capacity")
         ELSE /\ listing' = [listing EXCEPT ![p].collisions =
                                {c \in entries : ~ListedActive(p, c)}]
              /\ Return(p, "Listed", {})
              /\ UNCHANGED fs

-----------------------------------------------------------------------------
(* Failures, crashes and the user.                                         *)

(* What is returned when a system call of the phase fails before its effect. *)
(* A failure after an effect is a failure of the next phase.                *)
FaultCodes(p) ==
  CASE pc[p] \in Opening \ {"lockmake", "locktry"} -> {"Unsafe"}
    [] pc[p] = "lockmake"   -> {"Conflict"}
    [] pc[p] = "locktry"    -> {"Unsafe", "Conflict"}
    [] pc[p] \in {"survey", "decide", "examine", "scan", "deactivate"} -> {"Unsafe", "Tampered"}
    [] pc[p] \in {"stage", "scanbin"} -> {"Unsafe"}
    [] pc[p] = "sweep"      -> IF "staging" \in wrote[p] THEN {"Uncertain"} ELSE {"Tampered"}
    [] pc[p] = "unstage"    -> {UnstageCode(p)}
    [] pc[p] = "activate"   -> IF Fresh(p) THEN {"Uncertain"} ELSE {"Unsafe", "Tampered", "Conflict"}
    [] pc[p] = "quarantine" -> IF Deactivated(p) THEN {"Uncertain"} ELSE {"Unsafe", "Tampered"}
    [] pc[p] \in {"confirm", "purge"} -> {"Uncertain"}
    [] OTHER -> {}

Fail(p) ==
  /\ MayFail
  /\ \E code \in FaultCodes(p) : ReturnOnly(p, code)

(* A failure before publication runs the deferred cleanup of the stage. *)
FailStaged(p) ==
  /\ MayFail
  /\ pc[p] \in {"manifest", "shim", "publish"}
  /\ Goto(p, "unstage")
  /\ UNCHANGED <<fs, local, wrote>>

(* The process dies: the kernel drops its flock, the files stay. *)
Crash(p) ==
  /\ pc[p] # "idle"
  /\ pc' = [pc EXCEPT ![p] = "idle"]
  /\ holder' = IF holder = p THEN NoProc ELSE holder
  /\ op' = [op EXCEPT ![p] = "none"]
  /\ art' = [art EXCEPT ![p] = "none"]
  /\ part' = [part EXCEPT ![p] = 1]
  /\ dir' = [dir EXCEPT ![p] = NoDir]
  /\ was' = [was EXCEPT ![p] = "absent"]
  /\ todo' = [todo EXCEPT ![p] = {}]
  /\ wrote' = [wrote EXCEPT ![p] = {}]
  /\ listing' = [listing EXCEPT ![p] = NoListing]
  /\ UNCHANGED <<fs, result>>

(* New bin entries appear at any time; the user replaces or deletes one,    *)
(* and edits record directories, only while no atr process is at work: the  *)
(* documented scope excludes racers that bypass the lock.                   *)
UserPut(c, kind) ==
  /\ "bin" \in shape
  /\ bin[c] # kind
  /\ bin[c] = "absent" \/ holder = NoProc
  /\ bin' = [bin EXCEPT ![c] = kind]
  /\ UNCHANGED <<shape, records, staging, files, drift, holder, pc, op, art, local,
                 wrote, result, listing>>

UserDelete(c) ==
  /\ holder = NoProc
  /\ bin[c] # "absent"
  /\ bin' = [bin EXCEPT ![c] = "absent"]
  /\ UNCHANGED <<shape, records, staging, files, drift, holder, pc, op, art, local,
                 wrote, result, listing>>

(* alien: an unknown entry in the directory; edited: other bytes in the     *)
(* shim; linked: one more hard link to the shim.                            *)
UserDrift(d, kind) ==
  /\ holder = NoProc
  /\ d \in staging \cup Published
  /\ kind \in {"edited", "linked"} => "shim" \in files[d]
  /\ drift' = [drift EXCEPT ![d] = @ \cup {kind}]
  /\ UNCHANGED <<shape, records, staging, files, bin, holder, pc, op, art, local,
                 wrote, result, listing>>

(* The code of one running operation, without failures and crashes. *)
Advance(p) ==
  \/ OpenLook(p) \/ OpenMkdir(p) \/ OpenExisting(p)
  \/ LockLook(p) \/ LockCreate(p) \/ LockTry(p)
  \/ Survey(p) \/ Sweep(p) \/ SweepDone(p)
  \/ Decide(p) \/ CreateStaging(p) \/ WriteManifest(p) \/ WriteShim(p)
  \/ Publish(p) \/ Unstage(p) \/ Activate(p) \/ Confirm(p)
  \/ Examine(p) \/ Deactivate(p) \/ Quarantine(p) \/ Purge(p) \/ PurgeDone(p)
  \/ Scan(p) \/ ScanBin(p)

Step(p) == Advance(p) \/ Fail(p) \/ FailStaged(p)

Start(p) == StatusStart(p) \/ \E a \in Artifact : InstallStart(p, a) \/ RemoveStart(p, a)

User ==
  \/ \E c \in Command : UserDelete(c) \/ \E kind \in ForeignKind : UserPut(c, kind)
  \/ \E d \in Dir, kind \in DriftKinds : UserDrift(d, kind)

Next == User \/ \E p \in Proc : Start(p) \/ Step(p) \/ Crash(p)

Spec == Init /\ [][Next]_vars

-----------------------------------------------------------------------------
(* Safety.                                                                 *)

(* Every link atr ever left in bin belongs to the published record of that *)
(* command: no crash, failure or sweep separates the unlink from the       *)
(* record's retirement in the wrong order (activate, removeRecord).        *)
BinLinkOwned ==
  \A c \in Command : bin[c] \in Dir => \E a \in Recorded : records[a] = bin[c] /\ CommandOf[a] = c

(* A published record always has its manifest and its shim: publication    *)
(* happens after both were written, and removal starts in quarantine.      *)
RecordsComplete == \A a \in Recorded : files[records[a]] = File

(* However often operations crash or fail, at most one residue exists: the *)
(* sweep precedes every step that could add another.                       *)
ResidueBounded == \A d, e \in staging : d = e

(* An outcome reported as a definite refusal left records and bin alone;   *)
(* whatever happens after their first change is reported as uncertain.     *)
DefiniteCode == {"Conflict", "Tampered", "NotFound", "Capacity", "Unsafe"}
DefiniteFailureChangedNothing ==
  \A p \in Proc : result[p].code \in DefiniteCode => result[p].wrote \cap {"records", "bin"} = {}

(* The store stays one that the next operation understands, whatever dies   *)
(* or fails in the middle: links, records and residues together.            *)
StoreIntegrity == BinLinkOwned /\ RecordsComplete /\ ResidueBounded

(* Nobody waits: whoever holds the lock, dies with it or leaves the store   *)
(* half-made, a process at work can always take its next step (flock with   *)
(* LOCK_NB in acquireLock).                                                *)
NobodyWaits == \A p \in Proc : pc[p] # "idle" => ENABLED Advance(p)

-----------------------------------------------------------------------------
(* Action properties.                                                      *)

Returns(p, codes) == pc[p] # "idle" /\ pc'[p] = "idle" /\ result'[p].code \in codes

(* A regular file, symlink or special entry in bin is changed by nobody    *)
(* but the user, whatever the store finds, refuses or retries.             *)
ForeignPreserved ==
  [][\A p \in Proc : Step(p) =>
       \A c \in Command : bin[c] \in ForeignKind => bin'[c] = bin[c]]_vars

(* A published record with any passive edit is neither deleted, emptied    *)
(* nor unlinked from bin by the store.                                     *)
DriftPreserved ==
  [][\A p \in Proc : Step(p) =>
       \A a \in Artifact : LET d == records[a]
                           IN  d # NoDir /\ drift[d] # {} =>
                                 /\ records'[a] = d
                                 /\ files'[d] = files[d]
                                 /\ \A c \in Command : bin[c] = d => bin'[c] = d]_vars

(* What is not its own any more the store leaves alone: entries it did not  *)
(* make, and artifacts somebody edited, linked elsewhere or added to.       *)
EditsPreserved == ForeignPreserved /\ DriftPreserved

(* Tampering is reported only when somebody edited something: without I/O  *)
(* errors, no crash of atr itself leaves a store it later calls tampered.   *)
TamperedOnlyAfterDrift ==
  [][\A p \in Proc : Returns(p, {"Tampered"}) => MayFail \/ \E d \in Dir : drift[d] # {}]_vars

(* What a return claims is true of the file system at that moment: an       *)
(* installed command is linked to its complete record, a removed one has    *)
(* neither record nor link nor quarantine left, and a store that is full    *)
(* was not swept either, although the sweep comes before that decision.     *)
ResultTruth ==
  [][\A p \in Proc :
       /\ Returns(p, {"Capacity"}) => result'[p].wrote \subseteq {"shape"}
       /\ \A a \in Artifact : art[p] = a =>
            /\ Returns(p, {"Installed", "Already"}) => RecordState(a)' = "active"
            /\ Returns(p, {"Removed"}) => /\ records'[a] = NoDir
                                          /\ dir[p] \notin staging'
                                          /\ \A c \in Command : bin'[c] # dir[p]
            /\ Returns(p, {"NotFound"}) => records'[a] = NoDir]_vars

-----------------------------------------------------------------------------
(* What a public message says (wrappershimcmd/service.go). The store does   *)
(* not keep this promise.                                                  *)

(* wrapper_artifact_collision: "A different or foreign artifact already     *)
(* occupies the managed command path".                                     *)
ConflictMeansOccupied ==
  [][\A p \in Proc, a \in Artifact :
       art[p] = a /\ op[p] = "install" /\ Returns(p, {"Conflict"}) =>
         bin'[CommandOf[a]] # "absent"]_vars

=============================================================================
