--------------------------- MODULE ShimStoreProofs ---------------------------
(***************************************************************************)
(* Theorems about ShimStore, for any processes, artifacts, commands and    *)
(* directories.                                                            *)
(*                                                                         *)
(* TypeOK needs to know which operation runs at which program point        *)
(* (Control).  The safety invariants need that at most one process is      *)
(* inside the lock (LockHeld) and what the one inside has established: the  *)
(* stage it fills is the only residue, and a stage is complete when it is   *)
(* published (Stages).                                                     *)
(*                                                                         *)
(* What a step does and what a return claims needs more: what the operation *)
(* has seen of its artifact and may rely on (Knowledge), what it has        *)
(* changed so far (Account), that a residue leaves room for its record     *)
(* (Room), and that the root was there first (Roots); together WorkInv.     *)
(* From it follow the definite refusals, the two action properties about    *)
(* edits, and every step of ShimLifecycle.  With what is true of a process  *)
(* that has not answered yet (AskInv), every answer is shown to hold in the *)
(* state it is given in.                                                   *)
(***************************************************************************)
EXTENDS WrapperCommand, FiniteSetTheorems, TLAPS

InstallPC == {"look", "mkdir", "lockmake", "decide", "stage", "manifest", "shim",
              "publish", "unstage", "activate", "confirm"}
RemovePC  == {"examine", "deactivate", "quarantine", "purge"}

(* Which operation is at which program point, and that it has its argument. *)
Runs(o, at) ==
  /\ at \in InstallPC => o = "install"
  /\ at \in RemovePC => o = "remove"
  /\ at \in {"survey", "sweep"} => o \in {"install", "remove"}

ControlOf(p) ==
  /\ pc[p] # "idle" => op[p] \in Operation
  /\ Runs(op[p], pc[p])
  /\ op[p] \in {"install", "remove"} => art[p] \in Artifact

Control == \A p \in Proc : ControlOf(p)

(* The process at a program point inside the lock is its holder. *)
LockHeld == \A p \in Proc : pc[p] \in Holding <=> holder = p

(* Directory inodes have one name. *)
OneName ==
  /\ \A a, b \in Artifact : records[a] = records[b] /\ records[a] # NoDir => a = b
  /\ \A a \in Artifact : records[a] \notin staging

(* What the operation inside the lock knows about staging. *)
StageOf(p) ==
  /\ pc[p] = "sweep" => todo[p] = staging
  /\ pc[p] \in {"decide", "stage", "deactivate", "quarantine"} => staging = {}
  /\ pc[p] \in {"manifest", "shim", "publish", "unstage"} => dir[p] \in Dir /\ staging = {dir[p]}
  /\ pc[p] = "shim" => "manifest" \in files[dir[p]]
  /\ pc[p] = "publish" => files[dir[p]] = File

Stages == \A p \in Proc : StageOf(p)

TypeInv == TypeOK /\ Control
StoreInv == LockHeld /\ OneName /\ RecordsComplete /\ BinLinkOwned /\ ResidueBounded /\ Stages

-----------------------------------------------------------------------------
(* Type correctness.                                                       *)

(* A return that changes no file keeps the types. *)
LEMMA ReturnType ==
  ASSUME TypeInv, NEW p \in Proc, NEW code \in Code, NEW areas \in SUBSET Area,
         Return(p, code, areas), FilesOK', listing' \in [Proc -> [records: [Artifact -> State], collisions: SUBSET Command]]
  PROVE  TypeInv'
<1>1. LocalOK'
  BY DEF TypeInv, TypeOK, LocalOK, Return, State
<1>2. ControlOK'
  BY DEF TypeInv, TypeOK, ControlOK, Return
<1>3. ReturnedOK'
  BY DEF TypeInv, TypeOK, LocalOK, ControlOK, ReturnedOK, Return
<1>4. Control'
  BY DEF TypeInv, TypeOK, ControlOK, Control, ControlOf, Runs, InstallPC, RemovePC, Return, Operation
<1> QED
  BY <1>1, <1>2, <1>3, <1>4 DEF TypeInv, TypeOK

LEMMA ReturnOnlyType ==
  ASSUME TypeInv, NEW p \in Proc, NEW code \in Code, ReturnOnly(p, code)
  PROVE  TypeInv'
<1>1. FilesOK' /\ listing' \in [Proc -> [records: [Artifact -> State], collisions: SUBSET Command]]
  BY DEF TypeInv, TypeOK, FilesOK, ReturnedOK, ReturnOnly, fs
<1> QED
  BY <1>1, ReturnType DEF ReturnOnly

(* A step to another program point of the same operation. *)
LEMMA GotoType ==
  ASSUME TypeInv, NEW p \in Proc, pc[p] # "idle", NEW next \in Opening \cup Holding,
         Goto(p, next), Runs(op[p], next), FilesOK', LocalOK'
  PROVE  TypeInv'
<1>1. ControlOK'
  BY DEF TypeInv, TypeOK, ControlOK, Goto
<1>2. ReturnedOK'
  BY DEF TypeInv, TypeOK, ReturnedOK, Goto
<1>3. Control'
  BY DEF TypeInv, TypeOK, ControlOK, Control, ControlOf, Goto
<1> QED
  BY <1>1, <1>2, <1>3 DEF TypeInv, TypeOK

LEMMA SameFiles == ASSUME TypeInv, UNCHANGED fs PROVE FilesOK'
BY DEF TypeInv, TypeOK, FilesOK, fs

LEMMA SameLocal == ASSUME TypeInv, UNCHANGED <<local, wrote>> PROVE LocalOK'
BY DEF TypeInv, TypeOK, LocalOK, local

LEMMA StateType ==
  ASSUME NEW a
  PROVE  RecordState(a) \in State
BY DEF RecordState, State

(* Every step of an operation keeps the types. *)
LEMMA StepType ==
  ASSUME TypeInv, NEW p \in Proc, Step(p)
  PROVE  TypeInv'
<1>1. FilesOK /\ LocalOK /\ ControlOK /\ ControlOf(p)
  BY DEF TypeInv, TypeOK, Control
<1>2. ASSUME NEW code \in Code, ReturnOnly(p, code) PROVE TypeInv'
  BY <1>2, ReturnOnlyType
<1>3. ASSUME NEW next \in Opening \cup Holding, pc[p] # "idle", Goto(p, next),
             Runs(op[p], next), FilesOK', LocalOK'
      PROVE  TypeInv'
  BY <1>3, GotoType
<1>4. CASE OpenLook(p)
  <2>1. FilesOK' /\ LocalOK'
    BY <1>1, <1>4, SameFiles DEF OpenLook, NextPart, LocalOK, fs
  <2> QED
    BY <1>1, <1>3, <1>4, <2>1
       DEF OpenLook, NextPart, ControlOf, Runs, Opening, Holding, InstallPC, RemovePC
<1>5. CASE OpenMkdir(p)
  <2>1. Parts[part[p]] \in Part
    BY <1>1 DEF LocalOK, Parts, Part
  <2>2. CASE ReturnOnly(p, "Unsafe")
    BY <1>2, <2>2 DEF Code
  <2>3. CASE NextPart(p) /\ FilesOK' /\ UNCHANGED <<dir, was, todo>> /\ wrote' \in [Proc -> SUBSET Area]
    <3>1. LocalOK'
      BY <1>1, <2>3 DEF LocalOK, NextPart
    <3> QED
      BY <1>1, <1>3, <1>5, <2>3, <3>1
         DEF OpenMkdir, NextPart, ControlOf, Runs, Opening, Holding, InstallPC, RemovePC
  <2>4. CASE UNCHANGED fs /\ UNCHANGED wrote /\ NextPart(p) /\ UNCHANGED <<dir, was, todo>>
    BY <1>1, <2>3, <2>4, SameFiles DEF LocalOK
  <2>5. CASE shape' = shape \cup {Parts[part[p]]} /\ Wrote(p, {"shape"}) /\ NextPart(p)
             /\ UNCHANGED <<records, staging, files, drift, bin, dir, was, todo>>
    <3>1. FilesOK'
      BY <1>1, <2>1, <2>5 DEF FilesOK
    <3>2. wrote' \in [Proc -> SUBSET Area]
      BY <1>1, <2>5 DEF LocalOK, Wrote, Area
    <3> QED
      BY <2>3, <2>5, <3>1, <3>2
  <2> QED
    BY <1>5, <2>2, <2>4, <2>5 DEF OpenMkdir
<1>6. CASE OpenExisting(p)
  <2>1. CASE \E code \in Code : ReturnOnly(p, code)
    BY <1>2, <2>1
  <2>2. CASE Goto(p, "locklook") /\ UNCHANGED <<fs, local, wrote>>
    BY <1>1, <1>3, <1>6, <2>2, SameFiles, SameLocal
       DEF OpenExisting, ControlOf, Runs, Opening, InstallPC, RemovePC
  <2> QED
    BY <1>6, <2>1, <2>2 DEF OpenExisting, Code
<1>7. CASE LockLook(p)
  <2>1. CASE ReturnOnly(p, "Unsafe")
    BY <1>2, <2>1 DEF Code
  <2>2. CASE \/ Goto(p, "locktry") /\ UNCHANGED <<fs, local, wrote>>
             \/ op[p] = "install" /\ Goto(p, "lockmake") /\ UNCHANGED <<fs, local, wrote>>
    BY <1>1, <1>3, <1>7, <2>2, SameFiles, SameLocal
       DEF LockLook, ControlOf, Runs, Opening, InstallPC, RemovePC
  <2> QED
    BY <1>7, <2>1, <2>2 DEF LockLook
<1>8. CASE LockCreate(p)
  <2>1. CASE ReturnOnly(p, "Conflict")
    BY <1>2, <2>1 DEF Code
  <2>2. CASE shape' = shape \cup {"lock"} /\ Wrote(p, {"shape"}) /\ Goto(p, "locktry")
             /\ UNCHANGED <<records, staging, files, drift, bin, local>>
    <3>1. FilesOK' /\ LocalOK'
      BY <1>1, <2>2 DEF FilesOK, LocalOK, Part, Area, Wrote, local
    <3> QED
      BY <1>1, <1>3, <1>8, <2>2, <3>1
         DEF LockCreate, ControlOf, Runs, Opening, InstallPC, RemovePC
  <2> QED
    BY <1>8, <2>1, <2>2 DEF LockCreate
<1>9. CASE LockTry(p)
  <2>1. CASE ReturnOnly(p, "Conflict")
    BY <1>2, <2>1 DEF Code
  <2>2. CASE holder = NoProc /\ holder' = p /\ UNCHANGED <<fs, local, op, art, wrote, result, listing>>
    <3>1. /\ op[p] \in Operation
          /\ pc' = [pc EXCEPT ![p] = IF op[p] = "install" THEN "survey"
                                     ELSE IF op[p] = "remove" THEN "examine" ELSE "scan"]
      BY <1>1, <1>9, <2>1, <2>2 DEF LockTry, ControlOf, Operation, ReturnOnly, Return, ControlOK, NoProc
    <3>2. FilesOK' /\ LocalOK' /\ ReturnedOK'
      BY <2>2, SameFiles, SameLocal DEF TypeInv, TypeOK, ReturnedOK
    <3>3. ControlOK'
      BY <1>1, <2>2, <3>1 DEF ControlOK, Holding
    <3>4. Control'
      BY <1>1, <2>2, <3>1 DEF TypeInv, ControlOK, Control, ControlOf, Runs, InstallPC, RemovePC, Operation
    <3> QED
      BY <3>2, <3>3, <3>4 DEF TypeInv, TypeOK
  <2> QED
    BY <1>9, <2>1, <2>2 DEF LockTry
<1>10. CASE Survey(p)
  <2>1. CASE \E code \in Code : ReturnOnly(p, code)
    BY <1>2, <2>1
  <2>2. CASE todo' = [todo EXCEPT ![p] = staging] /\ Goto(p, "sweep")
             /\ UNCHANGED <<fs, part, dir, was, wrote>>
    <3>1. FilesOK' /\ LocalOK'
      BY <1>1, <2>2, SameFiles DEF LocalOK, FilesOK
    <3> QED
      BY <1>1, <1>3, <1>10, <2>2, <3>1 DEF Survey, ControlOf, Runs, Holding, InstallPC, RemovePC
  <2> QED
    BY <1>10, <2>1, <2>2 DEF Survey, Code
<1>11. CASE Sweep(p)
  <2>1. PICK d \in todo[p] : ShrinkResidue(d) /\
                             todo' = [todo EXCEPT ![p] = IF files[d] = {} THEN @ \ {d} ELSE @]
    BY <1>11 DEF Sweep
  <2>2. FilesOK'
    BY <1>1, <2>1 DEF FilesOK, ShrinkResidue
  <2>3. LocalOK'
    BY <1>1, <1>11, <2>1 DEF LocalOK, Sweep, Wrote, Area
  <2> QED
    BY <1>1, <1>3, <1>11, <2>2, <2>3 DEF Sweep, ControlOf, Runs, Holding, InstallPC, RemovePC
<1>12. CASE SweepDone(p)
  BY <1>1, <1>3, <1>12, SameFiles, SameLocal
     DEF SweepDone, ControlOf, Runs, Holding, InstallPC, RemovePC
<1>13. CASE Decide(p)
  <2>1. CASE \E code \in Code : ReturnOnly(p, code)
    BY <1>2, <2>1
  <2>2. CASE dir' = [dir EXCEPT ![p] = records[art[p]]] /\ Goto(p, "activate")
             /\ UNCHANGED <<fs, part, was, todo, wrote>>
    <3>1. art[p] \in Artifact
      BY <1>1, <1>13 DEF Decide, ControlOf, Runs, InstallPC
    <3>2. FilesOK' /\ LocalOK'
      BY <1>1, <2>2, <3>1, SameFiles DEF LocalOK, FilesOK
    <3> QED
      BY <1>1, <1>3, <1>13, <2>2, <3>2 DEF Decide, ControlOf, Runs, Holding, InstallPC, RemovePC
  <2>3. CASE Goto(p, "stage") /\ UNCHANGED <<fs, local, wrote>>
    BY <1>1, <1>3, <1>13, <2>3, SameFiles, SameLocal
       DEF Decide, ControlOf, Runs, Holding, InstallPC, RemovePC
  <2> QED
    BY <1>13, <2>1, <2>2, <2>3 DEF Decide, Code
<1>14. CASE CreateStaging(p)
  <2>1. FilesOK' /\ LocalOK'
    BY <1>1, <1>14 DEF CreateStaging, FilesOK, LocalOK, Wrote, Area
  <2> QED
    BY <1>1, <1>3, <1>14, <2>1 DEF CreateStaging, ControlOf, Runs, Holding, InstallPC, RemovePC
<1>15. ASSUME NEW at \in {"manifest", "shim"}, NEW file \in File, NEW next \in {"shim", "publish"},
              WriteFile(p, at, file, next)
       PROVE  TypeInv'
  <2>1. FilesOK'
    BY <1>1, <1>15 DEF WriteFile, FilesOK
  <2>2. CASE Goto(p, next) /\ UNCHANGED <<local, wrote>>
    BY <1>1, <1>3, <1>15, <2>1, <2>2, SameLocal
       DEF WriteFile, ControlOf, Runs, Holding, InstallPC, RemovePC
  <2>3. CASE Return(p, "Unsafe", {}) /\ UNCHANGED listing
    BY <2>1, <2>3, ReturnType DEF Code, TypeInv, TypeOK, ReturnedOK
  <2> QED
    BY <1>15, <2>2, <2>3 DEF WriteFile
<1>16. CASE WriteManifest(p)
  BY <1>15, <1>16 DEF WriteManifest, File
<1>17. CASE WriteShim(p)
  BY <1>15, <1>17 DEF WriteShim, File
<1>18. CASE Publish(p)
  <2>1. CASE Goto(p, "unstage") /\ UNCHANGED <<fs, wrote, local>>
    BY <1>1, <1>3, <1>18, <2>1, SameFiles, SameLocal
       DEF Publish, ControlOf, Runs, Holding, InstallPC, RemovePC
  <2>2. CASE /\ records' = [records EXCEPT ![art[p]] = dir[p]] /\ staging' = staging \ {dir[p]}
             /\ Wrote(p, {"records"}) /\ Goto(p, "activate")
             /\ UNCHANGED <<shape, files, drift, bin, local>>
    <3>1. FilesOK' /\ LocalOK'
      BY <1>1, <2>2 DEF FilesOK, LocalOK, Wrote, Area, local
    <3> QED
      BY <1>1, <1>3, <1>18, <2>2, <3>1 DEF Publish, ControlOf, Runs, Holding, InstallPC, RemovePC
  <2> QED
    BY <1>18, <2>1, <2>2 DEF Publish
<1>19. CASE Unstage(p)
  <2>1. CASE Goto(p, "unstage") /\ UNCHANGED <<shape, records, staging, drift, bin, local, wrote>>
             /\ \E f \in files[dir[p]] : files' = [files EXCEPT ![dir[p]] = @ \ {f}]
    <3>1. FilesOK' /\ LocalOK'
      BY <1>1, <2>1, SameLocal DEF FilesOK
    <3> QED
      BY <1>1, <1>3, <1>19, <2>1, <3>1 DEF Unstage, ControlOf, Runs, Holding, InstallPC, RemovePC
  <2>2. CASE Return(p, UnstageCode(p), {}) /\ staging' = staging \ {dir[p]}
             /\ UNCHANGED <<shape, records, files, drift, bin, listing>>
    <3>1. FilesOK'
      BY <1>1, <2>2 DEF FilesOK
    <3> QED
      BY <2>2, <3>1, ReturnType DEF UnstageCode, Code, TypeInv, TypeOK, ReturnedOK
  <2> QED
    BY <1>19, <2>1, <2>2 DEF Unstage
<1>20. CASE Activate(p)
  <2>1. CASE \E code \in Code : ReturnOnly(p, code)
    BY <1>2, <2>1
  <2>2. CASE /\ dir[p] # NoDir /\ bin' = [bin EXCEPT ![Target(p)] = dir[p]]
             /\ Wrote(p, {"bin"}) /\ Goto(p, "confirm")
             /\ UNCHANGED <<shape, records, staging, files, drift, local>>
    <3>1. FilesOK' /\ LocalOK'
      BY <1>1, <2>2 DEF FilesOK, LocalOK, BinEntry, Wrote, Area, local
    <3> QED
      BY <1>1, <1>3, <1>20, <2>2, <3>1 DEF Activate, ControlOf, Runs, Holding, InstallPC, RemovePC
  <2> QED
    BY <1>20, <2>1, <2>2 DEF Activate, Verified, Code
<1>21. CASE Confirm(p)
  BY <1>2, <1>21 DEF Confirm, Code
<1>22. CASE Examine(p)
  <2>1. CASE \E code \in Code : ReturnOnly(p, code)
    BY <1>2, <2>1
  <2>2. CASE /\ dir' = [dir EXCEPT ![p] = records[art[p]]]
             /\ was' = [was EXCEPT ![p] = RecordState(art[p])]
             /\ Goto(p, "survey") /\ UNCHANGED <<fs, part, todo, wrote>>
    <3>1. art[p] \in Artifact
      BY <1>1, <1>22 DEF Examine, ControlOf, Runs, RemovePC
    <3>2. FilesOK' /\ LocalOK'
      BY <1>1, <2>2, <3>1, SameFiles, StateType DEF LocalOK, FilesOK
    <3> QED
      BY <1>1, <1>3, <1>22, <2>2, <3>2 DEF Examine, ControlOf, Runs, Holding, InstallPC, RemovePC
  <2> QED
    BY <1>22, <2>1, <2>2 DEF Examine, Code
<1>23. CASE Deactivate(p)
  <2>1. CASE ReturnOnly(p, "Tampered")
    BY <1>2, <2>1 DEF Code
  <2>2. CASE /\ bin' = [bin EXCEPT ![Target(p)] = "absent"]
             /\ Wrote(p, {"bin"}) /\ Goto(p, "quarantine")
             /\ UNCHANGED <<shape, records, staging, files, drift, local>>
    <3>1. FilesOK' /\ LocalOK'
      BY <1>1, <2>2 DEF FilesOK, LocalOK, BinEntry, Wrote, Area, local
    <3> QED
      BY <1>1, <1>3, <1>23, <2>2, <3>1 DEF Deactivate, ControlOf, Runs, Holding, InstallPC, RemovePC
  <2> QED
    BY <1>23, <2>1, <2>2 DEF Deactivate
<1>24. CASE Quarantine(p)
  <2>1. CASE \E code \in Code : ReturnOnly(p, code)
    BY <1>2, <2>1
  <2>2. CASE /\ dir[p] # NoDir
             /\ records' = [records EXCEPT ![art[p]] = NoDir] /\ staging' = staging \cup {dir[p]}
             /\ Wrote(p, {"records"}) /\ Goto(p, "purge")
             /\ UNCHANGED <<shape, files, drift, bin, local>>
    <3>1. FilesOK' /\ LocalOK'
      BY <1>1, <2>2 DEF FilesOK, LocalOK, Wrote, Area, local
    <3> QED
      BY <1>1, <1>3, <1>24, <2>2, <3>1 DEF Quarantine, ControlOf, Runs, Holding, InstallPC, RemovePC
  <2> QED
    BY <1>24, <2>1, <2>2 DEF Quarantine, Verified, Code
<1>25. CASE Purge(p)
  <2>1. FilesOK' /\ LocalOK'
    BY <1>1, <1>25, SameLocal DEF Purge, ShrinkResidue, FilesOK
  <2> QED
    BY <1>1, <1>3, <1>25, <2>1 DEF Purge, ControlOf, Runs, Holding, InstallPC, RemovePC
<1>26. CASE PurgeDone(p)
  BY <1>2, <1>26 DEF PurgeDone, Code
<1>27. CASE Scan(p)
  <2>1. CASE \E code \in Code : ReturnOnly(p, code)
    BY <1>2, <2>1
  <2>2. CASE /\ listing' = [listing EXCEPT ![p].records = [a \in Artifact |-> RecordState(a)]]
             /\ pc' = [pc EXCEPT ![p] = "scanbin"]
             /\ UNCHANGED <<fs, holder, op, art, local, wrote, result>>
    <3>1. FilesOK' /\ LocalOK'
      BY <2>2, SameFiles, SameLocal
    <3>2. ControlOK'
      BY <1>1, <2>2 DEF ControlOK, Holding
    <3>3. ReturnedOK'
      BY <2>2, StateType DEF TypeInv, TypeOK, ReturnedOK
    <3>4. Control'
      BY <1>1, <1>27, <2>2 DEF TypeInv, ControlOK, Control, ControlOf, Runs, Scan, InstallPC, RemovePC, Operation
    <3> QED
      BY <3>1, <3>2, <3>3, <3>4 DEF TypeInv, TypeOK
  <2> QED
    BY <1>27, <2>1, <2>2 DEF Scan, Code
<1>28. CASE ScanBin(p)
  <2>1. CASE ReturnOnly(p, "Capacity")
    BY <1>2, <2>1 DEF Code
  <2>2. CASE /\ Return(p, "Listed", {}) /\ UNCHANGED fs
             /\ listing' = [listing EXCEPT ![p].collisions =
                              {c \in {c \in Command : bin[c] # "absent"} : ~ListedActive(p, c)}]
    <3>1. listing' \in [Proc -> [records: [Artifact -> State], collisions: SUBSET Command]]
      BY <2>2 DEF TypeInv, TypeOK, ReturnedOK
    <3> QED
      BY <2>2, <3>1, SameFiles, ReturnType DEF Code
  <2> QED
    BY <1>28, <2>1, <2>2 DEF ScanBin
<1>29. CASE Fail(p)
  <2>1. FaultCodes(p) \subseteq Code
    BY DEF FaultCodes, UnstageCode, Code
  <2> QED
    BY <1>2, <1>29, <2>1 DEF Fail
<1>30. CASE FailStaged(p)
  BY <1>1, <1>3, <1>30, SameFiles, SameLocal
     DEF FailStaged, ControlOf, Runs, Holding, InstallPC, RemovePC
<1> QED
  BY <1>4, <1>5, <1>6, <1>7, <1>8, <1>9, <1>10, <1>11, <1>12, <1>13, <1>14, <1>16, <1>17,
     <1>18, <1>19, <1>20, <1>21, <1>22, <1>23, <1>24, <1>25, <1>26, <1>27, <1>28, <1>29,
     <1>30 DEF Step, Advance

LEMMA StartType ==
  ASSUME TypeInv, NEW p \in Proc, Start(p)
  PROVE  TypeInv'
<1>1. PICK o \in Operation, a \in Artifact \cup {"none"}, first \in {"look", "open"} :
        /\ Begin(p, o, a, first)
        /\ first = "look" => o = "install"
        /\ o \in {"install", "remove"} => a \in Artifact
  BY DEF Start, StatusStart, InstallStart, RemoveStart, Operation
<1>2. FilesOK' /\ LocalOK'
  BY <1>1 DEF TypeInv, TypeOK, FilesOK, LocalOK, Begin, fs, local
<1>3. ControlOK'
  BY <1>1 DEF TypeInv, TypeOK, ControlOK, Begin, Opening
<1>4. ReturnedOK'
  BY <1>1 DEF TypeInv, TypeOK, ReturnedOK, Begin, NoResult, NoListing, Code, State
<1>5. Control'
  BY <1>1 DEF TypeInv, TypeOK, ControlOK, Control, ControlOf, Runs, Begin, InstallPC, RemovePC
<1> QED
  BY <1>2, <1>3, <1>4, <1>5 DEF TypeInv, TypeOK

LEMMA CrashType ==
  ASSUME TypeInv, NEW p \in Proc, Crash(p)
  PROVE  TypeInv'
<1>1. FilesOK' /\ LocalOK'
  BY DEF TypeInv, TypeOK, FilesOK, LocalOK, Crash, fs, State
<1>2. ControlOK'
  BY DEF TypeInv, TypeOK, ControlOK, Crash
<1>3. ReturnedOK'
  BY DEF TypeInv, TypeOK, ReturnedOK, Crash, NoListing, State
<1>4. Control'
  BY DEF TypeInv, TypeOK, ControlOK, Control, ControlOf, Runs, Crash, InstallPC, RemovePC
<1> QED
  BY <1>1, <1>2, <1>3, <1>4 DEF TypeInv, TypeOK

LEMMA UserType ==
  ASSUME TypeInv, User
  PROVE  TypeInv'
<1>1. UNCHANGED <<holder, pc, op, art, local, wrote, result, listing>>
  BY DEF User, UserPut, UserDelete, UserDrift
<1>2. FilesOK'
  BY DEF TypeInv, TypeOK, FilesOK, User, UserPut, UserDelete, UserDrift, BinEntry
<1>3. LocalOK' /\ ControlOK' /\ ReturnedOK' /\ Control'
  BY <1>1 DEF TypeInv, TypeOK, LocalOK, ControlOK, ReturnedOK, Control, ControlOf, local
<1> QED
  BY <1>2, <1>3 DEF TypeInv, TypeOK

LEMMA TypeInit == Init => TypeInv
BY DEF Init, TypeInv, TypeOK, FilesOK, LocalOK, ControlOK, ReturnedOK, Control, ControlOf, Runs,
       InstallPC, RemovePC, Part, NoDir, NoProc, BinEntry, State, Code, NoResult, NoListing

LEMMA TypeNext == TypeInv /\ [Next]_vars => TypeInv'
<1> SUFFICES ASSUME TypeInv, [Next]_vars PROVE TypeInv'
  OBVIOUS
<1>1. CASE UNCHANGED vars
  BY <1>1 DEF TypeInv, TypeOK, FilesOK, LocalOK, ControlOK, ReturnedOK, Control, ControlOf,
              vars, fs, local
<1> QED
  BY <1>1, StartType, StepType, CrashType, UserType DEF Next

(* Every reachable state is typed, and every process runs its own operation *)
(* at its program point.                                                    *)
THEOREM TypeCorrect == Spec => []TypeInv
BY TypeInit, TypeNext, PTL DEF Spec

(* TypeOK as the runs check it. *)
THEOREM TypeSafe == Spec => []TypeOK
<1>1. TypeInv => TypeOK
  BY DEF TypeInv
<1> QED
  BY <1>1, TypeCorrect, PTL

-----------------------------------------------------------------------------
(* The store invariant.                                                    *)

FileInv == OneName /\ RecordsComplete /\ BinLinkOwned /\ ResidueBounded

LEMMA Points ==
  /\ "idle" \notin Opening \cup Holding
  /\ Opening \cap Holding = {}
  /\ NoProc \notin Proc
  /\ NoDir \notin Dir
  /\ \A d \in Dir : d \notin ForeignKind /\ d # "absent"
BY ConstantsAssumption DEF Opening, Holding, NoProc, NoDir, ForeignKind

(* The lock: inside or outside it before and after, or returning. *)
LEMMA LockStay ==
  ASSUME TypeOK, LockHeld, NEW p \in Proc, NEW n, pc' = [pc EXCEPT ![p] = n], UNCHANGED holder,
         pc[p] \in Holding <=> n \in Holding
  PROVE  LockHeld'
BY DEF TypeOK, ControlOK, LockHeld

LEMMA LockRelease ==
  ASSUME TypeOK, LockHeld, NEW p \in Proc, pc' = [pc EXCEPT ![p] = "idle"],
         holder' = IF holder = p THEN NoProc ELSE holder
  PROVE  LockHeld'
BY Points DEF TypeOK, ControlOK, LockHeld

(* Nobody else is inside the lock. *)
LEMMA Alone ==
  ASSUME TypeOK, LockHeld, NEW p \in Proc, NEW q \in Proc, q # p, pc[p] \in Holding,
         NEW n, pc' = [pc EXCEPT ![p] = n]
  PROVE  StageOf(q)'
<1>1. pc'[q] \notin Holding
  BY DEF TypeOK, ControlOK, LockHeld
<1> QED
  BY <1>1 DEF StageOf, Holding

(* What was established about the others' stages does not depend on a       *)
(* process that changes no stage.                                          *)
LEMMA OtherStage ==
  ASSUME TypeOK, NEW p \in Proc, NEW q \in Proc, q # p, StageOf(q),
         UNCHANGED <<staging, files>>, NEW n, pc' = [pc EXCEPT ![p] = n],
         todo'[q] = todo[q], dir'[q] = dir[q]
  PROVE  StageOf(q)'
BY DEF TypeOK, ControlOK, StageOf

LEMMA SameFileInv ==
  ASSUME FileInv, UNCHANGED <<records, staging, files, bin>>
  PROVE  FileInv'
BY DEF FileInv, OneName, RecordsComplete, BinLinkOwned, ResidueBounded, Recorded

(* A process that leaves stages alone and stands at a point where nothing   *)
(* is claimed about them.                                                  *)
Unclaimed == Opening \cup {"idle", "survey", "activate", "confirm", "examine", "purge", "scan", "scanbin"}

LEMMA UnclaimedStage ==
  ASSUME NEW p, pc[p] \in Unclaimed
  PROVE  StageOf(p)
BY DEF StageOf, Unclaimed, Opening

LEMMA ReturnStore ==
  ASSUME TypeOK, LockHeld, Stages, NEW p \in Proc, NEW code, NEW areas, Return(p, code, areas),
         FileInv', pc[p] \in Holding \/ UNCHANGED <<staging, files>>
  PROVE  StoreInv'
<1>1. pc' = [pc EXCEPT ![p] = "idle"] /\ pc'[p] = "idle"
  BY DEF Return, TypeOK, ControlOK
<1>2. LockHeld'
  BY <1>1, LockRelease DEF Return
<1>3. StageOf(p)'
  BY <1>1 DEF StageOf
<1>4. ASSUME NEW q \in Proc, q # p PROVE StageOf(q)'
  <2>1. todo'[q] = todo[q] /\ dir'[q] = dir[q]
    BY <1>4 DEF Return, TypeOK, LocalOK
  <2> QED
    BY <1>1, <1>4, <2>1, Alone, OtherStage DEF Stages
<1> QED
  BY <1>2, <1>3, <1>4 DEF StoreInv, FileInv, Stages

LEMMA ReturnOnlyStore ==
  ASSUME TypeOK, StoreInv, NEW p \in Proc, NEW code, ReturnOnly(p, code)
  PROVE  StoreInv'
<1>1. UNCHANGED <<records, staging, files, bin>>
  BY DEF ReturnOnly, fs
<1>2. FileInv'
  BY <1>1, SameFileInv DEF FileInv, StoreInv
<1> QED
  BY <1>1, <1>2, ReturnStore DEF ReturnOnly, StoreInv

(* A step of p inside the lock, to a point next inside the lock. *)
LEMMA GotoStore ==
  ASSUME TypeOK, StoreInv, NEW p \in Proc, pc[p] \in Holding, NEW next \in Holding,
         Goto(p, next), FileInv', StageOf(p)'
  PROVE  StoreInv'
<1>1. pc' = [pc EXCEPT ![p] = next] /\ UNCHANGED holder
  BY DEF Goto
<1>2. LockHeld'
  BY <1>1, LockStay DEF StoreInv
<1>3. ASSUME NEW q \in Proc, q # p PROVE StageOf(q)'
  BY <1>1, <1>3, Alone DEF StoreInv
<1> QED
  BY <1>2, <1>3 DEF StoreInv, FileInv, Stages

(* A step of p outside the lock. *)
LEMMA OpeningStore ==
  ASSUME TypeOK, StoreInv, NEW p \in Proc, pc[p] \in Opening, NEW next \in Opening,
         Goto(p, next), UNCHANGED <<records, staging, files, bin, dir, todo>>
  PROVE  StoreInv'
<1>1. pc' = [pc EXCEPT ![p] = next] /\ UNCHANGED holder /\ pc'[p] = next
  BY DEF Goto, TypeOK, ControlOK
<1>2. LockHeld'
  BY <1>1, LockStay, Points DEF StoreInv
<1>3. FileInv'
  BY SameFileInv DEF FileInv, StoreInv
<1>4. StageOf(p)'
  BY <1>1 DEF StageOf, Opening
<1>5. ASSUME NEW q \in Proc, q # p PROVE StageOf(q)'
  BY <1>1, <1>5, OtherStage DEF StoreInv, Stages
<1> QED
  BY <1>2, <1>3, <1>4, <1>5 DEF StoreInv, FileInv, Stages

LEMMA OpeningStep ==
  ASSUME TypeInv, StoreInv, NEW p \in Proc,
         OpenLook(p) \/ OpenMkdir(p) \/ OpenExisting(p) \/ LockLook(p) \/ LockCreate(p) \/ LockTry(p)
  PROVE  StoreInv'
<1>1. TypeOK /\ LocalOK /\ FilesOK /\ ControlOK
  BY DEF TypeInv, TypeOK
<1>2. ASSUME NEW code, ReturnOnly(p, code) PROVE StoreInv'
  BY <1>1, <1>2, ReturnOnlyStore
<1>3. ASSUME pc[p] \in Opening, NEW next \in Opening, Goto(p, next),
             UNCHANGED <<records, staging, files, bin, dir, todo>>
      PROVE  StoreInv'
  BY <1>1, <1>3, OpeningStore
<1>4. CASE OpenLook(p)
  BY <1>3, <1>4 DEF OpenLook, NextPart, Opening, fs
<1>5. CASE OpenMkdir(p)
  BY <1>2, <1>3, <1>5 DEF OpenMkdir, NextPart, Opening, fs
<1>6. CASE OpenExisting(p)
  BY <1>2, <1>3, <1>6 DEF OpenExisting, Opening, fs, local
<1>7. CASE LockLook(p)
  BY <1>2, <1>3, <1>7 DEF LockLook, Opening, fs, local
<1>8. CASE LockCreate(p)
  BY <1>2, <1>3, <1>8 DEF LockCreate, Opening, local
<1>9. CASE LockTry(p)
  <2>1. CASE ReturnOnly(p, "Conflict")
    BY <1>2, <2>1
  <2>2. CASE holder = NoProc /\ holder' = p /\ UNCHANGED <<fs, local, op, art, wrote, result, listing>>
    <3>1. PICK n \in {"survey", "examine", "scan"} : pc' = [pc EXCEPT ![p] = n]
      BY <1>9, <2>1, <2>2, Points DEF LockTry, TypeInv, Control, ControlOf, Operation, ReturnOnly, Return
    <3>2. LockHeld'
      BY <1>1, <2>2, <3>1, Points DEF StoreInv, LockHeld, ControlOK, Holding
    <3>3. FileInv'
      BY <2>2, SameFileInv DEF FileInv, StoreInv, fs
    <3>4. StageOf(p)'
      BY <1>1, <3>1 DEF StageOf, ControlOK
    <3>5. ASSUME NEW q \in Proc, q # p PROVE StageOf(q)'
      BY <1>1, <2>2, <3>1, <3>5, OtherStage DEF StoreInv, Stages, fs, local
    <3> QED
      BY <3>2, <3>3, <3>4, <3>5 DEF StoreInv, FileInv, Stages
  <2> QED
    BY <1>9, <2>1, <2>2 DEF LockTry
<1> QED
  BY <1>4, <1>5, <1>6, <1>7, <1>8, <1>9

(* Shrinking a residue touches no record and no link. *)
LEMMA ShrinkFileInv ==
  ASSUME TypeOK, FileInv, NEW d \in staging, ShrinkResidue(d)
  PROVE  FileInv'
<1>1. staging' \subseteq staging /\ UNCHANGED <<records, bin>>
  BY DEF ShrinkResidue
<1>2. \A a \in Artifact : records[a] # NoDir => files'[records[a]] = files[records[a]]
  BY DEF TypeOK, FilesOK, FileInv, OneName, ShrinkResidue
<1> QED
  BY <1>1, <1>2 DEF FileInv, OneName, RecordsComplete, BinLinkOwned, ResidueBounded, Recorded

(* Losing links and residues harms nothing. *)
LEMMA FewerFileInv ==
  ASSUME TypeOK, FileInv, UNCHANGED records, staging' \subseteq staging,
         \A a \in Recorded : files'[records[a]] = files[records[a]],
         \A c \in Command : bin'[c] \in Dir => bin'[c] = bin[c]
  PROVE  FileInv'
BY DEF FileInv, OneName, RecordsComplete, BinLinkOwned, ResidueBounded, Recorded

(* Nor does any change of what a stage contains. *)
LEMMA StageFileInv ==
  ASSUME TypeOK, FileInv, NEW d \in staging, NEW content, files' = [files EXCEPT ![d] = content],
         UNCHANGED <<records, staging, bin>>
  PROVE  FileInv'
<1>1. \A a \in Recorded : files'[records[a]] = files[records[a]]
  BY DEF TypeOK, FilesOK, FileInv, OneName, Recorded
<1> QED
  BY <1>1, FewerFileInv

LEMMA HoldingStep ==
  ASSUME TypeInv, StoreInv, NEW p \in Proc,
         \/ Survey(p) \/ Sweep(p) \/ SweepDone(p)
         \/ Decide(p) \/ CreateStaging(p) \/ WriteManifest(p) \/ WriteShim(p)
         \/ Publish(p) \/ Unstage(p) \/ Activate(p) \/ Confirm(p)
         \/ Examine(p) \/ Deactivate(p) \/ Quarantine(p) \/ Purge(p) \/ PurgeDone(p)
         \/ Scan(p) \/ ScanBin(p)
  PROVE  StoreInv'
<1>1. /\ TypeOK /\ FilesOK /\ LocalOK /\ ControlOK /\ ControlOf(p)
      /\ LockHeld /\ Stages /\ FileInv /\ StageOf(p)
  BY DEF TypeInv, TypeOK, Control, StoreInv, FileInv, Stages
<1>2. ASSUME NEW code, ReturnOnly(p, code) PROVE StoreInv'
  BY <1>1, <1>2, ReturnOnlyStore
<1>3. ASSUME pc[p] \in Holding, NEW next \in Holding, Goto(p, next), FileInv', StageOf(p)'
      PROVE  StoreInv'
  BY <1>1, <1>3, GotoStore
<1>4. ASSUME NEW next, Goto(p, next) PROVE pc'[p] = next
  BY <1>1, <1>4 DEF Goto, ControlOK
<1>5. ASSUME UNCHANGED <<records, staging, files, bin>> PROVE FileInv'
  BY <1>1, <1>5, SameFileInv
<1>6. CASE Survey(p)
  <2>1. CASE \E code \in Code : ReturnOnly(p, code)
    BY <1>2, <2>1
  <2>2. CASE todo' = [todo EXCEPT ![p] = staging] /\ Goto(p, "sweep") /\ UNCHANGED fs
    <3>1. todo'[p] = staging' /\ pc'[p] = "sweep" /\ FileInv'
      BY <1>1, <1>4, <1>5, <2>2 DEF LocalOK, fs
    <3> QED
      BY <1>3, <1>6, <2>2, <3>1 DEF Survey, Holding, StageOf
  <2> QED
    BY <1>6, <2>1, <2>2 DEF Survey, Code
<1>7. CASE Sweep(p)
  <2>1. PICK d \in todo[p] : /\ ShrinkResidue(d)
                             /\ todo' = [todo EXCEPT ![p] = IF files[d] = {} THEN @ \ {d} ELSE @]
    BY <1>7 DEF Sweep
  <2>2. d \in staging /\ todo[p] = staging /\ Goto(p, "sweep") /\ pc[p] = "sweep"
    BY <1>1, <1>7, <2>1 DEF Sweep, StageOf
  <2>3. FileInv'
    BY <1>1, <2>1, <2>2, ShrinkFileInv
  <2>4. todo'[p] = staging' /\ pc'[p] = "sweep"
    BY <1>1, <1>4, <2>1, <2>2 DEF LocalOK, ShrinkResidue
  <2> QED
    BY <1>3, <2>2, <2>3, <2>4 DEF Holding, StageOf
<1>8. CASE SweepDone(p)
  <2>1. PICK next \in {"decide", "deactivate", "quarantine"} : Goto(p, next)
    BY <1>8 DEF SweepDone
  <2>2. staging' = {} /\ pc'[p] = next /\ FileInv' /\ pc[p] = "sweep"
    BY <1>1, <1>4, <1>5, <1>8, <2>1 DEF SweepDone, StageOf, fs
  <2> QED
    BY <1>3, <2>1, <2>2 DEF Holding, StageOf
<1>9. CASE Decide(p)
  <2>1. CASE \E code \in Code : ReturnOnly(p, code)
    BY <1>2, <2>1
  <2>2. CASE \E next \in {"activate", "stage"} : Goto(p, next) /\ UNCHANGED fs
    BY <1>1, <1>3, <1>4, <1>5, <1>9, <2>2 DEF Decide, Holding, StageOf, fs
  <2> QED
    BY <1>9, <2>1, <2>2 DEF Decide, Code
<1>10. CASE CreateStaging(p)
  <2>1. PICK d \in Dir : /\ FreeDir(d)
                         /\ staging' = staging \cup {d}
                         /\ files' = [files EXCEPT ![d] = {}]
                         /\ dir' = [dir EXCEPT ![p] = d]
    BY <1>10 DEF CreateStaging
  <2>2. staging' = {d} /\ dir'[p] = d /\ pc'[p] = "manifest" /\ UNCHANGED <<records, bin>>
    BY <1>1, <1>4, <1>10, <2>1 DEF CreateStaging, StageOf, LocalOK
  <2>3. \A a \in Recorded : records[a] # d /\ files'[records[a]] = files[records[a]]
    BY <1>1, <2>1 DEF FreeDir, Published, Recorded, FilesOK
  <2>4. FileInv'
    BY <1>1, <2>2, <2>3, Points
       DEF FileInv, OneName, RecordsComplete, BinLinkOwned, ResidueBounded, Recorded
  <2> QED
    BY <1>3, <1>10, <2>2, <2>4 DEF CreateStaging, Holding, StageOf
<1>11. ASSUME NEW at, NEW file, NEW next, WriteFile(p, at, file, next),
              \/ at = "manifest" /\ file = "manifest" /\ next = "shim"
              \/ at = "shim" /\ file = "shim" /\ next = "publish"
       PROVE  StoreInv'
  <2>1. /\ files' = [files EXCEPT ![dir[p]] = @ \cup {file}] /\ UNCHANGED <<records, staging, bin>>
        /\ dir[p] \in Dir /\ staging = {dir[p]} /\ pc[p] = at
        /\ at = "shim" => "manifest" \in files[dir[p]]
    BY <1>1, <1>11 DEF WriteFile, StageOf
  <2>2. FileInv'
    BY <1>1, <2>1, StageFileInv
  <2>3. CASE Goto(p, next) /\ UNCHANGED local
    <3>1. pc'[p] = next /\ dir'[p] = dir[p]
      BY <1>4, <2>3 DEF local
    <3>2. file \in files'[dir[p]] /\ files'[dir[p]] \subseteq File
          /\ (next = "publish" => files'[dir[p]] = File)
      BY <1>1, <1>11, <2>1 DEF FilesOK, File
    <3>3. StageOf(p)'
      BY <1>11, <2>1, <3>1, <3>2 DEF StageOf
    <3> QED
      BY <1>3, <1>11, <2>1, <2>2, <2>3, <3>3 DEF Holding
  <2>4. CASE Return(p, "Unsafe", {})
    BY <1>1, <1>11, <2>1, <2>2, <2>4, ReturnStore DEF Holding
  <2> QED
    BY <1>11, <2>3, <2>4 DEF WriteFile
<1>12. CASE WriteManifest(p)
  BY <1>11, <1>12 DEF WriteManifest
<1>13. CASE WriteShim(p)
  BY <1>11, <1>13 DEF WriteShim
<1>14. CASE Publish(p)
  <2>1. /\ pc[p] = "publish" /\ dir[p] \in Dir /\ staging = {dir[p]} /\ files[dir[p]] = File
        /\ art[p] \in Artifact
    BY <1>1, <1>14 DEF Publish, StageOf, ControlOf, Runs, InstallPC
  <2>2. CASE Goto(p, "unstage") /\ UNCHANGED <<fs, local>>
    <3>1. pc'[p] = "unstage" /\ dir'[p] = dir[p] /\ FileInv' /\ staging' = staging
      BY <1>4, <1>5, <2>2 DEF fs, local
    <3> QED
      BY <1>3, <2>1, <2>2, <3>1 DEF Holding, StageOf
  <2>3. CASE /\ records[art[p]] = NoDir
             /\ records' = [records EXCEPT ![art[p]] = dir[p]]
             /\ staging' = staging \ {dir[p]} /\ Goto(p, "activate")
             /\ UNCHANGED <<files, bin>>
    <3>1. staging' = {} /\ pc'[p] = "activate"
      BY <1>4, <2>1, <2>3
    <3>2. OneName' /\ RecordsComplete'
      BY <1>1, <2>1, <2>3, <3>1, Points DEF FilesOK, FileInv, OneName, RecordsComplete, Recorded
    <3>3. BinLinkOwned'
      BY <1>1, <2>1, <2>3, Points DEF FilesOK, FileInv, BinLinkOwned, Recorded
    <3>4. FileInv'
      BY <3>1, <3>2, <3>3 DEF FileInv, ResidueBounded
    <3> QED
      BY <1>3, <2>1, <2>3, <3>1, <3>4 DEF Holding, StageOf
  <2> QED
    BY <1>14, <2>2, <2>3 DEF Publish
<1>15. CASE Unstage(p)
  <2>1. pc[p] = "unstage" /\ dir[p] \in Dir /\ staging = {dir[p]}
    BY <1>1, <1>15 DEF Unstage, StageOf
  <2>2. CASE /\ Goto(p, "unstage") /\ UNCHANGED <<records, staging, bin, local>>
             /\ \E f \in files[dir[p]] : files' = [files EXCEPT ![dir[p]] = @ \ {f}]
    <3>1. FileInv'
      BY <1>1, <2>1, <2>2, StageFileInv
    <3>2. pc'[p] = "unstage" /\ dir'[p] = dir[p]
      BY <1>4, <2>2 DEF local
    <3> QED
      BY <1>3, <2>1, <2>2, <3>1, <3>2 DEF Holding, StageOf
  <2>3. CASE /\ Return(p, UnstageCode(p), {}) /\ staging' = staging \ {dir[p]}
             /\ UNCHANGED <<records, files, bin>>
    <3>1. FileInv'
      BY <1>1, <2>3, FewerFileInv
    <3> QED
      BY <1>1, <2>1, <2>3, <3>1, ReturnStore DEF Holding
  <2> QED
    BY <1>15, <2>2, <2>3 DEF Unstage
<1>16. CASE Activate(p)
  <2>1. CASE \E code \in Code : ReturnOnly(p, code)
    BY <1>2, <2>1
  <2>2. CASE /\ Verified(p) /\ bin' = [bin EXCEPT ![Target(p)] = dir[p]] /\ Goto(p, "confirm")
             /\ UNCHANGED <<records, staging, files>>
    <3>1. art[p] \in Artifact /\ records[art[p]] = dir[p] /\ dir[p] # NoDir
      BY <1>1, <1>16, <2>2 DEF Activate, Verified, ControlOf, Runs, InstallPC
    <3>2. BinLinkOwned'
      BY <1>1, <2>2, <3>1 DEF FilesOK, FileInv, BinLinkOwned, Recorded, Target
    <3>3. FileInv' /\ pc'[p] = "confirm"
      BY <1>1, <1>4, <2>2, <3>2 DEF FileInv, OneName, RecordsComplete, ResidueBounded, Recorded
    <3> QED
      BY <1>3, <1>16, <2>2, <3>3 DEF Activate, Holding, StageOf
  <2> QED
    BY <1>16, <2>1, <2>2 DEF Activate, Code
<1>17. CASE Confirm(p)
  BY <1>2, <1>17 DEF Confirm
<1>18. CASE Examine(p)
  <2>1. CASE \E code \in Code : ReturnOnly(p, code)
    BY <1>2, <2>1
  <2>2. CASE Goto(p, "survey") /\ UNCHANGED fs
    BY <1>3, <1>4, <1>5, <1>18, <2>2 DEF Examine, Holding, StageOf, fs
  <2> QED
    BY <1>18, <2>1, <2>2 DEF Examine, Code
<1>19. CASE Deactivate(p)
  <2>1. CASE ReturnOnly(p, "Tampered")
    BY <1>2, <2>1
  <2>2. CASE /\ bin' = [bin EXCEPT ![Target(p)] = "absent"] /\ Goto(p, "quarantine")
             /\ UNCHANGED <<records, staging, files>>
    <3>1. FileInv'
      BY <1>1, <2>2, FewerFileInv, Points DEF FilesOK
    <3>2. pc'[p] = "quarantine" /\ staging' = {} /\ pc[p] = "deactivate"
      BY <1>1, <1>4, <1>19, <2>2 DEF Deactivate, StageOf
    <3> QED
      BY <1>3, <2>2, <3>1, <3>2 DEF Holding, StageOf
  <2> QED
    BY <1>19, <2>1, <2>2 DEF Deactivate
<1>20. CASE Quarantine(p)
  <2>1. CASE \E code \in Code : ReturnOnly(p, code)
    BY <1>2, <2>1
  <2>2. CASE /\ Verified(p) /\ OneLink(dir[p])
             /\ records' = [records EXCEPT ![art[p]] = NoDir] /\ staging' = staging \cup {dir[p]}
             /\ Goto(p, "purge") /\ UNCHANGED <<files, bin>>
    <3>1. /\ art[p] \in Artifact /\ records[art[p]] = dir[p] /\ dir[p] # NoDir
          /\ staging' = {dir[p]} /\ pc[p] = "quarantine"
      BY <1>1, <1>20, <2>2 DEF Quarantine, Verified, StageOf, ControlOf, Runs, RemovePC
    <3>2. OneName' /\ RecordsComplete'
      BY <1>1, <2>2, <3>1 DEF FilesOK, FileInv, OneName, RecordsComplete, Recorded
    <3>3. BinLinkOwned'
      BY <1>1, <2>2, <3>1 DEF FilesOK, FileInv, BinLinkOwned, Recorded, OneLink
    <3>4. FileInv' /\ pc'[p] = "purge"
      BY <1>4, <2>2, <3>1, <3>2, <3>3 DEF FileInv, ResidueBounded
    <3> QED
      BY <1>3, <2>2, <3>1, <3>4 DEF Holding, StageOf
  <2> QED
    BY <1>20, <2>1, <2>2 DEF Quarantine, Code
<1>21. CASE Purge(p)
  <2>1. FileInv'
    BY <1>1, <1>21, ShrinkFileInv DEF Purge
  <2>2. pc'[p] = "purge" /\ pc[p] = "purge" /\ Goto(p, "purge")
    BY <1>4, <1>21 DEF Purge
  <2> QED
    BY <1>3, <2>1, <2>2 DEF Holding, StageOf
<1>22. CASE PurgeDone(p)
  BY <1>2, <1>22 DEF PurgeDone
<1>23. CASE Scan(p)
  <2>1. CASE \E code \in Code : ReturnOnly(p, code)
    BY <1>2, <2>1
  <2>2. CASE pc' = [pc EXCEPT ![p] = "scanbin"] /\ UNCHANGED <<fs, holder>>
    <3>1. FileInv' /\ pc'[p] = "scanbin" /\ pc[p] \in Holding
      BY <1>1, <1>5, <1>23, <2>2 DEF Scan, Holding, ControlOK, fs
    <3>2. LockHeld'
      BY <1>1, <2>2, <3>1, LockStay DEF Holding
    <3>3. StageOf(p)'
      BY <3>1 DEF StageOf
    <3>4. ASSUME NEW q \in Proc, q # p PROVE StageOf(q)'
      BY <1>1, <2>2, <3>1, <3>4, Alone
    <3> QED
      BY <3>1, <3>2, <3>3, <3>4 DEF StoreInv, FileInv, Stages
  <2> QED
    BY <1>23, <2>1, <2>2 DEF Scan, Code
<1>24. CASE ScanBin(p)
  <2>1. CASE ReturnOnly(p, "Capacity")
    BY <1>2, <2>1
  <2>2. CASE Return(p, "Listed", {}) /\ UNCHANGED fs
    BY <1>1, <1>5, <2>2, ReturnStore DEF fs
  <2> QED
    BY <1>24, <2>1, <2>2 DEF ScanBin
<1> QED
  BY <1>6, <1>7, <1>8, <1>9, <1>10, <1>12, <1>13, <1>14, <1>15, <1>16, <1>17, <1>18,
     <1>19, <1>20, <1>21, <1>22, <1>23, <1>24

LEMMA StepStore ==
  ASSUME TypeInv, StoreInv, NEW p \in Proc, Step(p)
  PROVE  StoreInv'
<1>1. CASE Fail(p)
  BY <1>1, ReturnOnlyStore DEF Fail, TypeInv
<1>2. CASE FailStaged(p)
  <2>1. TypeOK /\ pc[p] \in Holding /\ Goto(p, "unstage") /\ UNCHANGED <<fs, local>>
    BY <1>2 DEF FailStaged, Holding, TypeInv
  <2>2. FileInv'
    BY <2>1, SameFileInv DEF StoreInv, FileInv, fs
  <2>3. StageOf(p)'
    BY <1>2, <2>1 DEF FailStaged, StoreInv, Stages, StageOf, Goto, TypeOK, ControlOK, fs, local
  <2> QED
    BY <2>1, <2>2, <2>3, GotoStore DEF Holding
<1> QED
  BY <1>1, <1>2, OpeningStep, HoldingStep DEF Step, Advance

(* A crash loses the local state only; whatever it leaves is a store the    *)
(* next process accepts.                                                   *)
LEMMA CrashStore ==
  ASSUME TypeOK, StoreInv, NEW p \in Proc, Crash(p)
  PROVE  StoreInv'
<1>1. pc' = [pc EXCEPT ![p] = "idle"] /\ pc'[p] = "idle" /\ UNCHANGED <<records, staging, files, bin>>
  BY DEF Crash, TypeOK, ControlOK, fs
<1>2. LockHeld'
  BY <1>1, LockRelease DEF Crash, StoreInv
<1>3. FileInv'
  BY <1>1, SameFileInv DEF StoreInv, FileInv
<1>4. StageOf(p)'
  BY <1>1 DEF StageOf
<1>5. ASSUME NEW q \in Proc, q # p PROVE StageOf(q)'
  BY <1>1, <1>5, OtherStage DEF Crash, StoreInv, Stages, TypeOK, LocalOK
<1> QED
  BY <1>2, <1>3, <1>4, <1>5 DEF StoreInv, FileInv, Stages

LEMMA StartStore ==
  ASSUME TypeOK, StoreInv, NEW p \in Proc, Start(p)
  PROVE  StoreInv'
<1>1. PICK first \in {"look", "open"} :
        /\ pc[p] = "idle" /\ pc' = [pc EXCEPT ![p] = first] /\ UNCHANGED <<fs, holder, local>>
  BY DEF Start, StatusStart, InstallStart, RemoveStart, Begin
<1>2. LockHeld'
  BY <1>1, LockStay DEF StoreInv, Holding
<1>3. FileInv'
  BY <1>1, SameFileInv DEF StoreInv, FileInv, fs
<1>4. StageOf(p)'
  BY <1>1 DEF StageOf, TypeOK, ControlOK
<1>5. ASSUME NEW q \in Proc, q # p PROVE StageOf(q)'
  BY <1>1, <1>5, OtherStage DEF StoreInv, Stages, fs, local
<1> QED
  BY <1>2, <1>3, <1>4, <1>5 DEF StoreInv, FileInv, Stages

(* The user never makes a link that only atr makes. *)
LEMMA UserStore ==
  ASSUME TypeOK, StoreInv, User
  PROVE  StoreInv'
<1>1. UNCHANGED <<records, staging, files, holder, pc, dir, todo>>
  BY DEF User, UserPut, UserDelete, UserDrift, local
<1>2. \A c \in Command : bin'[c] \in Dir => bin'[c] = bin[c]
  BY Points DEF User, UserPut, UserDelete, UserDrift, TypeOK, FilesOK
<1>3. FileInv'
  BY <1>1, <1>2, FewerFileInv DEF StoreInv, FileInv
<1>4. LockHeld' /\ Stages'
  BY <1>1 DEF StoreInv, LockHeld, Stages, StageOf
<1> QED
  BY <1>3, <1>4 DEF StoreInv, FileInv

LEMMA StoreInit == Init => StoreInv
BY Points DEF Init, StoreInv, LockHeld, OneName, RecordsComplete, BinLinkOwned, ResidueBounded,
              Stages, StageOf, Recorded, Holding

LEMMA StoreNext == TypeInv /\ StoreInv /\ [Next]_vars => StoreInv'
<1> SUFFICES ASSUME TypeInv, StoreInv, [Next]_vars PROVE StoreInv'
  OBVIOUS
<1>1. TypeOK
  BY DEF TypeInv
<1>2. CASE UNCHANGED vars
  BY <1>2 DEF StoreInv, LockHeld, OneName, RecordsComplete, BinLinkOwned, ResidueBounded,
              Stages, StageOf, Recorded, vars, fs, local
<1> QED
  BY <1>1, <1>2, StartStore, StepStore, CrashStore, UserStore DEF Next

THEOREM StoreSafe == Spec => []StoreInv
<1>1. Init /\ [][Next]_vars => []StoreInv
  BY StoreInit, StoreNext, TypeInit, TypeNext, PTL
<1> QED
  BY <1>1, PTL DEF Spec

(* Whatever crashes and fails, a link in bin is the shim of the published   *)
(* record of that command.                                                 *)
THEOREM LinksOwned == Spec => []BinLinkOwned
<1>1. StoreInv => BinLinkOwned
  BY DEF StoreInv
<1> QED
  BY <1>1, StoreSafe, PTL

(* A published record has its manifest and its shim. *)
THEOREM RecordsWhole == Spec => []RecordsComplete
<1>1. StoreInv => RecordsComplete
  BY DEF StoreInv
<1> QED
  BY <1>1, StoreSafe, PTL

(* There is never more than one residue. *)
THEOREM OneResidue == Spec => []ResidueBounded
<1>1. StoreInv => ResidueBounded
  BY DEF StoreInv
<1> QED
  BY <1>1, StoreSafe, PTL

(* The three together: every operation finds a store it understands. *)
THEOREM StoreIntact == Spec => []StoreIntegrity
<1>1. StoreInv => StoreIntegrity
  BY DEF StoreInv, StoreIntegrity
<1> QED
  BY <1>1, StoreSafe, PTL

-----------------------------------------------------------------------------
(* What an operation knows.                                                *)

(* Nothing in bin is a link to the shim in the directory. *)
Unlinked(d) == \A c \in Command : bin[c] # d

(* The record of the operation, which nobody edited. *)
Holds(p) == dir[p] \in Dir /\ records[art[p]] = dir[p] /\ drift[dir[p]] = {}

(* What the operation inside the lock has seen of its artifact and its      *)
(* command, and may still rely on: the user leaves both alone while the     *)
(* lock is held, but may put something into an empty bin entry.             *)
KnowsOf(p) ==
  /\ pc[p] \in {"activate", "confirm", "deactivate", "quarantine"} => Holds(p)
  /\ op[p] = "remove" /\ pc[p] \in {"survey", "sweep"} => Holds(p)
  /\ op[p] = "remove" /\ pc[p] \in {"survey", "sweep", "deactivate", "quarantine", "purge"} =>
       was[p] \in {"inactive", "active"}
  /\ op[p] = "remove" /\ pc[p] \in {"survey", "sweep"} =>
       IF was[p] = "active" THEN bin[Target(p)] = dir[p] ELSE Unlinked(dir[p])
  /\ pc[p] \in {"deactivate", "confirm"} => bin[Target(p)] = dir[p]
  /\ pc[p] \in {"quarantine", "activate", "purge"} => Unlinked(dir[p])
  /\ pc[p] = "purge" => dir[p] \in Dir /\ records[art[p]] = NoDir
  /\ pc[p] \in {"manifest", "shim", "publish"} => drift[dir[p]] = {}
  /\ pc[p] \in {"stage", "manifest", "shim", "publish"} => bin[Target(p)] \notin Dir
  /\ pc[p] = "scanbin" => \A a \in Artifact : listing[p].records[a] = RecordState(a)

Knowledge == \A p \in Proc : KnowsOf(p)

(* What the operation has changed when it stands at a program point. *)
ChangedOf(p) ==
  /\ pc[p] \in Opening \cup {"idle", "survey", "examine", "scan", "scanbin"} => wrote[p] \subseteq {"shape"}
  /\ pc[p] \in {"sweep", "decide", "stage", "manifest", "shim", "publish", "unstage", "deactivate"} =>
       wrote[p] \subseteq {"shape", "staging"}
  /\ pc[p] = "activate" => "bin" \notin wrote[p]
  /\ pc[p] = "quarantine" => "records" \notin wrote[p]

Account == (\A p \in Proc : ChangedOf(p)) /\ DefiniteFailureChangedNothing

(* A residue, or a stage being filled, has room left for its record. *)
HasRoom == Cardinality(Recorded) < MaxArtifacts
RoomOf(p) ==
  /\ pc[p] \in {"stage", "manifest", "shim", "publish", "unstage"} => HasRoom
  /\ pc[p] \in {"sweep", "decide"} /\ "staging" \in wrote[p] => HasRoom
Entries == {c \in Command : bin[c] # "absent"}
Stock ==
  /\ IsFiniteSet(Recorded) /\ Cardinality(Recorded) <= MaxArtifacts /\ (staging # {} => HasRoom)
  /\ IsFiniteSet(Entries)
Room == Stock /\ \A p \in Proc : RoomOf(p)

(* Whoever is past the root has seen it, and nobody takes it away. *)
RootOf(p) ==
  /\ pc[p] = "idle" => part[p] = 1
  /\ pc[p] \in {"locklook", "lockmake", "locktry"} \cup Holding => "root" \in shape
  /\ pc[p] \in {"look", "mkdir"} /\ part[p] # 1 => "root" \in shape
Roots == (Recorded # {} => "root" \in shape) /\ \A p \in Proc : RootOf(p)

WorkInv == Knowledge /\ Account /\ Room /\ Roots

(* The record state is a matter of the records, the files and the links. *)
LEMMA SameState ==
  ASSUME UNCHANGED <<records, files, drift, bin>>, NEW a
  PROVE  RecordState(a)' = RecordState(a)
BY DEF RecordState, Broken, TwoLinks, OneLink

(* Nobody else knows anything while p is inside the lock. *)
LEMMA KnowsAlone ==
  ASSUME TypeOK, LockHeld, NEW p \in Proc, NEW q \in Proc, q # p, pc[p] \in Holding,
         NEW n, pc' = [pc EXCEPT ![p] = n]
  PROVE  KnowsOf(q)' /\ (pc'[q] \notin Holding)
<1>1. pc'[q] \notin Holding
  BY DEF TypeOK, ControlOK, LockHeld
<1> QED
  BY <1>1 DEF KnowsOf, Holding

(* A step that changes no record and no link leaves what others know. *)
LEMMA KnowsBeside ==
  ASSUME TypeOK, NEW p \in Proc, NEW q \in Proc, q # p, KnowsOf(q), UNCHANGED <<records, files, drift, bin>>,
         NEW n, pc' = [pc EXCEPT ![p] = n],
         op'[q] = op[q], art'[q] = art[q], dir'[q] = dir[q], was'[q] = was[q], listing'[q] = listing[q]
  PROVE  KnowsOf(q)'
<1>1. pc'[q] = pc[q] /\ \A a \in Artifact : RecordState(a)' = RecordState(a)
  BY SameState DEF TypeOK, ControlOK
<1> QED
  BY <1>1 DEF KnowsOf, Holds, Unlinked, Target

(* The others, whatever p does to the store while they are outside it. *)
LEMMA OthersKeep ==
  ASSUME TypeOK, LockHeld, WorkInv, NEW p \in Proc, NEW n, pc' = [pc EXCEPT ![p] = n],
         pc[p] \in Holding \/ UNCHANGED <<records, staging, files, drift, bin>>,
         "root" \in shape => "root" \in shape',
         \A q \in Proc : q # p => /\ op'[q] = op[q] /\ art'[q] = art[q] /\ dir'[q] = dir[q] /\ was'[q] = was[q]
                                 /\ listing'[q] = listing[q] /\ wrote'[q] = wrote[q] /\ part'[q] = part[q],
         NEW q \in Proc, q # p
  PROVE  KnowsOf(q)' /\ ChangedOf(q)' /\ RoomOf(q)' /\ RootOf(q)'
<1>1. pc'[q] = pc[q]
  BY DEF TypeOK, ControlOK
<1>2. KnowsOf(q)'
  BY KnowsAlone, KnowsBeside DEF WorkInv, Knowledge
<1>3. ChangedOf(q)' /\ RootOf(q)'
  BY <1>1 DEF WorkInv, Account, Roots, ChangedOf, RootOf
<1>4. RoomOf(q)'
  <2>1. CASE pc[p] \in Holding
    <3>1. pc'[q] \notin Holding
      BY <2>1, KnowsAlone
    <3> QED
      BY <3>1 DEF RoomOf, Holding
  <2>2. CASE UNCHANGED <<records, staging, files, drift, bin>>
    BY <1>1, <2>2 DEF WorkInv, Room, RoomOf, HasRoom, Recorded
  <2> QED
    BY <2>1, <2>2
<1> QED
  BY <1>2, <1>3, <1>4

(* The operation goes on inside the lock. *)
LEMMA WorkGoto ==
  ASSUME TypeOK, LockHeld, WorkInv, NEW p \in Proc, pc[p] \in Holding, NEW next \in Holding, Goto(p, next),
         UNCHANGED <<shape, part>>,
         \A q \in Proc : q # p => dir'[q] = dir[q] /\ was'[q] = was[q] /\ wrote'[q] = wrote[q],
         KnowsOf(p)', ChangedOf(p)', RoomOf(p)', Stock'
  PROVE  WorkInv'
<1>1. pc' = [pc EXCEPT ![p] = next] /\ pc'[p] = next /\ UNCHANGED <<op, art, result, listing>>
  BY DEF Goto, TypeOK, ControlOK
<1>2. RootOf(p)' /\ "root" \in shape
  BY <1>1 DEF RootOf, Holding, WorkInv, Roots
<1>3. \A q \in Proc : KnowsOf(q)' /\ ChangedOf(q)' /\ RoomOf(q)' /\ RootOf(q)'
  BY <1>1, <1>2, OthersKeep
<1>4. DefiniteFailureChangedNothing'
  BY <1>1 DEF WorkInv, Account, DefiniteFailureChangedNothing
<1> QED
  BY <1>2, <1>3, <1>4 DEF WorkInv, Knowledge, Account, Room, Roots

(* The operation goes on before it has the lock. *)
LEMMA WorkOpening ==
  ASSUME TypeOK, LockHeld, WorkInv, NEW p \in Proc, pc[p] \in Opening, NEW next \in Opening, Goto(p, next),
         UNCHANGED <<records, staging, files, drift, bin, dir, was>>, shape \subseteq shape',
         \A q \in Proc : q # p => wrote'[q] = wrote[q] /\ part'[q] = part[q],
         wrote'[p] \subseteq {"shape"}, RootOf(p)'
  PROVE  WorkInv'
<1>1. pc' = [pc EXCEPT ![p] = next] /\ pc'[p] = next /\ UNCHANGED <<op, art, result, listing>>
  BY DEF Goto, TypeOK, ControlOK
<1>2. KnowsOf(p)' /\ ChangedOf(p)' /\ RoomOf(p)'
  BY <1>1 DEF KnowsOf, ChangedOf, RoomOf, Opening
<1>3. \A q \in Proc : KnowsOf(q)' /\ ChangedOf(q)' /\ RoomOf(q)' /\ RootOf(q)'
  BY <1>1, <1>2, OthersKeep
<1>4. DefiniteFailureChangedNothing' /\ Stock' /\ (Recorded' # {} => "root" \in shape')
  BY <1>1 DEF WorkInv, Account, Room, Roots, DefiniteFailureChangedNothing, Stock, Recorded, Entries, HasRoom
<1> QED
  BY <1>3, <1>4 DEF WorkInv, Knowledge, Account, Room, Roots

(* The operation returns. *)
LEMMA WorkReturn ==
  ASSUME TypeOK, LockHeld, WorkInv, NEW p \in Proc, NEW code, NEW areas, Return(p, code, areas), UNCHANGED shape,
         code \in DefiniteCode => (wrote[p] \cup areas) \cap {"records", "bin"} = {},
         pc[p] \in Holding \/ UNCHANGED <<records, staging, files, drift, bin>>,
         \A q \in Proc : q # p => listing'[q] = listing[q],
         Recorded' # {} => Recorded # {}, Stock'
  PROVE  WorkInv'
<1>1. /\ pc' = [pc EXCEPT ![p] = "idle"] /\ pc'[p] = "idle" /\ wrote'[p] = {} /\ part'[p] = 1
      /\ \A q \in Proc : q # p => /\ op'[q] = op[q] /\ art'[q] = art[q] /\ dir'[q] = dir[q] /\ was'[q] = was[q]
                                  /\ wrote'[q] = wrote[q] /\ part'[q] = part[q]
  BY DEF Return, TypeOK, ControlOK, LocalOK
<1>2. KnowsOf(p)' /\ ChangedOf(p)' /\ RoomOf(p)' /\ RootOf(p)'
  BY <1>1 DEF KnowsOf, ChangedOf, RoomOf, RootOf, Holding
<1>3. \A q \in Proc : KnowsOf(q)' /\ ChangedOf(q)' /\ RoomOf(q)' /\ RootOf(q)'
  BY <1>1, <1>2, OthersKeep
<1>4. DefiniteFailureChangedNothing'
  <2>1. result'[p].code = code /\ result'[p].wrote = wrote[p] \cup areas /\ \A q \in Proc : q # p => result'[q] = result[q]
    BY DEF Return, TypeOK, ReturnedOK
  <2> QED
    BY <2>1 DEF WorkInv, Account, DefiniteFailureChangedNothing
<1> QED
  BY <1>3, <1>4 DEF WorkInv, Knowledge, Account, Room, Roots

LEMMA WorkReturnOnly ==
  ASSUME TypeOK, LockHeld, WorkInv, NEW p \in Proc, NEW code, ReturnOnly(p, code),
         code \in DefiniteCode => wrote[p] \cap {"records", "bin"} = {}
  PROVE  WorkInv'
<1>1. Return(p, code, {}) /\ UNCHANGED <<shape, records, staging, files, drift, bin, listing>>
  BY DEF ReturnOnly, fs
<1>2. Stock' /\ Recorded' = Recorded
  BY <1>1 DEF WorkInv, Room, Stock, Recorded, Entries, HasRoom
<1> QED
  BY <1>1, <1>2, WorkReturn

(* How many records and links there are. *)
LEMMA StockSame ==
  ASSUME Stock, UNCHANGED <<records, bin>>, staging' \subseteq staging \/ HasRoom
  PROVE  Stock' /\ Recorded' = Recorded /\ (HasRoom' <=> HasRoom)
BY DEF Stock, Recorded, Entries, HasRoom

LEMMA StockLink ==
  ASSUME Stock, UNCHANGED <<records, staging>>, NEW c \in Command, \A x \in Command : x # c => bin'[x] = bin[x]
  PROVE  Stock' /\ Recorded' = Recorded
<1>1. IsFiniteSet(Entries \cup {c})
  BY FS_AddElement DEF Stock
<1>2. Entries' \subseteq Entries \cup {c}
  BY DEF Entries
<1>3. IsFiniteSet(Entries')
  BY <1>1, <1>2, FS_Subset
<1> QED
  BY <1>3 DEF Stock, Recorded, HasRoom

LEMMA StockPublish ==
  ASSUME FilesOK, Stock, HasRoom, NEW a \in Artifact, NEW d \in Dir, records[a] = NoDir,
         records' = [records EXCEPT ![a] = d], staging' = {}, UNCHANGED bin
  PROVE  Stock'
<1>1. Recorded' = Recorded \cup {a} /\ a \notin Recorded
  BY Points DEF FilesOK, Recorded
<1>2. IsFiniteSet(Recorded') /\ Cardinality(Recorded') = Cardinality(Recorded) + 1
  BY <1>1, FS_AddElement DEF Stock
<1>3. Cardinality(Recorded') <= MaxArtifacts
  <2>1. Cardinality(Recorded) \in Nat
    BY FS_CardinalityType DEF Stock
  <2> QED
    BY <1>2, <2>1, ConstantsAssumption DEF HasRoom
<1> QED
  BY <1>2, <1>3 DEF Stock, Entries

LEMMA StockRetire ==
  ASSUME FilesOK, Stock, NEW a \in Artifact, records[a] # NoDir,
         records' = [records EXCEPT ![a] = NoDir], UNCHANGED bin
  PROVE  Stock' /\ Recorded' \subseteq Recorded
<1>1. Recorded' = Recorded \ {a} /\ a \in Recorded
  BY DEF FilesOK, Recorded
<1>2. IsFiniteSet(Recorded') /\ Cardinality(Recorded') = Cardinality(Recorded) - 1
  BY <1>1, FS_RemoveElement DEF Stock
<1>3. Cardinality(Recorded') < MaxArtifacts /\ Cardinality(Recorded') <= MaxArtifacts
  <2>1. Cardinality(Recorded) \in Nat
    BY FS_CardinalityType DEF Stock
  <2> QED
    BY <1>2, <2>1, ConstantsAssumption DEF Stock
<1> QED
  BY <1>1, <1>2, <1>3 DEF Stock, HasRoom, Entries

(* Looking at, making and opening the fixed entries, and taking the lock. *)
LEMMA OpeningWork ==
  ASSUME TypeInv, StoreInv, WorkInv, NEW p \in Proc,
         OpenLook(p) \/ OpenMkdir(p) \/ OpenExisting(p) \/ LockLook(p) \/ LockCreate(p) \/ LockTry(p)
  PROVE  WorkInv'
<1>1. /\ TypeOK /\ LocalOK /\ FilesOK /\ ControlOK /\ LockHeld /\ ControlOf(p) /\ RootOf(p)
      /\ pc[p] \in Opening /\ wrote[p] \subseteq {"shape"} /\ part[p] \in 1..4
  <2>1. pc[p] \in Opening
    BY DEF OpenLook, OpenMkdir, OpenExisting, LockLook, LockCreate, LockTry, Opening
  <2> QED
    BY <2>1 DEF TypeInv, TypeOK, StoreInv, Control, WorkInv, Account, ChangedOf, Roots, LocalOK
<1>2. ASSUME NEW code, ReturnOnly(p, code) PROVE WorkInv'
  BY <1>1, <1>2, WorkReturnOnly
<1>3. ASSUME NEW next, Goto(p, next) PROVE pc'[p] = next
  BY <1>1, <1>3 DEF Goto, ControlOK
<1>4. ASSUME NEW next \in Opening, Goto(p, next), UNCHANGED <<fs, local, wrote>>, RootOf(p)' PROVE WorkInv'
  BY <1>1, <1>4, WorkOpening DEF fs, local
<1>5. part[p] = 1 \/ "root" \in shape \/ pc[p] \notin {"look", "mkdir"}
  BY <1>1 DEF RootOf
<1>6. Parts[1] = "root" /\ Opening \cap (Holding \cup {"idle"}) = {}
  BY DEF Parts, Opening, Holding
<1>7. ASSUME NextPart(p), "root" \in shape', pc[p] \in {"look", "mkdir"}
      PROVE  RootOf(p)' /\ (\E next \in {"look", "locklook"} : Goto(p, next)) /\ \A q \in Proc : q # p => part'[q] = part[q]
  <2>1. PICK next \in {"look", "locklook"} : Goto(p, next)
    BY <1>7 DEF NextPart
  <2>2. pc'[p] = next
    BY <1>3, <2>1
  <2> QED
    BY <1>1, <1>7, <2>1, <2>2 DEF RootOf, NextPart, LocalOK
<1>8. CASE OpenLook(p)
  <2>1. CASE Parts[part[p]] \in shape /\ NextPart(p)
    <3>1. "root" \in shape'
      BY <1>5, <1>6, <1>8, <2>1 DEF OpenLook, fs
    <3> QED
      BY <1>1, <1>7, <1>8, <2>1, <3>1, WorkOpening DEF OpenLook, Opening, fs
  <2>2. CASE Goto(p, "mkdir") /\ UNCHANGED part
    <3>1. RootOf(p)'
      BY <1>1, <1>3, <1>8, <2>2 DEF OpenLook, RootOf, Holding, fs
    <3> QED
      BY <1>4, <1>8, <2>2, <3>1 DEF OpenLook, Opening, local
  <2> QED
    BY <1>8, <2>1, <2>2 DEF OpenLook
<1>9. CASE OpenMkdir(p)
  <2>1. CASE /\ shape' = shape \cup {Parts[part[p]]} /\ Wrote(p, {"shape"}) /\ NextPart(p)
             /\ UNCHANGED <<records, staging, files, drift, bin, dir, was, todo>>
    <3>1. "root" \in shape'
      BY <1>5, <1>6, <1>9, <2>1 DEF OpenMkdir
    <3>2. wrote'[p] \subseteq {"shape"} /\ \A q \in Proc : q # p => wrote'[q] = wrote[q]
      BY <1>1, <2>1 DEF Wrote, LocalOK
    <3> QED
      BY <1>1, <1>7, <1>9, <2>1, <3>1, <3>2, WorkOpening DEF OpenMkdir, Opening
  <2>2. CASE "root" \in shape /\ NextPart(p) /\ UNCHANGED <<fs, dir, was, todo, wrote>>
    <3>1. "root" \in shape'
      BY <2>2 DEF fs
    <3> QED
      BY <1>1, <1>7, <1>9, <2>2, <3>1, WorkOpening DEF OpenMkdir, Opening, fs
  <2>3. CASE ReturnOnly(p, "Unsafe")
    BY <1>2, <2>3
  <2> QED
    BY <1>9, <2>1, <2>2, <2>3 DEF OpenMkdir
<1>10. CASE OpenExisting(p)
  <2>1. CASE "root" \in shape /\ Goto(p, "locklook") /\ UNCHANGED <<fs, local, wrote>>
    <3>1. RootOf(p)'
      BY <1>3, <2>1 DEF RootOf, fs
    <3> QED
      BY <1>4, <2>1, <3>1 DEF Opening
  <2> QED
    BY <1>2, <1>10, <2>1 DEF OpenExisting
<1>11. CASE LockLook(p)
  <2>1. CASE \E next \in {"locktry", "lockmake"} : Goto(p, next) /\ UNCHANGED <<fs, local, wrote>>
    <3>1. RootOf(p)'
      BY <1>1, <1>3, <1>11, <2>1 DEF LockLook, RootOf, fs
    <3> QED
      BY <1>4, <2>1, <3>1 DEF Opening
  <2> QED
    BY <1>2, <1>11, <2>1 DEF LockLook
<1>12. CASE LockCreate(p)
  <2>1. CASE /\ shape' = shape \cup {"lock"} /\ Wrote(p, {"shape"}) /\ Goto(p, "locktry")
             /\ UNCHANGED <<records, staging, files, drift, bin, local>>
    <3>1. RootOf(p)'
      BY <1>1, <1>3, <1>12, <2>1 DEF LockCreate, RootOf
    <3>2. wrote'[p] \subseteq {"shape"} /\ \A q \in Proc : q # p => wrote'[q] = wrote[q]
      BY <1>1, <2>1 DEF Wrote, LocalOK
    <3> QED
      BY <1>1, <2>1, <3>1, <3>2, WorkOpening DEF Opening, local
  <2> QED
    BY <1>2, <1>12, <2>1 DEF LockCreate
<1>13. CASE LockTry(p)
  <2>1. CASE ReturnOnly(p, "Conflict")
    BY <1>2, <2>1
  <2>2. CASE holder = NoProc /\ holder' = p /\ UNCHANGED <<fs, local, op, art, wrote, result, listing>>
    <3>1. PICK n \in {"survey", "examine", "scan"} : pc' = [pc EXCEPT ![p] = n] /\ (n = "survey" => op[p] = "install")
      BY <1>13, <2>1, <2>2, Points DEF LockTry, TypeInv, Control, ControlOf, Operation, ReturnOnly, Return
    <3>2. pc'[p] = n /\ UNCHANGED <<records, staging, files, drift, bin, shape>>
      BY <1>1, <2>2, <3>1 DEF ControlOK, fs
    <3>3. KnowsOf(p)' /\ ChangedOf(p)' /\ RoomOf(p)' /\ RootOf(p)'
      BY <1>1, <1>13, <2>2, <3>1, <3>2 DEF KnowsOf, ChangedOf, RoomOf, RootOf, LockTry, Opening, Holding
    <3>4. \A q \in Proc : KnowsOf(q)' /\ ChangedOf(q)' /\ RoomOf(q)' /\ RootOf(q)'
      BY <1>1, <2>2, <3>1, <3>2, <3>3, OthersKeep DEF local
    <3>5. DefiniteFailureChangedNothing' /\ Stock' /\ (Recorded' # {} => "root" \in shape')
      BY <2>2, <3>2 DEF WorkInv, Account, Room, Roots, DefiniteFailureChangedNothing, Stock, Recorded, Entries, HasRoom
    <3> QED
      BY <3>4, <3>5 DEF WorkInv, Knowledge, Account, Room, Roots
  <2> QED
    BY <1>13, <2>1, <2>2 DEF LockTry
<1> QED
  BY <1>8, <1>9, <1>10, <1>11, <1>12, <1>13

(* What holds of the process inside the lock. *)
LEMMA Facts ==
  ASSUME TypeInv, StoreInv, WorkInv, NEW p \in Proc
  PROVE  /\ TypeOK /\ FilesOK /\ LocalOK /\ ControlOK /\ ReturnedOK /\ ControlOf(p)
         /\ LockHeld /\ StageOf(p) /\ OneName /\ RecordsComplete /\ BinLinkOwned
         /\ KnowsOf(p) /\ ChangedOf(p) /\ RoomOf(p) /\ Stock
BY DEF TypeInv, TypeOK, Control, StoreInv, Stages, WorkInv, Knowledge, Account, Room

(* A step that only looks. *)
LEMMA WorkLook ==
  ASSUME TypeOK, LockHeld, WorkInv, NEW p \in Proc, pc[p] \in Holding, NEW next \in Holding, Goto(p, next),
         UNCHANGED <<fs, part, wrote>>, \A q \in Proc : q # p => dir'[q] = dir[q] /\ was'[q] = was[q],
         KnowsOf(p)', ChangedOf(p)', RoomOf(p)'
  PROVE  WorkInv'
<1>1. Stock' /\ UNCHANGED shape
  BY StockSame DEF WorkInv, Room, fs
<1> QED
  BY <1>1, WorkGoto

LEMMA GoesTo ==
  ASSUME TypeOK, NEW p \in Proc, NEW next, Goto(p, next)
  PROVE  pc'[p] = next /\ UNCHANGED <<holder, op, art, result, listing>>
BY DEF Goto, TypeOK, ControlOK

LEMMA SurveyWork ==
  ASSUME TypeInv, StoreInv, WorkInv, NEW p \in Proc, Survey(p)
  PROVE  WorkInv'
<1>1. TypeOK /\ LockHeld /\ ControlOf(p) /\ KnowsOf(p) /\ ChangedOf(p) /\ pc[p] = "survey" /\ pc[p] \in Holding
  BY Facts DEF Survey, Holding
<1>2. CASE \E code \in Code : ReturnOnly(p, code)
  <2>1. wrote[p] \cap {"records", "bin"} = {}
    BY <1>1 DEF ChangedOf
  <2> QED
    BY <1>1, <1>2, <2>1, WorkReturnOnly
<1>3. CASE Goto(p, "sweep") /\ UNCHANGED <<fs, part, dir, was, wrote>>
  <2>1. pc'[p] = "sweep" /\ UNCHANGED <<op, art, listing>>
    BY <1>1, <1>3, GoesTo
  <2>2. KnowsOf(p)'
    BY <1>1, <1>3, <2>1 DEF KnowsOf, Holds, Unlinked, Target, fs
  <2>3. ChangedOf(p)' /\ RoomOf(p)'
    BY <1>1, <1>3, <2>1 DEF ChangedOf, RoomOf, Opening
  <2> QED
    BY <1>1, <1>3, <2>2, <2>3, WorkLook DEF Holding
<1> QED
  BY <1>2, <1>3 DEF Survey, Code

(* A residue is swept only while there is room for its record. *)
LEMMA SweepWork ==
  ASSUME TypeInv, StoreInv, WorkInv, NEW p \in Proc, Sweep(p)
  PROVE  WorkInv'
<1>1. /\ TypeOK /\ FilesOK /\ LocalOK /\ LockHeld /\ StageOf(p) /\ OneName /\ KnowsOf(p) /\ ChangedOf(p) /\ Stock
      /\ pc[p] = "sweep" /\ pc[p] \in Holding
  BY Facts DEF Sweep, Holding
<1>2. PICK d \in todo[p] : ShrinkResidue(d)
  BY DEF Sweep
<1>3. d \in staging /\ UNCHANGED <<shape, records, bin, part, dir, was>> /\ staging' \subseteq staging
  BY <1>1, <1>2 DEF StageOf, ShrinkResidue, Sweep
<1>4. pc'[p] = "sweep" /\ UNCHANGED <<op, art, listing>> /\ Goto(p, "sweep")
  BY <1>1, GoesTo DEF Sweep
<1>5. KnowsOf(p)'
  <2>1. Holds(p) => Holds(p)'
    BY <1>1, <1>2, <1>3, <1>4 DEF Holds, OneName, ShrinkResidue, FilesOK, KnowsOf, ControlOf
  <2> QED
    BY <1>1, <1>3, <1>4, <2>1 DEF KnowsOf, Unlinked, Target
<1>6. Stock' /\ HasRoom'
  BY <1>1, <1>3, StockSame DEF Stock
<1>7. wrote' = [wrote EXCEPT ![p] = wrote[p] \cup {"staging"}]
  BY DEF Sweep, Wrote
<1>8. ChangedOf(p)' /\ RoomOf(p)' /\ \A q \in Proc : q # p => wrote'[q] = wrote[q]
  BY <1>1, <1>4, <1>6, <1>7 DEF ChangedOf, RoomOf, Opening, LocalOK
<1> QED
  BY <1>1, <1>3, <1>4, <1>5, <1>6, <1>8, WorkGoto

LEMMA SweepDoneWork ==
  ASSUME TypeInv, StoreInv, WorkInv, NEW p \in Proc, SweepDone(p)
  PROVE  WorkInv'
<1>1. /\ TypeOK /\ LockHeld /\ ControlOf(p) /\ KnowsOf(p) /\ ChangedOf(p) /\ RoomOf(p)
      /\ pc[p] = "sweep" /\ pc[p] \in Holding
      /\ UNCHANGED <<fs, local, wrote>>
  BY Facts DEF SweepDone, Holding
<1>2. PICK next \in {"decide", "deactivate", "quarantine"} :
        /\ Goto(p, next)
        /\ next = "decide" <=> op[p] = "install"
        /\ next = "deactivate" => was[p] = "active"
        /\ next = "quarantine" => was[p] # "active"
  BY DEF SweepDone
<1>3. pc'[p] = next /\ UNCHANGED <<op, art, listing>>
  BY <1>1, <1>2, GoesTo
<1>4. next # "decide" => op[p] = "remove"
  BY <1>1, <1>2 DEF ControlOf, Runs
<1>5. KnowsOf(p)'
  BY <1>1, <1>2, <1>3, <1>4 DEF KnowsOf, Holds, Unlinked, Target, fs, local
<1>6. ChangedOf(p)' /\ RoomOf(p)'
  BY <1>1, <1>3 DEF ChangedOf, RoomOf, HasRoom, Recorded, Opening, fs
<1> QED
  BY <1>1, <1>2, <1>5, <1>6, WorkLook DEF Holding, local

(* What an examination of a record establishes. *)
LEMMA Examined ==
  ASSUME FilesOK, NEW a \in Artifact
  PROVE  /\ RecordState(a) = "absent" <=> records[a] = NoDir
         /\ RecordState(a) \in {"inactive", "active"} =>
              records[a] \in Dir /\ drift[records[a]] = {} /\ files[records[a]] = File
         /\ RecordState(a) = "inactive" => Unlinked(records[a])
         /\ RecordState(a) = "active" => bin[CommandOf[a]] = records[a] /\ TwoLinks(records[a], CommandOf[a])
<1> DEFINE d == records[a]
<1>1. d \in Dir \cup {NoDir} /\ DriftKinds \subseteq {"alien", "edited", "linked"}
      /\ (d \in Dir => drift[d] \subseteq DriftKinds)
  BY ConstantsAssumption DEF FilesOK
<1>2. RecordState(a) \in {"inactive", "active"} =>
        d # NoDir /\ "alien" \notin drift[d] /\ files[d] = File /\ "edited" \notin drift[d] /\ "linked" \notin drift[d]
  BY DEF RecordState, Broken, TwoLinks, OneLink
<1>3. RecordState(a) = "inactive" => Unlinked(d)
  BY DEF RecordState, OneLink, Unlinked
<1>4. RecordState(a) = "active" => bin[CommandOf[a]] = d /\ TwoLinks(d, CommandOf[a])
  BY DEF RecordState
<1>5. RecordState(a) = "absent" <=> d = NoDir
  BY DEF RecordState
<1> QED
  BY <1>1, <1>2, <1>3, <1>4, <1>5

LEMMA DecideWork ==
  ASSUME TypeInv, StoreInv, WorkInv, NEW p \in Proc, Decide(p)
  PROVE  WorkInv'
<1>1. /\ TypeOK /\ FilesOK /\ LocalOK /\ LockHeld /\ ControlOf(p) /\ ChangedOf(p) /\ Stock /\ pc[p] = "decide"
      /\ pc[p] \in Holding /\ op[p] = "install" /\ art[p] \in Artifact
  BY Facts DEF Decide, Holding, ControlOf, Runs, InstallPC
<1>2. CASE \E code \in Code : ReturnOnly(p, code)
  <2>1. wrote[p] \cap {"records", "bin"} = {}
    BY <1>1 DEF ChangedOf
  <2> QED
    BY <1>1, <1>2, <2>1, WorkReturnOnly
<1>3. CASE /\ RecordState(art[p]) = "inactive" /\ dir' = [dir EXCEPT ![p] = records[art[p]]]
           /\ Goto(p, "activate") /\ UNCHANGED <<fs, part, was, todo, wrote>>
  <2>1. pc'[p] = "activate" /\ dir'[p] = records[art[p]] /\ UNCHANGED <<op, art, listing>>
    BY <1>1, <1>3, GoesTo DEF LocalOK
  <2>2. Holds(p)' /\ Unlinked(dir[p])'
    BY <1>1, <1>3, <2>1, Examined DEF Holds, Unlinked, fs
  <2>3. KnowsOf(p)' /\ ChangedOf(p)' /\ RoomOf(p)'
    BY <1>1, <1>3, <2>1, <2>2 DEF KnowsOf, ChangedOf, RoomOf, Opening
  <2>4. \A q \in Proc : q # p => dir'[q] = dir[q]
    BY <1>1, <1>3 DEF LocalOK
  <2> QED
    BY <1>1, <1>3, <2>3, <2>4, WorkLook DEF Holding
<1>4. CASE /\ ~(Cardinality(Recorded) >= MaxArtifacts) /\ ~(bin[Target(p)] # "absent")
           /\ Goto(p, "stage") /\ UNCHANGED <<fs, local, wrote>>
  <2>1. pc'[p] = "stage" /\ UNCHANGED <<op, art, listing, records, bin, dir, was, part>>
    BY <1>1, <1>4, GoesTo DEF fs, local
  <2>2. HasRoom
    <3>1. Cardinality(Recorded) \in Nat
      BY <1>1, FS_CardinalityType DEF Stock
    <3> QED
      BY <1>4, <3>1, ConstantsAssumption DEF HasRoom
  <2>3. KnowsOf(p)'
    BY <1>4, <2>1, Points DEF KnowsOf, Target
  <2>4. ChangedOf(p)' /\ RoomOf(p)'
    BY <1>1, <1>4, <2>1, <2>2 DEF ChangedOf, RoomOf, Opening, HasRoom, Recorded
  <2> QED
    BY <1>1, <1>4, <2>1, <2>3, <2>4, WorkLook DEF Holding
<1> QED
  BY <1>2, <1>3, <1>4 DEF Decide, Code

LEMMA CreateStagingWork ==
  ASSUME TypeInv, StoreInv, WorkInv, NEW p \in Proc, CreateStaging(p)
  PROVE  WorkInv'
<1>1. /\ TypeOK /\ FilesOK /\ LocalOK /\ LockHeld /\ ControlOf(p) /\ KnowsOf(p) /\ ChangedOf(p) /\ RoomOf(p) /\ Stock
      /\ pc[p] = "stage" /\ pc[p] \in Holding /\ op[p] = "install"
  BY Facts DEF CreateStaging, Holding, ControlOf, Runs, InstallPC
<1>2. PICK d \in Dir : drift' = [drift EXCEPT ![d] = {}] /\ dir' = [dir EXCEPT ![p] = d]
  BY DEF CreateStaging
<1>3. pc'[p] = "manifest" /\ UNCHANGED <<op, art, listing>> /\ Goto(p, "manifest")
  BY <1>1, GoesTo DEF CreateStaging
<1>4. UNCHANGED <<shape, records, bin, part, was>> /\ wrote' = [wrote EXCEPT ![p] = wrote[p] \cup {"staging"}]
  BY DEF CreateStaging, Wrote
<1>5. dir'[p] = d /\ drift'[d] = {} /\ \A q \in Proc : q # p => dir'[q] = dir[q] /\ wrote'[q] = wrote[q]
  BY <1>1, <1>2, <1>4 DEF FilesOK, LocalOK
<1>6. KnowsOf(p)'
  BY <1>1, <1>3, <1>4, <1>5 DEF KnowsOf, Target
<1>7. Stock' /\ HasRoom'
  BY <1>1, <1>4, StockSame DEF RoomOf
<1>8. ChangedOf(p)' /\ RoomOf(p)'
  BY <1>1, <1>3, <1>4, <1>7 DEF ChangedOf, RoomOf, Opening, LocalOK
<1> QED
  BY <1>1, <1>3, <1>4, <1>5, <1>6, <1>7, <1>8, WorkGoto DEF Holding

LEMMA WriteFileWork ==
  ASSUME TypeInv, StoreInv, WorkInv, NEW p \in Proc, WriteManifest(p) \/ WriteShim(p)
  PROVE  WorkInv'
<1>1. PICK at, file, next :
        /\ WriteFile(p, at, file, next)
        /\ (at = "manifest" /\ next = "shim") \/ (at = "shim" /\ next = "publish")
  BY DEF WriteManifest, WriteShim
<1>2. /\ TypeOK /\ LockHeld /\ ControlOf(p) /\ KnowsOf(p) /\ ChangedOf(p) /\ RoomOf(p) /\ Stock
      /\ pc[p] = at /\ pc[p] \in Holding /\ op[p] = "install"
      /\ UNCHANGED <<shape, records, staging, drift, bin>>
  BY <1>1, Facts DEF WriteFile, Holding, ControlOf, Runs, InstallPC
<1>3. Stock' /\ Recorded' = Recorded
  BY <1>2, StockSame
<1>4. CASE Goto(p, next) /\ UNCHANGED <<local, wrote>>
  <2>1. pc'[p] = next /\ UNCHANGED <<op, art, listing, dir, was, part, todo>>
    BY <1>2, <1>4, GoesTo DEF local
  <2>2. KnowsOf(p)'
    BY <1>1, <1>2, <2>1 DEF KnowsOf, Target
  <2>3. ChangedOf(p)' /\ RoomOf(p)'
    BY <1>1, <1>2, <1>3, <1>4, <2>1 DEF ChangedOf, RoomOf, Opening, HasRoom
  <2> QED
    BY <1>1, <1>2, <1>3, <1>4, <2>1, <2>2, <2>3, WorkGoto DEF Holding
<1>5. CASE Return(p, "Unsafe", {}) /\ UNCHANGED listing
  <2>1. (wrote[p] \cup {}) \cap {"records", "bin"} = {}
    BY <1>1, <1>2 DEF ChangedOf
  <2> QED
    BY <1>2, <1>3, <1>5, <2>1, WorkReturn
<1> QED
  BY <1>1, <1>4, <1>5 DEF WriteFile

(* The record appears with the stage's unedited files, and no link leads to it. *)
LEMMA PublishWork ==
  ASSUME TypeInv, StoreInv, WorkInv, NEW p \in Proc, Publish(p)
  PROVE  WorkInv'
<1>1. /\ TypeOK /\ FilesOK /\ LocalOK /\ LockHeld /\ ControlOf(p) /\ StageOf(p) /\ OneName /\ BinLinkOwned
      /\ KnowsOf(p) /\ ChangedOf(p) /\ RoomOf(p) /\ Stock
      /\ pc[p] = "publish" /\ pc[p] \in Holding /\ op[p] = "install" /\ art[p] \in Artifact
      /\ UNCHANGED local
  BY Facts DEF Publish, Holding, ControlOf, Runs, InstallPC
<1>2. CASE Goto(p, "unstage") /\ UNCHANGED <<fs, wrote>>
  <2>1. pc'[p] = "unstage"
    BY <1>1, <1>2, GoesTo
  <2>2. KnowsOf(p)'
    BY <2>1 DEF KnowsOf
  <2>3. ChangedOf(p)' /\ RoomOf(p)'
    BY <1>1, <1>2, <2>1 DEF ChangedOf, RoomOf, Opening, HasRoom, Recorded, fs
  <2> QED
    BY <1>1, <1>2, <2>2, <2>3, WorkLook DEF Holding, local
<1>3. CASE /\ records[art[p]] = NoDir /\ records' = [records EXCEPT ![art[p]] = dir[p]]
           /\ staging' = staging \ {dir[p]} /\ Wrote(p, {"records"}) /\ Goto(p, "activate")
           /\ UNCHANGED <<shape, files, drift, bin>>
  <2>1. dir[p] \in Dir /\ staging = {dir[p]} /\ staging' = {} /\ UNCHANGED <<dir, was, part>>
    BY <1>1, <1>3 DEF StageOf, local
  <2>2. pc'[p] = "activate" /\ UNCHANGED <<op, art, listing>>
    BY <1>1, <1>3, GoesTo
  <2>3. Unlinked(dir[p])
    BY <1>1, <2>1, Points DEF BinLinkOwned, OneName, Recorded, Unlinked
  <2>4. Holds(p)' /\ Unlinked(dir[p])'
    BY <1>1, <1>3, <2>1, <2>2, <2>3 DEF Holds, KnowsOf, Unlinked, FilesOK
  <2>5. KnowsOf(p)'
    BY <2>2, <2>4 DEF KnowsOf
  <2>6. wrote' = [wrote EXCEPT ![p] = wrote[p] \cup {"records"}]
    BY <1>3 DEF Wrote
  <2>7. ChangedOf(p)' /\ RoomOf(p)' /\ \A q \in Proc : q # p => wrote'[q] = wrote[q]
    BY <1>1, <2>2, <2>6 DEF ChangedOf, RoomOf, Opening, LocalOK
  <2>8. Stock'
    BY <1>1, <1>3, <2>1, StockPublish DEF RoomOf
  <2> QED
    BY <1>1, <1>3, <2>1, <2>5, <2>7, <2>8, WorkGoto DEF Holding
<1> QED
  BY <1>2, <1>3 DEF Publish

LEMMA UnstageWork ==
  ASSUME TypeInv, StoreInv, WorkInv, NEW p \in Proc, Unstage(p)
  PROVE  WorkInv'
<1>1. /\ TypeOK /\ LockHeld /\ ChangedOf(p) /\ RoomOf(p) /\ Stock /\ pc[p] = "unstage" /\ pc[p] \in Holding
  BY Facts DEF Unstage, Holding
<1>2. CASE Goto(p, "unstage") /\ UNCHANGED <<shape, records, staging, drift, bin, local, wrote>>
  <2>1. pc'[p] = "unstage" /\ UNCHANGED <<part, dir, was>>
    BY <1>1, <1>2, GoesTo DEF local
  <2>2. KnowsOf(p)'
    BY <2>1 DEF KnowsOf
  <2>3. Stock' /\ Recorded' = Recorded
    BY <1>1, <1>2, StockSame
  <2>4. ChangedOf(p)' /\ RoomOf(p)'
    BY <1>1, <1>2, <2>1, <2>3 DEF ChangedOf, RoomOf, Opening, HasRoom
  <2> QED
    BY <1>1, <1>2, <2>1, <2>2, <2>3, <2>4, WorkGoto
<1>3. CASE /\ staging' = staging \ {dir[p]} /\ Return(p, UnstageCode(p), {})
           /\ UNCHANGED <<shape, records, files, drift, bin, listing>>
  <2>1. (wrote[p] \cup {}) \cap {"records", "bin"} = {}
    BY <1>1 DEF ChangedOf
  <2>2. Stock' /\ Recorded' = Recorded
    BY <1>1, <1>3, StockSame
  <2> QED
    BY <1>1, <1>3, <2>1, <2>2, WorkReturn
<1> QED
  BY <1>2, <1>3 DEF Unstage

LEMMA ActivateWork ==
  ASSUME TypeInv, StoreInv, WorkInv, NEW p \in Proc, Activate(p)
  PROVE  WorkInv'
<1>1. /\ TypeOK /\ FilesOK /\ LocalOK /\ LockHeld /\ ControlOf(p) /\ KnowsOf(p) /\ ChangedOf(p) /\ Stock
      /\ pc[p] = "activate" /\ pc[p] \in Holding /\ op[p] = "install" /\ art[p] \in Artifact
  BY Facts DEF Activate, Holding, ControlOf, Runs, InstallPC
<1>2. CASE \E code \in Code : ReturnOnly(p, code) /\ (Fresh(p) => code = "Uncertain")
  <2>1. ~Fresh(p) => wrote[p] \cap {"records", "bin"} = {}
    BY <1>1 DEF ChangedOf, Fresh
  <2> QED
    BY <1>1, <1>2, <2>1, WorkReturnOnly DEF DefiniteCode
<1>3. CASE /\ bin' = [bin EXCEPT ![Target(p)] = dir[p]] /\ Wrote(p, {"bin"}) /\ Goto(p, "confirm")
           /\ UNCHANGED <<shape, records, staging, files, drift, local>>
  <2>1. pc'[p] = "confirm" /\ UNCHANGED <<op, art, listing, dir, part, was>> /\ Target(p) \in Command
    BY <1>1, <1>3, GoesTo, ConstantsAssumption DEF local, Target
  <2>2. KnowsOf(p)'
    BY <1>1, <1>3, <2>1 DEF KnowsOf, Holds, Target, FilesOK
  <2>3. wrote' = [wrote EXCEPT ![p] = wrote[p] \cup {"bin"}]
    BY <1>3 DEF Wrote
  <2>4. ChangedOf(p)' /\ RoomOf(p)' /\ \A q \in Proc : q # p => wrote'[q] = wrote[q]
    BY <1>1, <2>1, <2>3 DEF ChangedOf, RoomOf, Opening, LocalOK
  <2>5. Stock'
    BY <1>1, <1>3, <2>1, StockLink DEF FilesOK
  <2> QED
    BY <1>1, <1>3, <2>1, <2>2, <2>4, <2>5, WorkGoto DEF Holding
<1> QED
  BY <1>2, <1>3 DEF Activate, Code

LEMMA ExamineWork ==
  ASSUME TypeInv, StoreInv, WorkInv, NEW p \in Proc, Examine(p)
  PROVE  WorkInv'
<1>1. /\ TypeOK /\ FilesOK /\ LocalOK /\ LockHeld /\ ControlOf(p) /\ ChangedOf(p) /\ pc[p] = "examine"
      /\ pc[p] \in Holding /\ op[p] = "remove" /\ art[p] \in Artifact
  BY Facts DEF Examine, Holding, ControlOf, Runs, RemovePC
<1>2. CASE \E code \in Code : ReturnOnly(p, code)
  <2>1. wrote[p] \cap {"records", "bin"} = {}
    BY <1>1 DEF ChangedOf
  <2> QED
    BY <1>1, <1>2, <2>1, WorkReturnOnly
<1>3. CASE /\ RecordState(art[p]) \in {"inactive", "active"} /\ dir' = [dir EXCEPT ![p] = records[art[p]]]
           /\ was' = [was EXCEPT ![p] = RecordState(art[p])] /\ Goto(p, "survey") /\ UNCHANGED <<fs, part, todo, wrote>>
  <2>1. /\ pc'[p] = "survey" /\ dir'[p] = records[art[p]] /\ was'[p] = RecordState(art[p])
        /\ UNCHANGED <<op, art, listing, records, bin, drift>>
    BY <1>1, <1>3, GoesTo DEF LocalOK, fs
  <2>2. Holds(p)'
    BY <1>1, <1>3, <2>1, Examined DEF Holds
  <2>3. IF was'[p] = "active" THEN bin[CommandOf[art[p]]] = dir'[p] ELSE Unlinked(records[art[p]])
    BY <1>1, <1>3, <2>1, Examined
  <2>4. KnowsOf(p)' /\ ChangedOf(p)' /\ RoomOf(p)'
    BY <1>1, <1>3, <2>1, <2>2, <2>3 DEF KnowsOf, ChangedOf, RoomOf, Opening, Target, Unlinked
  <2>5. \A q \in Proc : q # p => dir'[q] = dir[q] /\ was'[q] = was[q]
    BY <1>1, <1>3 DEF LocalOK
  <2> QED
    BY <1>1, <1>3, <2>4, <2>5, WorkLook DEF Holding
<1> QED
  BY <1>2, <1>3 DEF Examine, Code

(* A link belongs to one record, and so to one command. *)
LEMMA OneLinkOnly ==
  ASSUME OneName, BinLinkOwned, NEW a \in Artifact, records[a] \in Dir, NEW c \in Command, bin[c] = records[a]
  PROVE  c = CommandOf[a]
BY Points DEF OneName, BinLinkOwned, Recorded

LEMMA DeactivateWork ==
  ASSUME TypeInv, StoreInv, WorkInv, NEW p \in Proc, Deactivate(p)
  PROVE  WorkInv'
<1>1. /\ TypeOK /\ FilesOK /\ LocalOK /\ LockHeld /\ ControlOf(p) /\ KnowsOf(p) /\ ChangedOf(p) /\ Stock
      /\ OneName /\ BinLinkOwned /\ pc[p] = "deactivate" /\ pc[p] \in Holding /\ op[p] = "remove" /\ art[p] \in Artifact
  BY Facts DEF Deactivate, Holding, ControlOf, Runs, RemovePC
<1>2. CASE ReturnOnly(p, "Tampered")
  <2>1. wrote[p] \cap {"records", "bin"} = {}
    BY <1>1 DEF ChangedOf
  <2> QED
    BY <1>1, <1>2, <2>1, WorkReturnOnly
<1>3. CASE /\ bin' = [bin EXCEPT ![Target(p)] = "absent"] /\ Wrote(p, {"bin"}) /\ Goto(p, "quarantine")
           /\ UNCHANGED <<shape, records, staging, files, drift, local>>
  <2>1. pc'[p] = "quarantine" /\ UNCHANGED <<op, art, listing, dir, part, was>> /\ Target(p) \in Command
    BY <1>1, <1>3, GoesTo, ConstantsAssumption DEF local, Target
  <2>2. Holds(p) /\ Holds(p)'
    BY <1>1, <1>3, <2>1 DEF KnowsOf, Holds
  <2>3. Unlinked(dir[p])'
    <3> SUFFICES ASSUME NEW c \in Command PROVE bin'[c] # dir[p]
      BY <2>1 DEF Unlinked
    <3>1. CASE c = Target(p)
      BY <1>1, <1>3, <2>2, <3>1, Points DEF FilesOK, Holds
    <3>2. CASE c # Target(p)
      <4>1. bin'[c] = bin[c]
        BY <1>1, <1>3, <3>2 DEF FilesOK
      <4> QED
        BY <1>1, <2>2, <3>2, <4>1, OneLinkOnly DEF Holds, Target
    <3> QED
      BY <3>1, <3>2
  <2>4. KnowsOf(p)'
    BY <1>1, <2>1, <2>2, <2>3 DEF KnowsOf
  <2>5. wrote' = [wrote EXCEPT ![p] = wrote[p] \cup {"bin"}]
    BY <1>3 DEF Wrote
  <2>6. ChangedOf(p)' /\ RoomOf(p)' /\ \A q \in Proc : q # p => wrote'[q] = wrote[q]
    BY <1>1, <2>1, <2>5 DEF ChangedOf, RoomOf, Opening, LocalOK
  <2>7. Stock'
    BY <1>1, <1>3, <2>1, StockLink DEF FilesOK
  <2> QED
    BY <1>1, <1>3, <2>1, <2>4, <2>6, <2>7, WorkGoto DEF Holding
<1> QED
  BY <1>2, <1>3 DEF Deactivate

LEMMA QuarantineWork ==
  ASSUME TypeInv, StoreInv, WorkInv, NEW p \in Proc, Quarantine(p)
  PROVE  WorkInv'
<1>1. /\ TypeOK /\ FilesOK /\ LocalOK /\ LockHeld /\ ControlOf(p) /\ KnowsOf(p) /\ ChangedOf(p) /\ Stock
      /\ pc[p] = "quarantine" /\ pc[p] \in Holding /\ op[p] = "remove" /\ art[p] \in Artifact
  BY Facts DEF Quarantine, Holding, ControlOf, Runs, RemovePC
<1>2. CASE \E code \in Code : ReturnOnly(p, code) /\ (Deactivated(p) => code = "Uncertain")
  <2>1. ~Deactivated(p) => wrote[p] \cap {"records", "bin"} = {}
    BY <1>1 DEF ChangedOf, Deactivated
  <2> QED
    BY <1>1, <1>2, <2>1, WorkReturnOnly DEF DefiniteCode
<1>3. CASE /\ records' = [records EXCEPT ![art[p]] = NoDir] /\ Wrote(p, {"records"}) /\ Goto(p, "purge")
           /\ UNCHANGED <<shape, files, drift, bin, local>>
  <2>1. pc'[p] = "purge" /\ UNCHANGED <<op, art, listing, dir, part, was>>
    BY <1>1, <1>3, GoesTo DEF local
  <2>2. KnowsOf(p)'
    BY <1>1, <1>3, <2>1 DEF KnowsOf, Holds, Unlinked, FilesOK
  <2>3. wrote' = [wrote EXCEPT ![p] = wrote[p] \cup {"records"}]
    BY <1>3 DEF Wrote
  <2>4. ChangedOf(p)' /\ RoomOf(p)' /\ \A q \in Proc : q # p => wrote'[q] = wrote[q]
    BY <1>1, <2>1, <2>3 DEF ChangedOf, RoomOf, Opening, LocalOK
  <2>5. Stock'
    BY <1>1, <1>3, StockRetire, Points DEF KnowsOf, Holds
  <2> QED
    BY <1>1, <1>3, <2>1, <2>2, <2>4, <2>5, WorkGoto DEF Holding
<1> QED
  BY <1>2, <1>3 DEF Quarantine, Code

LEMMA PurgeWork ==
  ASSUME TypeInv, StoreInv, WorkInv, NEW p \in Proc, Purge(p)
  PROVE  WorkInv'
<1>1. TypeOK /\ LockHeld /\ KnowsOf(p) /\ ChangedOf(p) /\ Stock /\ ControlOf(p) /\ pc[p] = "purge" /\ pc[p] \in Holding
      /\ op[p] = "remove"
  BY Facts DEF Purge, Holding, ControlOf, Runs, RemovePC
<1>2. /\ UNCHANGED <<shape, records, bin, wrote, part, dir, was>> /\ staging' \subseteq staging
      /\ Goto(p, "purge")
  BY DEF Purge, ShrinkResidue, local
<1>3. pc'[p] = "purge" /\ UNCHANGED <<op, art, listing>>
  BY <1>1, <1>2, GoesTo
<1>4. KnowsOf(p)' /\ ChangedOf(p)' /\ RoomOf(p)'
  BY <1>1, <1>2, <1>3 DEF KnowsOf, ChangedOf, RoomOf, Unlinked, Opening
<1>5. Stock'
  BY <1>1, <1>2, StockSame
<1> QED
  BY <1>1, <1>2, <1>4, <1>5, WorkGoto

(* Status, and the steps that only report. *)
LEMMA ReportWork ==
  ASSUME TypeInv, StoreInv, WorkInv, NEW p \in Proc, Confirm(p) \/ PurgeDone(p) \/ Scan(p) \/ ScanBin(p)
  PROVE  WorkInv'
<1>1. /\ TypeOK /\ FilesOK /\ LocalOK /\ ControlOK /\ ReturnedOK /\ LockHeld /\ ChangedOf(p) /\ Stock /\ pc[p] \in Holding
  BY Facts DEF Confirm, PurgeDone, Scan, ScanBin, Holding
<1>2. CASE Confirm(p) \/ PurgeDone(p)
  BY <1>1, <1>2, WorkReturnOnly DEF Confirm, PurgeDone, DefiniteCode
<1>3. CASE \E code \in Code : pc[p] \in {"scan", "scanbin"} /\ ReturnOnly(p, code)
  <2>1. wrote[p] \cap {"records", "bin"} = {}
    BY <1>1, <1>3 DEF ChangedOf
  <2> QED
    BY <1>1, <1>3, <2>1, WorkReturnOnly
<1>4. CASE /\ Scan(p) /\ listing' = [listing EXCEPT ![p].records = [a \in Artifact |-> RecordState(a)]]
           /\ pc' = [pc EXCEPT ![p] = "scanbin"] /\ UNCHANGED <<fs, holder, op, art, local, wrote, result>>
  <2>1. /\ pc'[p] = "scanbin" /\ listing'[p].records = [a \in Artifact |-> RecordState(a)]
        /\ \A q \in Proc : q # p => listing'[q] = listing[q]
    BY <1>1, <1>4 DEF ControlOK, ReturnedOK
  <2>2. UNCHANGED <<shape, records, staging, files, drift, bin, dir, was, part>>
    BY <1>4 DEF fs, local
  <2>3. KnowsOf(p)'
    BY <2>1, <2>2, SameState DEF KnowsOf
  <2>4. ChangedOf(p)' /\ RoomOf(p)' /\ RootOf(p)'
    BY <1>1, <1>4, <2>1, <2>2 DEF ChangedOf, RoomOf, RootOf, Scan, Opening, Holding, WorkInv, Roots
  <2>5. \A q \in Proc : KnowsOf(q)' /\ ChangedOf(q)' /\ RoomOf(q)' /\ RootOf(q)'
    BY <1>1, <1>4, <2>1, <2>2, <2>3, <2>4, OthersKeep
  <2>6. Stock' /\ Recorded' = Recorded /\ DefiniteFailureChangedNothing'
    BY <1>1, <1>4, <2>2, StockSame DEF WorkInv, Account, DefiniteFailureChangedNothing
  <2> QED
    BY <2>2, <2>5, <2>6 DEF WorkInv, Knowledge, Account, Room, Roots
<1>5. CASE Return(p, "Listed", {}) /\ UNCHANGED fs /\ (\A q \in Proc : q # p => listing'[q] = listing[q])
  <2>1. Stock' /\ Recorded' = Recorded /\ UNCHANGED shape
    BY <1>1, <1>5, StockSame DEF fs
  <2> QED
    BY <1>1, <1>5, <2>1, WorkReturn DEF DefiniteCode
<1>6. CASE Scan(p)
  BY <1>3, <1>4, <1>6 DEF Scan, Code
<1>7. CASE ScanBin(p)
  BY <1>1, <1>3, <1>5, <1>7 DEF ScanBin, Code, ReturnedOK
<1> QED
  BY <1>2, <1>6, <1>7

LEMMA FailWork ==
  ASSUME TypeInv, StoreInv, WorkInv, NEW p \in Proc, Fail(p) \/ FailStaged(p)
  PROVE  WorkInv'
<1>1. /\ TypeOK /\ ControlOK /\ LockHeld /\ ChangedOf(p) /\ RoomOf(p)
      /\ wrote[p] \cap {"records", "bin"} = {} \/ pc[p] \in {"activate", "quarantine", "confirm", "purge"}
  <2>1. TypeOK /\ ControlOK /\ LockHeld /\ ChangedOf(p) /\ RoomOf(p)
    BY Facts
  <2>2. \/ pc[p] \in Opening \cup {"idle", "survey", "examine", "scan", "scanbin"}
        \/ pc[p] \in {"sweep", "decide", "stage", "manifest", "shim", "publish", "unstage", "deactivate"}
        \/ pc[p] \in {"activate", "quarantine", "confirm", "purge"}
    BY <2>1 DEF ControlOK, Holding
  <2> QED
    BY <2>1, <2>2 DEF ChangedOf
<1>2. CASE Fail(p)
  <2>1. PICK code \in FaultCodes(p) : ReturnOnly(p, code)
    BY <1>2 DEF Fail
  <2>2. CASE wrote[p] \cap {"records", "bin"} = {}
    BY <1>1, <2>1, <2>2, WorkReturnOnly
  <2>3. CASE pc[p] = "activate"
    <3>1. Fresh(p) => code = "Uncertain"
      BY <2>1, <2>3 DEF FaultCodes, Opening
    <3>2. ~Fresh(p) => wrote[p] \cap {"records", "bin"} = {}
      BY <1>1, <2>3 DEF ChangedOf, Fresh
    <3> QED
      BY <1>1, <2>1, <3>1, <3>2, WorkReturnOnly DEF DefiniteCode
  <2>4. CASE pc[p] = "quarantine"
    <3>1. Deactivated(p) => code = "Uncertain"
      BY <2>1, <2>4 DEF FaultCodes, Opening
    <3>2. ~Deactivated(p) => wrote[p] \cap {"records", "bin"} = {}
      BY <1>1, <2>4 DEF ChangedOf, Deactivated
    <3> QED
      BY <1>1, <2>1, <3>1, <3>2, WorkReturnOnly DEF DefiniteCode
  <2>5. CASE pc[p] \in {"confirm", "purge"}
    <3>1. code = "Uncertain"
      BY <2>1, <2>5 DEF FaultCodes, Opening
    <3> QED
      BY <1>1, <2>1, <3>1, WorkReturnOnly DEF DefiniteCode
  <2> QED
    BY <1>1, <2>2, <2>3, <2>4, <2>5
<1>3. CASE FailStaged(p)
  <2>1. pc[p] \in {"manifest", "shim", "publish"} /\ Goto(p, "unstage") /\ UNCHANGED <<fs, local, wrote>>
    BY <1>3 DEF FailStaged
  <2>2. pc'[p] = "unstage"
    BY <1>1, <2>1, GoesTo
  <2>3. KnowsOf(p)'
    BY <2>2 DEF KnowsOf
  <2>4. ChangedOf(p)' /\ RoomOf(p)'
    BY <1>1, <2>1, <2>2 DEF ChangedOf, RoomOf, Opening, HasRoom, Recorded, fs
  <2> QED
    BY <1>1, <2>1, <2>3, <2>4, WorkLook DEF Holding, local
<1> QED
  BY <1>2, <1>3

LEMMA StepWork ==
  ASSUME TypeInv, StoreInv, WorkInv, NEW p \in Proc, Step(p)
  PROVE  WorkInv'
BY FailWork, OpeningWork, SurveyWork, SweepWork, SweepDoneWork, DecideWork, CreateStagingWork, WriteFileWork, PublishWork,
   UnstageWork, ActivateWork, ExamineWork, DeactivateWork, QuarantineWork, PurgeWork, ReportWork DEF Step, Advance

LEMMA CrashWork ==
  ASSUME TypeInv, StoreInv, WorkInv, NEW p \in Proc, Crash(p)
  PROVE  WorkInv'
<1>1. TypeOK /\ LocalOK /\ ControlOK /\ ReturnedOK /\ LockHeld /\ Stock
  BY Facts
<1>2. /\ pc' = [pc EXCEPT ![p] = "idle"] /\ pc'[p] = "idle" /\ wrote'[p] = {} /\ part'[p] = 1
      /\ UNCHANGED <<shape, records, staging, files, drift, bin, result>>
      /\ \A q \in Proc : q # p => /\ op'[q] = op[q] /\ art'[q] = art[q] /\ dir'[q] = dir[q] /\ was'[q] = was[q]
                                  /\ listing'[q] = listing[q] /\ wrote'[q] = wrote[q] /\ part'[q] = part[q]
  BY <1>1 DEF Crash, ControlOK, LocalOK, ReturnedOK, fs
<1>3. KnowsOf(p)' /\ ChangedOf(p)' /\ RoomOf(p)' /\ RootOf(p)'
  BY <1>2 DEF KnowsOf, ChangedOf, RoomOf, RootOf, Holding
<1>4. \A q \in Proc : KnowsOf(q)' /\ ChangedOf(q)' /\ RoomOf(q)' /\ RootOf(q)'
  BY <1>1, <1>2, <1>3, OthersKeep
<1>5. Stock' /\ Recorded' = Recorded /\ DefiniteFailureChangedNothing'
  BY <1>1, <1>2, StockSame DEF WorkInv, Account, DefiniteFailureChangedNothing
<1> QED
  BY <1>2, <1>4, <1>5 DEF WorkInv, Knowledge, Account, Room, Roots

LEMMA StartWork ==
  ASSUME TypeInv, StoreInv, WorkInv, NEW p \in Proc, Start(p)
  PROVE  WorkInv'
<1>1. TypeOK /\ LocalOK /\ ControlOK /\ ReturnedOK /\ LockHeld /\ Stock /\ ChangedOf(p) /\ RootOf(p)
  BY Facts DEF WorkInv, Roots
<1>2. PICK first \in {"look", "open"} :
        /\ pc[p] = "idle" /\ pc' = [pc EXCEPT ![p] = first] /\ UNCHANGED <<fs, holder, local, wrote>>
        /\ result' = [result EXCEPT ![p] = NoResult]
        /\ \A q \in Proc : q # p => op'[q] = op[q] /\ art'[q] = art[q] /\ listing'[q] = listing[q]
  BY <1>1 DEF Start, StatusStart, InstallStart, RemoveStart, Begin, ControlOK, ReturnedOK
<1>3. UNCHANGED <<shape, records, staging, files, drift, bin, dir, was, part>> /\ pc'[p] = first
  BY <1>1, <1>2 DEF fs, local, ControlOK
<1>4. KnowsOf(p)' /\ ChangedOf(p)' /\ RoomOf(p)' /\ RootOf(p)'
  BY <1>1, <1>2, <1>3 DEF KnowsOf, ChangedOf, RoomOf, RootOf, Holding, Opening
<1>5. \A q \in Proc : KnowsOf(q)' /\ ChangedOf(q)' /\ RoomOf(q)' /\ RootOf(q)'
  BY <1>1, <1>2, <1>3, <1>4, OthersKeep
<1>6. DefiniteFailureChangedNothing'
  <2>1. result'[p].code = "none" /\ \A q \in Proc : q # p => result'[q] = result[q]
    BY <1>1, <1>2 DEF ReturnedOK, NoResult
  <2> QED
    BY <2>1 DEF WorkInv, Account, DefiniteFailureChangedNothing, DefiniteCode
<1>7. Stock' /\ Recorded' = Recorded
  BY <1>1, <1>3, StockSame
<1> QED
  BY <1>3, <1>5, <1>6, <1>7 DEF WorkInv, Knowledge, Account, Room, Roots

(* What the user does: only an empty bin entry may change under an operation. *)
LEMMA UserChanges ==
  ASSUME FilesOK, User
  PROVE  /\ UNCHANGED <<shape, records, staging, files, holder, pc, op, art, local, wrote, result, listing>>
         /\ holder = NoProc \/ UNCHANGED drift
         /\ \/ bin' = bin
            \/ \E c \in Command : /\ \A x \in Command : x # c => bin'[x] = bin[x]
                                  /\ bin'[c] \notin Dir
                                  /\ holder = NoProc \/ bin[c] = "absent"
BY Points DEF User, UserPut, UserDelete, UserDrift, FilesOK

LEMMA UserWork ==
  ASSUME TypeInv, StoreInv, WorkInv, User
  PROVE  WorkInv'
<1>1. TypeOK /\ FilesOK /\ LockHeld /\ Stock
  BY DEF TypeInv, TypeOK, StoreInv, WorkInv, Room
<1>2. UNCHANGED <<shape, records, staging, files, holder, pc, op, art, dir, was, part, todo, wrote, result, listing>>
  BY <1>1, UserChanges DEF local
<1>3. Stock' /\ Recorded' = Recorded
  BY <1>1, <1>2, StockSame, StockLink, UserChanges
<1>4. ASSUME NEW p \in Proc PROVE KnowsOf(p)'
  <2>1. CASE holder = NoProc
    <3>1. pc'[p] \notin Holding
      BY <1>1, <1>2, <2>1, Points DEF LockHeld
    <3> QED
      BY <3>1 DEF KnowsOf, Holding
  <2>2. CASE holder # NoProc
    <3>1. UNCHANGED drift /\ \A c \in Command, d \in Dir : bin'[c] = d <=> bin[c] = d
      BY <1>1, <2>2, UserChanges, Points
    <3>2. \A c \in Command : bin'[c] \in Dir <=> bin[c] \in Dir
      BY <3>1
    <3>3. \A d \in Dir : Unlinked(d)' <=> Unlinked(d)
      BY <3>1 DEF Unlinked
    <3>4. ASSUME NEW a \in Artifact PROVE RecordState(a)' = RecordState(a)
      <4>1. records[a] \in Dir \cup {NoDir} /\ CommandOf[a] \in Command
        BY <1>1, ConstantsAssumption DEF FilesOK
      <4>2. CASE records[a] = NoDir
        BY <1>2, <4>2 DEF RecordState
      <4>3. CASE records[a] \in Dir
        <5>1. /\ bin'[CommandOf[a]] = records[a] <=> bin[CommandOf[a]] = records[a]
              /\ OneLink(records[a])' <=> OneLink(records[a])
              /\ TwoLinks(records[a], CommandOf[a])' <=> TwoLinks(records[a], CommandOf[a])
          BY <1>2, <3>1, <4>1, <4>3 DEF OneLink, TwoLinks
        <5> QED
          BY <1>2, <3>1, <5>1 DEF RecordState, Broken
      <4> QED
        BY <4>1, <4>2, <4>3
    <3>5. KnowsOf(p) /\ ControlOf(p)
      BY DEF WorkInv, Knowledge, TypeInv, Control
    <3>6. /\ Holds(p) => Holds(p)' /\ dir[p] \in Dir
          /\ dir[p] \in Dir => (Unlinked(dir[p])' <=> Unlinked(dir[p]))
          /\ dir[p] \in Dir /\ art[p] \in Artifact => (bin'[Target(p)] = dir[p] <=> bin[Target(p)] = dir[p])
          /\ art[p] \in Artifact => (bin'[Target(p)] \in Dir <=> bin[Target(p)] \in Dir)
      BY <1>2, <3>1, <3>2, <3>3, ConstantsAssumption DEF Holds, Target
    <3>7. /\ pc[p] \in {"activate", "confirm", "deactivate", "quarantine", "stage", "manifest", "shim", "publish"} =>
               art[p] \in Artifact
          /\ op[p] = "remove" => art[p] \in Artifact
      BY <3>5 DEF ControlOf, Runs, InstallPC, RemovePC
    <3> QED
      BY <1>2, <3>1, <3>4, <3>5, <3>6, <3>7 DEF KnowsOf, Target
  <2> QED
    BY <2>1, <2>2
<1>5. ASSUME NEW p \in Proc PROVE ChangedOf(p)' /\ RoomOf(p)' /\ RootOf(p)'
  BY <1>2, <1>3 DEF WorkInv, Account, Room, Roots, ChangedOf, RoomOf, RootOf, HasRoom
<1>6. DefiniteFailureChangedNothing'
  BY <1>2 DEF WorkInv, Account, DefiniteFailureChangedNothing
<1> QED
  BY <1>2, <1>3, <1>4, <1>5, <1>6 DEF WorkInv, Knowledge, Account, Room, Roots

LEMMA WorkInit == Init => WorkInv
<1> SUFFICES ASSUME Init PROVE WorkInv
  OBVIOUS
<1>1. Recorded = {} /\ Entries = {} /\ staging = {}
  BY DEF Init, Recorded, Entries
<1>2. Stock
  BY <1>1, FS_EmptySet, ConstantsAssumption DEF Stock
<1>3. \A p \in Proc : pc[p] = "idle" /\ part[p] = 1 /\ wrote[p] = {} /\ result[p].code = "none"
  BY DEF Init, NoResult
<1>4. \A p \in Proc : KnowsOf(p) /\ ChangedOf(p) /\ RoomOf(p) /\ RootOf(p)
  BY <1>3 DEF KnowsOf, ChangedOf, RoomOf, RootOf, Holding
<1>5. DefiniteFailureChangedNothing
  BY <1>3 DEF DefiniteFailureChangedNothing, DefiniteCode
<1> QED
  BY <1>1, <1>2, <1>4, <1>5 DEF WorkInv, Knowledge, Account, Room, Roots

LEMMA WorkNext == TypeInv /\ StoreInv /\ WorkInv /\ [Next]_vars => WorkInv'
<1> SUFFICES ASSUME TypeInv, StoreInv, WorkInv, [Next]_vars PROVE WorkInv'
  OBVIOUS
<1>1. CASE UNCHANGED vars
  <2>1. UNCHANGED <<shape, records, staging, files, drift, bin, holder, pc, op, art, part, dir, was, todo, wrote, result,
                    listing>>
    BY <1>1 DEF vars, fs, local
  <2>2. Stock' /\ Recorded' = Recorded
    BY <2>1, StockSame DEF WorkInv, Room
  <2>3. \A p \in Proc : KnowsOf(p)'
    BY <2>1, SameState DEF WorkInv, Knowledge, KnowsOf, Holds, Unlinked, Target
  <2>4. \A p \in Proc : ChangedOf(p)' /\ RoomOf(p)' /\ RootOf(p)'
    BY <2>1, <2>2 DEF WorkInv, Account, Room, Roots, ChangedOf, RoomOf, RootOf, HasRoom
  <2>5. DefiniteFailureChangedNothing'
    BY <2>1 DEF WorkInv, Account, DefiniteFailureChangedNothing
  <2> QED
    BY <2>1, <2>2, <2>3, <2>4, <2>5 DEF WorkInv, Knowledge, Account, Room, Roots
<1> QED
  BY <1>1, StartWork, StepWork, CrashWork, UserWork DEF Next

LEMMA WorkSafe == Spec => [](TypeInv /\ StoreInv /\ WorkInv)
BY TypeInit, TypeNext, StoreInit, StoreNext, WorkInit, WorkNext, PTL DEF Spec

(* A definite refusal left records and bin alone (Install and Remove of     *)
(* store_posix.go), at whatever system call it stopped.                    *)
THEOREM RefusalsAreDefinite == Spec => []DefiniteFailureChangedNothing
<1>1. WorkInv => DefiniteFailureChangedNothing
  BY DEF WorkInv, Account
<1> QED
  BY <1>1, WorkSafe, PTL

-----------------------------------------------------------------------------
(* What a step does to records and links.                                  *)

Links(p)   == bin[Target(p)] = "absent" /\ bin' = [bin EXCEPT ![Target(p)] = dir[p]]
Unlinks(p) == bin[Target(p)] = dir[p] /\ bin' = [bin EXCEPT ![Target(p)] = "absent"]
Appears(p) == /\ records[art[p]] = NoDir /\ dir[p] \in Dir /\ bin[Target(p)] \notin Dir /\ Unlinked(dir[p])
              /\ records' = [records EXCEPT ![art[p]] = dir[p]]
Retires(p) == Unlinked(dir[p]) /\ records' = [records EXCEPT ![art[p]] = NoDir]

(* Four system calls change them, each on the artifact of the operation. *)
LEMMA StoreSteps ==
  ASSUME TypeInv, StoreInv, WorkInv, NEW p \in Proc, Step(p)
  PROVE  /\ \A a \in Recorded : files'[records[a]] = files[records[a]]
         /\ \/ UNCHANGED <<records, bin>>
            \/ art[p] \in Artifact /\ Holds(p) /\ UNCHANGED <<records, shape>> /\ Links(p)
            \/ art[p] \in Artifact /\ Holds(p) /\ UNCHANGED <<records, shape>> /\ Unlinks(p)
            \/ art[p] \in Artifact /\ UNCHANGED <<bin, shape>> /\ Appears(p)
            \/ art[p] \in Artifact /\ Holds(p) /\ UNCHANGED <<bin, shape>> /\ Retires(p)
<1>1. /\ TypeOK /\ FilesOK /\ ControlOf(p) /\ StageOf(p) /\ OneName /\ BinLinkOwned /\ KnowsOf(p)
  BY Facts
<1>2. \A a \in Recorded : records[a] \in Dir /\ records[a] \notin staging
  BY <1>1 DEF FilesOK, OneName, Recorded
<1>3. ASSUME UNCHANGED files PROVE \A a \in Recorded : files'[records[a]] = files[records[a]]
  BY <1>3
<1>4. ASSUME NEW code, ReturnOnly(p, code) PROVE UNCHANGED <<records, bin, files>>
  BY <1>4 DEF ReturnOnly, fs
<1>5. ASSUME NEW d \in staging, ShrinkResidue(d)
      PROVE  UNCHANGED <<records, bin>> /\ \A a \in Recorded : files'[records[a]] = files[records[a]]
  BY <1>1, <1>2, <1>5 DEF ShrinkResidue, FilesOK
<1>6. CASE OpenLook(p) \/ OpenMkdir(p) \/ OpenExisting(p) \/ LockLook(p) \/ LockCreate(p) \/ LockTry(p)
  <2>1. UNCHANGED <<records, bin, files>>
    BY <1>4, <1>6 DEF OpenLook, OpenMkdir, OpenExisting, LockLook, LockCreate, LockTry, fs
  <2> QED
    BY <2>1
<1>7. CASE Survey(p) \/ SweepDone(p) \/ Decide(p) \/ Confirm(p) \/ Examine(p) \/ PurgeDone(p) \/ Scan(p) \/ ScanBin(p)
           \/ Fail(p) \/ FailStaged(p)
  <2>1. UNCHANGED <<records, bin, files>>
    BY <1>4, <1>7 DEF Survey, SweepDone, Decide, Confirm, Examine, PurgeDone, Scan, ScanBin, Fail, FailStaged, fs
  <2> QED
    BY <2>1
<1>8. CASE Sweep(p)
  BY <1>1, <1>5, <1>8 DEF Sweep, StageOf
<1>9. CASE Purge(p)
  BY <1>5, <1>9 DEF Purge
<1>10. CASE CreateStaging(p)
  <2>1. PICK d \in Dir : FreeDir(d) /\ files' = [files EXCEPT ![d] = {}]
    BY <1>10 DEF CreateStaging
  <2>2. \A a \in Recorded : files'[records[a]] = files[records[a]]
    BY <1>1, <1>2, <2>1 DEF FreeDir, Published, FilesOK
  <2> QED
    BY <1>10, <2>2 DEF CreateStaging
<1>11. CASE WriteManifest(p) \/ WriteShim(p) \/ Unstage(p)
  <2>1. dir[p] \in staging /\ UNCHANGED <<records, bin>>
    BY <1>1, <1>11 DEF WriteManifest, WriteShim, WriteFile, Unstage, StageOf
  <2>2. files' = files \/ \E content : files' = [files EXCEPT ![dir[p]] = content]
    BY <1>11 DEF WriteManifest, WriteShim, WriteFile, Unstage
  <2> QED
    BY <1>1, <1>2, <2>1, <2>2 DEF FilesOK
<1>12. CASE Publish(p)
  <2>1. dir[p] \in Dir /\ dir[p] \in staging /\ bin[Target(p)] \notin Dir /\ UNCHANGED <<bin, files, shape>> /\ art[p] \in Artifact
    BY <1>1, <1>12 DEF Publish, StageOf, KnowsOf, ControlOf, Runs, InstallPC, fs
  <2>2. Unlinked(dir[p])
    BY <1>1, <2>1, Points DEF BinLinkOwned, OneName, Recorded, Unlinked
  <2> QED
    BY <1>12, <2>1, <2>2 DEF Publish, Appears, fs
<1>13. CASE Activate(p)
  <2>1. Holds(p) /\ art[p] \in Artifact /\ UNCHANGED <<records, files, shape>>
    BY <1>1, <1>4, <1>13 DEF Activate, KnowsOf, ControlOf, Runs, InstallPC, ReturnOnly, fs
  <2> QED
    BY <1>4, <1>13, <2>1 DEF Activate, Links
<1>14. CASE Deactivate(p)
  <2>1. Holds(p) /\ art[p] \in Artifact /\ UNCHANGED <<records, files, shape>>
    BY <1>1, <1>4, <1>14 DEF Deactivate, KnowsOf, ControlOf, Runs, RemovePC, ReturnOnly, fs
  <2> QED
    BY <1>4, <1>14, <2>1 DEF Deactivate, Unlinks
<1>15. CASE Quarantine(p)
  <2>1. Holds(p) /\ Unlinked(dir[p]) /\ art[p] \in Artifact /\ UNCHANGED <<bin, files, shape>>
    BY <1>1, <1>4, <1>15 DEF Quarantine, KnowsOf, ControlOf, Runs, RemovePC, ReturnOnly, fs
  <2> QED
    BY <1>4, <1>15, <2>1 DEF Quarantine, Retires
<1> QED
  BY <1>6, <1>7, <1>8, <1>9, <1>10, <1>11, <1>12, <1>13, <1>14, <1>15 DEF Step, Advance

(* A foreign entry in bin, and an artifact that somebody edited, linked     *)
(* elsewhere or added to, stay as they are whatever the store does          *)
(* (activate, removeRecord, cleanup of store_posix.go).                    *)
THEOREM EditsSurvive == Spec => EditsPreserved
<1> DEFINE Inv == TypeInv /\ StoreInv /\ WorkInv
           Foreign == \A p \in Proc : Step(p) => \A c \in Command : bin[c] \in ForeignKind => bin'[c] = bin[c]
           Drifted == \A p \in Proc : Step(p) =>
                        \A a \in Artifact : LET d == records[a]
                                            IN  d # NoDir /\ drift[d] # {} =>
                                                  /\ records'[a] = d
                                                  /\ files'[d] = files[d]
                                                  /\ \A c \in Command : bin[c] = d => bin'[c] = d
<1>1. Inv => Foreign
  <2> SUFFICES ASSUME Inv, NEW p \in Proc, Step(p), NEW c \in Command, bin[c] \in ForeignKind
               PROVE  bin'[c] = bin[c]
    OBVIOUS
  <2>1. bin[c] # "absent" /\ bin[c] \notin Dir /\ bin \in [Command -> BinEntry]
    BY Points DEF ForeignKind, TypeInv, TypeOK, FilesOK
  <2> QED
    BY <2>1, StoreSteps DEF Links, Unlinks, Holds
<1>2. Inv => Drifted
  <2> SUFFICES ASSUME Inv, NEW p \in Proc, Step(p), NEW a \in Artifact, records[a] # NoDir, drift[records[a]] # {}
               PROVE  /\ records'[a] = records[a] /\ files'[records[a]] = files[records[a]]
                      /\ \A c \in Command : bin[c] = records[a] => bin'[c] = records[a]
    OBVIOUS
  <2>1. FilesOK /\ OneName /\ BinLinkOwned
    BY Facts
  <2>2. a \in Recorded /\ records[a] \in Dir
    BY <2>1 DEF Recorded, FilesOK
  <2>3. art[p] \in Artifact /\ Holds(p) => a # art[p] /\ dir[p] # records[a]
    BY <2>1, <2>2 DEF Holds, OneName
  <2>4. records'[a] = records[a]
    BY <2>1, <2>2, <2>3, StoreSteps DEF Appears, Retires, FilesOK
  <2>5. ASSUME NEW c \in Command, bin[c] = records[a] PROVE bin'[c] = records[a]
    BY <2>1, <2>2, <2>3, <2>5, StoreSteps, Points DEF Links, Unlinks, FilesOK
  <2> QED
    BY <2>2, <2>4, <2>5, StoreSteps
<1>3. Inv /\ [Next]_vars => [Foreign]_vars /\ [Drifted]_vars
  BY <1>1, <1>2
<1>4. Spec => [][Foreign]_vars /\ [][Drifted]_vars
  <2> HIDE DEF Foreign, Drifted
  <2> QED
    BY <1>3, WorkSafe, PTL DEF Spec
<1> QED
  BY <1>4 DEF EditsPreserved, ForeignPreserved, DriftPreserved

-----------------------------------------------------------------------------
(* Refinement: the store implements the lifecycle.                         *)

Lives == [a \in Artifact |-> Life(a)]
Taken == {c \in Command : bin[c] \in ForeignKind}

LEMMA LivesMove ==
  ASSUME NEW a \in Artifact, NEW to, Life(a)' = to, \A b \in Artifact : b # a => Life(b)' = Life(b)
  PROVE  Lives' = [Lives EXCEPT ![a] = to]
BY DEF Lives

(* A record appears: Publish. *)
LEMMA AppearsIsPublish ==
  ASSUME FilesOK, NEW p \in Proc, NEW a \in Artifact, art[p] = a, UNCHANGED bin, Appears(p)
  PROVE  Lifecycle!Publish(a)
<1> DEFINE c == CommandOf[a]
<1>1. c \in Command /\ records[a] = NoDir /\ records' = [records EXCEPT ![a] = dir[p]] /\ dir[p] \in Dir
      /\ bin[c] \notin Dir /\ bin[c] # dir[p] /\ dir[p] # NoDir
  BY ConstantsAssumption, Points DEF Appears, Target, Unlinked
<1>2. Life(a) = "absent" /\ Life(a)' = "inactive"
  BY <1>1 DEF Life, FilesOK
<1>3. \A b \in Artifact : b # a => Life(b)' = Life(b)
  BY <1>1 DEF Life, FilesOK
<1>4. \A b \in Artifact : CommandOf[b] = c => Life(b) # "active"
  BY <1>1 DEF Life, FilesOK
<1>5. Lives' = [Lives EXCEPT ![a] = "inactive"] /\ Lives[a] = "absent" /\ Taken' = Taken
      /\ \A b \in Artifact : CommandOf[b] = CommandOf[a] => Lives[b] # "active"
  BY <1>2, <1>3, <1>4, LivesMove DEF Lives, Taken
<1> QED
  BY <1>5 DEF Lifecycle!Publish, Lifecycle!Move, Lives, Taken

(* A record without a link disappears: Retire. *)
LEMMA RetiresIsRetire ==
  ASSUME FilesOK, NEW p \in Proc, NEW a \in Artifact, art[p] = a, Holds(p), UNCHANGED bin, Retires(p)
  PROVE  Lifecycle!Retire(a)
<1> DEFINE c == CommandOf[a]
<1>1. c \in Command /\ records[a] # NoDir /\ records' = [records EXCEPT ![a] = NoDir] /\ bin[c] # records[a]
  BY ConstantsAssumption, Points DEF Retires, Holds, Unlinked
<1>2. Life(a) = "inactive" /\ Life(a)' = "absent"
  BY <1>1 DEF Life, FilesOK
<1>3. \A b \in Artifact : b # a => Life(b)' = Life(b)
  BY <1>1 DEF Life, FilesOK
<1>4. Lives' = [Lives EXCEPT ![a] = "absent"] /\ Lives[a] = "inactive" /\ Taken' = Taken
  BY <1>2, <1>3, LivesMove DEF Lives, Taken
<1> QED
  BY <1>4 DEF Lifecycle!Retire, Lifecycle!Move, Lives, Taken

(* The link is made where nothing was: Activate. *)
LEMMA LinksIsActivate ==
  ASSUME FilesOK, OneName, NEW p \in Proc, NEW a \in Artifact, art[p] = a, Holds(p), UNCHANGED records, Links(p)
  PROVE  Lifecycle!Activate(a)
<1> DEFINE c == CommandOf[a]
<1>1. c \in Command /\ records[a] \in Dir /\ records[a] # NoDir /\ bin[c] = "absent"
      /\ bin' = [bin EXCEPT ![c] = records[a]]
  BY ConstantsAssumption, Points DEF Links, Holds, Target
<1>2. /\ "absent" \notin Dir /\ "absent" # NoDir /\ "absent" \notin ForeignKind
      /\ records[a] \notin ForeignKind /\ bin'[c] = records[a] /\ \A x \in Command : x # c => bin'[x] = bin[x]
  BY <1>1, Points DEF ForeignKind, NoDir, FilesOK
<1>3. Life(a) = "inactive" /\ Life(a)' = "active"
  BY <1>1, <1>2 DEF Life
<1>4. \A b \in Artifact : CommandOf[b] = c => Life(b) # "active"
  BY <1>1, <1>2 DEF Life, FilesOK
<1>5. ASSUME NEW b \in Artifact, b # a PROVE Life(b)' = Life(b)
  <2>1. CommandOf[b] \in Command /\ (records[b] # NoDir => records[b] # records[a] /\ records[b] \in Dir)
    BY <1>1, <1>5, ConstantsAssumption DEF OneName, FilesOK
  <2> QED
    BY <1>1, <1>2, <2>1 DEF Life
<1>6. /\ Lives' = [Lives EXCEPT ![a] = "active"] /\ Lives[a] = "inactive" /\ Taken' = Taken /\ c \notin Taken
      /\ \A b \in Artifact : CommandOf[b] = c => Lives[b] # "active"
  BY <1>1, <1>2, <1>3, <1>4, <1>5, LivesMove DEF Lives, Taken
<1> QED
  BY <1>6 DEF Lifecycle!Activate, Lifecycle!Free, Lifecycle!Move, Lives, Taken

(* A link is taken away, by the store or the user: Deactivate. *)
LEMMA UnlinkIsDeactivate ==
  ASSUME FilesOK, OneName, NEW a \in Artifact, records[a] \in Dir, bin[CommandOf[a]] = records[a], UNCHANGED records,
         bin' = [bin EXCEPT ![CommandOf[a]] = "absent"]
  PROVE  Lifecycle!Deactivate(a)
<1> DEFINE c == CommandOf[a]
<1>1. c \in Command /\ records[a] # NoDir /\ bin[c] = records[a] /\ bin'[c] = "absent"
      /\ \A x \in Command : x # c => bin'[x] = bin[x]
  BY ConstantsAssumption, Points DEF FilesOK
<1>2. /\ "absent" \notin Dir /\ "absent" # NoDir /\ "absent" \notin ForeignKind /\ records[a] \notin ForeignKind
  BY Points DEF ForeignKind, NoDir
<1>3. Life(a) = "active" /\ Life(a)' = "inactive"
  BY <1>1, <1>2 DEF Life
<1>4. ASSUME NEW b \in Artifact, b # a PROVE Life(b)' = Life(b)
  <2>1. CommandOf[b] \in Command /\ (records[b] # NoDir => records[b] # records[a] /\ records[b] \in Dir)
    BY <1>1, <1>4, ConstantsAssumption DEF OneName, FilesOK
  <2> QED
    BY <1>1, <1>2, <2>1 DEF Life
<1>5. Lives' = [Lives EXCEPT ![a] = "inactive"] /\ Lives[a] = "active" /\ Taken' = Taken
  BY <1>1, <1>2, <1>3, <1>4, LivesMove DEF Lives, Taken
<1> QED
  BY <1>5 DEF Lifecycle!Deactivate, Lifecycle!Move, Lives, Taken

(* The user puts something foreign under a command: Take, or nothing if      *)
(* there was something foreign already.                                    *)
LEMMA PutIsTake ==
  ASSUME FilesOK, NEW c \in Command, NEW kind \in ForeignKind, UserPut(c, kind)
  PROVE  Lifecycle!Take(c) \/ UNCHANGED <<Lives, Taken>>
<1>1. bin'[c] = kind /\ (\A x \in Command : x # c => bin'[x] = bin[x]) /\ UNCHANGED records
      /\ kind \notin Dir /\ kind # NoDir
  BY Points DEF UserPut, FilesOK, ForeignKind, NoDir
<1>2. ASSUME NEW a \in Artifact
      PROVE  Life(a)' = IF CommandOf[a] = c /\ Life(a) = "active" THEN "inactive" ELSE Life(a)
  <2>1. CommandOf[a] \in Command /\ (records[a] # NoDir => records[a] \in Dir)
    BY ConstantsAssumption DEF FilesOK
  <2> QED
    BY <1>1, <2>1 DEF Life
<1>3. Lives' = [a \in Artifact |-> IF CommandOf[a] = c /\ Lives[a] = "active" THEN "inactive" ELSE Lives[a]]
  BY <1>2 DEF Lives
<1>4. Taken' = Taken \cup {c}
  BY <1>1 DEF Taken
<1>5. CASE c \in Taken
  <2>1. \A a \in Artifact : CommandOf[a] = c => Life(a) # "active"
    BY <1>5, Points DEF Life, Taken, FilesOK
  <2> QED
    BY <1>3, <1>4, <1>5, <2>1 DEF Lives
<1>6. CASE c \notin Taken
  BY <1>3, <1>4, <1>6 DEF Lifecycle!Take, Lives, Taken
<1> QED
  BY <1>5, <1>6

(* The user takes something away: Release, or Deactivate of a link. *)
LEMMA DeleteIsRelease ==
  ASSUME FilesOK, OneName, BinLinkOwned, NEW c \in Command, UserDelete(c)
  PROVE  Lifecycle!Release(c) \/ \E a \in Artifact : Lifecycle!Deactivate(a)
<1>1. bin' = [bin EXCEPT ![c] = "absent"] /\ UNCHANGED records /\ bin[c] # "absent"
  BY DEF UserDelete
<1>2. CASE bin[c] \in Dir
  <2>1. PICK a \in Recorded : records[a] = bin[c] /\ CommandOf[a] = c
    BY <1>2 DEF BinLinkOwned
  <2> QED
    BY <1>1, <1>2, <2>1, UnlinkIsDeactivate DEF Recorded
<1>3. CASE bin[c] \notin Dir
  <2>1. bin[c] \in ForeignKind /\ bin'[c] = "absent" /\ (\A x \in Command : x # c => bin'[x] = bin[x])
        /\ "absent" \notin Dir /\ "absent" # NoDir /\ "absent" \notin ForeignKind
    BY <1>1, <1>3, Points DEF FilesOK, BinEntry, ForeignKind, NoDir
  <2>2. \A a \in Artifact : Life(a)' = Life(a)
    BY <1>1, <1>3, <2>1, ConstantsAssumption DEF Life, FilesOK
  <2>3. Lives' = Lives /\ Taken' = Taken \ {c} /\ c \in Taken
    BY <2>1, <2>2 DEF Lives, Taken
  <2> QED
    BY <2>3 DEF Lifecycle!Release, Lives, Taken
<1> QED
  BY <1>2, <1>3

LEMMA LivesSame ==
  ASSUME UNCHANGED <<records, bin>>
  PROVE  UNCHANGED <<Lives, Taken>>
BY DEF Lives, Taken, Life

(* Every system call of the store, every crash and every edit is a step of  *)
(* the lifecycle the user is told of, or none (ShimLifecycle).             *)
THEOREM LifecycleImplemented == Spec => ImplementsLifecycle
<1>1. Init => Lifecycle!Init
  BY Points DEF Init, Lifecycle!Init, Life, ForeignKind
<1>2. TypeInv /\ StoreInv /\ WorkInv /\ [Next]_vars => [Lifecycle!Next]_(Lifecycle!vars)
  <2> SUFFICES ASSUME TypeInv, StoreInv, WorkInv, [Next]_vars
               PROVE  Lifecycle!Next \/ UNCHANGED <<Lives, Taken>>
    BY DEF Lifecycle!vars, Lives, Taken
  <2>1. FilesOK /\ OneName /\ BinLinkOwned
    BY DEF TypeInv, TypeOK, StoreInv
  <2>2. ASSUME NEW p \in Proc, Step(p) PROVE Lifecycle!Next \/ UNCHANGED <<Lives, Taken>>
    <3>1. CASE UNCHANGED <<records, bin>>
      BY <3>1, LivesSame
    <3>2. CASE art[p] \in Artifact /\ Holds(p) /\ UNCHANGED records /\ Links(p)
      BY <2>1, <3>2, LinksIsActivate DEF Lifecycle!Next
    <3>3. CASE art[p] \in Artifact /\ Holds(p) /\ UNCHANGED records /\ Unlinks(p)
      <4>1. Lifecycle!Deactivate(art[p])
        BY <2>1, <3>3, UnlinkIsDeactivate DEF Unlinks, Holds, Target
      <4> QED
        BY <3>3, <4>1 DEF Lifecycle!Next
    <3>4. CASE art[p] \in Artifact /\ UNCHANGED bin /\ Appears(p)
      BY <2>1, <3>4, AppearsIsPublish DEF Lifecycle!Next
    <3>5. CASE art[p] \in Artifact /\ Holds(p) /\ UNCHANGED bin /\ Retires(p)
      BY <2>1, <3>5, RetiresIsRetire DEF Lifecycle!Next
    <3> QED
      BY <2>2, <3>1, <3>2, <3>3, <3>4, <3>5, StoreSteps
  <2>3. ASSUME User PROVE Lifecycle!Next \/ UNCHANGED <<Lives, Taken>>
    <3>1. ASSUME NEW c \in Command, NEW kind \in ForeignKind, UserPut(c, kind)
          PROVE  Lifecycle!Next \/ UNCHANGED <<Lives, Taken>>
      BY <2>1, <3>1, PutIsTake DEF Lifecycle!Next
    <3>2. ASSUME NEW c \in Command, UserDelete(c) PROVE Lifecycle!Next
      BY <2>1, <3>2, DeleteIsRelease DEF Lifecycle!Next
    <3>3. ASSUME NEW d, NEW kind, UserDrift(d, kind) PROVE UNCHANGED <<Lives, Taken>>
      BY <3>3, LivesSame DEF UserDrift
    <3> QED
      BY <2>3, <3>1, <3>2, <3>3 DEF User
  <2>4. ASSUME NEW p \in Proc, Start(p) \/ Crash(p) PROVE UNCHANGED <<Lives, Taken>>
    <3>1. UNCHANGED <<records, bin>>
      BY <2>4 DEF Start, StatusStart, InstallStart, RemoveStart, Begin, Crash, fs
    <3> QED
      BY <3>1, LivesSame
  <2>5. CASE UNCHANGED vars
    BY <2>5, LivesSame DEF vars, fs
  <2> QED
    BY <2>2, <2>3, <2>4, <2>5 DEF Next
<1> QED
  BY <1>1, <1>2, WorkSafe, PTL DEF Spec, ImplementsLifecycle, Lifecycle!Spec

-----------------------------------------------------------------------------
(* What a return claims.                                                   *)

(* An operation at work has no answer yet, a listing is empty until it is   *)
(* made, and nothing is anywhere before there is a root.                   *)
AskOf(p) ==
  /\ pc[p] # "idle" => result[p].code = "none"
  /\ pc[p] \in Opening => listing[p] = NoListing
Ground == shape # {} \/ Entries # {} => "root" \in shape
AskInv == Ground /\ \A p \in Proc : AskOf(p)

(* A step returns, goes on, or takes the lock or the inventory. *)
Continues(p, n) ==
  /\ pc' = [pc EXCEPT ![p] = n] /\ UNCHANGED <<op, art, result>>
  /\ n \in Opening \cup Holding
  /\ n \in Opening => pc[p] \in Opening /\ UNCHANGED listing

LEMMA StepMoves ==
  ASSUME TypeInv, NEW p \in Proc, Step(p)
  PROVE  /\ (\E code, areas : Return(p, code, areas)) \/ (\E n : Continues(p, n))
         /\ \A q \in Proc : q # p => listing'[q] = listing[q]
<1>1. TypeOK /\ ControlOK /\ ReturnedOK /\ ControlOf(p)
  BY DEF TypeInv, TypeOK, Control
<1>2. ASSUME NEW next \in Opening \cup Holding, Goto(p, next), next \in Opening => pc[p] \in Opening
      PROVE  (\E n : Continues(p, n)) /\ \A q \in Proc : q # p => listing'[q] = listing[q]
  BY <1>2 DEF Goto, Continues
<1>3. ASSUME NEW code, ReturnOnly(p, code)
      PROVE  (\E c, areas : Return(p, c, areas)) /\ \A q \in Proc : q # p => listing'[q] = listing[q]
  BY <1>3 DEF ReturnOnly
<1>4. CASE OpenLook(p) \/ OpenMkdir(p) \/ OpenExisting(p) \/ LockLook(p) \/ LockCreate(p)
  BY <1>2, <1>3, <1>4 DEF OpenLook, OpenMkdir, OpenExisting, LockLook, LockCreate, NextPart, Opening
<1>5. CASE LockTry(p)
  <2>1. CASE ReturnOnly(p, "Conflict")
    BY <1>3, <2>1
  <2>2. CASE holder = NoProc /\ holder' = p /\ UNCHANGED <<fs, local, op, art, wrote, result, listing>>
    <3>1. PICK n \in {"survey", "examine", "scan"} : pc' = [pc EXCEPT ![p] = n]
      BY <1>5, <2>1, <2>2, Points DEF LockTry, TypeInv, Control, ControlOf, Operation, ReturnOnly, Return
    <3>2. Continues(p, n)
      BY <2>2, <3>1 DEF Continues, Opening, Holding
    <3> QED
      BY <2>2, <3>2
  <2> QED
    BY <1>5, <2>1, <2>2 DEF LockTry
<1>6. CASE Survey(p) \/ Sweep(p) \/ SweepDone(p) \/ Decide(p) \/ CreateStaging(p) \/ Publish(p) \/ Activate(p) \/ Confirm(p)
  BY <1>2, <1>3, <1>6 DEF Survey, Sweep, SweepDone, Decide, CreateStaging, Publish, Activate, Confirm, Holding, Opening
<1>7. CASE WriteManifest(p) \/ WriteShim(p) \/ Unstage(p)
  BY <1>2, <1>7 DEF WriteManifest, WriteShim, WriteFile, Unstage, Holding, Opening
<1>8. CASE Examine(p) \/ Deactivate(p) \/ Quarantine(p) \/ Purge(p) \/ PurgeDone(p)
  BY <1>2, <1>3, <1>8 DEF Examine, Deactivate, Quarantine, Purge, PurgeDone, Holding, Opening
<1>9. CASE Scan(p)
  <2>1. CASE /\ listing' = [listing EXCEPT ![p].records = [a \in Artifact |-> RecordState(a)]]
             /\ pc' = [pc EXCEPT ![p] = "scanbin"] /\ UNCHANGED <<op, art, result>>
    <3>1. Continues(p, "scanbin")
      BY <2>1 DEF Continues, Opening, Holding
    <3> QED
      BY <1>1, <2>1, <3>1 DEF ReturnedOK
  <2> QED
    BY <1>3, <1>9, <2>1 DEF Scan
<1>10. CASE ScanBin(p)
  BY <1>1, <1>3, <1>10 DEF ScanBin, ReturnedOK
<1>11. CASE Fail(p) \/ FailStaged(p)
  BY <1>2, <1>3, <1>11 DEF Fail, FailStaged, Holding, Opening
<1> QED
  BY <1>4, <1>5, <1>6, <1>7, <1>8, <1>9, <1>10, <1>11 DEF Step, Advance

LEMMA StepBusy ==
  ASSUME NEW p \in Proc, Step(p)
  PROVE  pc[p] # "idle"
<1>1. Fail(p) => pc[p] # "idle"
  BY DEF Fail, FaultCodes, Opening
<1>2. FailStaged(p) => pc[p] # "idle"
  BY DEF FailStaged
<1> QED
  BY <1>1, <1>2 DEF Step, Advance, OpenLook, OpenMkdir, OpenExisting, LockLook, LockCreate, LockTry, Survey, Sweep, SweepDone,
     Decide, CreateStaging, WriteManifest, WriteShim, WriteFile, Publish, Unstage, Activate, Confirm, Examine, Deactivate,
     Quarantine, Purge, PurgeDone, Scan, ScanBin

LEMMA StepAsk ==
  ASSUME TypeInv, StoreInv, WorkInv, AskInv, NEW p \in Proc, Step(p)
  PROVE  AskInv'
<1>1. TypeOK /\ ControlOK /\ ReturnedOK /\ FilesOK /\ LocalOK /\ RootOf(p)
  BY Facts DEF WorkInv, Roots
<1>2. ASSUME NEW q \in Proc PROVE AskOf(q)'
  <2>1. AskOf(q) /\ AskOf(p) /\ (q # p => listing'[q] = listing[q])
    BY StepMoves DEF AskInv
  <2>2. CASE \E code, areas : Return(p, code, areas)
    <3>1. pc'[p] = "idle" /\ (q # p => pc'[q] = pc[q] /\ result'[q] = result[q])
      BY <1>1, <2>2 DEF Return, ControlOK, ReturnedOK
    <3> QED
      BY <2>1, <3>1 DEF AskOf, Opening
  <2>3. CASE \E n : Continues(p, n)
    <3>1. PICK n : Continues(p, n)
      BY <2>3
    <3>2. pc'[p] = n /\ result' = result /\ (q # p => pc'[q] = pc[q]) /\ pc[p] \in Opening \cup Holding
          /\ (n \in Opening => pc[p] \in Opening /\ listing'[p] = listing[p])
      <4>1. pc[p] # "idle"
        BY StepBusy
      <4> QED
        BY <1>1, <3>1, <4>1 DEF Continues, ControlOK
    <3> QED
      BY <2>1, <3>2, Points DEF AskOf
  <2> QED
    BY <2>2, <2>3, StepMoves
<1>3. shape \subseteq shape' /\ (shape' # shape => "root" \in shape')
  <2>1. CASE OpenMkdir(p) \/ LockCreate(p)
    <3>1. pc[p] = "mkdir" => part[p] \in 1..4 /\ (part[p] = 1 \/ "root" \in shape)
      BY <1>1 DEF LocalOK, RootOf
    <3>2. pc[p] = "lockmake" => "root" \in shape
      BY <1>1 DEF RootOf
    <3> QED
      BY <2>1, <3>1, <3>2 DEF OpenMkdir, LockCreate, Parts, ReturnOnly, fs
  <2>2. CASE UNCHANGED shape
    BY <2>2
  <2>3. CASE Step(p) /\ ~OpenMkdir(p) /\ ~LockCreate(p)
    BY <2>3 DEF Step, Advance, OpenLook, OpenExisting, LockLook, LockTry, Survey, Sweep, SweepDone, Decide, CreateStaging,
       WriteManifest, WriteShim, WriteFile, Publish, Unstage, Activate, Confirm, Examine, Deactivate, Quarantine, Purge,
       PurgeDone, Scan, ScanBin, Fail, FailStaged, ReturnOnly, ShrinkResidue, fs
  <2> QED
    BY <2>1, <2>2, <2>3
<1>4. Entries' # {} => Entries # {} \/ "root" \in shape
  <2>2. CASE UNCHANGED bin
    BY <2>2 DEF Entries
  <2>3. CASE Holds(p)
    <3>1. art[p] \in Artifact => Recorded # {}
      BY <2>3, Points DEF Holds, Recorded
    <3> QED
      BY <2>2, <3>1, StoreSteps DEF WorkInv, Roots
  <2> QED
    BY <2>2, <2>3, StoreSteps
<1> QED
  BY <1>2, <1>3, <1>4 DEF AskInv, Ground

LEMMA AskInit == Init => AskInv
BY DEF Init, AskInv, AskOf, Ground, Entries, Opening

LEMMA AskNext == TypeInv /\ StoreInv /\ WorkInv /\ AskInv /\ [Next]_vars => AskInv'
<1> SUFFICES ASSUME TypeInv, StoreInv, WorkInv, AskInv, [Next]_vars PROVE AskInv'
  OBVIOUS
<1>1. TypeOK /\ ControlOK /\ ReturnedOK /\ FilesOK
  BY DEF TypeInv, TypeOK
<1>2. ASSUME NEW p \in Proc, Start(p) PROVE AskInv'
  <2>1. /\ UNCHANGED <<shape, bin>>
        /\ \E first : pc' = [pc EXCEPT ![p] = first]
        /\ result' = [result EXCEPT ![p] = NoResult] /\ listing' = [listing EXCEPT ![p] = NoListing]
    BY <1>2 DEF Start, StatusStart, InstallStart, RemoveStart, Begin, fs
  <2> QED
    BY <1>1, <2>1 DEF AskInv, AskOf, Ground, Entries, NoResult, ControlOK, ReturnedOK
<1>3. ASSUME NEW p \in Proc, Crash(p) PROVE AskInv'
  <2>1. UNCHANGED <<shape, bin, result>> /\ pc' = [pc EXCEPT ![p] = "idle"] /\ listing' = [listing EXCEPT ![p] = NoListing]
    BY <1>3 DEF Crash, fs
  <2> QED
    BY <1>1, <2>1 DEF AskInv, AskOf, Ground, Entries, ControlOK, ReturnedOK, Opening
<1>4. CASE User
  <2>1. UNCHANGED <<shape, pc, result, listing>> /\ (Entries' # {} => Entries # {} \/ shape # {})
    BY <1>1, <1>4 DEF User, UserPut, UserDelete, UserDrift, Entries, FilesOK
  <2> QED
    BY <2>1 DEF AskInv, AskOf, Ground
<1>5. CASE UNCHANGED vars
  BY <1>5 DEF vars, fs, AskInv, AskOf, Ground, Entries
<1> QED
  BY <1>2, <1>3, <1>4, <1>5, StepAsk DEF Next

LEMMA AskSafe == Spec => [](TypeInv /\ StoreInv /\ WorkInv /\ AskInv)
BY TypeInit, TypeNext, StoreInit, StoreNext, WorkInit, WorkNext, AskInit, AskNext, PTL DEF Spec

Edited == \E d \in Dir : drift[d] # {}

(* What an answer other than a listing promises, in the state it leaves. *)
Promise(p, code) ==
  /\ code = "Tampered" => MayFail \/ Edited
  /\ code = "Capacity" => wrote[p] \subseteq {"shape"}
  /\ art[p] \in Artifact =>
       /\ code \in {"Installed", "Already"} => RecordState(art[p]) = "active"
       /\ code = "Removed" => /\ records[art[p]] = NoDir /\ dir[p] \notin staging /\ Unlinked(dir[p])
                              /\ was[p] \in {"inactive", "active"}
       /\ code = "NotFound" => records[art[p]] = NoDir

(* What a listing promises. *)
Inventory(listed) ==
  LET answer == StatusAnswer("Listed", listed)
  IN  /\ answer \in {"artifacts", "wrapper_artifact_collision", "wrapper_artifact_tampered"}
      /\ answer = "artifacts" => /\ \A a \in Artifact : listed.records[a] = RecordState(a)
                                 /\ \A c \in Command : ~Unowned(c)
      /\ answer = "wrapper_artifact_collision" => \E c \in Command : Unowned(c)
      /\ answer = "wrapper_artifact_tampered" =>
           \E a \in Artifact : RecordState(a) = "tampered" /\ drift[records[a]] # {}

(* A step goes on, returns a code that promises nothing, or keeps its word. *)
Vague == {"Unsafe", "Conflict", "Uncertain"}
Outcome(p) ==
  \/ pc'[p] # "idle"
  \/ result'[p].code \in Vague
  \/ \E code : code # "Listed" /\ ReturnOnly(p, code) /\ Promise(p, code)
  \/ Return(p, "Listed", {}) /\ UNCHANGED fs /\ Inventory(listing'[p])

LEMMA GoesOn ==
  ASSUME TypeOK, NEW p \in Proc, NEW n \in Opening \cup Holding, Goto(p, n)
  PROVE  Outcome(p)
BY Points, GoesTo DEF Outcome

LEMMA SaysLittle ==
  ASSUME TypeOK, NEW p \in Proc, NEW code \in Vague, NEW areas, Return(p, code, areas)
  PROVE  Outcome(p)
BY DEF Outcome, Return, TypeOK, ReturnedOK

LEMMA SaysOnlyLittle ==
  ASSUME TypeOK, NEW p \in Proc, NEW code \in Vague, ReturnOnly(p, code)
  PROVE  Outcome(p)
BY SaysLittle DEF ReturnOnly

LEMMA KeepsWord ==
  ASSUME NEW p, NEW code, code # "Listed", ReturnOnly(p, code), Promise(p, code)
  PROVE  Outcome(p)
BY DEF Outcome

(* A residue that is not well-formed was edited: no command links to it. *)
LEMMA BadResidue ==
  ASSUME FilesOK, OneName, BinLinkOwned, NEW d \in staging, ~WellFormedResidue(d)
  PROVE  Edited
<1>1. d \in Dir /\ \A c \in Command : bin[c] # d
  BY Points DEF FilesOK, OneName, BinLinkOwned, Recorded
<1> QED
  BY <1>1 DEF WellFormedResidue, OneLink, Edited

(* A record that is not intact was edited: records are complete, and a link *)
(* to one bears the name of its command.                                   *)
LEMMA BadRecord ==
  ASSUME FilesOK, OneName, BinLinkOwned, RecordsComplete, NEW a \in Artifact, RecordState(a) = "tampered"
  PROVE  records[a] \in Dir /\ drift[records[a]] # {}
<1>1. records[a] \in Dir /\ files[records[a]] = File
  BY DEF RecordState, FilesOK, RecordsComplete, Recorded
<1>2. \A c \in Command : bin[c] = records[a] => c = CommandOf[a]
  BY <1>1, OneLinkOnly
<1>3. CommandOf[a] \in Command
  BY ConstantsAssumption
<1> QED
  BY <1>1, <1>2, <1>3 DEF RecordState, Broken, TwoLinks, OneLink

LEMMA BrokenRecord ==
  ASSUME FilesOK, RecordsComplete, NEW a \in Recorded, Broken(a)
  PROVE  Edited
<1>1. records[a] \in Dir /\ files[records[a]] = File
  BY DEF FilesOK, RecordsComplete, Recorded
<1> QED
  BY <1>1 DEF Broken, Edited

(* An intact record that nobody edited is where it was. *)
LEMMA StillVerified ==
  ASSUME FilesOK, RecordsComplete, NEW p \in Proc, art[p] \in Artifact, Holds(p)
  PROVE  Verified(p) /\ "linked" \notin drift[dir[p]] /\ "alien" \notin drift[dir[p]] /\ "edited" \notin drift[dir[p]]
<1>1. art[p] \in Recorded /\ dir[p] # NoDir
  BY Points DEF Holds, Recorded
<1> QED
  BY <1>1 DEF Holds, Verified, RecordsComplete

(* An inventory of all there is, and of the entries nothing stands behind, *)
(* is valid and says what is so.                                           *)
LEMMA ListingTrue ==
  ASSUME FilesOK, OneName, BinLinkOwned, RecordsComplete, Stock, Cardinality(Entries) <= MaxArtifacts, NEW listed,
         \A a \in Artifact : listed.records[a] = RecordState(a),
         listed.collisions = {c \in Command : Unowned(c)}
  PROVE  Inventory(listed)
<1>1. {a \in Artifact : listed.records[a] # "absent"} = Recorded
  BY Examined DEF Recorded
<1>2. Cardinality(listed.collisions) <= MaxArtifacts
  <2>1. listed.collisions \subseteq Entries /\ IsFiniteSet(Entries)
    BY DEF Entries, Unowned, Stock
  <2>2. /\ Cardinality(listed.collisions) \in Nat /\ Cardinality(Entries) \in Nat
        /\ Cardinality(listed.collisions) <= Cardinality(Entries)
    BY <2>1, FS_Subset, FS_CardinalityType
  <2> QED
    BY <2>2, ConstantsAssumption
<1>3. ASSUME NEW a \in ActiveIn(listed)
      PROVE  /\ a \in Artifact /\ RecordState(a) = "active" /\ records[a] \in Dir /\ CommandOf[a] \in Command
             /\ bin[CommandOf[a]] = records[a] /\ ~Unowned(CommandOf[a])
  <2>1. a \in Artifact /\ RecordState(a) = "active" /\ CommandOf[a] \in Command
    BY <1>3, ConstantsAssumption DEF ActiveIn
  <2> QED
    BY <2>1, Examined DEF Unowned
<1>4. \A a, b \in ActiveIn(listed) : CommandOf[a] = CommandOf[b] => a = b
  BY <1>3, Points DEF OneName
<1>5. ValidInventory(listed)
  BY <1>1, <1>2, <1>3, <1>4 DEF ValidInventory, Stock
<1>6. ASSUME "tampered" \in {listed.records[a] : a \in Artifact}
      PROVE  \E a \in Artifact : RecordState(a) = "tampered" /\ drift[records[a]] # {}
  BY <1>6, BadRecord
<1> QED
  BY <1>5, <1>6 DEF Inventory, StatusAnswer

LEMMA OpeningOutcome ==
  ASSUME TypeInv, StoreInv, WorkInv, AskInv, NEW p \in Proc,
         OpenLook(p) \/ OpenMkdir(p) \/ OpenExisting(p) \/ LockLook(p) \/ LockCreate(p) \/ LockTry(p)
  PROVE  Outcome(p)
<1>1. /\ TypeOK /\ FilesOK /\ ControlOK /\ ControlOf(p) /\ OneName /\ BinLinkOwned /\ RecordsComplete /\ Stock
      /\ AskOf(p) /\ Ground
  BY Facts DEF AskInv
<1>2. CASE OpenLook(p) \/ OpenMkdir(p) \/ LockLook(p) \/ LockCreate(p)
  BY <1>1, <1>2, GoesOn, SaysOnlyLittle DEF OpenLook, OpenMkdir, LockLook, LockCreate, NextPart, Opening, Vague
<1>3. CASE LockTry(p)
  <2>1. CASE ReturnOnly(p, "Conflict")
    BY <1>1, <2>1, SaysOnlyLittle DEF Vague
  <2>2. CASE op[p] \in Operation /\ pc' = [pc EXCEPT ![p] = CASE op[p] = "install" -> "survey"
                                                               [] op[p] = "remove"  -> "examine"
                                                               [] op[p] = "status"  -> "scan"]
    BY <1>1, <2>2 DEF Outcome, ControlOK, Operation
  <2> QED
    BY <1>1, <1>3, <2>1, <2>2 DEF LockTry, ControlOf
<1>4. CASE OpenExisting(p)
  <2>1. CASE ReturnOnly(p, "Unsafe") \/ Goto(p, "locklook")
    BY <1>1, <2>1, GoesOn, SaysOnlyLittle DEF Opening, Vague
  <2>2. CASE "root" \notin shape
    <3>1. Recorded = {} /\ Entries = {} /\ listing[p] = NoListing
      BY <1>1, <1>4, <2>2 DEF WorkInv, Roots, Ground, AskOf, OpenExisting, Opening
    <3>2. ASSUME NEW a \in Artifact PROVE records[a] = NoDir /\ RecordState(a) = "absent"
      BY <3>1 DEF Recorded, RecordState
    <3>3. CASE ReturnOnly(p, "NotFound")
      <4>1. Promise(p, "NotFound")
        BY <3>2 DEF Promise
      <4> QED
        BY <3>3, <4>1, KeepsWord
    <3>4. CASE ReturnOnly(p, "Listed")
      <4>1. \A a \in Artifact : NoListing.records[a] = RecordState(a)
        BY <3>2 DEF NoListing
      <4>2. NoListing.collisions = {c \in Command : Unowned(c)}
        BY <3>1 DEF NoListing, Unowned, Entries
      <4>3. Cardinality(Entries) <= MaxArtifacts
        BY <3>1, FS_EmptySet, ConstantsAssumption
      <4>4. Inventory(NoListing)
        BY <1>1, <4>1, <4>2, <4>3, ListingTrue
      <4> QED
        BY <3>1, <3>4, <4>4 DEF Outcome, ReturnOnly
    <3> QED
      BY <1>4, <2>2, <3>3, <3>4 DEF OpenExisting
  <2> QED
    BY <1>4, <2>1, <2>2 DEF OpenExisting
<1> QED
  BY <1>2, <1>3, <1>4

LEMMA SweepOutcome ==
  ASSUME TypeInv, StoreInv, WorkInv, NEW p \in Proc, Survey(p) \/ Sweep(p) \/ SweepDone(p)
  PROVE  Outcome(p)
<1>1. TypeOK /\ FilesOK /\ OneName /\ BinLinkOwned /\ ChangedOf(p)
  BY Facts
<1>2. CASE Sweep(p) \/ SweepDone(p)
  BY <1>1, <1>2, GoesOn DEF Sweep, SweepDone, Holding
<1>3. CASE Survey(p)
  <2>1. CASE Goto(p, "sweep")
    BY <1>1, <2>1, GoesOn DEF Holding
  <2>2. CASE ReturnOnly(p, "Capacity")
    <3>1. Promise(p, "Capacity")
      BY <1>1, <1>3 DEF Promise, Survey, ChangedOf
    <3> QED
      BY <2>2, <3>1, KeepsWord
  <2>3. CASE ReturnOnly(p, "Tampered") /\ \E d \in staging : ~WellFormedResidue(d)
    <3>1. Promise(p, "Tampered")
      BY <1>1, <2>3, BadResidue DEF Promise
    <3> QED
      BY <2>3, <3>1, KeepsWord
  <2> QED
    BY <1>3, <2>1, <2>2, <2>3 DEF Survey
<1> QED
  BY <1>2, <1>3

LEMMA DecideOutcome ==
  ASSUME TypeInv, StoreInv, WorkInv, NEW p \in Proc, Decide(p)
  PROVE  Outcome(p)
<1>1. /\ TypeOK /\ FilesOK /\ LocalOK /\ ControlOf(p) /\ OneName /\ BinLinkOwned /\ RecordsComplete
      /\ ChangedOf(p) /\ RoomOf(p) /\ Stock /\ pc[p] = "decide" /\ art[p] \in Artifact
  BY Facts DEF Decide, ControlOf, Runs, InstallPC
<1>2. CASE Goto(p, "activate") \/ Goto(p, "stage") \/ ReturnOnly(p, "Conflict")
  BY <1>1, <1>2, GoesOn, SaysOnlyLittle DEF Holding, Vague
<1>3. CASE RecordState(art[p]) = "tampered" /\ ReturnOnly(p, "Tampered")
  <2>1. Edited
    BY <1>1, <1>3, BadRecord DEF Edited
  <2>2. Promise(p, "Tampered")
    BY <2>1 DEF Promise
  <2> QED
    BY <1>3, <2>2, KeepsWord
<1>4. CASE RecordState(art[p]) = "active" /\ ReturnOnly(p, "Already")
  <2>1. Promise(p, "Already")
    BY <1>4 DEF Promise
  <2> QED
    BY <1>4, <2>1, KeepsWord
<1>5. CASE Cardinality(Recorded) >= MaxArtifacts /\ ReturnOnly(p, "Capacity")
  <2>1. Cardinality(Recorded) \in Nat
    BY <1>1, FS_CardinalityType DEF Stock
  <2>2. "staging" \notin wrote[p]
    BY <1>1, <1>5, <2>1, ConstantsAssumption DEF RoomOf, HasRoom
  <2>3. wrote[p] \subseteq {"shape"}
    BY <1>1, <2>2 DEF ChangedOf
  <2>4. Promise(p, "Capacity")
    BY <2>3 DEF Promise
  <2> QED
    BY <1>5, <2>4, KeepsWord
<1> QED
  BY <1>2, <1>3, <1>4, <1>5 DEF Decide

LEMMA InstallOutcome ==
  ASSUME TypeInv, StoreInv, WorkInv, NEW p \in Proc,
         CreateStaging(p) \/ WriteManifest(p) \/ WriteShim(p) \/ Publish(p) \/ Unstage(p) \/ Activate(p) \/ Confirm(p)
  PROVE  Outcome(p)
<1>1. TypeOK /\ FilesOK /\ ControlOf(p) /\ OneName /\ BinLinkOwned /\ RecordsComplete /\ KnowsOf(p)
  BY Facts
<1>2. CASE CreateStaging(p) \/ WriteManifest(p) \/ WriteShim(p) \/ Publish(p)
  BY <1>1, <1>2, GoesOn, SaysLittle DEF CreateStaging, WriteManifest, WriteShim, WriteFile, Publish, Holding, Vague
<1>3. CASE Unstage(p)
  BY <1>1, <1>3, GoesOn, SaysLittle DEF Unstage, UnstageCode, Holding, Vague
<1>4. CASE Activate(p)
  <2>1. art[p] \in Artifact /\ Holds(p) /\ Unlinked(dir[p])
    BY <1>1, <1>4 DEF Activate, ControlOf, Runs, InstallPC, KnowsOf
  <2>2. Verified(p) /\ OneLink(dir[p])
    BY <1>1, <2>1, StillVerified DEF OneLink, Unlinked
  <2> QED
    BY <1>1, <1>4, <2>2, GoesOn, SaysOnlyLittle DEF Activate, Holding, Vague
<1>5. CASE Confirm(p)
  <2>1. art[p] \in Artifact /\ Holds(p) /\ bin[Target(p)] = dir[p]
    BY <1>1, <1>5 DEF Confirm, ControlOf, Runs, InstallPC, KnowsOf
  <2>2. CASE TwoLinks(dir[p], Target(p)) /\ ReturnOnly(p, "Installed")
    <3>1. records[art[p]] = dir[p] /\ dir[p] # NoDir /\ files[dir[p]] = File /\ "alien" \notin drift[dir[p]]
          /\ "edited" \notin drift[dir[p]]
      BY <1>1, <2>1, StillVerified DEF Verified
    <3>2. RecordState(art[p]) = "active"
      BY <2>1, <2>2, <3>1 DEF RecordState, Broken, Target
    <3>3. Promise(p, "Installed")
      BY <3>2 DEF Promise
    <3> QED
      BY <2>2, <3>3, KeepsWord
  <2>3. CASE ReturnOnly(p, "Uncertain")
    BY <1>1, <2>3, SaysOnlyLittle DEF Vague
  <2> QED
    BY <1>5, <2>2, <2>3 DEF Confirm
<1> QED
  BY <1>2, <1>3, <1>4, <1>5

LEMMA RemoveOutcome ==
  ASSUME TypeInv, StoreInv, WorkInv, NEW p \in Proc,
         Examine(p) \/ Deactivate(p) \/ Quarantine(p) \/ Purge(p) \/ PurgeDone(p)
  PROVE  Outcome(p)
<1>1. /\ TypeOK /\ FilesOK /\ ControlOf(p) /\ OneName /\ BinLinkOwned /\ RecordsComplete /\ KnowsOf(p)
      /\ op[p] = "remove" /\ art[p] \in Artifact
  BY Facts DEF Examine, Deactivate, Quarantine, Purge, PurgeDone, ControlOf, Runs, RemovePC
<1>2. CASE Examine(p)
  <2>1. CASE Goto(p, "survey")
    BY <1>1, <2>1, GoesOn DEF Holding
  <2>2. CASE RecordState(art[p]) = "absent" /\ ReturnOnly(p, "NotFound")
    <3>1. Promise(p, "NotFound")
      BY <1>1, <2>2, Examined DEF Promise
    <3> QED
      BY <2>2, <3>1, KeepsWord
  <2>3. CASE RecordState(art[p]) = "tampered" /\ ReturnOnly(p, "Tampered")
    <3>1. Edited
      BY <1>1, <2>3, BadRecord DEF Edited
    <3>2. Promise(p, "Tampered")
      BY <3>1 DEF Promise
    <3> QED
      BY <2>3, <3>2, KeepsWord
  <2> QED
    BY <1>2, <2>1, <2>2, <2>3 DEF Examine
<1>3. CASE Deactivate(p)
  <2>1. Holds(p) /\ bin[Target(p)] = dir[p]
    BY <1>1, <1>3 DEF Deactivate, KnowsOf
  <2>2. Verified(p)
    BY <1>1, <2>1, StillVerified
  <2> QED
    BY <1>1, <1>3, <2>1, <2>2, GoesOn DEF Deactivate, Holding
<1>4. CASE Quarantine(p)
  <2>1. Holds(p) /\ Unlinked(dir[p])
    BY <1>1, <1>4 DEF Quarantine, KnowsOf
  <2>2. Verified(p) /\ OneLink(dir[p])
    BY <1>1, <2>1, StillVerified DEF OneLink, Unlinked
  <2> QED
    BY <1>1, <1>4, <2>2, GoesOn, SaysOnlyLittle DEF Quarantine, Holding, Vague
<1>5. CASE Purge(p)
  BY <1>1, <1>5, GoesOn DEF Purge, Holding
<1>6. CASE PurgeDone(p)
  <2>1. Promise(p, "Removed")
    BY <1>1, <1>6 DEF PurgeDone, KnowsOf, Promise
  <2> QED
    BY <1>6, <2>1, KeepsWord DEF PurgeDone
<1> QED
  BY <1>2, <1>3, <1>4, <1>5, <1>6

LEMMA StatusOutcome ==
  ASSUME TypeInv, StoreInv, WorkInv, NEW p \in Proc, Scan(p) \/ ScanBin(p)
  PROVE  Outcome(p)
<1>1. /\ TypeOK /\ FilesOK /\ ControlOK /\ ReturnedOK /\ OneName /\ BinLinkOwned /\ RecordsComplete /\ KnowsOf(p)
      /\ Stock /\ wrote[p] \subseteq {"shape"}
  BY Facts DEF Scan, ScanBin, ChangedOf
<1>2. CASE ReturnOnly(p, "Capacity")
  <2>1. Promise(p, "Capacity")
    BY <1>1 DEF Promise
  <2> QED
    BY <1>2, <2>1, KeepsWord
<1>3. CASE Scan(p)
  <2>1. CASE ReturnOnly(p, "Tampered") /\ ((\E d \in staging : ~WellFormedResidue(d)) \/ (\E a \in Recorded : Broken(a)))
    <3>1. Promise(p, "Tampered")
      BY <1>1, <2>1, BadResidue, BrokenRecord DEF Promise
    <3> QED
      BY <2>1, <3>1, KeepsWord
  <2>2. CASE pc' = [pc EXCEPT ![p] = "scanbin"]
    BY <1>1, <2>2 DEF Outcome, ControlOK
  <2> QED
    BY <1>2, <1>3, <2>1, <2>2 DEF Scan
<1>4. CASE /\ pc[p] = "scanbin" /\ ~(Cardinality(Entries) > MaxArtifacts) /\ Return(p, "Listed", {}) /\ UNCHANGED fs
           /\ listing' = [listing EXCEPT ![p].collisions = {c \in Entries : ~ListedActive(p, c)}]
  <2>1. listing[p] \in [records: [Artifact -> State], collisions: SUBSET Command]
    BY <1>1 DEF ReturnedOK
  <2>2. /\ listing'[p].records = listing[p].records
        /\ listing'[p].collisions = {c \in Entries : ~ListedActive(p, c)}
    BY <1>1, <1>4, <2>1 DEF ReturnedOK
  <2>3. \A a \in Artifact : listing[p].records[a] = RecordState(a)
    BY <1>1, <1>4 DEF KnowsOf
  <2>4. ASSUME NEW c \in Command
        PROVE  ListedActive(p, c) <=> \E a \in Artifact : CommandOf[a] = c /\ RecordState(a) = "active"
    BY <1>1, <2>3, Examined DEF ListedActive
  <2>5. listing'[p].collisions = {c \in Command : Unowned(c)}
    BY <2>2, <2>4 DEF Entries, Unowned
  <2>6. Cardinality(Entries) <= MaxArtifacts
    BY <1>1, <1>4, FS_CardinalityType, ConstantsAssumption DEF Stock
  <2>7. Inventory(listing'[p])
    BY <1>1, <2>2, <2>3, <2>5, <2>6, ListingTrue
  <2> QED
    BY <1>4, <2>7 DEF Outcome
<1> QED
  BY <1>2, <1>3, <1>4 DEF ScanBin, Entries

LEMMA FailOutcome ==
  ASSUME TypeInv, NEW p \in Proc, Fail(p) \/ FailStaged(p)
  PROVE  Outcome(p)
<1>1. TypeOK
  BY DEF TypeInv
<1>2. CASE FailStaged(p)
  BY <1>1, <1>2, GoesOn DEF FailStaged, Holding
<1>3. CASE Fail(p)
  <2>1. PICK code \in FaultCodes(p) : ReturnOnly(p, code)
    BY <1>3 DEF Fail
  <2>2. FaultCodes(p) \subseteq Vague \cup {"Tampered"}
    BY DEF FaultCodes, UnstageCode, Vague
  <2>3. CASE code \in Vague
    BY <1>1, <2>1, <2>3, SaysOnlyLittle
  <2>4. CASE code = "Tampered"
    <3>1. Promise(p, "Tampered")
      BY <1>3 DEF Fail, Promise
    <3> QED
      BY <2>1, <2>4, <3>1, KeepsWord
  <2> QED
    BY <2>2, <2>3, <2>4
<1> QED
  BY <1>2, <1>3

LEMMA StepOutcome ==
  ASSUME TypeInv, StoreInv, WorkInv, AskInv, NEW p \in Proc, Step(p)
  PROVE  Outcome(p)
BY OpeningOutcome, SweepOutcome, DecideOutcome, InstallOutcome, RemoveOutcome, StatusOutcome, FailOutcome DEF Step, Advance

(* Only a step of its own code makes a process return an answer. *)
LEMMA OnlyStepsReturn ==
  ASSUME TypeInv, AskInv, [Next]_vars, NEW p \in Proc, NEW codes, "none" \notin codes, Returns(p, codes)
  PROVE  Step(p)
<1>1. /\ ControlOK /\ ReturnedOK /\ pc[p] # "idle" /\ pc'[p] = "idle" /\ result'[p].code # "none"
      /\ result[p].code = "none"
  BY DEF TypeInv, TypeOK, AskInv, AskOf, Returns
<1>2. CASE UNCHANGED vars \/ User
  BY <1>1, <1>2 DEF vars, User, UserPut, UserDelete, UserDrift
<1>3. ASSUME NEW q \in Proc, Start(q) PROVE FALSE
  BY <1>1, <1>3, Points DEF Start, StatusStart, InstallStart, RemoveStart, Begin, ControlOK
<1>4. ASSUME NEW q \in Proc, Crash(q) PROVE FALSE
  BY <1>1, <1>4 DEF Crash
<1>5. ASSUME NEW q \in Proc, Step(q) PROVE q = p
  <2>1. \E n : pc' = [pc EXCEPT ![q] = n]
    BY <1>5, StepMoves DEF Return, Continues
  <2> QED
    BY <1>1, <2>1 DEF ControlOK
<1> QED
  BY <1>2, <1>3, <1>4, <1>5 DEF Next

(* What a step returns, in the terms of the properties. *)
LEMMA Answered ==
  ASSUME TypeInv, StoreInv, WorkInv, AskInv, [Next]_vars, NEW p \in Proc, NEW codes,
         codes \cap (Vague \cup {"none"}) = {}, Returns(p, codes)
  PROVE  \/ \E code \in codes : code # "Listed" /\ ReturnOnly(p, code) /\ Promise(p, code)
         \/ "Listed" \in codes /\ Return(p, "Listed", {}) /\ UNCHANGED fs /\ Inventory(listing'[p])
<1>1. Outcome(p) /\ ReturnedOK
  BY OnlyStepsReturn, StepOutcome DEF TypeInv, TypeOK
<1>2. pc'[p] = "idle" /\ result'[p].code \in codes
  BY DEF Returns
<1>3. ASSUME NEW code, NEW areas, Return(p, code, areas) PROVE result'[p].code = code
  BY <1>1, <1>3 DEF Return, ReturnedOK
<1> QED
  BY <1>1, <1>2, <1>3 DEF Outcome, ReturnOnly

(* Nothing but an edit makes the store call a record or a residue tampered  *)
(* (inspectRecord, inspectStagingResidue), unless a system call failed.     *)
THEOREM TamperingHasCause == Spec => TamperedOnlyAfterDrift
<1> DEFINE Caused == \A p \in Proc : Returns(p, {"Tampered"}) => MayFail \/ \E d \in Dir : drift[d] # {}
<1>1. TypeInv /\ StoreInv /\ WorkInv /\ AskInv /\ [Next]_vars => Caused
  <2> SUFFICES ASSUME TypeInv, StoreInv, WorkInv, AskInv, [Next]_vars, NEW p \in Proc, Returns(p, {"Tampered"})
               PROVE  MayFail \/ Edited
    BY DEF Edited
  <2>1. \E code \in {"Tampered"} : Promise(p, code)
    BY Answered DEF Vague
  <2> QED
    BY <2>1 DEF Promise
<1>2. Spec => [][Caused]_vars
  <2> HIDE DEF Caused
  <2> QED
    BY <1>1, AskSafe, PTL DEF Spec
<1> QED
  BY <1>2 DEF TamperedOnlyAfterDrift

(* ResultTruth and AnswersAreTrue of one process. *)
TrueResult(p) ==
  /\ Returns(p, {"Capacity"}) => result'[p].wrote \subseteq {"shape"}
  /\ \A a \in Artifact : art[p] = a =>
       /\ Returns(p, {"Installed", "Already"}) => RecordState(a)' = "active"
       /\ Returns(p, {"Removed"}) => /\ records'[a] = NoDir
                                     /\ dir[p] \notin staging'
                                     /\ \A c \in Command : bin'[c] # dir[p]
       /\ Returns(p, {"NotFound"}) => records'[a] = NoDir
TrueAnswer(p) ==
  /\ Returns(p, {"Listed"}) =>
       LET answer == StatusAnswer("Listed", listing'[p]) IN
       /\ answer \in {"artifacts", "wrapper_artifact_collision", "wrapper_artifact_tampered"}
       /\ answer = "artifacts" => /\ \A a \in Artifact : listing'[p].records[a] = RecordState(a)'
                                  /\ \A c \in Command : ~Unowned(c)'
       /\ answer = "wrapper_artifact_collision" => \E c \in Command : Unowned(c)'
       /\ answer = "wrapper_artifact_tampered" =>
            \E a \in Artifact : RecordState(a)' = "tampered" /\ drift[records[a]] # {}
  /\ \A a \in Artifact : art[p] = a =>
       /\ Returns(p, {"Installed", "Already"}) => InstallAnswer("Installed", RecordState(a)') = "installed"
       /\ Returns(p, {"Removed"}) => RemoveAnswer("Removed", was[p]) = "removed"

(* A promise about a state is kept when the return leaves the files alone. *)
LEMMA PromiseKept ==
  ASSUME TypeOK, NEW p \in Proc, NEW code, ReturnOnly(p, code), Promise(p, code)
  PROVE  /\ code = "Capacity" => result'[p].wrote \subseteq {"shape"}
         /\ \A a \in Artifact : art[p] = a =>
              /\ code \in {"Installed", "Already"} => RecordState(a)' = "active"
              /\ code = "Removed" => /\ records'[a] = NoDir /\ dir[p] \notin staging'
                                     /\ \A c \in Command : bin'[c] # dir[p]
                                     /\ was[p] \in {"inactive", "active"}
              /\ code = "NotFound" => records'[a] = NoDir
<1>1. UNCHANGED <<records, staging, files, drift, bin>>
  BY DEF ReturnOnly, fs
<1>2. result'[p].wrote = wrote[p] \cup {}
  BY DEF ReturnOnly, Return, TypeOK, ReturnedOK
<1>3. \A a : RecordState(a)' = RecordState(a)
  BY <1>1, SameState
<1> QED
  BY <1>1, <1>2, <1>3 DEF Promise, Unlinked

LEMMA TrueReturns ==
  ASSUME TypeInv, StoreInv, WorkInv, AskInv, [Next]_vars, NEW p \in Proc
  PROVE  TrueResult(p) /\ TrueAnswer(p)
<1>1. TypeOK
  BY DEF TypeInv
<1>2. ASSUME NEW code \in {"Capacity", "Installed", "Already", "Removed", "NotFound"}, NEW codes, codes \subseteq Code,
             codes = {code}, Returns(p, codes)
      PROVE  ReturnOnly(p, code) /\ Promise(p, code)
  BY <1>2, Answered DEF Vague
<1>3. ASSUME Returns(p, {"Installed", "Already"}) PROVE Returns(p, {"Installed"}) \/ Returns(p, {"Already"})
  BY <1>3 DEF Returns
<1>4. TrueResult(p)
  <2>1. Returns(p, {"Capacity"}) => result'[p].wrote \subseteq {"shape"}
    BY <1>1, <1>2, PromiseKept DEF Code
  <2>2. ASSUME NEW a \in Artifact, art[p] = a
        PROVE  /\ Returns(p, {"Installed", "Already"}) => RecordState(a)' = "active"
               /\ Returns(p, {"Removed"}) => /\ records'[a] = NoDir
                                             /\ dir[p] \notin staging'
                                             /\ \A c \in Command : bin'[c] # dir[p]
               /\ Returns(p, {"NotFound"}) => records'[a] = NoDir
    BY <1>1, <1>2, <1>3, <2>2, PromiseKept DEF Code
  <2> QED
    BY <2>1, <2>2 DEF TrueResult
<1>5. ASSUME NEW a \in Artifact, art[p] = a
      PROVE  /\ Returns(p, {"Installed", "Already"}) => InstallAnswer("Installed", RecordState(a)') = "installed"
             /\ Returns(p, {"Removed"}) => RemoveAnswer("Removed", was[p]) = "removed"
  <2>1. Returns(p, {"Installed", "Already"}) => RecordState(a)' = "active"
    BY <1>4, <1>5 DEF TrueResult
  <2>2. Returns(p, {"Removed"}) => was[p] \in {"inactive", "active"}
    BY <1>1, <1>2, <1>5, PromiseKept DEF Code
  <2> QED
    BY <2>1, <2>2 DEF InstallAnswer, RemoveAnswer
<1>6. ASSUME Returns(p, {"Listed"})
      PROVE  /\ Inventory(listing'[p])
             /\ UNCHANGED drift /\ UNCHANGED records
             /\ \A a : RecordState(a)' = RecordState(a)
             /\ \A c : Unowned(c)' <=> Unowned(c)
  <2>1. UNCHANGED fs /\ Inventory(listing'[p])
    BY <1>6, Answered DEF Vague
  <2>2. UNCHANGED <<records, files, drift, bin>> /\ \A a : RecordState(a)' = RecordState(a)
    BY <2>1, SameState DEF fs
  <2>3. \A c : Unowned(c)' <=> Unowned(c)
    BY <2>2 DEF Unowned
  <2> QED
    BY <2>1, <2>2, <2>3
<1>7. TrueAnswer(p)
  BY <1>5, <1>6 DEF TrueAnswer, Inventory
<1> QED
  BY <1>4, <1>7

(* What install, status and remove say is so when they say it              *)
(* (Service.Install, Status and Remove of wrappershimcmd, over the store):  *)
(* the outcome holds of the files, a listing is complete and in every       *)
(* state right, and no public check refuses what the store has done.        *)
THEOREM AnswersHold == Spec => AnswersAreTrue
<1> DEFINE Results == \A p \in Proc : TrueResult(p)
           Answers == \A p \in Proc : TrueAnswer(p)
<1>1. TypeInv /\ StoreInv /\ WorkInv /\ AskInv /\ [Next]_vars => Results /\ Answers
  BY TrueReturns
<1>2. Spec => [][Results]_vars /\ [][Answers]_vars
  <2> HIDE DEF Results, Answers
  <2> QED
    BY <1>1, AskSafe, PTL DEF Spec
<1>3. Spec => ResultTruth
  BY <1>2 DEF ResultTruth, TrueResult
<1> QED
  BY <1>2, <1>3 DEF AnswersAreTrue, TrueAnswer
=============================================================================
