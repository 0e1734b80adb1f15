----------------------------- MODULE AuthConfig -----------------------------
(***************************************************************************)
(* The file of non-secret authentication settings (authconfigfile) and the *)
(* resolver above it (app/authn).  Save replaces the file by a rename and  *)
(* takes no lock; Load looks at the path, the open file and the path again.*)
(* Several programs save and load at once, the user swaps the directory,   *)
(* damages or removes the file, any of them may be killed.                 *)
(*                                                                         *)
(* A file is known by its inode: the caller that staged it, or Original.   *)
(***************************************************************************)
EXTENDS Naturals, FiniteSets

CONSTANTS
  Callers, Settings,     \* programs, and the configurations they may save
  Directories,           \* directory objects that may stand at the parent path
  Home,                  \* the one that stands there at first
  Original,              \* the inode that is there before anything is saved
  Garbage,               \* content that Decode refuses
  Nowhere, Nothing,      \* no directory at the path; no file in a directory
  Unsafe,                \* a link or a shared directory in its place; no settings
  MaxTroubles            \* bound: user steps and kills

ASSUME ConfigAssumption ==
  /\ Home \in Directories /\ {Nowhere, Unsafe} \cap Directories = {}
  /\ Original \notin Callers /\ Nothing \notin Callers \cup {Original}
  /\ Garbage \notin Settings /\ Nothing \notin Settings \cup {Garbage}
  /\ MaxTroubles \in Nat

VARIABLES
  parent,     \* what stands at the parent path
  files,      \* directory -> the file in it under the store's name
  requests,   \* caller -> its call: operation, step, what it opened, its answer
  staged,     \* the callers whose temporary file is in its directory
  shown,      \* ghost: caller -> the contents that stood at the path during its call
  troubles,   \* ghost: user steps and kills so far
  failed      \* ghost: an operating system call failed

configVars == <<parent, files, requests, staged, shown, troubles, failed>>

File(inode, content, safe) == [inode |-> inode, content |-> content, safe |-> safe]
NoFile == File(Nothing, Nothing, TRUE)
Idle == [operation |-> "none", step |-> "idle", setting |-> Nothing, root |-> Nowhere,
         opened |-> NoFile, canceled |-> FALSE, answer |-> "none"]

\* What a Lstat of the full path finds.
AtPath == IF parent \in Directories THEN files[parent] ELSE NoFile

Doing(c, step) == requests[c].step = step
Continue(c, step) == requests' = [requests EXCEPT ![c].step = step]
Reply(c, answer) == requests' = [requests EXCEPT ![c].step = "done", ![c].answer = answer]
Fail(c, answer) == Reply(c, answer) /\ failed' = TRUE
-----------------------------------------------------------------------------
(* Save and Load begin alike: the parent is inspected, then opened and compared. *)

BeginSave(c, s) ==
  /\ Doing(c, "idle")
  /\ requests' = [requests EXCEPT ![c] = [Idle EXCEPT !.operation = "save", !.step = "parent", !.setting = s]]
  /\ UNCHANGED <<parent, files, staged, failed>>

\* Resolve asks the environment first: settings there, valid or not, end it.
BeginLoad(c) ==
  /\ Doing(c, "idle")
  /\ \E environment \in {"absent", "valid", "invalid"} :
       requests' = [requests EXCEPT ![c] =
         IF environment = "absent" THEN [Idle EXCEPT !.operation = "load", !.step = "parent"]
         ELSE [Idle EXCEPT !.operation = "load", !.step = "done",
                           !.answer = IF environment = "valid" THEN "environment" ELSE "invalid"]]
  /\ UNCHANGED <<parent, files, staged, failed>>

InspectParent(c) ==
  /\ Doing(c, "parent")
  /\ IF requests[c].canceled THEN Reply(c, "canceled")
     ELSE IF parent = Nowhere THEN Reply(c, IF requests[c].operation = "load" THEN "missing" ELSE "unsafe")
     ELSE IF parent = Unsafe THEN Reply(c, "unsafe")
     ELSE requests' = [requests EXCEPT ![c].step = "open", ![c].root = parent]
  /\ UNCHANGED <<parent, files, staged, failed>>

OpenRoot(c) ==
  /\ Doing(c, "open")
  /\ \/ parent # requests[c].root /\ Reply(c, "unsafe") /\ UNCHANGED failed
     \/ parent = requests[c].root /\ UNCHANGED failed
        /\ Continue(c, IF requests[c].operation = "save" THEN "target" ELSE "look")
     \/ Fail(c, "unsafe")
  /\ UNCHANGED <<parent, files, staged>>

InRoot(c) == files[requests[c].root]
-----------------------------------------------------------------------------
(* Save: what is staged is a whole file; only the rename makes it visible. *)

\* Give up before the rename: the temporary file is removed, unless that fails too.
Withdraw(c, answer) ==
  /\ Reply(c, answer)
  /\ \/ staged' = staged \ {c} /\ UNCHANGED failed
     \/ c \in staged /\ staged' = staged /\ failed' = TRUE

Target(c, next) ==
  /\ IF InRoot(c).safe THEN Continue(c, next) /\ UNCHANGED <<staged, failed>> ELSE Withdraw(c, "unsafe")
  /\ UNCHANGED <<parent, files>>

CheckTarget(c) == Doing(c, "target") /\ Target(c, "stage")

\* createRootTemporary, Chmod, Write, Sync and Close, and the look at the context after them.
Stage(c) ==
  /\ Doing(c, "stage")
  /\ \/ ~requests[c].canceled /\ Continue(c, "reparent") /\ staged' = staged \cup {c} /\ UNCHANGED failed
     \/ requests[c].canceled /\ Reply(c, "canceled") /\ UNCHANGED <<staged, failed>>
     \/ Fail(c, "write_failed") /\ staged' \in {staged, staged \cup {c}}
  /\ UNCHANGED <<parent, files>>

RecheckParent(c) ==
  /\ Doing(c, "reparent")
  /\ IF parent = requests[c].root THEN Continue(c, "retarget") /\ UNCHANGED <<staged, failed>>
     ELSE Withdraw(c, "unsafe")
  /\ UNCHANGED <<parent, files>>

RecheckTarget(c) == Doing(c, "retarget") /\ Target(c, "rename")

Rename(c) ==
  /\ Doing(c, "rename")
  /\ \/ /\ files' = [files EXCEPT ![requests[c].root] = File(c, requests[c].setting, TRUE)]
        /\ Continue(c, "verify") /\ staged' = staged \ {c} /\ UNCHANGED failed
     \/ Reply(c, "rename_failed") /\ failed' = TRUE /\ staged' \in {staged, staged \ {c}} /\ UNCHANGED files
  /\ UNCHANGED parent

\* Mutant: the context is consulted again after the rename.
VerifyUnlessCanceled(c) ==
  /\ Doing(c, "verify")
  /\ IF InRoot(c).inode = c /\ InRoot(c).safe /\ ~requests[c].canceled
     THEN Continue(c, "sync") ELSE Reply(c, "unsafe")
  /\ UNCHANGED <<parent, files, staged, failed>>

\* validateTemporary: inode, mode and size of what the rename put there.  Other content may be of the same size.
Verify(c) ==
  /\ Doing(c, "verify")
  /\ \/ InRoot(c).inode = c /\ InRoot(c).safe /\ Continue(c, "sync")
     \/ (InRoot(c).inode = c /\ InRoot(c).safe => InRoot(c).content # requests[c].setting) /\ Reply(c, "unsafe")
  /\ UNCHANGED <<parent, files, staged, failed>>

SyncDirectory(c) ==
  /\ Doing(c, "sync")
  /\ \/ Continue(c, "last parent") /\ UNCHANGED failed
     \/ Fail(c, "sync_failed")
  /\ UNCHANGED <<parent, files, staged>>
-----------------------------------------------------------------------------
(* Load.                                                                    *)

\* The first look, and the open that follows it, as one view of the directory each.
Look(c) ==
  /\ Doing(c, "look")
  /\ IF InRoot(c) = NoFile THEN Reply(c, "missing")
     ELSE IF ~InRoot(c).safe THEN Reply(c, "unsafe")
     ELSE requests' = [requests EXCEPT ![c].step = "open file", ![c].opened = InRoot(c)]
  /\ UNCHANGED <<parent, files, staged, failed>>

OpenFile(c) ==
  /\ Doing(c, "open file")
  /\ IF InRoot(c).inode = requests[c].opened.inode THEN Continue(c, "compare") ELSE Reply(c, "unsafe")
  /\ UNCHANGED <<parent, files, staged, failed>>

Compare(c) ==
  /\ Doing(c, "compare")
  /\ IF InRoot(c).inode = requests[c].opened.inode /\ InRoot(c).safe THEN Continue(c, "decode") ELSE Reply(c, "unsafe")
  /\ UNCHANGED <<parent, files, staged, failed>>

\* The open file is read, whatever stands at the path by now.
Decode(c) ==
  /\ Doing(c, "decode")
  /\ LET content == IF InRoot(c).inode = requests[c].opened.inode THEN InRoot(c).content ELSE requests[c].opened.content
     IN  IF content = Garbage THEN Reply(c, "invalid")
         ELSE IF requests[c].canceled THEN Reply(c, "canceled")
         ELSE requests' = [requests EXCEPT ![c].step = "last parent", ![c].setting = content]
  /\ UNCHANGED <<parent, files, staged, failed>>
-----------------------------------------------------------------------------
(* Both end alike: the parent once more, then the full path.                *)

\* Mutant: what was read or renamed through the open directory is believed.
LastParentTrusting(c) ==
  /\ Doing(c, "last parent")
  /\ Reply(c, IF requests[c].operation = "save" THEN "saved" ELSE "loaded")
  /\ UNCHANGED <<parent, files, staged, failed>>

LastParent(c) ==
  /\ Doing(c, "last parent")
  /\ IF parent = requests[c].root THEN Continue(c, "last path") ELSE Reply(c, "unsafe")
  /\ UNCHANGED <<parent, files, staged, failed>>

Wanted(c) == IF requests[c].operation = "save" THEN c ELSE requests[c].opened.inode

LastPath(c) ==
  /\ Doing(c, "last path")
  /\ IF AtPath.inode = Wanted(c) /\ AtPath.safe
     THEN Reply(c, IF requests[c].operation = "save" THEN "saved" ELSE "loaded")
     ELSE Reply(c, "unsafe")
  /\ UNCHANGED <<parent, files, staged, failed>>

CallerStep(c) ==
  \/ InspectParent(c) \/ OpenRoot(c)
  \/ CheckTarget(c) \/ Stage(c) \/ RecheckParent(c) \/ RecheckTarget(c) \/ Rename(c) \/ Verify(c) \/ SyncDirectory(c)
  \/ Look(c) \/ OpenFile(c) \/ Compare(c) \/ Decode(c)
  \/ LastParent(c) \/ LastPath(c)
-----------------------------------------------------------------------------
(* The surroundings.                                                        *)

Running(c) == ~Doing(c, "idle") /\ ~Doing(c, "done")

CancelCaller(c) ==
  /\ Running(c) /\ ~requests[c].canceled
  /\ requests' = [requests EXCEPT ![c].canceled = TRUE]
  /\ UNCHANGED <<parent, files, staged, failed>>

KillCaller(c) == Running(c) /\ Reply(c, "killed") /\ UNCHANGED <<parent, files, staged, failed>>

SwapParent == parent' \in (Directories \cup {Nowhere, Unsafe}) \ {parent} /\ UNCHANGED <<files, requests, staged, failed>>

DamageFile ==
  /\ AtPath # NoFile
  /\ \E damaged \in {NoFile, [AtPath EXCEPT !.safe = FALSE], [AtPath EXCEPT !.content = Garbage]} :
       files' = [files EXCEPT ![parent] = damaged]
  /\ UNCHANGED <<parent, requests, staged, failed>>

Trouble == SwapParent \/ DamageFile \/ \E c \in Callers : KillCaller(c)

\* What stands at the path after a step belongs to what every running call was shown.
Watch ==
  shown' = [c \in Callers |-> IF requests'[c].step = "idle" THEN {}
                              ELSE IF Doing(c, "done") THEN shown[c]
                              ELSE shown[c] \cup {AtPath.content, AtPath'.content}]

ConfigInit ==
  /\ parent = Home
  /\ files \in {[d \in Directories |-> IF d = Home THEN f ELSE NoFile] : f \in {NoFile} \cup
                  {File(Original, s, TRUE) : s \in Settings \cup {Garbage}}}
  /\ requests = [c \in Callers |-> Idle]
  /\ staged = {}
  /\ shown = [c \in Callers |-> {}]
  /\ troubles = 0
  /\ failed = FALSE

ConfigNext ==
  /\ \/ /\ \E c \in Callers : (\E s \in Settings : BeginSave(c, s)) \/ BeginLoad(c) \/ CallerStep(c) \/ CancelCaller(c)
        /\ UNCHANGED troubles
     \/ troubles < MaxTroubles /\ Trouble /\ troubles' = troubles + 1
  /\ Watch

ConfigSpec == ConfigInit /\ [][ConfigNext]_configVars
-----------------------------------------------------------------------------
(* Properties.                                                              *)

\* A load reports settings, or their absence, that stood at the path at some moment of that load, never
\* what a Save put into a directory that was not the store's at the time (Load of authconfigfile).
LoadedWasCurrent ==
  \A c \in Callers : requests[c].operation = "load" =>
    /\ requests[c].answer = "loaded" => requests[c].setting \in shown[c]
    /\ requests[c].answer = "missing" => Nothing \in shown[c]

\* Saves race without a lock and the last rename wins, but its caller always learns that: when all calls have
\* returned undisturbed, the settings in force are those of a Save that was reported done (Save of authconfigfile).
WinnerKnows ==
  (troubles = 0 /\ ~failed /\ \A c \in Callers : ~Running(c)) =>
    /\ staged = {}
    /\ \A c \in Callers : AtPath.inode = c => requests[c].answer = "saved"
=============================================================================
