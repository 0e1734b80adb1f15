---------------------------- MODULE ServicesProofs ----------------------------
(***************************************************************************)
(* Theorems about the gate (AuthGate), the settings file (AuthConfig) and   *)
(* the paged read (PageDrain), for any methods, callers, settings, pages    *)
(* and budgets, alone and as Services composes them.                        *)
(***************************************************************************)
EXTENDS Services, NaturalSets

----------------------------------------------------------------------------
(* Services lets one of its parts run, which then takes its own steps.      *)

LEMMA ServicesCompose == ServicesSpec => ConfigSpec /\ GateSpec /\ DrainSpec
<1>1. ServicesInit => ConfigInit /\ GateInit /\ DrainInit
  BY DEF ServicesInit
<1>2. [ServicesNext]_servicesVars => [ConfigNext]_configVars /\ [GateNext]_gateVars /\ [DrainNext]_drainVars
  BY DEF ServicesNext, servicesVars
<1> QED
  BY <1>1, <1>2, PTL DEF ServicesSpec, ConfigSpec, GateSpec, DrainSpec

----------------------------------------------------------------------------
(* The gate.                                                                *)

GateAnswers == PreActionFaults \cup {"none", "authentication_canceled", "action_fault",
                                      "unclassified_authenticated_action_error"}

GateType ==
  /\ gate \in [step : {"idle", "authenticate", "validate", "act", "acted", "done"}, snapshot : Requirements,
               session : Sessions \cup {NoSession}, stale : BOOLEAN, answer : GateAnswers]
  /\ declared \in Requirements
  /\ late \in BOOLEAN

Authorized(session) ==
  /\ session.valid
  /\ session.method \in gate.snapshot.methods
  /\ gate.snapshot.account \in {AnyAccount, session.account}
  /\ gate.snapshot.capabilities \subseteq session.granted
  /\ session.expires => ~gate.stale

(* A session that reached the action satisfied the snapshot, and the answer *)
(* says whether there was an action; what is stale now stays expired.       *)
GateInv ==
  /\ GateType
  /\ gate.step \in {"idle", "authenticate", "validate", "act"} => acted = <<>>
  /\ gate.step # "done" => gate.answer = "none"
  /\ gate.step = "validate" /\ gate.stale => late
  /\ gate.step = "act" => Authorized(gate.session)
  /\ gate.step = "acted" => acted # <<>>
  /\ acted = <<>> \/ (acted = <<gate.session>> /\ Authorized(gate.session))
  /\ gate.step = "done" => /\ gate.answer \in PreActionFaults => acted = <<>>
                           /\ gate.answer = "none" => acted # <<>>

LEMMA GateInitKeeps == GateInit => GateInv
<1> SUFFICES ASSUME GateInit PROVE GateInv
  OBVIOUS
<1>1. GateType
  BY DEF GateInit, GateType, GateAnswers
<1>2. gate.step = "idle" /\ gate.answer = "none" /\ acted = <<>>
  BY DEF GateInit
<1> QED
  BY <1>1, <1>2 DEF GateInv, Authorized

(* Before the action, a step that answers nothing. *)
LEMMA AskKeeps ==
  ASSUME GateInv, acted = <<>>, acted' = acted, GateType',
         gate'.answer = gate.answer, gate.step # "done", gate'.step \in {"authenticate", "validate"},
         gate'.step = "validate" /\ gate'.stale => late'
  PROVE  GateInv'
BY DEF GateInv, Authorized

(* A refusal before the action. *)
LEMMA RefuseKeeps ==
  ASSUME GateInv, NEW code \in GateAnswers, code # "none", Refuse(code),
         acted = <<>> \/ code \notin PreActionFaults,
         UNCHANGED <<declared, acted, late>>
  PROVE  GateInv'
<1>1. /\ gate'.step = "done" /\ gate'.answer = code /\ gate'.snapshot = gate.snapshot
      /\ gate'.session = gate.session /\ gate'.stale = gate.stale /\ GateType'
  BY DEF Refuse, GateInv, GateType
<1> QED
  BY <1>1 DEF GateInv, Authorized

LEMMA GateKeeps == GateInv /\ [GateNext]_gateVars => GateInv'
<1> SUFFICES ASSUME GateInv, [GateNext]_gateVars PROVE GateInv'
  OBVIOUS
<1>1. CASE Invoke
  <2>1. CASE Refuse("invalid_authentication_requirement")
    BY <1>1, <2>1, RefuseKeeps DEF Invoke, GateInv, Gating, GateAnswers, PreActionFaults
  <2>2. CASE gate' = [gate EXCEPT !.step = "authenticate", !.snapshot = declared]
    <3>1. GateType' /\ gate'.answer = gate.answer /\ gate'.step = "authenticate"
      BY <1>1, <2>2 DEF Invoke, GateInv, GateType
    <3> QED
      BY <1>1, <3>1, AskKeeps DEF Invoke, Gating, GateInv
  <2> QED
    BY <1>1, <2>1, <2>2 DEF Invoke
<1>2. CASE Authenticate
  <2>1. ASSUME NEW code \in {"authentication_canceled", "missing_authenticator", "authentication_failed",
                             "service_fault"}, Refuse(code)
        PROVE  GateInv'
    BY <1>2, <2>1, RefuseKeeps DEF Authenticate, GateInv, Gating, GateAnswers, PreActionFaults
  <2>2. ASSUME NEW s \in Sessions, gate' = [gate EXCEPT !.step = "validate", !.session = s, !.stale = late]
        PROVE  GateInv'
    <3>1. GateType' /\ gate'.answer = gate.answer /\ gate'.step = "validate" /\ gate'.stale = late /\ late' = late
      BY <1>2, <2>2 DEF Authenticate, GateInv, GateType
    <3> QED
      BY <1>2, <3>1, AskKeeps DEF Authenticate, Gating, GateInv
  <2> QED
    BY <1>2, <2>1, <2>2 DEF Authenticate
<1>3. CASE Validate
  <2>1. acted = <<>> /\ UNCHANGED <<declared, acted, late>>
    BY <1>3 DEF Validate, Gating, GateInv
  <2>2. CASE Refuse("authentication_canceled") \/ Refuse("invalid_authentication_session")
    BY <2>1, <2>2, RefuseKeeps DEF GateAnswers, PreActionFaults
  <2>3. CASE Mismatch(gate.snapshot, gate.session) # "none" /\ Refuse(Mismatch(gate.snapshot, gate.session))
    <3>1. Mismatch(gate.snapshot, gate.session) \in GateAnswers
      BY DEF Mismatch, GateAnswers, PreActionFaults
    <3> QED
      BY <2>1, <2>3, <3>1, RefuseKeeps
  <2>4. CASE Mismatch(gate.snapshot, gate.session) = "none" /\ gate.session.valid /\ Pass("act")
    <3>1. Authorized(gate.session)
      BY <1>3, <2>4 DEF Validate, Gating, GateInv, Mismatch, Authorized
    <3>2. gate' = [gate EXCEPT !.step = "act"]
      BY <2>4 DEF Pass
    <3>3. gate'.step = "act" /\ gate'.session = gate.session /\ gate'.snapshot = gate.snapshot
          /\ gate'.stale = gate.stale /\ gate'.answer = gate.answer /\ GateType'
      BY <2>1, <3>2 DEF GateInv, GateType
    <3> QED
      BY <1>3, <2>1, <3>1, <3>3 DEF Validate, Gating, GateInv, Authorized
  <2> QED
    BY <1>3, <2>2, <2>3, <2>4 DEF Validate
<1>4. CASE Act
  <2>1. CASE Refuse("authentication_canceled") /\ UNCHANGED acted
    BY <1>4, <2>1, RefuseKeeps DEF Act, Gating, GateInv, GateAnswers, PreActionFaults
  <2>2. CASE acted' = Append(acted, gate.session) /\ Pass("acted")
    <3>1. acted = <<>> /\ Authorized(gate.session) /\ gate.answer = "none"
      BY <1>4 DEF Act, Gating, GateInv
    <3>2. acted' = <<gate.session>>
      BY <2>2, <3>1
    <3>3. gate'.step = "acted" /\ gate'.session = gate.session /\ gate'.snapshot = gate.snapshot
          /\ gate'.stale = gate.stale /\ gate'.answer = gate.answer /\ GateType'
      BY <1>4, <2>2 DEF Act, Pass, GateInv, GateType
    <3> QED
      BY <3>1, <3>2, <3>3 DEF GateInv, Authorized
  <2> QED
    BY <1>4, <2>1, <2>2 DEF Act
<1>5. CASE AfterAction
  <2>1. gate.step = "acted" /\ acted # <<>> /\ UNCHANGED <<declared, acted, late>>
    BY <1>5 DEF AfterAction, Gating, GateInv
  <2>2. CASE Refuse("none")
    BY <2>1, <2>2 DEF Refuse, GateInv, GateType, GateAnswers, Authorized, PreActionFaults
  <2>3. CASE Refuse("action_fault") \/ Refuse("authentication_canceled")
             \/ Refuse("unclassified_authenticated_action_error")
    BY <2>1, <2>3, RefuseKeeps DEF GateAnswers, PreActionFaults
  <2> QED
    BY <1>5, <2>2, <2>3 DEF AfterAction
<1>6. CASE Redeclare \/ Elapse \/ CancelGate \/ UNCHANGED gateVars
  <2>1. gate' = gate /\ acted' = acted /\ declared' \in Requirements /\ (late' = late \/ late' = TRUE)
    BY <1>6 DEF Redeclare, Elapse, CancelGate, gateVars, GateInv, GateType
  <2>2. late' \in BOOLEAN /\ (late => late')
    <3>1. late \in BOOLEAN
      BY DEF GateInv, GateType
    <3>2. CASE late' = late
      BY <3>1, <3>2, Zenon
    <3>3. CASE late' = TRUE
      BY <3>3, Zenon
    <3> QED
      BY <2>1, <3>2, <3>3, Zenon
  <2>3. GateType'
    BY <2>1, <2>2 DEF GateInv, GateType
  <2> QED
    BY <2>1, <2>2, <2>3 DEF GateInv, Authorized
<1> QED
  BY <1>1, <1>2, <1>3, <1>4, <1>5, <1>6 DEF GateNext, GateStep

(* The action runs at most once, with a session that satisfies the snapshot *)
(* the gate took of the requirement, and the answer tells whether it ran    *)
(* (Invoke of app/authn), whatever sessions the authenticator returns.      *)
THEOREM ActionsAreAuthorized == ServicesSpec => []ActionIsAuthorized
<1>1. GateInv => ActionIsAuthorized
  <2> SUFFICES ASSUME GateInv PROVE ActionIsAuthorized
    OBVIOUS
  <2>1. CASE acted = <<>>
    <3>1. Len(acted) = 0 /\ DOMAIN acted = {}
      BY <2>1
    <3> QED
      BY <2>1, <3>1 DEF ActionIsAuthorized, GateInv, Gating
  <2>2. CASE acted = <<gate.session>> /\ Authorized(gate.session)
    <3>1. Len(acted) = 1 /\ DOMAIN acted = {1} /\ acted[1] = gate.session /\ acted # <<>>
      BY <2>2
    <3>2. gate.answer \notin PreActionFaults
      BY <3>1 DEF GateInv, PreActionFaults
    <3> QED
      BY <2>2, <3>1, <3>2 DEF ActionIsAuthorized, Authorized
  <2> QED
    BY <2>1, <2>2 DEF GateInv
<1> QED
  BY <1>1, GateInitKeeps, GateKeeps, ServicesCompose, PTL DEF GateSpec

----------------------------------------------------------------------------
(* The settings file.                                                       *)

SettingContents == Settings \cup {Garbage, Nothing}
FileType == [inode : Callers \cup {Original, Nothing}, content : SettingContents, safe : BOOLEAN]

SaveSteps == {"target", "stage", "reparent", "retarget", "rename", "verify", "sync"}
LoadSteps == {"look", "open file", "compare", "decode"}
SharedSteps == {"parent", "open", "last parent", "last path"}
ConfigAnswers == {"none", "environment", "invalid", "canceled", "missing", "unsafe", "write_failed",
                  "rename_failed", "sync_failed", "saved", "loaded", "killed"}

RequestType ==
  [operation : {"none", "save", "load"}, step : SaveSteps \cup LoadSteps \cup SharedSteps \cup {"idle", "done"},
   setting : SettingContents, root : Directories \cup {Nowhere}, opened : FileType,
   canceled : BOOLEAN, answer : ConfigAnswers]

ConfigType ==
  /\ parent \in Directories \cup {Nowhere, Unsafe}
  /\ files \in [Directories -> FileType]
  /\ requests \in [Callers -> RequestType]
  /\ staged \subseteq Callers
  /\ shown \in [Callers -> SUBSET SettingContents]
  /\ troubles \in Nat /\ failed \in BOOLEAN

(* The caller's own file may stand under the store's name. *)
Placed(c) ==
  /\ requests[c].operation = "save"
  /\ requests[c].step \in {"verify", "sync", "last parent", "last path", "done"}

(* An inode has one name, and that of a caller exists after its rename only. *)
Inodes ==
  /\ \A d \in Directories : files[d].inode = Nothing => files[d] = NoFile
  /\ \A d, e \in Directories : files[d].inode = files[e].inode /\ files[d].inode # Nothing => d = e
  /\ \A d \in Directories, c \in Callers : files[d].inode = c => Placed(c)
  /\ \A l, c \in Callers : requests[l].opened.inode = c => Placed(c)

(* Which call is at which step, and that it opened a directory. *)
Progress(r) ==
  /\ r.step = "idle" => r.operation = "none"
  /\ r.step \in SaveSteps => r.operation = "save"
  /\ r.step \in LoadSteps => r.operation = "load"
  /\ r.step \in SharedSteps => r.operation \in {"save", "load"}
  /\ r.step \in (SaveSteps \cup LoadSteps \cup SharedSteps) \ {"parent"} => r.root \in Directories
  /\ r.step # "done" => r.answer = "none"

Holds(r) == r.step \in {"open file", "compare", "decode", "last parent", "last path"}

(* What a load was shown: the absence it will report, and what the file it   *)
(* opened held, if that was damaged since.                                  *)
Shown(c, r, seen, held) ==
  r.operation = "load" =>
    /\ r.step \in {"open", "look"} => (held[r.root] = NoFile => Nothing \in seen)
    /\ Holds(r) =>
         /\ r.opened.inode # Nothing
         /\ \A d \in Directories : held[d].inode = r.opened.inode =>
              \/ held[d].content = r.opened.content
              \/ held[d].content = Garbage /\ r.opened.content \in seen
    /\ r.step \in {"last parent", "last path"} => r.setting = r.opened.content
    /\ r.answer = "loaded" => r.setting \in seen
    /\ r.answer = "missing" => Nothing \in seen

Loads == \A c \in Callers : Progress(requests[c]) /\ Shown(c, requests[c], shown[c], files)

(* Where the call of c is, and what is in force, while nobody interferes    *)
(* and nothing fails: whose file is in force will know it.                  *)
Settled(c, r, temporary, force) ==
  /\ r.step \notin {"idle", "parent", "done"} => r.root = Home
  /\ c \in temporary => r.step \in {"reparent", "retarget", "rename"}
  /\ force.inode = c =>
       /\ force.content = r.setting
       /\ r.step = "done" => r.answer = "saved"

Undisturbed ==
  troubles = 0 /\ ~failed =>
    /\ parent = Home /\ \A d \in Directories : files[d].safe
    /\ \A c \in Callers : Settled(c, requests[c], staged, files[Home])

ConfigInv == ConfigType /\ Inodes /\ Loads /\ Undisturbed

LEMMA AtPathType ==
  ASSUME ConfigType
  PROVE  AtPath \in FileType /\ AtPath.content \in SettingContents
BY DEF ConfigType, AtPath, FileType, NoFile, File, SettingContents

LEMMA AtPathTypeNext ==
  ASSUME parent' \in Directories \cup {Nowhere, Unsafe}, files' \in [Directories -> FileType]
  PROVE  AtPath' \in FileType /\ AtPath'.content \in SettingContents
BY DEF AtPath, FileType, NoFile, File, SettingContents

LEMMA ConfigInitKeeps == ConfigInit => ConfigInv
<1> SUFFICES ASSUME ConfigInit PROVE ConfigInv
  OBVIOUS
<1> USE ConfigAssumption
<1>1. PICK f \in {NoFile} \cup {File(Original, s, TRUE) : s \in Settings \cup {Garbage}} :
        files = [d \in Directories |-> IF d = Home THEN f ELSE NoFile]
  BY DEF ConfigInit
<1>2. /\ f \in FileType /\ f.safe /\ f.inode \in {Nothing, Original}
      /\ NoFile \in FileType /\ NoFile.safe /\ NoFile.inode = Nothing
      /\ f.inode = Nothing => f = NoFile
  <2>1. NoFile \in FileType /\ NoFile.safe /\ NoFile.inode = Nothing
    BY DEF FileType, NoFile, File, SettingContents
  <2>2. ASSUME NEW s \in Settings \cup {Garbage}, f = File(Original, s, TRUE)
        PROVE  f \in FileType /\ f.safe /\ f.inode = Original
    BY <2>2 DEF FileType, File, SettingContents
  <2> QED
    BY <2>1, <2>2
<1>3. Idle \in RequestType /\ Idle.step = "idle" /\ Idle.opened = NoFile /\ Idle.operation = "none" /\ Idle.answer = "none"
  BY <1>2 DEF Idle, RequestType, SettingContents, ConfigAnswers
<1>4. \A c \in Callers : requests[c] = Idle
  BY DEF ConfigInit
<1>5. ConfigType
  BY <1>1, <1>2, <1>3 DEF ConfigInit, ConfigType
<1>6. Inodes
  BY <1>1, <1>2, <1>3, <1>4 DEF Inodes
<1>7. Loads
  BY <1>3, <1>4 DEF Loads, Progress, Shown, Holds, SaveSteps, LoadSteps, SharedSteps
<1>8. Undisturbed
  BY <1>1, <1>2, <1>3, <1>4 DEF ConfigInit, Undisturbed, Settled
<1> QED
  BY <1>5, <1>6, <1>7, <1>8 DEF ConfigInv

(* What a running call was shown, and stands at the path, it has been shown. *)
LEMMA SeenGrows ==
  ASSUME ConfigInv, NEW c \in Callers, Watch, requests'[c].step # "idle"
  PROVE  /\ shown[c] \subseteq shown'[c]
         /\ requests[c].step # "done" => AtPath.content \in shown'[c] /\ AtPath'.content \in shown'[c]
BY DEF Watch, Doing

LEMMA ShownType ==
  ASSUME ConfigInv, Watch, parent' \in Directories \cup {Nowhere, Unsafe}, files' \in [Directories -> FileType]
  PROVE  shown' \in [Callers -> SUBSET SettingContents]
<1>1. AtPath.content \in SettingContents /\ AtPath'.content \in SettingContents
  BY AtPathType, AtPathTypeNext DEF ConfigInv
<1> QED
  BY <1>1 DEF Watch, ConfigInv, ConfigType

(* What is true of a load remains true while the files do not change.       *)
LEMMA ShownKeeps ==
  ASSUME NEW c, NEW r, NEW seen, NEW more, NEW held, seen \subseteq more, Shown(c, r, seen, held)
  PROVE  Shown(c, r, more, held)
BY DEF Shown

LEMMA NoneBefore == ASSUME NEW m \in Nat, NEW n \in Nat, n >= m, n = 0 PROVE m = 0
OBVIOUS

(* A step of one call that changes no file.                                 *)
LEMMA RequestKeeps ==
  ASSUME ConfigInv, NEW c \in Callers, NEW r \in RequestType, requests' = [requests EXCEPT ![c] = r],
         UNCHANGED <<parent, files>>, Watch,
         staged' \subseteq staged \cup {c}, staged \ {c} \subseteq staged',
         failed' \in BOOLEAN, failed => failed', troubles' \in Nat, troubles' >= troubles,
         Placed(c) => r.operation = "save" /\ r.step \in {"verify", "sync", "last parent", "last path", "done"},
         r.opened = requests[c].opened \/ r.opened = NoFile \/ (\E d \in Directories : r.opened = files[d]),
         Progress(r), Shown(c, r, shown'[c], files),
         troubles' = 0 /\ ~failed' => Settled(c, r, staged', files[Home])
  PROVE  ConfigInv'
<1> USE ConfigAssumption
<1>1. /\ requests \in [Callers -> RequestType] /\ requests'[c] = r
      /\ \A l \in Callers : l # c => requests'[l] = requests[l]
  BY DEF ConfigInv, ConfigType
<1>2. ConfigType'
  BY <1>1, ShownType DEF ConfigInv, ConfigType
<1>3. \A l \in Callers : Placed(l) => Placed(l)'
  BY <1>1 DEF Placed
<1>4. Inodes'
  <2>1. \A l, k \in Callers : requests'[l].opened.inode = k => Placed(k)
    <3> SUFFICES ASSUME NEW l \in Callers, NEW k \in Callers, requests'[l].opened.inode = k PROVE Placed(k)
      OBVIOUS
    <3>1. NoFile.inode # k
      BY DEF NoFile, File
    <3> QED
      BY <1>1, <3>1 DEF ConfigInv, Inodes
  <2> QED
    BY <1>3, <2>1 DEF ConfigInv, Inodes
<1>5. Loads'
  <2> SUFFICES ASSUME NEW l \in Callers PROVE Progress(requests'[l]) /\ Shown(l, requests'[l], shown'[l], files)
    BY DEF Loads
  <2>1. CASE l = c
    BY <1>1, <2>1
  <2>2. CASE l # c
    <3>1. requests'[l] = requests[l] /\ Progress(requests[l]) /\ Shown(l, requests[l], shown[l], files)
      BY <1>1, <2>2 DEF ConfigInv, Loads
    <3>2. CASE requests[l].step = "idle"
      BY <3>1, <3>2 DEF Progress, Shown
    <3>3. CASE requests[l].step # "idle"
      BY <3>1, <3>3, SeenGrows, ShownKeeps
    <3> QED
      BY <3>1, <3>2, <3>3
  <2> QED
    BY <2>1, <2>2
<1>6. Undisturbed'
  <2> SUFFICES ASSUME troubles' = 0, ~failed'
               PROVE  /\ parent = Home /\ \A d \in Directories : files[d].safe
                      /\ \A l \in Callers : Settled(l, requests'[l], staged', files[Home])
    BY DEF Undisturbed
  <2>1. troubles = 0 /\ ~failed
    <3>1. troubles \in Nat
      BY DEF ConfigInv, ConfigType
    <3>2. troubles = 0
      BY <3>1, NoneBefore
    <3>3. ~failed
      BY Zenon
    <3> QED
      BY <3>2, <3>3
  <2>2. ASSUME NEW l \in Callers, l # c PROVE Settled(l, requests'[l], staged', files[Home])
    BY <1>1, <2>1, <2>2 DEF ConfigInv, Undisturbed, Settled
  <2> QED
    BY <1>1, <2>1, <2>2 DEF ConfigInv, Undisturbed
<1> QED
  BY <1>2, <1>4, <1>5, <1>6 DEF ConfigInv

(* What Continue and Reply make of a request. *)
LEMMA ContinueIs ==
  ASSUME ConfigType, NEW c \in Callers, NEW next \in SaveSteps \cup LoadSteps \cup SharedSteps, Continue(c, next)
  PROVE  \E r \in RequestType :
           /\ requests' = [requests EXCEPT ![c] = r] /\ r.step = next
           /\ \A f \in {"operation", "setting", "root", "opened", "canceled", "answer"} : r[f] = requests[c][f]
<1> DEFINE r == [requests[c] EXCEPT !.step = next]
<1>1. requests[c] \in RequestType /\ requests' = [requests EXCEPT ![c] = r]
  BY DEF ConfigType, Continue
<1>2. r \in RequestType
  BY <1>1 DEF RequestType
<1> QED
  BY <1>1, <1>2 DEF RequestType

LEMMA ReplyIs ==
  ASSUME ConfigType, NEW c \in Callers, NEW answer \in ConfigAnswers, Reply(c, answer)
  PROVE  \E r \in RequestType :
           /\ requests' = [requests EXCEPT ![c] = r] /\ r.step = "done" /\ r.answer = answer
           /\ \A f \in {"operation", "setting", "root", "opened", "canceled"} : r[f] = requests[c][f]
<1> DEFINE r == [requests[c] EXCEPT !.step = "done", !.answer = answer]
<1>1. requests[c] \in RequestType /\ requests' = [requests EXCEPT ![c] = r]
  BY DEF ConfigType, Reply
<1>2. r \in RequestType
  BY <1>1 DEF RequestType
<1> QED
  BY <1>1, <1>2 DEF RequestType

(* The call of c goes on, nothing else happens to it but that its temporary *)
(* file may come or go, or a system call fail.                              *)
Beside(c) ==
  /\ UNCHANGED <<parent, files>> /\ Watch
  /\ staged' \subseteq staged \cup {c} /\ staged \ {c} \subseteq staged'
  /\ failed' \in BOOLEAN /\ (failed => failed')
  /\ troubles' \in Nat /\ troubles' >= troubles

(* An answer: a load may say what it was shown, and while nobody interferes *)
(* only the caller whose file is in force says that it saved.               *)
LEMMA ReplyKeeps ==
  ASSUME ConfigInv, NEW c \in Callers, NEW answer \in ConfigAnswers, Reply(c, answer), Beside(c),
         requests[c].step \notin {"idle", "done"},
         requests[c].operation = "load" /\ answer = "loaded" => requests[c].setting \in shown'[c],
         requests[c].operation = "load" /\ answer = "missing" => Nothing \in shown'[c],
         troubles' = 0 /\ ~failed' => c \notin staged' /\ (files[Home].inode = c => answer = "saved")
  PROVE  ConfigInv'
<1>1. PICK r \in RequestType :
        /\ requests' = [requests EXCEPT ![c] = r] /\ r.step = "done" /\ r.answer = answer
        /\ \A f \in {"operation", "setting", "root", "opened", "canceled"} : r[f] = requests[c][f]
  BY ReplyIs DEF ConfigInv
<1>2. /\ r.operation = requests[c].operation /\ r.setting = requests[c].setting
      /\ r.opened = requests[c].opened
  BY <1>1
<1>3. Progress(r) /\ Shown(c, r, shown'[c], files)
  BY <1>1, <1>2 DEF Progress, Shown, Holds, SaveSteps, LoadSteps, SharedSteps
<1>4. troubles' = 0 /\ ~failed' => Settled(c, r, staged', files[Home])
  <2> SUFFICES ASSUME troubles' = 0, ~failed' PROVE Settled(c, r, staged', files[Home])
    OBVIOUS
  <2>1. troubles = 0
    BY NoneBefore DEF Beside, ConfigInv, ConfigType
  <2>2. ~failed
    BY Zenon DEF Beside
  <2>3. Settled(c, requests[c], staged, files[Home])
    BY <2>1, <2>2 DEF ConfigInv, Undisturbed
  <2> QED
    BY <1>1, <1>2, <2>3 DEF Settled
<1>5. Placed(c) => r.operation = "save" /\ r.step \in {"verify", "sync", "last parent", "last path", "done"}
  BY <1>1, <1>2 DEF Placed
<1> QED
  BY <1>1, <1>2, <1>3, <1>4, <1>5, RequestKeeps DEF Beside

(* An answer other than success, of a call whose file cannot be in force.   *)
LEMMA RefusedKeeps ==
  ASSUME ConfigInv, NEW c \in Callers, NEW answer \in ConfigAnswers, Reply(c, answer), Beside(c),
         requests[c].step \notin {"idle", "done"}, ~Placed(c), answer # "loaded",
         requests[c].operation = "load" /\ answer = "missing" => Nothing \in shown'[c],
         troubles' = 0 /\ ~failed' => c \notin staged'
  PROVE  ConfigInv'
<1>1. files[Home].inode # c
  BY ConfigAssumption DEF ConfigInv, Inodes
<1> QED
  BY <1>1, ReplyKeeps

Follows(step, next) ==
  \/ step = "open" /\ next \in {"target", "look"}
  \/ step = "target" /\ next = "stage"
  \/ step = "stage" /\ next = "reparent"
  \/ step = "reparent" /\ next = "retarget"
  \/ step = "retarget" /\ next = "rename"
  \/ step = "verify" /\ next = "sync"
  \/ step = "sync" /\ next = "last parent"
  \/ step = "open file" /\ next = "compare"
  \/ step = "compare" /\ next = "decode"
  \/ step = "last parent" /\ next = "last path"

LEMMA ContinueKeeps ==
  ASSUME ConfigInv, NEW c \in Callers, NEW next \in SaveSteps \cup LoadSteps \cup SharedSteps,
         Continue(c, next), Beside(c), Follows(requests[c].step, next),
         next = "target" => requests[c].operation = "save",
         next = "look" => requests[c].operation = "load",
         c \in staged' => c \in staged \/ next = "reparent"
  PROVE  ConfigInv'
<1>1. PICK r \in RequestType :
        /\ requests' = [requests EXCEPT ![c] = r] /\ r.step = next
        /\ \A f \in {"operation", "setting", "root", "opened", "canceled", "answer"} : r[f] = requests[c][f]
  BY ContinueIs DEF ConfigInv
<1>2. /\ r.operation = requests[c].operation /\ r.setting = requests[c].setting /\ r.root = requests[c].root
      /\ r.opened = requests[c].opened /\ r.answer = requests[c].answer
  BY <1>1
<1>3. Progress(requests[c]) /\ Shown(c, requests[c], shown[c], files)
  BY DEF ConfigInv, Loads
<1>4. shown[c] \subseteq shown'[c]
  <2>1. requests'[c].step = next /\ next # "idle"
    BY <1>1 DEF SaveSteps, LoadSteps, SharedSteps, ConfigInv, ConfigType
  <2> QED
    BY <2>1, SeenGrows DEF Beside
<1>5. Progress(r)
  BY <1>1, <1>2, <1>3 DEF Progress, Follows, SaveSteps, LoadSteps, SharedSteps
<1>6. Shown(c, r, shown[c], files)
  BY <1>1, <1>2, <1>3 DEF Progress, Shown, Holds, Follows, SaveSteps, LoadSteps, SharedSteps
<1>7. Shown(c, r, shown'[c], files)
  BY <1>4, <1>6, ShownKeeps
<1>8. troubles' = 0 /\ ~failed' => Settled(c, r, staged', files[Home])
  <2> SUFFICES ASSUME troubles' = 0, ~failed' PROVE Settled(c, r, staged', files[Home])
    OBVIOUS
  <2>1. troubles = 0
    BY NoneBefore DEF Beside, ConfigInv, ConfigType
  <2>2. ~failed
    BY Zenon DEF Beside
  <2>3. Settled(c, requests[c], staged, files[Home])
    BY <2>1, <2>2 DEF ConfigInv, Undisturbed
  <2> QED
    BY <1>1, <1>2, <2>3 DEF Settled, Follows
<1>9. Placed(c) => r.operation = "save" /\ r.step \in {"verify", "sync", "last parent", "last path", "done"}
  BY <1>1, <1>2 DEF Placed, Follows
<1>10. next # "idle" /\ r.opened = requests[c].opened
  BY <1>2 DEF SaveSteps, LoadSteps, SharedSteps
<1> QED
  BY <1>1, <1>5, <1>7, <1>8, <1>9, <1>10, RequestKeeps DEF Beside

(* What leaves the files and the other calls alone. *)
LEMMA AloneBeside ==
  ASSUME ConfigInv, NEW c \in Callers, UNCHANGED <<parent, files, troubles>>, Watch,
         staged' \in {staged, staged \cup {c}, staged \ {c}}, failed' = failed \/ failed' = TRUE
  PROVE  Beside(c)
<1>1. failed' \in BOOLEAN
  BY DEF ConfigInv, ConfigType
<1>2. failed => failed'
  BY Zenon
<1>3. troubles' \in Nat /\ troubles' >= troubles
  <2>1. troubles \in Nat /\ troubles >= troubles
    BY DEF ConfigInv, ConfigType
  <2> QED
    BY <2>1
<1>4. staged' \subseteq staged \cup {c} /\ staged \ {c} \subseteq staged'
  OBVIOUS
<1> QED
  BY <1>1, <1>2, <1>3, <1>4, Zenon DEF Beside

LEMMA BeginKeeps ==
  ASSUME ConfigInv, NEW c \in Callers, (\E s \in Settings : BeginSave(c, s)) \/ BeginLoad(c), UNCHANGED troubles, Watch
  PROVE  ConfigInv'
<1> USE ConfigAssumption
<1>1. requests[c].step = "idle" /\ UNCHANGED <<parent, files, staged, failed>>
  BY DEF BeginSave, BeginLoad, Doing
<1>2. ~Placed(c) /\ files[Home].inode # c
  BY <1>1 DEF ConfigInv, Inodes, Placed
<1>3. troubles = 0 /\ ~failed => c \notin staged
  BY <1>1 DEF ConfigInv, Undisturbed, Settled
<1>4. Idle \in RequestType /\ Idle.opened = NoFile /\ Idle.answer = "none"
  BY DEF Idle, RequestType, SettingContents, ConfigAnswers, NoFile, File, FileType
<1>5. ASSUME NEW r \in RequestType, requests' = [requests EXCEPT ![c] = r], r.opened = NoFile,
             \/ r.step = "parent" /\ r.operation \in {"save", "load"} /\ r.answer = "none"
             \/ r.step = "done" /\ r.operation = "load" /\ r.answer \in {"environment", "invalid"}
      PROVE  ConfigInv'
  <2>1. Progress(r) /\ Shown(c, r, shown'[c], files)
    BY <1>5 DEF Progress, Shown, Holds, SaveSteps, LoadSteps, SharedSteps
  <2>2. troubles = 0 /\ ~failed => Settled(c, r, staged, files[Home])
    BY <1>2, <1>3, <1>5 DEF Settled
  <2>3. Beside(c)
    BY <1>1, AloneBeside
  <2> QED
    BY <1>1, <1>2, <1>5, <2>1, <2>2, <2>3, RequestKeeps DEF Beside
<1>6. ASSUME NEW s \in Settings, BeginSave(c, s) PROVE ConfigInv'
  <2> DEFINE r == [Idle EXCEPT !.operation = "save", !.step = "parent", !.setting = s]
  <2>1. r \in RequestType /\ r.step = "parent" /\ r.operation = "save" /\ r.answer = "none" /\ r.opened = NoFile
    BY <1>4 DEF RequestType, SharedSteps, SettingContents
  <2> QED
    BY <1>5, <1>6, <2>1 DEF BeginSave
<1>7. CASE BeginLoad(c)
  <2>1. CASE requests' = [requests EXCEPT ![c] = [Idle EXCEPT !.operation = "load", !.step = "parent"]]
    <3> DEFINE r == [Idle EXCEPT !.operation = "load", !.step = "parent"]
    <3>1. r \in RequestType /\ r.step = "parent" /\ r.operation = "load" /\ r.answer = "none" /\ r.opened = NoFile
      BY <1>4 DEF RequestType, SharedSteps
    <3> QED
      BY <1>5, <2>1, <3>1
  <2>2. ASSUME NEW answer \in {"environment", "invalid"},
               requests' = [requests EXCEPT ![c] = [Idle EXCEPT !.operation = "load", !.step = "done", !.answer = answer]]
        PROVE  ConfigInv'
    <3> DEFINE r == [Idle EXCEPT !.operation = "load", !.step = "done", !.answer = answer]
    <3>1. r \in RequestType /\ r.step = "done" /\ r.operation = "load" /\ r.answer = answer /\ r.opened = NoFile
      BY <1>4 DEF RequestType, ConfigAnswers
    <3> QED
      BY <1>5, <2>2, <3>1
  <2>3. PICK environment \in {"absent", "valid", "invalid"} :
          requests' = [requests EXCEPT ![c] =
            IF environment = "absent" THEN [Idle EXCEPT !.operation = "load", !.step = "parent"]
            ELSE [Idle EXCEPT !.operation = "load", !.step = "done",
                              !.answer = IF environment = "valid" THEN "environment" ELSE "invalid"]]
    BY <1>7 DEF BeginLoad
  <2> QED
    BY <2>1, <2>2, <2>3
<1> QED
  BY <1>6, <1>7

LEMMA InspectParentKeeps ==
  ASSUME ConfigInv, NEW c \in Callers, InspectParent(c), UNCHANGED troubles, Watch
  PROVE  ConfigInv'
<1> USE ConfigAssumption
<1>1. requests[c].step = "parent" /\ UNCHANGED <<parent, files, staged, failed>>
  BY DEF InspectParent, Doing
<1>2. Beside(c) /\ ~Placed(c)
  BY <1>1, AloneBeside DEF Placed
<1>3. troubles = 0 /\ ~failed => c \notin staged
  BY <1>1 DEF ConfigInv, Undisturbed, Settled
<1>4. ASSUME NEW answer \in {"canceled", "unsafe"}, Reply(c, answer) PROVE ConfigInv'
  BY <1>1, <1>2, <1>3, <1>4, RefusedKeeps DEF ConfigAnswers
<1>5. requests'[c].step # "idle" => AtPath.content \in shown'[c]
  BY <1>1, SeenGrows
<1>6. CASE parent = Nowhere /\ Reply(c, "missing")
  <2>1. requests'[c].step # "idle"
    BY <1>6 DEF Reply, ConfigInv, ConfigType
  <2>2. AtPath.content = Nothing
    BY <1>6 DEF AtPath, NoFile, File
  <2> QED
    BY <1>1, <1>2, <1>3, <1>5, <1>6, <2>1, <2>2, RefusedKeeps DEF ConfigAnswers
<1>7. CASE parent \notin {Nowhere, Unsafe} /\ requests' = [requests EXCEPT ![c].step = "open", ![c].root = parent]
  <2> DEFINE r == [requests[c] EXCEPT !.step = "open", !.root = parent]
  <2>1. requests[c] \in RequestType /\ requests' = [requests EXCEPT ![c] = r] /\ parent \in Directories
    BY <1>7 DEF ConfigInv, ConfigType
  <2>2. /\ r \in RequestType /\ r.step = "open" /\ r.root = parent /\ r.operation = requests[c].operation
        /\ r.answer = requests[c].answer /\ r.opened = requests[c].opened
    BY <2>1 DEF RequestType, SharedSteps
  <2>3. Progress(requests[c])
    BY DEF ConfigInv, Loads
  <2>4. Progress(r)
    BY <1>1, <2>1, <2>2, <2>3 DEF Progress, SaveSteps, LoadSteps, SharedSteps
  <2>5. files[parent] = NoFile => AtPath.content = Nothing
    BY <2>1 DEF AtPath, NoFile, File
  <2>6. requests'[c].step # "idle"
    BY <2>1, <2>2 DEF ConfigInv, ConfigType
  <2>7. Shown(c, r, shown'[c], files)
    BY <1>1, <1>5, <2>2, <2>3, <2>5, <2>6 DEF Shown, Holds, Progress, SharedSteps
  <2>8. troubles' = 0 /\ ~failed' => Settled(c, r, staged', files[Home])
    <3>1. files[Home].inode # c
      BY <1>2 DEF ConfigInv, Inodes
    <3> QED
      BY <1>1, <1>3, <2>2, <3>1 DEF Settled, ConfigInv, Undisturbed
  <2> QED
    BY <1>2, <2>1, <2>2, <2>4, <2>7, <2>8, RequestKeeps DEF Beside
<1> QED
  BY <1>4, <1>6, <1>7 DEF InspectParent

LEMMA OpenRootKeeps ==
  ASSUME ConfigInv, NEW c \in Callers, OpenRoot(c), UNCHANGED troubles, Watch
  PROVE  ConfigInv'
<1>1. requests[c].step = "open" /\ UNCHANGED <<parent, files, staged>>
  BY DEF OpenRoot, Doing
<1>2. Beside(c) /\ ~Placed(c)
  BY <1>1, AloneBeside DEF Placed, OpenRoot, Fail
<1>3. troubles = 0 /\ ~failed => c \notin staged
  BY <1>1 DEF ConfigInv, Undisturbed, Settled
<1>4. CASE Reply(c, "unsafe")
  <2>1. troubles' = 0 /\ ~failed' => troubles = 0 /\ ~failed
    BY Zenon DEF Beside, OpenRoot, Fail
  <2> QED
    BY <1>1, <1>2, <1>3, <1>4, <2>1, RefusedKeeps DEF ConfigAnswers
<1>5. CASE Continue(c, IF requests[c].operation = "save" THEN "target" ELSE "look")
  <2>1. requests[c].operation \in {"save", "load"}
    BY <1>1 DEF ConfigInv, Loads, Progress, SharedSteps
  <2> QED
    BY <1>1, <1>2, <1>5, <2>1, ContinueKeeps DEF Follows, SaveSteps, LoadSteps
<1> QED
  BY <1>4, <1>5 DEF OpenRoot, Fail

LEMMA WithdrawKeeps ==
  ASSUME ConfigInv, NEW c \in Callers, Withdraw(c, "unsafe"), requests[c].step \in {"target", "reparent", "retarget"},
         UNCHANGED <<parent, files, troubles>>, Watch
  PROVE  ConfigInv'
<1>1. Beside(c)
  BY AloneBeside DEF Withdraw
<1>2. ~Placed(c)
  BY DEF Placed
<1>3. troubles' = 0 /\ ~failed' => c \notin staged'
  BY Zenon DEF Withdraw
<1> QED
  BY <1>1, <1>2, <1>3, RefusedKeeps DEF Withdraw, ConfigAnswers

LEMMA BeforeRenameKeeps ==
  ASSUME ConfigInv, NEW c \in Callers, CheckTarget(c) \/ Stage(c) \/ RecheckParent(c) \/ RecheckTarget(c),
         UNCHANGED troubles, Watch
  PROVE  ConfigInv'
<1>1. UNCHANGED <<parent, files>>
  BY DEF CheckTarget, Stage, RecheckParent, RecheckTarget, Target
<1>2. ASSUME NEW next \in {"stage", "reparent", "retarget", "rename"}, Continue(c, next),
             Follows(requests[c].step, next), UNCHANGED failed,
             staged' = staged \/ (next = "reparent" /\ staged' = staged \cup {c})
      PROVE  ConfigInv'
  <2>1. Beside(c)
    BY <1>1, <1>2, AloneBeside
  <2> QED
    BY <1>2, <2>1, ContinueKeeps DEF SaveSteps
<1>3. CASE CheckTarget(c)
  BY <1>1, <1>2, <1>3, WithdrawKeeps DEF CheckTarget, Target, Doing, Follows
<1>4. CASE RecheckParent(c)
  BY <1>1, <1>2, <1>4, WithdrawKeeps DEF RecheckParent, Doing, Follows
<1>5. CASE RecheckTarget(c)
  BY <1>1, <1>2, <1>5, WithdrawKeeps DEF RecheckTarget, Target, Doing, Follows
<1>6. CASE Stage(c)
  <2>1. requests[c].step = "stage" /\ ~Placed(c)
    BY <1>6 DEF Stage, Doing, Placed
  <2>2. CASE Continue(c, "reparent") /\ staged' = staged \cup {c} /\ UNCHANGED failed
    BY <1>2, <2>1, <2>2 DEF Follows
  <2>3. CASE Reply(c, "canceled") /\ UNCHANGED <<staged, failed>>
    <3>1. troubles = 0 /\ ~failed => c \notin staged
      BY <2>1 DEF ConfigInv, Undisturbed, Settled
    <3>2. Beside(c)
      BY <1>1, <2>3, AloneBeside
    <3> QED
      BY <2>1, <2>3, <3>1, <3>2, RefusedKeeps DEF ConfigAnswers
  <2>4. CASE Fail(c, "write_failed") /\ staged' \in {staged, staged \cup {c}}
    <3>1. Beside(c)
      BY <1>1, <2>4, AloneBeside DEF Fail
    <3>2. Reply(c, "write_failed") /\ failed'
      BY <2>4, Zenon DEF Fail
    <3> QED
      BY <2>1, <3>1, <3>2, RefusedKeeps DEF ConfigAnswers
  <2> QED
    BY <1>6, <2>2, <2>3, <2>4 DEF Stage
<1> QED
  BY <1>3, <1>4, <1>5, <1>6

(* Of the file of c, if it is in force and nobody interfered, c knows.      *)
LEMMA InForce ==
  ASSUME ConfigInv, NEW c \in Callers, troubles = 0, ~failed, requests[c].step \notin {"idle", "parent", "done"}
  PROVE  /\ requests[c].root = Home /\ parent = Home /\ files[Home].safe /\ AtPath = files[Home]
         /\ files[Home].inode = c => files[Home].content = requests[c].setting
         /\ c \in staged => requests[c].step \in {"reparent", "retarget", "rename"}
BY ConfigAssumption DEF ConfigInv, Undisturbed, Settled, AtPath

LEMMA AfterRenameKeeps ==
  ASSUME ConfigInv, NEW c \in Callers, Verify(c) \/ SyncDirectory(c), UNCHANGED troubles, Watch
  PROVE  ConfigInv'
<1>1. /\ requests[c].step \in {"verify", "sync"} /\ UNCHANGED <<parent, files, staged>>
      /\ failed' = failed \/ failed' = TRUE
  BY DEF Verify, SyncDirectory, Doing, Fail
<1>2. Beside(c)
  BY <1>1, AloneBeside
<1>3. requests[c].operation = "save"
  BY <1>1 DEF ConfigInv, Loads, Progress, SaveSteps
<1>4. CASE Continue(c, "sync") /\ Verify(c)
  BY <1>1, <1>2, <1>4, ContinueKeeps DEF Verify, Doing, Follows, SaveSteps
<1>5. CASE Continue(c, "last parent") /\ SyncDirectory(c)
  BY <1>1, <1>2, <1>5, ContinueKeeps DEF SyncDirectory, Doing, Follows, SharedSteps
<1>6. CASE Fail(c, "sync_failed")
  <2>1. Reply(c, "sync_failed") /\ failed'
    BY <1>6, Zenon DEF Fail
  <2> QED
    BY <1>1, <1>2, <1>3, <2>1, ReplyKeeps DEF ConfigAnswers
<1>7. CASE /\ Verify(c) /\ Reply(c, "unsafe")
           /\ InRoot(c).inode = c /\ InRoot(c).safe => InRoot(c).content # requests[c].setting
  <2>1. troubles = 0 /\ ~failed => c \notin staged /\ files[Home].inode # c
    BY <1>1, <1>7, InForce DEF InRoot
  <2>2. troubles' = 0 /\ ~failed' => c \notin staged' /\ files[Home].inode # c
    BY <1>1, <1>7, <2>1 DEF Verify
  <2> QED
    BY <1>1, <1>2, <1>3, <1>7, <2>2, ReplyKeeps DEF ConfigAnswers
<1> QED
  BY <1>4, <1>5, <1>6, <1>7 DEF Verify, SyncDirectory

(* The rename puts a whole new file, which nobody can have opened yet, under *)
(* the store's name.                                                        *)
LEMMA FileRenameKeeps ==
  ASSUME ConfigInv, NEW c \in Callers, Rename(c), UNCHANGED troubles, Watch
  PROVE  ConfigInv'
<1> USE ConfigAssumption
<1>1. requests[c].step = "rename" /\ UNCHANGED parent /\ ~Placed(c)
  BY DEF Rename, Doing, Placed
<1>2. CASE Reply(c, "rename_failed") /\ failed' = TRUE /\ staged' \in {staged, staged \ {c}} /\ UNCHANGED files
  <2>1. Beside(c)
    BY <1>1, <1>2, AloneBeside
  <2>2. Reply(c, "rename_failed") /\ failed'
    BY <1>2, Zenon
  <2> QED
    BY <1>1, <2>1, <2>2, RefusedKeeps DEF ConfigAnswers
<1>3. CASE /\ files' = [files EXCEPT ![requests[c].root] = File(c, requests[c].setting, TRUE)]
           /\ Continue(c, "verify") /\ staged' = staged \ {c} /\ UNCHANGED failed
  <2> DEFINE root == requests[c].root
             new == File(c, requests[c].setting, TRUE)
  <2>1. PICK r \in RequestType :
          /\ requests' = [requests EXCEPT ![c] = r] /\ r.step = "verify"
          /\ \A f \in {"operation", "setting", "root", "opened", "canceled", "answer"} : r[f] = requests[c][f]
    BY <1>3, ContinueIs DEF ConfigInv, SaveSteps
  <2>2. /\ r.operation = "save" /\ r.setting = requests[c].setting /\ r.root = root
        /\ r.opened = requests[c].opened /\ r.answer = "none" /\ root \in Directories
    BY <1>1, <2>1 DEF ConfigInv, Loads, Progress, SaveSteps
  <2>3. /\ requests \in [Callers -> RequestType] /\ requests'[c] = r /\ requests' \in [Callers -> RequestType]
        /\ \A l \in Callers : l # c => requests'[l] = requests[l]
    BY <2>1 DEF ConfigInv, ConfigType
  <2>4. new \in FileType /\ new.inode = c /\ new.content = requests[c].setting /\ new.safe /\ new # NoFile
    BY <2>3 DEF File, FileType, NoFile, RequestType
  <2>5. /\ files' \in [Directories -> FileType] /\ files'[root] = new
        /\ \A d \in Directories : d # root => files'[d] = files[d]
    BY <1>3, <2>2, <2>4 DEF ConfigInv, ConfigType
  <2>6. ConfigType'
    BY <1>1, <1>3, <2>3, <2>5, ShownType DEF ConfigInv, ConfigType
  <2>7. (\A d \in Directories : files[d].inode # c) /\ (\A l \in Callers : requests[l].opened.inode # c)
    BY <1>1 DEF ConfigInv, Inodes
  <2>8. \A l \in Callers : Placed(l) => Placed(l)'
    BY <1>1, <2>3 DEF Placed
  <2>9. Placed(c)'
    BY <2>1, <2>2, <2>3 DEF Placed
  <2>10. Inodes'
    <3> new.inode # Nothing
      BY <2>4
    <3>1. ASSUME NEW d \in Directories, files'[d].inode = Nothing PROVE files'[d] = NoFile
      <4>1. d # root
        BY <2>5, <3>1
      <4> QED
        BY <2>5, <3>1, <4>1 DEF ConfigInv, Inodes
    <3>2. ASSUME NEW d \in Directories, NEW e \in Directories,
                 files'[d].inode = files'[e].inode, files'[d].inode # Nothing
          PROVE  d = e
      <4>1. CASE d = root \/ e = root
        <5>1. files'[d].inode = c /\ files'[e].inode = c
          BY <2>4, <2>5, <3>2, <4>1
        <5>2. \A a \in Directories : a # root => files'[a].inode # c
          BY <2>5, <2>7
        <5> QED
          BY <5>1, <5>2
      <4>2. CASE d # root /\ e # root
        BY <2>5, <3>2, <4>2 DEF ConfigInv, Inodes
      <4> QED
        BY <4>1, <4>2
    <3>3. ASSUME NEW d \in Directories, NEW l \in Callers, files'[d].inode = l PROVE Placed(l)'
      <4>1. CASE d = root
        BY <2>4, <2>5, <2>9, <3>3, <4>1
      <4>2. CASE d # root
        BY <2>5, <2>8, <3>3, <4>2 DEF ConfigInv, Inodes
      <4> QED
        BY <4>1, <4>2
    <3>4. \A l, k \in Callers : requests'[l].opened.inode = k => Placed(k)'
      BY <2>2, <2>3, <2>8 DEF ConfigInv, Inodes
    <3> QED
      BY <3>1, <3>2, <3>3, <3>4 DEF Inodes
  <2>11. Loads'
    <3> SUFFICES ASSUME NEW l \in Callers PROVE Progress(requests'[l]) /\ Shown(l, requests'[l], shown'[l], files')
      BY DEF Loads
    <3>1. CASE l = c
      <4>1. Progress(r)
        BY <2>1, <2>2 DEF Progress, SaveSteps, LoadSteps, SharedSteps
      <4> QED
        BY <2>2, <2>3, <3>1, <4>1 DEF Shown
    <3>2. CASE l # c
      <4>1. /\ requests'[l] = requests[l] /\ Progress(requests[l]) /\ Shown(l, requests[l], shown[l], files)
            /\ requests[l].opened.inode # c
        BY <2>3, <2>7, <3>2 DEF ConfigInv, Loads
      <4>2. CASE requests[l].step = "idle"
        BY <4>1, <4>2 DEF Progress, Shown
      <4>3. CASE requests[l].step # "idle"
        <5>1. Shown(l, requests[l], shown'[l], files)
          BY <4>1, <4>3, SeenGrows, ShownKeeps
        <5>2. ASSUME requests[l].step \in {"open", "look"}, files'[requests[l].root] = NoFile
              PROVE  files[requests[l].root] = NoFile
          <6>1. requests[l].root \in Directories
            BY <4>1, <5>2 DEF Progress, LoadSteps, SharedSteps
          <6> QED
            BY <2>4, <2>5, <5>2, <6>1
        <5>3. ASSUME NEW d \in Directories, files'[d].inode = requests[l].opened.inode
              PROVE  files'[d] = files[d]
          BY <2>4, <2>5, <4>1, <5>3
        <5>4. Shown(l, requests[l], shown'[l], files')
          BY <5>1, <5>2, <5>3 DEF Shown
        <5> QED
          BY <4>1, <5>4
      <4> QED
        BY <4>2, <4>3
    <3> QED
      BY <3>1, <3>2
  <2>12. Undisturbed'
    <3> SUFFICES ASSUME troubles = 0, ~failed
                 PROVE  /\ parent = Home /\ \A d \in Directories : files'[d].safe
                        /\ \A l \in Callers : Settled(l, requests'[l], staged', files'[Home])
      BY <1>1, <1>3 DEF Undisturbed
    <3>1. root = Home /\ parent = Home
      BY <1>1, InForce
    <3>2. \A d \in Directories : files'[d].safe
      BY <2>4, <2>5 DEF ConfigInv, Undisturbed
    <3>3. Settled(c, r, staged', files'[Home])
      BY <1>3, <2>1, <2>2, <2>4, <2>5, <3>1 DEF Settled
    <3>4. ASSUME NEW l \in Callers, l # c PROVE Settled(l, requests[l], staged', files'[Home])
      BY <1>3, <2>4, <2>5, <3>1, <3>4 DEF ConfigInv, Undisturbed, Settled
    <3> QED
      BY <2>3, <3>1, <3>2, <3>3, <3>4
  <2> QED
    BY <2>6, <2>10, <2>11, <2>12 DEF ConfigInv
<1> QED
  BY <1>2, <1>3 DEF Rename

(* Both ends alike: the parent, then the full path.                         *)
LEMMA LastKeeps ==
  ASSUME ConfigInv, NEW c \in Callers, LastParent(c) \/ LastPath(c), UNCHANGED troubles, Watch
  PROVE  ConfigInv'
<1>1. /\ requests[c].step \in {"last parent", "last path"} /\ UNCHANGED <<parent, files, staged, failed>>
      /\ requests[c].step = "last path" => LastPath(c)
      /\ requests[c].step = "last parent" => LastParent(c)
  BY DEF LastParent, LastPath, Doing
<1>2. Beside(c)
  BY <1>1, AloneBeside
<1>3. /\ requests[c].operation \in {"save", "load"}
      /\ Shown(c, requests[c], shown[c], files)
  BY <1>1 DEF ConfigInv, Loads, Progress, SharedSteps
<1>4. CASE Continue(c, "last path") /\ LastParent(c)
  BY <1>1, <1>2, <1>4, ContinueKeeps DEF LastParent, Doing, Follows, SharedSteps
<1>5. ASSUME Reply(c, "unsafe"),
             \/ LastParent(c) /\ parent # requests[c].root
             \/ LastPath(c) /\ ~(AtPath.inode = Wanted(c) /\ AtPath.safe)
      PROVE  ConfigInv'
  <2>1. troubles' = 0 /\ ~failed' => c \notin staged' /\ files[Home].inode # c
    <3> SUFFICES ASSUME troubles = 0, ~failed PROVE c \notin staged /\ files[Home].inode # c
      BY <1>1
    <3>1. /\ requests[c].root = Home /\ parent = Home /\ files[Home].safe /\ AtPath = files[Home]
          /\ c \notin staged
      BY <1>1, InForce
    <3>2. files[Home].inode = c => requests[c].operation = "save"
      BY ConfigAssumption DEF ConfigInv, Inodes, Placed
    <3> QED
      BY <1>5, <3>1, <3>2 DEF Wanted
  <2> QED
    BY <1>1, <1>2, <1>5, <2>1, ReplyKeeps DEF ConfigAnswers
<1>6. CASE LastPath(c) /\ AtPath.inode = Wanted(c) /\ requests[c].operation = "save" /\ Reply(c, "saved")
  <2>1. troubles' = 0 /\ ~failed' => c \notin staged'
    BY <1>1, InForce
  <2> QED
    BY <1>1, <1>2, <1>6, <2>1, ReplyKeeps DEF ConfigAnswers
<1>7. CASE LastPath(c) /\ AtPath.inode = Wanted(c) /\ requests[c].operation = "load" /\ Reply(c, "loaded")
  <2>1. requests[c].step = "last path" /\ AtPath.inode = requests[c].opened.inode
    BY <1>7 DEF LastPath, Doing, Wanted
  <2>2. /\ requests[c].opened.inode # Nothing /\ requests[c].setting = requests[c].opened.content
        /\ \A d \in Directories : files[d].inode = requests[c].opened.inode =>
             \/ files[d].content = requests[c].opened.content
             \/ files[d].content = Garbage /\ requests[c].opened.content \in shown[c]
    BY <1>3, <1>7, <2>1 DEF Shown, Holds
  <2>3. parent \in Directories /\ AtPath = files[parent]
    BY <2>1, <2>2 DEF AtPath, NoFile, File
  <2>4. requests'[c].step = "done"
    BY <1>7 DEF Reply, ConfigInv, ConfigType
  <2>5. shown[c] \subseteq shown'[c] /\ AtPath.content \in shown'[c]
    BY <1>1, <2>4, SeenGrows
  <2>6. requests[c].setting \in shown'[c]
    BY <2>1, <2>2, <2>3, <2>5
  <2>7. troubles' = 0 /\ ~failed' => c \notin staged' /\ files[Home].inode # c
    <3>1. files[Home].inode = c => requests[c].operation = "save"
      BY ConfigAssumption DEF ConfigInv, Inodes, Placed
    <3> QED
      BY <1>1, <1>7, <3>1, InForce
  <2> QED
    BY <1>1, <1>2, <1>7, <2>6, <2>7, ReplyKeeps DEF ConfigAnswers
<1> QED
  BY <1>3, <1>4, <1>5, <1>6, <1>7 DEF LastParent, LastPath

(* A load holds what it opened, whatever stands under the name by then.     *)
LEMMA LoadKeeps ==
  ASSUME ConfigInv, NEW c \in Callers, Look(c) \/ OpenFile(c) \/ Compare(c) \/ Decode(c),
         UNCHANGED troubles, Watch
  PROVE  ConfigInv'
<1> USE ConfigAssumption
<1>1. requests[c].step \in LoadSteps /\ UNCHANGED <<parent, files, staged, failed>>
  BY DEF Look, OpenFile, Compare, Decode, Doing, LoadSteps
<1>2. /\ requests[c].operation = "load" /\ requests[c].root \in Directories /\ requests[c].answer = "none"
      /\ Shown(c, requests[c], shown[c], files) /\ requests[c] \in RequestType
  BY <1>1 DEF ConfigInv, ConfigType, Loads, Progress, LoadSteps, SharedSteps
<1>3. Beside(c) /\ ~Placed(c) /\ files[Home].inode # c
  <2>1. ~Placed(c)
    BY <1>2 DEF Placed
  <2> QED
    BY <1>1, <2>1, AloneBeside DEF ConfigInv, Inodes
<1>4. troubles = 0 /\ ~failed => c \notin staged
  BY <1>1, InForce DEF LoadSteps
<1>5. ASSUME NEW answer \in {"unsafe", "invalid", "canceled"}, Reply(c, answer) PROVE ConfigInv'
  BY <1>1, <1>3, <1>4, <1>5, RefusedKeeps DEF ConfigAnswers, LoadSteps
<1>6. ASSUME NEW next \in {"compare", "decode"}, Continue(c, next), Follows(requests[c].step, next) PROVE ConfigInv'
  BY <1>1, <1>3, <1>6, ContinueKeeps DEF LoadSteps
<1>7. ASSUME NEW r \in RequestType, requests' = [requests EXCEPT ![c] = r], r.operation = "load",
             r.root = requests[c].root, r.answer = "none", r.step \in {"open file", "last parent"},
             r.opened = requests[c].opened \/ (\E d \in Directories : r.opened = files[d]),
             Shown(c, r, shown[c], files)
      PROVE  ConfigInv'
  <2>1. Progress(r)
    BY <1>2, <1>7 DEF Progress, SaveSteps, LoadSteps, SharedSteps
  <2>2. requests'[c].step # "idle"
    BY <1>7 DEF ConfigInv, ConfigType
  <2>3. Shown(c, r, shown'[c], files)
    BY <1>1, <1>7, <2>2, SeenGrows, ShownKeeps
  <2>4. troubles' = 0 /\ ~failed' => Settled(c, r, staged', files[Home])
    <3> SUFFICES ASSUME troubles = 0, ~failed PROVE Settled(c, r, staged, files[Home])
      BY <1>1
    <3>1. requests[c].root = Home
      BY <1>1, InForce DEF LoadSteps
    <3> QED
      BY <1>3, <1>4, <1>7, <3>1 DEF Settled
  <2> QED
    BY <1>3, <1>7, <2>1, <2>3, <2>4, RequestKeeps DEF Beside
<1>8. CASE Look(c)
  <2>1. requests[c].step = "look"
    BY <1>8 DEF Look, Doing
  <2>2. CASE InRoot(c) = NoFile /\ Reply(c, "missing")
    <3>1. Nothing \in shown[c]
      BY <1>2, <2>1, <2>2 DEF Shown, InRoot
    <3>2. requests'[c].step # "idle"
      BY <2>2 DEF Reply, ConfigInv, ConfigType
    <3>3. Nothing \in shown'[c]
      BY <1>1, <3>1, <3>2, SeenGrows
    <3> QED
      BY <1>1, <1>3, <1>4, <2>1, <2>2, <3>3, RefusedKeeps DEF ConfigAnswers
  <2>3. CASE Reply(c, "unsafe")
    BY <1>5, <2>3
  <2>4. CASE /\ InRoot(c) # NoFile
             /\ requests' = [requests EXCEPT ![c].step = "open file", ![c].opened = InRoot(c)]
    <3> DEFINE r == [requests[c] EXCEPT !.step = "open file", !.opened = InRoot(c)]
    <3>1. InRoot(c) \in FileType /\ InRoot(c) = files[requests[c].root]
      BY <1>2 DEF InRoot, ConfigInv, ConfigType
    <3>2. requests' = [requests EXCEPT ![c] = r]
      BY <2>4 DEF ConfigInv, ConfigType
    <3>3. /\ r \in RequestType /\ r.operation = "load" /\ r.root = requests[c].root /\ r.answer = "none"
          /\ r.step = "open file" /\ r.opened = files[requests[c].root]
      BY <1>2, <3>1 DEF RequestType, LoadSteps
    <3>4. /\ r.opened.inode # Nothing
          /\ \A d \in Directories : files[d].inode = r.opened.inode => d = requests[c].root
      BY <1>2, <2>4, <3>1, <3>3 DEF ConfigInv, Inodes
    <3>5. Shown(c, r, shown[c], files)
      BY <3>3, <3>4 DEF Shown, Holds
    <3> QED
      BY <1>2, <1>7, <3>2, <3>3, <3>5
  <2> QED
    BY <1>8, <2>2, <2>3, <2>4 DEF Look
<1>9. CASE OpenFile(c) \/ Compare(c)
  BY <1>5, <1>6, <1>9 DEF OpenFile, Compare, Doing, Follows
<1>10. CASE Decode(c)
  <2> DEFINE content == IF InRoot(c).inode = requests[c].opened.inode THEN InRoot(c).content
                        ELSE requests[c].opened.content
             r == [requests[c] EXCEPT !.step = "last parent", !.setting = content]
  <2>1. requests[c].step = "decode"
    BY <1>10 DEF Decode, Doing
  <2>2. CASE Reply(c, "invalid") \/ Reply(c, "canceled")
    BY <1>5, <2>2
  <2>3. CASE content # Garbage /\ requests' = [requests EXCEPT ![c].step = "last parent", ![c].setting = content]
    <3>1. content = requests[c].opened.content
      BY <1>2, <2>1, <2>3 DEF Shown, Holds, InRoot
    <3>2. content \in SettingContents
      BY <1>2, <3>1 DEF RequestType, FileType
    <3> HIDE DEF content
    <3>3. requests' = [requests EXCEPT ![c] = r]
      BY <2>3 DEF ConfigInv, ConfigType
    <3>4. /\ r \in RequestType /\ r.operation = "load" /\ r.root = requests[c].root /\ r.answer = "none"
          /\ r.step = "last parent" /\ r.opened = requests[c].opened /\ r.setting = content
      BY <1>2, <3>2 DEF RequestType, SharedSteps
    <3>5. Shown(c, r, shown[c], files)
      BY <1>2, <2>1, <3>1, <3>4 DEF Shown, Holds
    <3> QED
      BY <1>2, <1>7, <3>3, <3>4, <3>5
  <2> QED
    BY <1>10, <2>2, <2>3 DEF Decode
<1> QED
  BY <1>8, <1>9, <1>10

LEMMA CancelCallerKeeps ==
  ASSUME ConfigInv, NEW c \in Callers, CancelCaller(c), UNCHANGED troubles, Watch
  PROVE  ConfigInv'
<1> DEFINE r == [requests[c] EXCEPT !.canceled = TRUE]
<1>1. /\ requests[c] \in RequestType /\ requests' = [requests EXCEPT ![c] = r]
      /\ requests[c].step \notin {"idle", "done"} /\ UNCHANGED <<parent, files, staged, failed>>
  BY DEF CancelCaller, Running, Doing, ConfigInv, ConfigType
<1>2. /\ r \in RequestType
      /\ \A f \in {"operation", "step", "setting", "root", "opened", "answer"} : r[f] = requests[c][f]
  BY <1>1 DEF RequestType
<1>3. /\ r.operation = requests[c].operation /\ r.step = requests[c].step /\ r.setting = requests[c].setting
      /\ r.root = requests[c].root /\ r.opened = requests[c].opened /\ r.answer = requests[c].answer
  BY <1>2
<1> HIDE DEF r
<1>4. Beside(c)
  BY <1>1, AloneBeside
<1>5. Progress(requests[c]) /\ Shown(c, requests[c], shown[c], files)
  BY DEF ConfigInv, Loads
<1>6. requests'[c].step # "idle"
  BY <1>1, <1>3 DEF ConfigInv, ConfigType
<1>7. Shown(c, r, shown'[c], files)
  <2>1. Shown(c, r, shown[c], files)
    BY <1>3, <1>5 DEF Shown, Holds
  <2> QED
    BY <1>6, <2>1, <1>4, SeenGrows, ShownKeeps DEF Beside
<1>8. Progress(r)
  BY <1>3, <1>5 DEF Progress
<1>9. troubles' = 0 /\ ~failed' => Settled(c, r, staged', files[Home])
  BY <1>1, <1>3 DEF ConfigInv, Undisturbed, Settled
<1>10. Placed(c) => r.operation = "save" /\ r.step \in {"verify", "sync", "last parent", "last path", "done"}
  BY <1>3 DEF Placed
<1> QED
  BY <1>1, <1>2, <1>3, <1>4, <1>7, <1>8, <1>9, <1>10, RequestKeeps DEF Beside

(* A kill, a swap of the directory or damage to the file ends what holds of *)
(* undisturbed calls only.                                                  *)
LEMMA KillKeeps ==
  ASSUME ConfigInv, NEW c \in Callers, KillCaller(c), troubles' = troubles + 1, Watch
  PROVE  ConfigInv'
<1>1. /\ Reply(c, "killed") /\ requests[c].step \notin {"idle", "done"}
      /\ UNCHANGED <<parent, files, staged, failed>>
  BY DEF KillCaller, Running, Doing
<1>2. troubles' \in Nat /\ troubles' >= troubles /\ troubles' # 0
  BY DEF ConfigInv, ConfigType
<1>3. failed' \in BOOLEAN /\ (failed => failed')
  BY <1>1 DEF ConfigInv, ConfigType
<1>4. Beside(c)
  BY <1>1, <1>2, <1>3, Zenon DEF Beside
<1> QED
  BY <1>1, <1>2, <1>4, ReplyKeeps DEF ConfigAnswers

LEMMA TroubledLoads ==
  ASSUME ConfigInv, Watch, requests' = requests,
         \A c \in Callers : requests[c].step # "idle" =>
           (Shown(c, requests[c], shown[c], files) => Shown(c, requests[c], shown'[c], files'))
  PROVE  Loads'
<1> SUFFICES ASSUME NEW c \in Callers PROVE Progress(requests[c]) /\ Shown(c, requests[c], shown'[c], files')
  BY DEF Loads
<1>1. Progress(requests[c]) /\ Shown(c, requests[c], shown[c], files)
  BY DEF ConfigInv, Loads
<1>2. CASE requests[c].step = "idle"
  BY <1>1, <1>2 DEF Progress, Shown
<1> QED
  BY <1>1, <1>2

LEMMA SwapKeeps ==
  ASSUME ConfigInv, SwapParent, troubles' = troubles + 1, Watch
  PROVE  ConfigInv'
<1>1. parent' \in Directories \cup {Nowhere, Unsafe} /\ UNCHANGED <<files, requests, staged, failed>>
  BY DEF SwapParent
<1>2. troubles' \in Nat /\ troubles' # 0
  BY DEF ConfigInv, ConfigType
<1>3. ConfigType'
  BY <1>1, <1>2, ShownType DEF ConfigInv, ConfigType
<1>4. Inodes'
  BY <1>1 DEF ConfigInv, Inodes, Placed
<1>5. Loads'
  BY <1>1, SeenGrows, ShownKeeps, TroubledLoads
<1>6. Undisturbed'
  BY <1>2 DEF Undisturbed
<1> QED
  BY <1>3, <1>4, <1>5, <1>6 DEF ConfigInv

LEMMA DamageKeeps ==
  ASSUME ConfigInv, DamageFile, troubles' = troubles + 1, Watch
  PROVE  ConfigInv'
<1> USE ConfigAssumption
<1>1. PICK damaged \in {NoFile, [AtPath EXCEPT !.safe = FALSE], [AtPath EXCEPT !.content = Garbage]} :
        files' = [files EXCEPT ![parent] = damaged]
  BY DEF DamageFile
<1>2. UNCHANGED <<parent, requests, staged, failed>> /\ AtPath # NoFile
  BY DEF DamageFile
<1>3. parent \in Directories /\ AtPath = files[parent] /\ AtPath \in FileType
  BY <1>2, AtPathType DEF AtPath, ConfigInv
<1>4. AtPath.inode # Nothing
  BY <1>2, <1>3 DEF ConfigInv, Inodes
<1>5. \/ damaged = NoFile
      \/ /\ damaged \in FileType /\ damaged.inode = AtPath.inode
         /\ damaged.content \in {AtPath.content, Garbage}
  BY <1>1, <1>3 DEF FileType, SettingContents
<1>6. NoFile \in FileType /\ NoFile.inode = Nothing /\ NoFile.content = Nothing
  BY DEF NoFile, File, FileType, SettingContents
<1>7. /\ files' \in [Directories -> FileType] /\ files'[parent] = damaged
      /\ \A d \in Directories : d # parent => files'[d] = files[d]
  BY <1>1, <1>3, <1>5, <1>6 DEF ConfigInv, ConfigType
<1>8. troubles' \in Nat /\ troubles' # 0
  BY DEF ConfigInv, ConfigType
<1>9. ConfigType'
  BY <1>2, <1>7, <1>8, ShownType DEF ConfigInv, ConfigType
<1>10. Inodes'
  <2>1. \A d \in Directories : files'[d].inode = files[d].inode \/ files'[d] = NoFile
    BY <1>3, <1>5, <1>7
  <2>2. \A d \in Directories : files'[d].inode = Nothing => files'[d] = NoFile
    <3> SUFFICES ASSUME NEW d \in Directories, files'[d].inode = Nothing PROVE files'[d] = NoFile
      OBVIOUS
    <3>1. CASE d = parent
      BY <1>4, <1>5, <1>7, <3>1
    <3>2. CASE d # parent
      BY <1>7, <3>2 DEF ConfigInv, Inodes
    <3> QED
      BY <3>1, <3>2
  <2>3. \A d, e \in Directories : files'[d].inode = files'[e].inode /\ files'[d].inode # Nothing => d = e
    BY <1>6, <2>1 DEF ConfigInv, Inodes
  <2>4. \A d \in Directories, c \in Callers : files'[d].inode = c => Placed(c)
    BY <1>6, <2>1 DEF ConfigInv, Inodes
  <2>5. \A c \in Callers : Placed(c) => Placed(c)'
    BY <1>2 DEF Placed
  <2> QED
    BY <1>2, <2>2, <2>3, <2>4, <2>5 DEF ConfigInv, Inodes
<1>11. Loads'
  <2> SUFFICES ASSUME NEW c \in Callers, requests[c].step # "idle", Shown(c, requests[c], shown[c], files)
               PROVE  Shown(c, requests[c], shown'[c], files')
    BY <1>2, TroubledLoads
  <2>1. /\ shown[c] \subseteq shown'[c]
        /\ requests[c].step # "done" => AtPath.content \in shown'[c] /\ AtPath'.content \in shown'[c]
    BY <1>2, SeenGrows
  <2>2. AtPath' = damaged
    BY <1>2, <1>3, <1>7 DEF AtPath
  <2>3. Shown(c, requests[c], shown'[c], files)
    BY <2>1, ShownKeeps
  <2>4. ASSUME requests[c].operation = "load", requests[c].step \in {"open", "look"}, files'[requests[c].root] = NoFile
        PROVE  Nothing \in shown'[c]
    <3>1. CASE requests[c].root = parent
      BY <1>6, <1>7, <2>1, <2>2, <2>4, <3>1
    <3>2. CASE requests[c].root # parent
      <4>1. requests[c].root \in Directories
        BY <2>4 DEF ConfigInv, Loads, Progress, LoadSteps, SharedSteps
      <4> QED
        BY <1>7, <2>3, <2>4, <3>2, <4>1 DEF Shown
    <3> QED
      BY <3>1, <3>2
  <2>5. ASSUME requests[c].operation = "load", Holds(requests[c]), NEW d \in Directories,
               files'[d].inode = requests[c].opened.inode
        PROVE  \/ files'[d].content = requests[c].opened.content
               \/ files'[d].content = Garbage /\ requests[c].opened.content \in shown'[c]
    <3>1. CASE d = parent
      <4>1. requests[c].opened.inode # Nothing /\ requests[c].step # "done"
        BY <2>3, <2>5 DEF Shown, Holds
      <4>2. /\ damaged.inode = AtPath.inode /\ damaged.content \in {AtPath.content, Garbage}
            /\ files[d].inode = requests[c].opened.inode /\ AtPath = files[d] /\ files'[d] = damaged
        BY <1>3, <1>5, <1>6, <1>7, <2>5, <3>1, <4>1
      <4> QED
        BY <2>1, <2>3, <2>5, <4>1, <4>2 DEF Shown
    <3>2. CASE d # parent
      BY <1>7, <2>3, <2>5, <3>2 DEF Shown
    <3> QED
      BY <3>1, <3>2
  <2> QED
    BY <2>3, <2>4, <2>5 DEF Shown
<1>12. Undisturbed'
  BY <1>8 DEF Undisturbed
<1> QED
  BY <1>9, <1>10, <1>11, <1>12 DEF ConfigInv

LEMMA ConfigKeeps == ConfigInv /\ [ConfigNext]_configVars => ConfigInv'
<1> SUFFICES ASSUME ConfigInv, [ConfigNext]_configVars PROVE ConfigInv'
  OBVIOUS
<1>1. ASSUME NEW c \in Callers, (\E s \in Settings : BeginSave(c, s)) \/ BeginLoad(c) \/ CallerStep(c) \/ CancelCaller(c),
             UNCHANGED troubles, Watch
      PROVE  ConfigInv'
  BY <1>1, BeginKeeps, InspectParentKeeps, OpenRootKeeps, BeforeRenameKeeps, FileRenameKeeps, AfterRenameKeeps,
     LoadKeeps, LastKeeps, CancelCallerKeeps DEF CallerStep
<1>2. CASE Trouble /\ troubles' = troubles + 1 /\ Watch
  BY <1>2, KillKeeps, SwapKeeps, DamageKeeps DEF Trouble
<1>3. CASE UNCHANGED configVars
  BY <1>3 DEF configVars, ConfigInv, ConfigType, Inodes, Placed, Loads, Undisturbed
<1> QED
  BY <1>1, <1>2, <1>3 DEF ConfigNext

LEMMA ConfigInvHolds == ServicesSpec => []ConfigInv
BY ConfigInitKeeps, ConfigKeeps, ServicesCompose, PTL DEF ConfigSpec

(* A load reports settings, or their absence, that stood at the path at     *)
(* some moment of that load (Load of authconfigfile), however many programs *)
(* save meanwhile, whatever the user swaps or damages.                      *)
THEOREM LoadsAreCurrent == ServicesSpec => []LoadedWasCurrent
<1>1. ConfigInv => LoadedWasCurrent
  BY DEF ConfigInv, Loads, Shown, LoadedWasCurrent
<1> QED
  BY <1>1, ConfigInvHolds, PTL

(* When all calls have returned undisturbed, the settings in force are those *)
(* of a Save that reported success, and no temporary file is left (Save of   *)
(* authconfigfile, which takes no lock).                                    *)
THEOREM WinnersKnow == ServicesSpec => []WinnerKnows
<1>1. ConfigInv => WinnerKnows
  <2> SUFFICES ASSUME ConfigInv, troubles = 0, ~failed, \A c \in Callers : ~Running(c)
               PROVE  staged = {} /\ \A c \in Callers : AtPath.inode = c => requests[c].answer = "saved"
    BY DEF WinnerKnows
  <2>1. parent = Home /\ \A c \in Callers : Settled(c, requests[c], staged, files[Home])
    BY DEF ConfigInv, Undisturbed
  <2>2. \A c \in Callers : requests[c].step \in {"idle", "done"}
    BY DEF Running, Doing
  <2>3. staged = {}
    BY <2>1, <2>2 DEF Settled, ConfigInv, ConfigType
  <2>4. ASSUME NEW c \in Callers, AtPath.inode = c PROVE requests[c].answer = "saved"
    <3>1. files[Home].inode = c
      BY <2>1, <2>4, ConfigAssumption DEF AtPath
    <3>2. requests[c].step = "done"
      BY <2>2, <3>1, ConfigAssumption DEF ConfigInv, Inodes, Placed
    <3> QED
      BY <2>1, <3>1, <3>2 DEF Settled
  <2> QED
    BY <2>3, <2>4
<1> QED
  BY <1>1, ConfigInvHolds, PTL

----------------------------------------------------------------------------
(* The paged read.                                                          *)

Cursors == Tokens \cup {First, BadToken}
Sent == [asked : Cursors, items : Seq(Items), next : Cursors]

FaultCodes == {"operation_canceled", "pagination_page_limit", "service_fault", "page_fetch_failed",
               "invalid_page_contract", "pagination_item_limit", "pagination_cursor_loop", "unclassified", "context"}
DrainAnswers ==
  [kind : {"pending", "fault", "items"}, code : {""} \cup FaultCodes, retry : BOOLEAN, items : Seq(Items)]

DrainType ==
  /\ walk \in [step : {"next", "fetch", "read", "last", "list", "done"}, page : Nat, token : Cursors,
               items : Seq(Items), seen : SUBSET Cursors, got : Seq(Items), next : Cursors,
               error : {"none"} \cup Malformed, answer : DrainAnswers]
  /\ sent \in Seq(Sent)
  /\ stopped \in BOOLEAN

(* The items of a sequence of pages, in their order. *)
Total(pages) ==
  LET upto[k \in 0..Len(pages)] == IF k = 0 THEN <<>> ELSE upto[k - 1] \o pages[k].items IN upto[Len(pages)]

(* Page k is one the traversal may build on; it is not the last. *)
WellMade(k) == Len(sent[k].items) <= PageSize /\ sent[k].next # BadToken
GoesOn(k) == sent[k].next # First

(* Every cursor was given by the page before and is asked for once. *)
Asked ==
  /\ \A k \in 1..Len(sent) : sent[k].asked = IF k = 1 THEN First ELSE sent[k - 1].next
  /\ \A k \in 1..Len(sent) : sent[k].asked \in walk.seen
  /\ \A i, j \in 1..Len(sent) : sent[i].asked = sent[j].asked => i = j
  /\ Len(sent) <= MaxPages

(* What the traversal has, at each of its steps, of the pages it was sent. *)
InOrder ==
  /\ walk.items = Total(sent) /\ Len(walk.items) <= MaxItems /\ walk.error = "none"
  /\ \A k \in 1..Len(sent) : WellMade(k)
Asking ==
  walk.step \in {"next", "fetch"} =>
    /\ InOrder /\ \A k \in 1..Len(sent) : GoesOn(k)
    /\ walk.page = Len(sent) + 1 /\ (walk.step = "fetch" => walk.page <= MaxPages)
    /\ walk.token \in walk.seen /\ \A k \in 1..Len(sent) : sent[k].asked # walk.token
    /\ walk.token = IF Len(sent) = 0 THEN First ELSE sent[Len(sent)].next
ReadOne ==
  walk.step = "read" /\ walk.error = "none" =>
    /\ Len(sent) >= 1 /\ walk.page = Len(sent)
    /\ sent[Len(sent)].items = walk.got /\ sent[Len(sent)].next = walk.next
    /\ Total(sent) = walk.items \o walk.got /\ Len(walk.items) <= MaxItems
    /\ \A k \in 1..(Len(sent) - 1) : WellMade(k) /\ GoesOn(k)
Ending ==
  walk.step \in {"last", "list"} =>
    /\ InOrder /\ Len(sent) >= 1 /\ \A k \in 1..Len(sent) : GoesOn(k) <=> k < Len(sent)
Answered ==
  /\ walk.answer.kind = "items" => Whole /\ walk.answer.items = AllItems
  /\ walk.step # "done" => walk.answer.kind = "pending"
  /\ walk.step = "done" /\ walk.answer.kind # "items" => walk.error # "none" \/ stopped = TRUE \/ ~Whole

DrainInv == DrainType /\ Asked /\ Asking /\ ReadOne /\ Ending /\ Answered

(* Sums is the function Total computes by; there is exactly one. *)
Sums(f, pages) ==
  /\ f \in [0..Len(pages) -> Seq(Items)] /\ f[0] = <<>>
  /\ \A k \in 1..Len(pages) : f[k] = f[k - 1] \o pages[k].items

LEMMA TotalIs ==
  ASSUME NEW pages \in Seq(Sent)
  PROVE  \E f : Sums(f, pages) /\ Total(pages) = f[Len(pages)]
<1> DEFINE n == Len(pages)
           step == [k \in 1..n |-> [s \in Seq(Items) |-> s \o pages[k].items]]
<1>1. n \in Nat /\ \A k \in 1..n : pages[k].items \in Seq(Items)
  <2>1. n \in Nat /\ \A k \in 1..n : pages[k] \in Sent
    OBVIOUS
  <2> QED
    BY <2>1 DEF Sent
<1>2. step \in [1..n -> [Seq(Items) -> Seq(Items)]]
  BY <1>1
<1>3. <<>> \in Seq(Items)
  OBVIOUS
<1>4. PICK f : Computes(f, n, Seq(Items), <<>>, step)
  <2> HIDE DEF step, n
  <2> QED
    BY <1>1, <1>2, <1>3, RecursionUpTo, Zenon
<1> DEFINE Solves(g) == g = [k \in 0..n |-> IF k = 0 THEN <<>> ELSE g[k - 1] \o pages[k].items]
<1>5. Solves(f)
  <2>1. ASSUME NEW k \in 1..n PROVE f[k] = f[k - 1] \o pages[k].items
    <3>1. k - 1 \in 0..n
      BY <1>1
    <3>2. f[k - 1] \in Seq(Items)
      BY <1>4, <3>1 DEF Computes
    <3> QED
      BY <1>4, <3>2 DEF Computes
  <2>2. \A k \in 0..n : f[k] = IF k = 0 THEN <<>> ELSE f[k - 1] \o pages[k].items
    <3>1. f[0] = <<>>
      BY <1>4 DEF Computes
    <3>2. \A k \in 0..n : k = 0 \/ k \in 1..n
      BY <1>1
    <3> QED
      BY <2>1, <3>1, <3>2
  <2>3. f = [k \in 0..n |-> f[k]]
    BY <1>4 DEF Computes
  <2> QED
    BY <2>2, <2>3
<1>6. PICK g : Solves(g) /\ Total(pages) = g[n]
  BY <1>5 DEF Total
<1>7. Sums(g, pages)
  <2>1. g[0] = <<>> /\ \A k \in 1..n : g[k] = g[k - 1] \o pages[k].items
    <3>1. 0 \in 0..n /\ \A k \in 1..n : k \in 0..n /\ k # 0
      BY <1>1
    <3>2. \A k \in 0..n : g[k] = IF k = 0 THEN <<>> ELSE g[k - 1] \o pages[k].items
      BY <1>6
    <3> QED
      BY <3>1, <3>2
  <2> DEFINE S == {k \in 0..n : g[k] \in Seq(Items)}
  <2>2. 0 \in S
    <3>1. 0 \in 0..n /\ g[0] \in Seq(Items)
      BY <1>1, <1>3, <2>1
    <3> QED
      BY <3>1
  <2>3. ASSUME NEW k \in 0..n, k \in S, k < n PROVE k + 1 \in S
    <3>1. k + 1 \in 1..n /\ k + 1 \in 0..n /\ (k + 1) - 1 = k
      BY <1>1, <2>3
    <3>2. g[k + 1] = g[k] \o pages[k + 1].items /\ g[k] \in Seq(Items) /\ pages[k + 1].items \in Seq(Items)
      BY <1>1, <2>1, <2>3, <3>1
    <3>3. g[k] \o pages[k + 1].items \in Seq(Items)
      BY <3>2
    <3> QED
      BY <3>1, <3>2, <3>3
  <2>4. 0..n \subseteq S
    <3> HIDE DEF S
    <3> QED
      BY <1>1, <2>2, <2>3, UpTo
  <2>5. g \in [0..n -> Seq(Items)]
    BY <1>6, <2>4
  <2> QED
    BY <2>1, <2>5 DEF Sums
<1> QED
  BY <1>6, <1>7

LEMMA TotalType ==
  ASSUME NEW pages \in Seq(Sent)
  PROVE  Total(pages) \in Seq(Items)
<1>1. PICK f : Sums(f, pages) /\ Total(pages) = f[Len(pages)]
  BY TotalIs
<1>2. Len(pages) \in 0..Len(pages)
  OBVIOUS
<1> QED
  BY <1>1, <1>2 DEF Sums

LEMMA TotalEmpty == Total(<<>>) = <<>>
<1>1. <<>> \in Seq(Sent) /\ Len(<<>>) = 0
  OBVIOUS
<1>2. PICK f : Sums(f, <<>>) /\ Total(<<>>) = f[Len(<<>>)]
  BY <1>1, TotalIs
<1> QED
  BY <1>1, <1>2 DEF Sums

LEMMA TotalAppend ==
  ASSUME NEW pages \in Seq(Sent), NEW page \in Sent
  PROVE  Total(Append(pages, page)) = Total(pages) \o page.items
<1> DEFINE n == Len(pages)
           more == Append(pages, page)
<1>1. /\ n \in Nat /\ more \in Seq(Sent) /\ Len(more) = n + 1 /\ more[n + 1] = page
      /\ \A k \in 1..n : more[k] = pages[k]
  OBVIOUS
<1>2. PICK f : Sums(f, pages) /\ Total(pages) = f[n]
  BY TotalIs
<1>3. PICK g : Sums(g, more) /\ Total(more) = g[Len(more)]
  BY <1>1, TotalIs
<1> HIDE DEF more, n
<1>4. /\ f[0] = <<>> /\ \A k \in 1..n : f[k] = f[k - 1] \o pages[k].items
      /\ g[0] = <<>> /\ \A k \in 1..(n + 1) : g[k] = g[k - 1] \o more[k].items
  BY <1>1, <1>2, <1>3 DEF Sums, n
<1> DEFINE S == {k \in 0..n : f[k] = g[k]}
<1>5. 0 \in S
  BY <1>1, <1>4
<1>6. ASSUME NEW k \in 0..n, k \in S, k < n PROVE k + 1 \in S
  <2>1. k + 1 \in 1..n /\ k + 1 \in 0..n /\ k + 1 \in 1..(n + 1) /\ (k + 1) - 1 = k
    BY <1>1, <1>6
  <2> QED
    BY <1>1, <1>4, <1>6, <2>1
<1>7. f[n] = g[n]
  <2>1. 0..n \subseteq S
    <3> HIDE DEF S
    <3> QED
      BY <1>1, <1>5, <1>6, UpTo
  <2> QED
    BY <1>1, <2>1
<1>8. n + 1 \in 1..(n + 1) /\ (n + 1) - 1 = n
  BY <1>1
<1>9. g[n + 1] = g[n] \o page.items
  BY <1>1, <1>4, <1>8
<1> QED
  BY <1>1, <1>2, <1>3, <1>7, <1>9 DEF more

LEMMA WholeStays ==
  ASSUME UNCHANGED sent
  PROVE  (Whole' <=> Whole) /\ AllItems' = AllItems
<1>1. AllItems = Total(sent) /\ AllItems' = Total(sent')
  BY DEF AllItems, Total
<1> QED
  BY <1>1 DEF Whole

LEMMA BudgetsAre == PageSize \in Nat /\ MaxPages \in Nat /\ MaxItems \in Nat
BY BudgetAssumption

LEMMA DrainInitKeeps == DrainInit => DrainInv
<1> SUFFICES ASSUME DrainInit PROVE DrainInv
  OBVIOUS
<1>1. sent = <<>> /\ Len(sent) = 0 /\ 1..0 = {}
  BY DEF DrainInit
<1>2. /\ walk = [step |-> "next", page |-> 1, token |-> First, items |-> <<>>, seen |-> {First}, got |-> <<>>,
                 next |-> First, error |-> "none",
                 answer |-> [kind |-> "pending", code |-> "", retry |-> FALSE, items |-> <<>>]]
      /\ stopped \in BOOLEAN
  BY DEF DrainInit, Pending
<1>3. DrainType
  <2>1. First \in Cursors /\ <<>> \in Seq(Items) /\ <<>> \in Seq(Sent)
    BY DEF Cursors
  <2>2. [kind |-> "pending", code |-> "", retry |-> FALSE, items |-> <<>>] \in DrainAnswers
    BY <2>1 DEF DrainAnswers
  <2> QED
    BY <1>1, <1>2, <2>1, <2>2 DEF DrainType
<1>4. Asked
  BY <1>1, BudgetsAre DEF Asked
<1>5. Asking
  <2>1. Len(<<>>) = 0 /\ 0 <= MaxItems
    BY BudgetsAre
  <2>2. /\ walk.items = <<>> /\ walk.error = "none" /\ walk.step = "next" /\ walk.page = 1
        /\ walk.token = First /\ walk.seen = {First}
    BY <1>2
  <2>3. \A k \in 1..Len(sent) : FALSE
    BY <1>1
  <2>4. InOrder
    BY <1>1, <2>1, <2>2, <2>3, TotalEmpty DEF InOrder
  <2> QED
    BY <1>1, <2>2, <2>3, <2>4 DEF Asking
<1>6. ReadOne /\ Ending /\ Answered
  BY <1>2 DEF ReadOne, Ending, Answered
<1> QED
  BY <1>3, <1>4, <1>5, <1>6 DEF DrainInv

(* A traversal whose last page names another is not a whole answer. *)
LEMMA Unfinished ==
  ASSUME sent \in Seq(Sent), Len(sent) = 0 \/ sent[Len(sent)].next # First
  PROVE  ~Whole
<1>1. DOMAIN sent = 1..Len(sent) /\ Len(sent) \in Nat
  OBVIOUS
<1>2. CASE Len(sent) = 0
  BY <1>1, <1>2 DEF Whole
<1>3. CASE Len(sent) # 0
  <2>1. Len(sent) \in DOMAIN sent
    BY <1>1, <1>3
  <2> QED
    BY <1>3, <2>1 DEF Whole
<1> QED
  BY <1>2, <1>3

(* A step that answers with a fault: there is a reason for it. *)
LEMMA DrainFaultKeeps ==
  ASSUME DrainInv, walk.step # "done", NEW code \in FaultCodes, NEW retry \in BOOLEAN,
         Answer(Fault(code, retry)), UNCHANGED <<sent, stopped>>,
         walk.error # "none" \/ stopped = TRUE \/ ~Whole
  PROVE  DrainInv'
<1>1. walk' = [walk EXCEPT !.step = "done",
                 !.answer = [kind |-> "fault", code |-> code, retry |-> retry, items |-> <<>>]]
  BY DEF Answer, Fault
<1>2. DrainType'
  <2>1. [kind |-> "fault", code |-> code, retry |-> retry, items |-> <<>>] \in DrainAnswers
    <3>1. <<>> \in Seq(Items)
      OBVIOUS
    <3> QED
      BY <3>1, Zenon DEF DrainAnswers
  <2> QED
    BY <1>1, <2>1 DEF DrainInv, DrainType
<1>3. walk'.step = "done" /\ walk'.answer.kind = "fault" /\ walk'.error = walk.error /\ walk'.seen = walk.seen
  BY <1>1 DEF DrainInv, DrainType
<1>4. Asked'
  BY <1>3 DEF DrainInv, Asked
<1>5. Asking' /\ ReadOne' /\ Ending'
  BY <1>3 DEF Asking, ReadOne, Ending
<1>6. Answered'
  BY <1>3, WholeStays DEF Answered
<1> QED
  BY <1>2, <1>4, <1>5, <1>6 DEF DrainInv

(* A step that only moves on. *)
LEMMA MoveKeeps ==
  ASSUME DrainInv, NEW step,
         \/ walk.step = "next" /\ step = "fetch" /\ walk.page <= MaxPages
         \/ walk.step = "last" /\ step = "list",
         Move(step), UNCHANGED <<sent, stopped>>
  PROVE  DrainInv'
<1>1. DrainType' /\ walk'.step = step /\ walk'.answer = walk.answer /\ walk'.error = walk.error
      /\ walk'.seen = walk.seen /\ walk'.items = walk.items /\ walk'.page = walk.page /\ walk'.token = walk.token
  BY DEF Move, DrainInv, DrainType
<1>2. Asked'
  BY <1>1 DEF DrainInv, Asked
<1>3. Asking' /\ ReadOne' /\ Ending'
  BY <1>1 DEF DrainInv, Asking, ReadOne, Ending, InOrder, WellMade, GoesOn
<1>4. Answered'
  BY <1>1 DEF DrainInv, Answered
<1> QED
  BY <1>1, <1>2, <1>3, <1>4 DEF DrainInv

LEMMA CanceledIs == Canceled = Fault("operation_canceled", TRUE) /\ "operation_canceled" \in FaultCodes
BY DEF Canceled, FaultCodes

LEMMA NextPageKeeps ==
  ASSUME DrainInv, NextPage
  PROVE  DrainInv'
<1>1. walk.step = "next" /\ UNCHANGED <<sent, stopped>> /\ sent \in Seq(Sent) /\ stopped \in BOOLEAN
  BY DEF NextPage, Walking, DrainInv, DrainType
<1>2. CASE walk.page > MaxPages /\ Answer(Fault("pagination_page_limit", FALSE))
  <2>1. Len(sent) = 0 \/ sent[Len(sent)].next # First
    BY <1>1 DEF DrainInv, Asking, GoesOn
  <2>2. ~Whole
    BY <1>1, <2>1, Unfinished
  <2> QED
    BY <1>1, <1>2, <2>2, DrainFaultKeeps DEF FaultCodes
<1>3. CASE stopped = TRUE /\ Answer(Canceled)
  BY <1>1, <1>3, CanceledIs, DrainFaultKeeps
<1>4. CASE ~(walk.page > MaxPages) /\ Move("fetch")
  <2>1. walk.page <= MaxPages
    <3>1. walk.page \in Nat
      BY DEF DrainInv, DrainType
    <3> QED
      BY <1>4, <3>1, BudgetsAre
  <2> QED
    BY <1>1, <1>4, <2>1, MoveKeeps
<1> QED
  BY <1>1, <1>2, <1>3, <1>4 DEF NextPage

LEMMA CompleteKeeps ==
  ASSUME DrainInv, Complete
  PROVE  DrainInv'
<1>1. walk.step = "last" /\ UNCHANGED <<sent, stopped>> /\ stopped \in BOOLEAN
  BY DEF Complete, Walking, DrainInv, DrainType
<1>2. CASE stopped = TRUE /\ Answer(Canceled)
  BY <1>1, <1>2, CanceledIs, DrainFaultKeeps
<1>3. CASE Move("list")
  BY <1>1, <1>3, MoveKeeps
<1> QED
  BY <1>1, <1>2, <1>3 DEF Complete

LEMMA CancelDrainKeeps ==
  ASSUME DrainInv, CancelDrain
  PROVE  DrainInv'
BY WholeStays DEF CancelDrain, Walking, DrainInv, DrainType, Asked, Asking, ReadOne, Ending, Answered, InOrder,
   WellMade, GoesOn

LEMMA FetchKeeps ==
  ASSUME DrainInv, Fetch
  PROVE  DrainInv'
<1> DEFINE n == Len(sent)
<1>1. /\ walk.step = "fetch" /\ UNCHANGED stopped /\ DrainType /\ Asked /\ InOrder /\ n \in Nat
      /\ \A k \in 1..n : GoesOn(k) /\ sent[k].asked # walk.token
      /\ walk.page = n + 1 /\ walk.page <= MaxPages /\ walk.token \in walk.seen
      /\ walk.token = IF n = 0 THEN First ELSE sent[n].next
      /\ walk.answer.kind = "pending"
  <2>1. walk.step = "fetch" /\ UNCHANGED stopped /\ DrainType /\ Asked /\ Asking /\ Answered
    BY DEF Fetch, Walking, DrainInv
  <2>2. n \in Nat
    <3>1. sent \in Seq(Sent)
      BY <2>1 DEF DrainType
    <3> QED
      BY <3>1
  <2> QED
    BY <2>1, <2>2 DEF Asking, Answered
<1>2. CASE \E error \in Malformed :
             walk' = [walk EXCEPT !.step = "read", !.error = error] /\ UNCHANGED sent
  <2>1. PICK error \in Malformed : walk' = [walk EXCEPT !.step = "read", !.error = error] /\ UNCHANGED sent
    BY <1>2
  <2>2. DrainType' /\ walk'.step = "read" /\ walk'.error # "none" /\ walk'.seen = walk.seen
        /\ walk'.answer = walk.answer
    BY <1>1, <2>1 DEF DrainType, Malformed
  <2>3. Asked'
    BY <1>1, <2>1, <2>2 DEF Asked
  <2>4. Asking' /\ ReadOne' /\ Ending' /\ Answered'
    BY <1>1, <2>2 DEF Asking, ReadOne, Ending, Answered
  <2> QED
    BY <2>2, <2>3, <2>4 DEF DrainInv
<1>3. CASE \E items \in Pages, next \in Tokens \cup {First, BadToken} :
             /\ walk' = [walk EXCEPT !.step = "read", !.got = items, !.next = next]
             /\ sent' = Append(sent, [asked |-> walk.token, items |-> items, next |-> next])
  <2>1. PICK items \in Pages, next \in Cursors :
          /\ walk' = [walk EXCEPT !.step = "read", !.got = items, !.next = next]
          /\ sent' = Append(sent, [asked |-> walk.token, items |-> items, next |-> next])
    BY <1>3 DEF Cursors
  <2> DEFINE page == [asked |-> walk.token, items |-> items, next |-> next]
  <2>2. items \in Seq(Items)
    BY DEF Pages
  <2>3. page \in Sent
    BY <1>1, <2>2 DEF Sent, DrainType
  <2>4. /\ sent' \in Seq(Sent) /\ Len(sent') = n + 1 /\ sent'[n + 1] = page
        /\ \A k \in 1..n : sent'[k] = sent[k]
    <3>1. sent \in Seq(Sent)
      BY <1>1 DEF DrainType
    <3> HIDE DEF page
    <3> QED
      BY <2>1, <2>3, <3>1 DEF page
  <2>5. /\ DrainType' /\ walk'.step = "read" /\ walk'.got = items /\ walk'.next = next /\ walk'.error = "none"
        /\ walk'.seen = walk.seen /\ walk'.items = walk.items /\ walk'.page = walk.page
        /\ walk'.answer = walk.answer
    BY <1>1, <2>1, <2>2, <2>4 DEF DrainType, InOrder
  <2>6. page.asked = walk.token /\ page.items = items /\ page.next = next
    OBVIOUS
  <2> HIDE DEF page, n
  <2>7. \A k \in 1..(n + 1) : k \in 1..n \/ k = n + 1
    BY <1>1
  <2>8. Asked'
    <3>1. \A k \in 1..(n + 1) : sent'[k].asked = IF k = 1 THEN First ELSE sent'[k - 1].next
      <4>1. ASSUME NEW k \in 1..n PROVE sent'[k].asked = IF k = 1 THEN First ELSE sent'[k - 1].next
        <5>1. k = 1 \/ k - 1 \in 1..n
          BY <1>1
        <5> QED
          BY <1>1, <2>4, <5>1 DEF Asked, n
      <4>2. sent'[n + 1].asked = IF n + 1 = 1 THEN First ELSE sent'[(n + 1) - 1].next
        <5>1. n = 0 \/ (n \in 1..n /\ n + 1 # 1 /\ (n + 1) - 1 = n)
          BY <1>1
        <5> QED
          BY <1>1, <2>4, <2>6, <5>1
      <4> QED
        BY <2>7, <4>1, <4>2
    <3>2. \A k \in 1..(n + 1) : sent'[k].asked \in walk'.seen
      BY <1>1, <2>4, <2>5, <2>6, <2>7 DEF Asked, n
    <3>3. \A i, j \in 1..(n + 1) : sent'[i].asked = sent'[j].asked => i = j
      <4>1. \A i, j \in 1..n : sent[i].asked = sent[j].asked => i = j
        BY <1>1 DEF Asked, n
      <4> QED
        BY <1>1, <2>4, <2>6, <2>7, <4>1
    <3> QED
      BY <1>1, <2>4, <3>1, <3>2, <3>3 DEF Asked
  <2>9. ReadOne'
    <3>1. Total(sent') = walk'.items \o walk'.got
      BY <1>1, <2>1, <2>3, <2>5, TotalAppend DEF page, DrainType, InOrder
    <3>2. (n + 1) - 1 = n /\ n + 1 >= 1
      BY <1>1
    <3>3. \A k \in 1..n : Len(sent'[k].items) <= PageSize /\ sent'[k].next # BadToken /\ sent'[k].next # First
      BY <1>1, <2>4 DEF InOrder, WellMade, GoesOn, n
    <3>4. Len(walk'.items) <= MaxItems
      BY <1>1, <2>5 DEF InOrder
    <3> QED
      BY <1>1, <2>4, <2>5, <2>6, <3>1, <3>2, <3>3, <3>4 DEF ReadOne, WellMade, GoesOn
  <2>10. Asking' /\ Ending' /\ Answered'
    BY <1>1, <2>5 DEF Asking, Ending, Answered
  <2> QED
    BY <2>5, <2>8, <2>9, <2>10 DEF DrainInv
<1> QED
  BY <1>2, <1>3 DEF Fetch

(* What each refusal of a page means. *)
LEMMA RefusalIs ==
  ASSUME DrainType
  PROVE  \/ stopped = TRUE /\ Refusal = Fault("operation_canceled", TRUE)
         \/ /\ walk.error # "none"
            /\ Refusal \in {Fault("service_fault", FALSE), Fault("service_fault", TRUE), Fault("page_fetch_failed", TRUE)}
         \/ /\ walk.error = "none" /\ (walk.next = BadToken \/ Len(walk.got) > PageSize)
            /\ Refusal = Fault("invalid_page_contract", FALSE)
         \/ /\ walk.error = "none" /\ Len(walk.got) > MaxItems - Len(walk.items)
            /\ Refusal = Fault("pagination_item_limit", FALSE)
         \/ /\ walk.error = "none" /\ walk.next # BadToken /\ Len(walk.got) <= PageSize
            /\ ~(Len(walk.got) > MaxItems - Len(walk.items)) /\ Refusal = Pending
<1>1. walk.error \in {"none", "page error", "final fault", "retryable fault"} /\ Len(walk.got) \in Nat
  <2>1. walk.error \in {"none"} \cup Malformed
    BY DEF DrainType
  <2>2. walk.got \in Seq(Items)
    BY DEF DrainType
  <2>3. Len(walk.got) \in Nat
    BY <2>2
  <2> QED
    BY <2>1, <2>3 DEF Malformed
<1>2. CASE stopped = TRUE
  BY <1>2 DEF Refusal, Canceled
<1>3. CASE stopped = FALSE /\ walk.error \in {"final fault", "retryable fault"}
  BY <1>3 DEF Refusal
<1>4. CASE stopped = FALSE /\ walk.error = "page error"
  BY <1>4 DEF Refusal
<1>5. CASE stopped = FALSE /\ walk.error = "none" /\ (walk.next = BadToken \/ Len(walk.got) > PageSize)
  <2>1. ~(walk.next # BadToken /\ Len(walk.got) <= PageSize)
    BY <1>1, <1>5, BudgetsAre
  <2> QED
    BY <1>5, <2>1 DEF Refusal
<1>6. CASE stopped = FALSE /\ walk.error = "none" /\ ~(walk.next = BadToken \/ Len(walk.got) > PageSize)
  <2>1. walk.next # BadToken /\ Len(walk.got) <= PageSize
    BY <1>1, <1>6, BudgetsAre
  <2> QED
    BY <1>1, <1>6, <2>1 DEF Refusal
<1> QED
  BY <1>1, <1>2, <1>3, <1>4, <1>5, <1>6 DEF DrainType

LEMMA RoomLeft == \A a, b, m \in Nat : b > m - a <=> ~(a + b <= m)
OBVIOUS

LEMMA PendingIs == \A code, retry : Fault(code, retry) # Pending
BY DEF Fault, Pending

(* A page on which the traversal may go on, or end. *)
LEMMA ReadPageKeeps ==
  ASSUME DrainInv, ReadPage
  PROVE  DrainInv'
<1> DEFINE n == Len(sent)
<1>1. /\ walk.step = "read" /\ UNCHANGED <<sent, stopped>> /\ DrainType /\ Asked /\ ReadOne
      /\ walk.answer.kind = "pending"
  BY DEF ReadPage, Walking, DrainInv, Answered
<1>2. /\ sent \in Seq(Sent) /\ n \in Nat /\ walk.items \in Seq(Items) /\ walk.got \in Seq(Items)
      /\ DOMAIN sent = 1..n /\ Len(walk.items) \in Nat /\ Len(walk.got) \in Nat
  <2>1. sent \in Seq(Sent) /\ walk.items \in Seq(Items) /\ walk.got \in Seq(Items)
    BY <1>1 DEF DrainType
  <2> QED
    BY <2>1
<1>3. AllItems = Total(sent)
  BY DEF AllItems, Total
<1> HIDE DEF n
<1>4. ASSUME walk.error = "none"
      PROVE  /\ n >= 1 /\ n \in 1..n /\ walk.page = n
             /\ sent[n].items = walk.got /\ sent[n].next = walk.next
             /\ Total(sent) = walk.items \o walk.got /\ Len(walk.items) <= MaxItems
             /\ \A k \in 1..(n - 1) : WellMade(k) /\ GoesOn(k)
             /\ Len(Total(sent)) = Len(walk.items) + Len(walk.got)
  <2>1. /\ n >= 1 /\ walk.page = n
        /\ sent[n].items = walk.got /\ sent[n].next = walk.next
        /\ Total(sent) = walk.items \o walk.got /\ Len(walk.items) <= MaxItems
        /\ \A k \in 1..(n - 1) : WellMade(k) /\ GoesOn(k)
    BY <1>1, <1>4 DEF ReadOne, n
  <2>2. Len(walk.items \o walk.got) = Len(walk.items) + Len(walk.got)
    BY <1>2
  <2>3. n \in 1..n
    BY <1>2, <2>1
  <2> QED
    BY <2>1, <2>2, <2>3
<1> DEFINE more == [walk EXCEPT !.items = walk.items \o walk.got, !.got = <<>>]
<1>5. CASE Refusal # Pending /\ Answer(Refusal)
  <2>1. CASE stopped = TRUE /\ Refusal = Fault("operation_canceled", TRUE)
    BY <1>1, <1>5, <2>1, DrainFaultKeeps DEF FaultCodes
  <2>2. CASE /\ walk.error # "none"
             /\ Refusal \in {Fault("service_fault", FALSE), Fault("service_fault", TRUE), Fault("page_fetch_failed", TRUE)}
    BY <1>1, <1>5, <2>2, DrainFaultKeeps DEF FaultCodes
  <2>3. CASE /\ walk.error = "none" /\ (walk.next = BadToken \/ Len(walk.got) > PageSize)
             /\ Refusal = Fault("invalid_page_contract", FALSE)
    <3>1. ~Whole
      <4>1. ~(Len(sent[n].items) <= PageSize /\ sent[n].next # BadToken)
        BY <1>2, <1>4, <2>3, BudgetsAre
      <4> QED
        BY <1>2, <1>4, <2>3, <4>1 DEF Whole
    <3> QED
      BY <1>1, <1>5, <2>3, <3>1, DrainFaultKeeps DEF FaultCodes
  <2>4. CASE /\ walk.error = "none" /\ Len(walk.got) > MaxItems - Len(walk.items)
             /\ Refusal = Fault("pagination_item_limit", FALSE)
    <3>1. ~(Len(AllItems) <= MaxItems)
      BY <1>2, <1>3, <1>4, <2>4, BudgetsAre, RoomLeft, Zenon
    <3>2. ~Whole
      BY <3>1 DEF Whole
    <3> QED
      BY <1>1, <1>5, <2>4, <3>2, DrainFaultKeeps DEF FaultCodes
  <2> QED
    BY <1>1, <1>5, <2>1, <2>2, <2>3, <2>4, RefusalIs
<1>6. CASE Refusal = Pending
  <2>1. /\ walk.error = "none" /\ walk.next # BadToken /\ Len(walk.got) <= PageSize
        /\ ~(Len(walk.got) > MaxItems - Len(walk.items))
    BY <1>1, <1>6, RefusalIs, PendingIs
  <2>2. Len(Total(sent)) <= MaxItems
    BY <1>2, <1>4, <2>1, BudgetsAre, RoomLeft, Zenon
  <2>3. \A k \in 1..n : WellMade(k)
    <3>1. \A k \in 1..n : k \in 1..(n - 1) \/ k = n
      BY <1>2
    <3>2. WellMade(n)
      BY <1>4, <2>1 DEF WellMade
    <3> QED
      BY <1>4, <2>1, <3>1, <3>2
  <2>4. walk.items \o walk.got \in Seq(Items) /\ <<>> \in Seq(Items)
    BY <1>2
  <2>5. CASE walk.next = First /\ walk' = [more EXCEPT !.step = "last"]
    <3>1. /\ DrainType' /\ walk'.step = "last" /\ walk'.items = Total(sent) /\ walk'.error = "none"
          /\ walk'.seen = walk.seen /\ walk'.answer = walk.answer
      BY <1>1, <1>4, <2>1, <2>4, <2>5 DEF DrainType
    <3>2. Asked'
      BY <1>1, <3>1 DEF Asked
    <3>3. Ending'
      <4>1. \A k \in 1..n : GoesOn(k) <=> k < n
        <5>1. \A k \in 1..n : (k \in 1..(n - 1) /\ k < n) \/ (k = n /\ ~(k < n))
          BY <1>2
        <5>2. ~GoesOn(n)
          BY <1>4, <2>1, <2>5 DEF GoesOn
        <5> QED
          BY <1>4, <2>1, <5>1, <5>2
      <4> QED
        BY <1>1, <1>4, <2>1, <2>2, <2>3, <3>1, <4>1 DEF Ending, InOrder, WellMade, GoesOn, n
    <3>4. Asking' /\ ReadOne' /\ Answered'
      BY <1>1, <3>1 DEF Asking, ReadOne, Answered
    <3> QED
      BY <3>1, <3>2, <3>3, <3>4 DEF DrainInv
  <2>6. CASE walk.next # First /\ Answer(Fault("pagination_cursor_loop", FALSE))
    <3>1. ~Whole
      BY <1>2, <1>4, <2>1, <2>6, Unfinished DEF n
    <3> QED
      BY <1>1, <2>6, <3>1, DrainFaultKeeps DEF FaultCodes
  <2>7. CASE /\ walk.next # First /\ walk.next \notin walk.seen
             /\ walk' = [more EXCEPT !.step = "next", !.page = walk.page + 1, !.token = walk.next,
                                     !.seen = walk.seen \cup {walk.next}]
    <3>1. DrainType'
      <4>1. walk.next \in Cursors /\ walk.seen \in SUBSET Cursors
        BY <1>1 DEF DrainType
      <4>2. walk.seen \cup {walk.next} \in SUBSET Cursors /\ walk.page + 1 \in Nat
        BY <1>2, <1>4, <2>1, <4>1
      <4> QED
        BY <1>1, <2>4, <2>7, <4>1, <4>2 DEF DrainType
    <3>2. /\ walk'.step = "next" /\ walk'.items = Total(sent) /\ walk'.error = "none"
          /\ walk'.seen = walk.seen \cup {walk.next} /\ walk'.answer = walk.answer
          /\ walk'.page = n + 1 /\ walk'.token = walk.next
      BY <1>1, <1>4, <2>1, <2>7 DEF DrainType
    <3>3. Asked'
      BY <1>1, <3>2 DEF Asked
    <3>4. Asking'
      <4>1. \A k \in 1..n : GoesOn(k)
        <5>1. \A k \in 1..n : k \in 1..(n - 1) \/ k = n
          BY <1>2
        <5>2. GoesOn(n)
          BY <1>4, <2>1, <2>7 DEF GoesOn
        <5> QED
          BY <1>4, <2>1, <5>1, <5>2
      <4>2. \A k \in 1..n : sent[k].asked # walk.next
        BY <1>1, <2>7 DEF Asked, n
      <4>3. n # 0
        BY <1>4, <2>1
      <4> QED
        BY <1>1, <1>4, <2>1, <2>2, <2>3, <3>2, <4>1, <4>2, <4>3 DEF Asking, InOrder, WellMade, GoesOn, n
    <3>5. Ending' /\ ReadOne' /\ Answered'
      BY <1>1, <3>2 DEF Ending, ReadOne, Answered
    <3> QED
      BY <3>1, <3>3, <3>4, <3>5 DEF DrainInv
  <2> QED
    BY <1>6, <2>5, <2>6, <2>7 DEF ReadPage
<1> QED
  BY <1>5, <1>6 DEF ReadPage

LEMMA ShownIs ==
  ASSUME NEW items \in Seq(Items)
  PROVE  LET whole == [Pending EXCEPT !.kind = "items", !.items = items]
         IN  whole \in DrainAnswers /\ whole.kind = "items" /\ whole.items = items
<1>1. Pending \in DrainAnswers
  <2>1. <<>> \in Seq(Items)
    OBVIOUS
  <2> QED
    BY <2>1 DEF Pending, DrainAnswers
<1>2. \A a \in DrainAnswers : LET whole == [a EXCEPT !.kind = "items", !.items = items]
                             IN  whole \in DrainAnswers /\ whole.kind = "items" /\ whole.items = items
  BY DEF DrainAnswers
<1> QED
  BY <1>1, <1>2

(* The list that is shown is the whole answer, and a refused one was not. *)
LEMMA ListKeeps ==
  ASSUME DrainInv, List
  PROVE  DrainInv'
<1>1. /\ walk.step = "list" /\ UNCHANGED <<sent, stopped>> /\ DrainType /\ Asked /\ InOrder /\ Len(sent) >= 1
      /\ \A k \in 1..Len(sent) : GoesOn(k) <=> k < Len(sent)
  BY DEF List, Walking, DrainInv, Ending
<1>2. sent \in Seq(Sent) /\ Len(sent) \in Nat /\ DOMAIN sent = 1..Len(sent) /\ sent # <<>>
  <2>1. sent \in Seq(Sent)
    BY <1>1 DEF DrainType
  <2> QED
    BY <1>1, <2>1
<1>3. AllItems = walk.items
  <2>1. AllItems = Total(sent)
    BY DEF AllItems, Total
  <2> QED
    BY <1>1, <2>1 DEF InOrder
<1>4. CASE ~Distinct(walk.items) /\ Answer(Fault("unclassified", FALSE))
  <2>1. ~Whole
    BY <1>3, <1>4 DEF Whole
  <2> QED
    BY <1>1, <1>4, <2>1, DrainFaultKeeps DEF FaultCodes
<1>5. CASE stopped = TRUE /\ Answer(Fault("context", FALSE))
  BY <1>1, <1>5, DrainFaultKeeps DEF FaultCodes
<1>6. CASE Distinct(walk.items) /\ Answer([Pending EXCEPT !.kind = "items", !.items = walk.items])
  <2>1. Whole
    <3>1. \A k \in DOMAIN sent : Len(sent[k].items) <= PageSize /\ sent[k].next # BadToken
      BY <1>1, <1>2 DEF InOrder, WellMade
    <3>2. \A k \in DOMAIN sent : sent[k].asked = IF k = 1 THEN First ELSE sent[k - 1].next
      BY <1>1, <1>2 DEF Asked
    <3>3. \A k \in DOMAIN sent : sent[k].next = First <=> k = Len(sent)
      BY <1>1, <1>2 DEF GoesOn
    <3>4. Distinct([k \in DOMAIN sent |-> sent[k].asked])
      BY <1>1, <1>2 DEF Asked, Distinct
    <3> QED
      BY <1>1, <1>2, <1>3, <1>6, <3>1, <3>2, <3>3, <3>4 DEF Whole, Asked, InOrder
  <2> DEFINE whole == [Pending EXCEPT !.kind = "items", !.items = walk.items]
  <2>2. walk' = [walk EXCEPT !.step = "done", !.answer = whole]
    BY <1>6 DEF Answer
  <2>3. whole \in DrainAnswers /\ whole.kind = "items" /\ whole.items = walk.items
    <3>1. walk.items \in Seq(Items)
      BY <1>1 DEF DrainType
    <3> QED
      BY <3>1, ShownIs
  <2> HIDE DEF whole
  <2>4. DrainType'
    BY <1>1, <2>2, <2>3 DEF DrainType
  <2>5. /\ walk'.step = "done" /\ walk'.answer.kind = "items" /\ walk'.answer.items = walk.items
        /\ walk'.seen = walk.seen
    BY <1>1, <2>2, <2>3 DEF DrainType
  <2>6. Asked'
    BY <1>1, <2>5 DEF Asked
  <2>7. Asking' /\ ReadOne' /\ Ending'
    BY <2>5 DEF Asking, ReadOne, Ending
  <2>8. Answered'
    BY <1>1, <1>3, <2>1, <2>5, WholeStays DEF Answered
  <2> QED
    BY <2>4, <2>6, <2>7, <2>8 DEF DrainInv
<1> QED
  BY <1>1, <1>4, <1>5, <1>6 DEF List, DrainType

LEMMA DrainKeeps == DrainInv /\ [DrainNext]_drainVars => DrainInv'
<1> SUFFICES ASSUME DrainInv, [DrainNext]_drainVars PROVE DrainInv'
  OBVIOUS
<1>1. CASE UNCHANGED drainVars
  <2>1. walk' = walk /\ sent' = sent /\ stopped' = stopped /\ (Whole' <=> Whole) /\ AllItems' = AllItems
    BY <1>1, WholeStays DEF drainVars
  <2>2. DrainType' /\ Asked' /\ Answered'
    BY <2>1 DEF DrainInv, DrainType, Asked, Answered
  <2>3. Asking' /\ ReadOne' /\ Ending'
    BY <2>1 DEF DrainInv, Asking, ReadOne, Ending, InOrder, WellMade, GoesOn
  <2> QED
    BY <2>2, <2>3 DEF DrainInv
<1> QED
  BY <1>1, NextPageKeeps, FetchKeeps, ReadPageKeeps, CompleteKeeps, ListKeeps, CancelDrainKeeps DEF DrainNext, DrainStep

LEMMA DrainInvHolds == ServicesSpec => []DrainInv
BY DrainInitKeeps, DrainKeeps, ServicesCompose, PTL DEF DrainSpec

(* A list is the whole answer of the service, in its order, or nothing; and *)
(* a whole answer within the budget is not refused (Drain of pagination,    *)
(* List of samplecmd), whatever the service sends, in pages of any size.    *)
THEOREM DrainsAreWhole == ServicesSpec => []CompleteOrNothing
<1>1. DrainInv => CompleteOrNothing
  BY DEF DrainInv, DrainType, Answered, CompleteOrNothing, Walking
<1> QED
  BY <1>1, DrainInvHolds, PTL
=============================================================================
