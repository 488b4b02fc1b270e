---------------------------- MODULE MacInstaller -----------------------------
(***************************************************************************)
(* The macOS installer (scripts/macos/installer): install, upgrade with    *)
(* roll back, and uninstall, beside launchd, the running daemon, its user, *)
(* and a second installer.                                                 *)
(*                                                                         *)
(* A tree is an installation directory with the receipt in it, which says  *)
(* whether the product added the traffic CA to the keychain.  The active   *)
(* tree is at installRoot; backups, failed, staged and uninstalled trees   *)
(* are kept beside it and never deleted.  The file system applies renames  *)
(* in order; a death of the installer or of the machine comes between any  *)
(* two of them.                                                            *)
(***************************************************************************)
EXTENDS Integers, FiniteSets

CONSTANTS
  Installers,   \* installer processes
  MaxRuns,      \* bound: invocations of an installer
  MaxFailures  \* bound: failed calls, deaths, reboots, changes by the user

ASSUME RunsAssumption == MaxRuns \in Nat /\ MaxFailures \in Nat /\ IsFiniteSet(Installers)
ASSUME NamesAssumption == "none" \notin Installers

VARIABLES
  root,      \* the tree at installRoot
  plist,     \* is the launch plist in place?
  kept,      \* the trees beside installRoot
  inst,      \* the installers
  lock,      \* who holds installer.lock
  reg,       \* launchd's registration of the daemon
  daemon,    \* the daemon; it holds daemon.lock unless it is off
  traffic,   \* is the network of the machine the product's?
  cert,      \* is the CA in the system keychain?
  users,     \* is it the user's? (history)
  lost,      \* did an interruption leave neither tree nor plist in place? (history)
  runs, failures

installVars == <<root, plist, kept, inst, lock, reg, daemon, traffic, cert, users, lost, runs, failures>>

disk == <<root, plist, kept>>
machine == <<reg, daemon, traffic>>
keychain == <<cert, users>>
others == <<lost, runs>>

NoTree == [ver |-> 0, claims |-> FALSE]
Trees == [ver : 0..MaxRuns, claims : BOOLEAN]

\* macLife: the variables of one invocation.
Off == [pc |-> "off", id |-> 0, mode |-> "install", phase |-> "forward", old |-> FALSE,
        claims |-> FALSE, addedNow |-> FALSE, stage |-> NoTree, backup |-> NoTree,
        oldPlist |-> FALSE, undone |-> TRUE]

InstallTypeOK ==
  /\ root \in Trees /\ kept \in SUBSET Trees /\ plist \in BOOLEAN
  /\ inst \in [Installers -> [pc : STRING, id : 0..MaxRuns, mode : {"install", "uninstall"},
        phase : {"forward", "back", "uninstall"}, old : BOOLEAN, claims : BOOLEAN,
        addedNow : BOOLEAN, stage : Trees, backup : Trees, oldPlist : BOOLEAN, undone : BOOLEAN]]
  /\ lock \in Installers \cup {"none"}
  /\ reg \in {"no", "yes", "leaving"} /\ daemon \in {"off", "idle", "connected", "stopping"}
  /\ traffic \in {"clean", "product"} /\ cert \in BOOLEAN /\ users \in BOOLEAN /\ lost \in BOOLEAN
  /\ runs \in 0..MaxRuns /\ failures \in 0..MaxFailures

InstallInit ==
  /\ root = NoTree /\ plist = FALSE /\ kept = {}
  /\ inst = [i \in Installers |-> Off] /\ lock = "none"
  /\ reg = "no" /\ daemon = "off" /\ traffic = "clean"
  /\ cert \in BOOLEAN /\ users = cert
  /\ lost = FALSE /\ runs = 0 /\ failures = 0

Failure == failures < MaxFailures /\ failures' = failures + 1

goes(i, pc) == inst' = [inst EXCEPT ![i].pc = pc]

\* The program returns; its lock, if it had it, is released.
returns(i) == inst' = [inst EXCEPT ![i] = Off] /\ lock' = IF lock = i THEN "none" ELSE lock

\* An exchange of trees ends with nothing in place, neither tree nor plist.
interrupted(i) == lost' = (lost \/ (root = NoTree /\ ~plist /\ inst[i].backup # NoTree))

\* A call fails and the program returns its error.
failsOut(i) == returns(i) /\ Failure

-----------------------------------------------------------------------------
(* runPlatform *)

\* The program is started, as often as MaxRuns allows.
LaunchInstaller(i, mode) ==
  /\ inst[i].pc = "off" /\ runs < MaxRuns
  /\ runs' = runs + 1
  /\ inst' = [inst EXCEPT ![i] = [Off EXCEPT !.pc = "preflight", !.id = runs + 1, !.mode = mode]]
  /\ UNCHANGED <<disk, machine, keychain, lock, lost, failures>>

\* A check of files, modes, digests or accounts passes, or the program refuses.
verdict(i, pc) == \/ goes(i, pc) /\ UNCHANGED <<lock, failures>>
                  \/ failsOut(i)

\* launchctl print: only its exact answer for an unknown service counts as none.
registered == reg # "no"

\* A plist or a registered daemon without a tree.
orphan == root = NoTree /\ (plist \/ registered)

\* Paths, the installed tree, orphans.
Preflight(i) ==
  /\ inst[i].pc = "preflight"
  /\ \/ orphan /\ returns(i) /\ UNCHANGED failures
     \/ ~orphan /\ verdict(i, IF inst[i].mode = "install" THEN "payload" ELSE "lock")
  /\ UNCHANGED <<disk, machine, keychain, others>>

\* verifyTree of the payload against its manifest and the pinned digests.
VerifyPayload(i) ==
  /\ inst[i].pc = "payload" /\ verdict(i, "lock")
  /\ UNCHANGED <<disk, machine, keychain, others>>

\* The lock is exclusive and not waited for; all that was checked is checked
\* again under it.
TakeLock(i) ==
  /\ inst[i].pc = "lock"
  /\ IF lock # "none" THEN returns(i)
                      ELSE goes(i, "revalidate") /\ lock' = i
  /\ UNCHANGED <<disk, machine, keychain, others, failures>>

Revalidate(i) ==
  /\ inst[i].pc = "revalidate"
  /\ \/ /\ orphan \/ (inst[i].mode = "uninstall" /\ root = NoTree)
        /\ returns(i) /\ UNCHANGED failures
     \/ /\ ~orphan /\ (inst[i].mode = "uninstall" => root # NoTree)
        /\ inst' = [inst EXCEPT ![i].old = root # NoTree,
                                ![i].phase = IF inst[i].mode = "install" THEN "forward" ELSE "uninstall",
                                ![i].pc = IF inst[i].mode = "install" THEN "owner" ELSE "disconnect"]
        /\ UNCHANGED <<lock, failures>>
     \/ failsOut(i)
  /\ UNCHANGED <<disk, machine, keychain, others>>

\* The owner is the console user, or the one of the receipt.
InstallOwner(i) ==
  /\ inst[i].pc = "owner" /\ verdict(i, "status")
  /\ UNCHANGED <<disk, machine, keychain, others>>

-----------------------------------------------------------------------------
(* replace, uninstall: the shared steps *)

\* An upgrade goes on only when the service is idle or absent.
Status(i) ==
  /\ inst[i].pc = "status"
  /\ \/ /\ ~registered \/ daemon = "idle"
        /\ goes(i, "stop") /\ UNCHANGED <<lock, failures>>
     \/ ~(~registered \/ daemon = "idle") /\ returns(i) /\ UNCHANGED failures
     \/ failsOut(i)
  /\ UNCHANGED <<disk, machine, keychain, others>>

\* uninstall disconnects through the client first.
Disconnect(i) ==
  /\ inst[i].pc = "disconnect"
  /\ \/ ~registered /\ goes(i, "stop") /\ UNCHANGED <<lock, daemon, traffic, failures>>
     \/ /\ registered /\ daemon \in {"idle", "connected"}
        /\ daemon' = "idle" /\ traffic' = "clean"
        /\ goes(i, "stop") /\ UNCHANGED <<lock, failures>>
     \/ /\ registered /\ daemon \in {"off", "stopping"} /\ returns(i)
        /\ UNCHANGED <<daemon, traffic, failures>>
     \/ registered /\ failsOut(i) /\ UNCHANGED <<daemon, traffic>>
  /\ UNCHANGED <<disk, reg, keychain, others>>

\* step "stop": bootout of a registered service.
StopBootout(i) ==
  /\ inst[i].pc = "stop"
  /\ \/ ~registered /\ goes(i, "await") /\ UNCHANGED <<lock, reg, daemon, failures>>
     \/ /\ registered /\ reg' = "leaving" /\ daemon' = IF daemon = "off" THEN "off" ELSE "stopping"
        /\ goes(i, "unregister") /\ UNCHANGED <<lock, failures>>
     \/ registered /\ failsOut(i) /\ UNCHANGED <<reg, daemon>>
  /\ UNCHANGED <<disk, traffic, keychain, others>>

\* waitUnregistered: ten seconds of asking launchd.
WaitUnregistered(i) ==
  /\ inst[i].pc = "unregister"
  /\ \/ ~registered /\ goes(i, "await") /\ UNCHANGED <<lock, failures>>
     \/ registered /\ failsOut(i)
  /\ UNCHANGED <<disk, machine, keychain, others>>

\* Then wait for the daemon to release its lock.
AwaitDaemonLock(i) ==
  /\ inst[i].pc = "await"
  /\ \/ daemon = "off" /\ goes(i, "restore") /\ UNCHANGED <<lock, failures>>
     \/ daemon # "off" /\ failsOut(i)
  /\ UNCHANGED <<disk, machine, keychain, others>>

\* Mutant: an idle service has nothing to restore.
restoreSkipped(i) ==
  /\ inst[i].pc = "restore"
  /\ goes(i, CASE inst[i].phase = "forward" -> "stage"
               [] inst[i].phase = "back" -> "unca"
               [] OTHER -> "receipt")
  /\ UNCHANGED <<disk, machine, keychain, others, lock, failures>>

\* step "restore": the installed service, offline, under the daemon's lock.
Restore(i) ==
  /\ inst[i].pc = "restore"
  /\ \/ /\ root = NoTree \/ daemon = "off"
        /\ traffic' = IF root = NoTree THEN traffic ELSE "clean"
        /\ goes(i, CASE inst[i].phase = "forward" -> "stage"
                     [] inst[i].phase = "back" -> "unca"
                     [] OTHER -> "receipt")
        /\ UNCHANGED <<lock, failures>>
     \/ root # NoTree /\ daemon # "off" /\ returns(i) /\ UNCHANGED <<traffic, failures>>
     \/ root # NoTree /\ failsOut(i) /\ UNCHANGED traffic
  /\ UNCHANGED <<disk, reg, daemon, keychain, others>>

-----------------------------------------------------------------------------
(* prepareStage, activate *)

\* Mutant: the new receipt starts from nothing.
stageForgetsCA(i) ==
  /\ inst[i].pc = "stage"
  /\ inst' = [inst EXCEPT ![i].pc = "moveOld", ![i].stage = [ver |-> inst[i].id, claims |-> FALSE]]
  /\ kept' = kept \cup {[ver |-> inst[i].id, claims |-> FALSE]}
  /\ UNCHANGED <<root, plist, machine, keychain, others, lock, failures>>

\* A complete new tree, whose receipt carries the old one's claim to the CA.
\* A half copied tree is left behind; then the old service is started again.
PrepareStage(i) ==
  /\ inst[i].pc = "stage"
  /\ LET new == [ver |-> inst[i].id, claims |-> inst[i].old /\ root.claims]
     IN \/ /\ inst' = [inst EXCEPT ![i].pc = "moveOld", ![i].stage = new, ![i].claims = new.claims]
           /\ kept' = kept \cup {new} /\ UNCHANGED failures
        \/ goes(i, "startOld") /\ Failure /\ UNCHANGED kept
  /\ UNCHANGED <<root, plist, machine, keychain, others, lock>>

\* A rename of activate fails: what was moved is moved back, in reverse.
undo(i) == goes(i, "undoNew") /\ Failure

MoveOld(i) ==
  /\ inst[i].pc = "moveOld"
  /\ \/ /\ inst[i].old
        /\ root' = NoTree /\ kept' = kept \cup {root}
        /\ inst' = [inst EXCEPT ![i].pc = "movePlist", ![i].backup = root]
        /\ UNCHANGED failures
     \/ ~inst[i].old /\ goes(i, "movePlist") /\ UNCHANGED <<root, kept, failures>>
     \/ inst[i].old /\ undo(i) /\ UNCHANGED <<root, kept>>
  /\ UNCHANGED <<plist, machine, keychain, others, lock>>

MovePlist(i) ==
  /\ inst[i].pc = "movePlist"
  /\ \/ /\ inst' = [inst EXCEPT ![i].pc = "moveStage", ![i].oldPlist = plist]
        /\ plist' = FALSE /\ UNCHANGED failures
     \/ undo(i) /\ UNCHANGED plist
  /\ UNCHANGED <<root, kept, machine, keychain, others, lock>>

MoveStage(i) ==
  /\ inst[i].pc = "moveStage"
  /\ \/ /\ root' = inst[i].stage /\ kept' = kept \ {inst[i].stage}
        /\ goes(i, "writePlist") /\ UNCHANGED failures
     \/ undo(i) /\ UNCHANGED <<root, kept>>
  /\ UNCHANGED <<plist, machine, keychain, others, lock>>

\* privateWrite may fail after it created the file; then the directory is synced.
WritePlist(i) ==
  /\ inst[i].pc = "writePlist"
  /\ \/ plist' = TRUE /\ goes(i, "bootstrap") /\ UNCHANGED failures
     \/ plist' \in BOOLEAN /\ undo(i)
  /\ UNCHANGED <<root, kept, machine, keychain, others, lock>>

\* The deferred undo: a rename that fails does not stop the others, but the
\* old service is then not started.
halfUndone(i, pc) == inst' = [inst EXCEPT ![i].pc = pc, ![i].undone = FALSE]

UndoNew(i) ==
  /\ inst[i].pc = "undoNew"
  /\ \/ root # inst[i].stage /\ goes(i, "undoOld") /\ UNCHANGED <<disk, failures>>
     \/ /\ root = inst[i].stage
        /\ root' = NoTree /\ kept' = kept \cup {root} /\ plist' = FALSE
        /\ goes(i, "undoOld") /\ UNCHANGED failures
     \/ /\ root = inst[i].stage /\ halfUndone(i, "undoOld") /\ Failure
        /\ \/ plist' = FALSE /\ UNCHANGED <<root, kept>>
           \/ root' = NoTree /\ kept' = kept \cup {root} /\ UNCHANGED plist
  /\ UNCHANGED <<machine, keychain, others, lock>>

\* The backup cannot be moved over a tree that is still in place.
UndoOld(i) ==
  /\ inst[i].pc = "undoOld"
  /\ \/ inst[i].backup = NoTree /\ goes(i, "undoPlist") /\ UNCHANGED <<root, kept, failures>>
     \/ /\ inst[i].backup # NoTree /\ root = NoTree
        /\ root' = inst[i].backup /\ kept' = kept \ {inst[i].backup}
        /\ goes(i, "undoPlist") /\ UNCHANGED failures
     \/ /\ inst[i].backup # NoTree /\ root # NoTree
        /\ halfUndone(i, "undoPlist") /\ UNCHANGED <<root, kept, failures>>
     \/ inst[i].backup # NoTree /\ halfUndone(i, "undoPlist") /\ Failure /\ UNCHANGED <<root, kept>>
  /\ UNCHANGED <<plist, machine, keychain, others, lock>>

UndoPlist(i) ==
  /\ inst[i].pc = "undoPlist"
  /\ \/ plist' = (plist \/ inst[i].oldPlist) /\ goes(i, "startOld") /\ UNCHANGED failures
     \/ inst[i].oldPlist /\ halfUndone(i, "startOld") /\ Failure /\ UNCHANGED plist
  /\ UNCHANGED <<root, kept, machine, keychain, others, lock>>

-----------------------------------------------------------------------------
(* start, installCA *)

\* step "start" failed: stop, restore, rollback, start-old.
backOut(i) == inst' = [inst EXCEPT ![i].pc = "stop", ![i].phase = "back"]

\* bootstrap may register the service although it reports an error.
Bootstrap(i) ==
  /\ inst[i].pc = "bootstrap"
  /\ \/ reg' = "yes" /\ goes(i, "waitIdle") /\ UNCHANGED failures
     \/ reg' \in {reg, "yes"} /\ backOut(i) /\ Failure
  /\ UNCHANGED <<disk, daemon, traffic, keychain, others, lock>>

\* A service that answers must be idle; one that does not is waited for.
WaitIdle(i) ==
  /\ inst[i].pc = "waitIdle"
  /\ \/ daemon = "idle" /\ goes(i, "checkCA") /\ UNCHANGED failures
     \/ daemon = "connected" /\ backOut(i) /\ UNCHANGED failures
     \/ backOut(i) /\ Failure
  /\ UNCHANGED <<disk, machine, keychain, others, lock>>

\* An exact certificate that exists is left alone, its trust verified.
CheckCA(i) ==
  /\ inst[i].pc = "checkCA"
  /\ \/ cert /\ returns(i) /\ UNCHANGED failures
     \/ ~cert /\ goes(i, "recordCA") /\ UNCHANGED <<lock, failures>>
     \/ backOut(i) /\ Failure /\ UNCHANGED lock
  /\ UNCHANGED <<disk, machine, keychain, others>>

\* The receipt is replaced before the keychain is touched.  l.r claims the CA
\* from the first line on; addedNow only once the receipt is on disk.
RecordCA(i) ==
  /\ inst[i].pc = "recordCA"
  /\ \/ /\ root' = [root EXCEPT !.claims = TRUE]
        /\ inst' = [inst EXCEPT ![i].pc = "addCA", ![i].claims = TRUE, ![i].addedNow = TRUE]
        /\ UNCHANGED failures
     \/ /\ root' \in {root, [root EXCEPT !.claims = TRUE]}
        /\ inst' = [inst EXCEPT ![i].pc = "stop", ![i].phase = "back", ![i].claims = TRUE]
        /\ Failure
  /\ UNCHANGED <<plist, kept, machine, keychain, others, lock>>

\* add-trusted-cert, then its verification.
AddCA(i) ==
  /\ inst[i].pc = "addCA"
  /\ \/ cert' = TRUE /\ returns(i) /\ UNCHANGED failures
     \/ cert' \in BOOLEAN /\ backOut(i) /\ Failure /\ UNCHANGED lock
  /\ UNCHANGED <<disk, machine, users, others>>

-----------------------------------------------------------------------------
(* rollback, start-old, uninstall *)

\* removeCA of finishOwnedCARemoval: only what the receipt claims.
removesCA(i, claimed, next) ==
  /\ \/ cert' = (cert /\ ~claimed) /\ goes(i, next) /\ UNCHANGED <<lock, failures>>
     \/ cert /\ claimed /\ failsOut(i) /\ UNCHANGED cert
  /\ UNCHANGED users

RollbackCA(i) ==
  /\ inst[i].pc = "unca"
  /\ removesCA(i, inst[i].addedNow /\ inst[i].claims, "moveFailed")
  /\ UNCHANGED <<disk, machine, others>>

RollbackRoot(i) ==
  /\ inst[i].pc = "moveFailed"
  /\ \/ root' = NoTree /\ kept' = kept \cup {root} /\ goes(i, "failPlist") /\ UNCHANGED <<lock, failures>>
     \/ failsOut(i) /\ UNCHANGED <<root, kept>>
  /\ UNCHANGED <<plist, machine, keychain, others>>

RollbackPlist(i) ==
  /\ inst[i].pc = "failPlist"
  /\ \/ plist' = FALSE /\ goes(i, "moveBack") /\ UNCHANGED <<lock, failures>>
     \/ failsOut(i) /\ UNCHANGED plist
  /\ UNCHANGED <<root, kept, machine, keychain, others>>

RollbackOld(i) ==
  /\ inst[i].pc = "moveBack"
  /\ \/ /\ inst[i].old
        /\ root' = inst[i].backup /\ kept' = kept \ {inst[i].backup}
        /\ goes(i, "undoPlist") /\ UNCHANGED <<lock, lost, failures>>
     \/ ~inst[i].old /\ goes(i, "startOld") /\ UNCHANGED <<root, kept, lock, lost, failures>>
     \/ inst[i].old /\ failsOut(i) /\ interrupted(i) /\ UNCHANGED <<root, kept>>
  /\ UNCHANGED <<plist, machine, keychain, runs>>

\* start-old: nothing is started without an old plist.
StartOld(i) ==
  /\ inst[i].pc = "startOld" /\ interrupted(i)
  /\ LET starting == inst[i].undone /\ inst[i].old /\ plist
     IN \/ reg' = (IF starting THEN "yes" ELSE reg) /\ returns(i) /\ UNCHANGED failures
        \/ starting /\ failsOut(i) /\ reg' \in {reg, "yes"}
  /\ UNCHANGED <<disk, daemon, traffic, keychain, runs>>

UninstallCA(i) ==
  /\ inst[i].pc = "receipt"
  /\ removesCA(i, root.claims, "dropPlist")
  /\ UNCHANGED <<disk, machine, others>>

\* The plist goes first, then the tree: both renamed.
UninstallPlist(i) ==
  /\ inst[i].pc = "dropPlist"
  /\ \/ plist' = FALSE /\ goes(i, "dropRoot") /\ UNCHANGED <<lock, failures>>
     \/ failsOut(i) /\ UNCHANGED plist
  /\ UNCHANGED <<root, kept, machine, keychain, others>>

UninstallRoot(i) ==
  /\ inst[i].pc = "dropRoot"
  /\ \/ root' = NoTree /\ kept' = kept \cup {root} /\ returns(i) /\ UNCHANGED failures
     \/ failsOut(i) /\ UNCHANGED <<root, kept>>
  /\ UNCHANGED <<plist, machine, keychain, others>>

-----------------------------------------------------------------------------
(* launchd, the daemon, the user, deaths *)

\* launchd starts a registered daemon; it restores the network before it serves.
DaemonStarts ==
  /\ reg = "yes" /\ daemon = "off" /\ root # NoTree
  /\ daemon' = "idle" /\ traffic' = "clean"
  /\ UNCHANGED <<disk, inst, lock, reg, keychain, others, failures>>

UserConnects ==
  /\ daemon = "idle" /\ daemon' = "connected" /\ traffic' = "product"
  /\ UNCHANGED <<disk, inst, lock, reg, keychain, others, failures>>

UserDisconnects ==
  /\ daemon = "connected" /\ daemon' = "idle" /\ traffic' = "clean"
  /\ UNCHANGED <<disk, inst, lock, reg, keychain, others, failures>>

\* SIGTERM: the daemon disconnects, or is killed before it has.
DaemonStops ==
  /\ daemon = "stopping" /\ daemon' = "off"
  /\ \/ traffic' = "clean" /\ UNCHANGED failures
     \/ traffic = "product" /\ Failure /\ UNCHANGED traffic
  /\ UNCHANGED <<disk, inst, lock, reg, keychain, others>>

\* launchd drops the service, before or after its process is gone.
Unregisters ==
  /\ reg = "leaving" /\ reg' = "no"
  /\ UNCHANGED <<disk, inst, lock, daemon, traffic, keychain, others, failures>>

DaemonKilled ==
  /\ daemon # "off" /\ Failure /\ daemon' = "off"
  /\ UNCHANGED <<disk, inst, lock, reg, traffic, keychain, others>>

\* The installer is killed, by a user or with the machine, whose launchd then
\* loads the plist again.
InstallerDies(i) ==
  /\ inst[i].pc # "off" /\ Failure /\ returns(i)
  /\ interrupted(i)
  /\ UNCHANGED <<disk, machine, keychain, runs>>

MachineReboots ==
  /\ Failure
  /\ IF lock = "none" THEN UNCHANGED lost ELSE interrupted(lock)
  /\ inst' = [i \in Installers |-> Off] /\ lock' = "none"
  /\ daemon' = "off" /\ reg' = IF plist THEN "yes" ELSE "no"
  /\ UNCHANGED <<disk, traffic, keychain, runs>>

\* The user's own certificate; what the active receipt claims is the product's.
UserEditsKeychain ==
  /\ lock = "none" /\ Failure
  /\ cert' = ~cert /\ users' = (~cert /\ ~root.claims)
  /\ UNCHANGED <<disk, inst, lock, machine, others>>

-----------------------------------------------------------------------------

prepares(i) == Preflight(i) \/ VerifyPayload(i) \/ TakeLock(i) \/ Revalidate(i) \/ InstallOwner(i) \/ Status(i)
               \/ Disconnect(i)
stops(i) == StopBootout(i) \/ WaitUnregistered(i) \/ AwaitDaemonLock(i) \/ Restore(i)
activates(i) == PrepareStage(i) \/ MoveOld(i) \/ MovePlist(i) \/ MoveStage(i) \/ WritePlist(i)
                \/ UndoNew(i) \/ UndoOld(i) \/ UndoPlist(i)
starts(i) == Bootstrap(i) \/ WaitIdle(i) \/ CheckCA(i) \/ RecordCA(i) \/ AddCA(i) \/ StartOld(i)
removes(i) == RollbackCA(i) \/ RollbackRoot(i) \/ RollbackPlist(i) \/ RollbackOld(i)
              \/ UninstallCA(i) \/ UninstallPlist(i) \/ UninstallRoot(i)

InstallNext ==
  \/ \E i \in Installers :
       \/ \E mode \in {"install", "uninstall"} : LaunchInstaller(i, mode)
       \/ prepares(i) \/ stops(i) \/ activates(i) \/ starts(i) \/ removes(i)
       \/ InstallerDies(i)
  \/ DaemonStarts \/ UserConnects \/ UserDisconnects \/ DaemonStops \/ Unregisters
  \/ DaemonKilled \/ MachineReboots \/ UserEditsKeychain

InstallSpec == InstallInit /\ [][InstallNext]_installVars

-----------------------------------------------------------------------------
(* Properties *)

\* Trees are exchanged (activate, its undo, rollback, uninstall) only when no
\* daemon runs or can be started, and the network is the user's again.
SwapsAreQuiet ==
  [][root'.ver # root.ver => reg = "no" /\ daemon = "off" /\ traffic = "clean"]_installVars

\* The certificate in the keychain is the user's, or a receipt claims it ("so
\* interruption does not lose ownership", installCA): the active one, unless an
\* interruption left nothing in place and the next install was a fresh one, and
\* then one of a tree that was kept.  The user's own is never removed.
CertificateIsOwned ==
  /\ users => cert
  /\ cert /\ ~users =>
       /\ \E t \in kept \cup {root} : t.claims
       /\ root # NoTree /\ ~lost => root.claims

=============================================================================
