----------------------------- MODULE BootScript -----------------------------
(***************************************************************************)
(* ug201x-boot.sh, run by TrueNAS after every boot: it rebuilds the module *)
(* in a container if there is none for the running kernel, loads it, and   *)
(* restores the LED service's unit under /etc.  The power may fail at any  *)
(* step; TrueNAS may give the script up after its timeout, and a container *)
(* it has started then goes on; insmod, cp and systemctl may fail, and the *)
(* script goes on without set -e; updates and rollbacks change the kernel  *)
(* and lose /etc; the script may be run again by hand.                     *)
(***************************************************************************)
EXTENDS Integers

CONSTANTS
  Kernels,     \* releases, as uname -r gives them
  Confusable   \* pairs <<k, m>>: the text k occurs in the vermagic of a
               \* module built for another kernel m

ASSUME BootAssumption ==
  /\ Kernels # {} /\ Confusable \subseteq Kernels \X Kernels
  /\ Kernels \cap {"none", "torn"} = {}

VARIABLES
  running,  \* uname -r
  ko,       \* ug201x_full.ko: "none", "torn", or the kernel it was built for
  loaded,   \* it is in the kernel
  unit,     \* the unit file under /etc: "none", "torn", "whole"
  enabled,  \* the service is
  pc,       \* where the script is; "ended" if it is not running
  build,    \* where its container is
  orphan,   \* where the container of an abandoned run is
  failed,   \* history: what of this run failed: its "build", "insmod" of a
            \* module, "copy" or "enable" of the unit; or the run began "beside"
            \* the container of an abandoned one
  done      \* history: the script's last run in this boot came to its end

file == <<ko, build, orphan>>
etc  == <<unit, enabled>>
vars == <<running, ko, loaded, unit, enabled, pc, build, orphan, failed, done>>

Steps == {"apt", "make", "link"}

-----------------------------------------------------------------------------
(* The container: apt-get, make clean, make.                               *)

(* module_vermagic_matches; modinfo finds nothing in half a module.        *)
module_vermagic_matches ==
  \/ ko = running
  \/ ko \in Kernels /\ <<running, ko>> \in Confusable

Built(from, to, new) ==
  \/ from = "apt" /\ to = "make" /\ new = "none"      \* make clean
  \/ from = "make" /\ to = "link" /\ new = "torn"
  \/ from = "link" /\ to = "ok" /\ new = running

(* No network yet, or it does not compile.                                 *)
BuildFails(from, new) ==
  from \in Steps /\ new = (IF from = "apt" THEN ko ELSE "none")

BuildGoesOn ==
  /\ pc = "build"
  /\ \/ \E to \in Steps \cup {"ok"} :
          Built(build, to, ko') /\ build' = to /\ UNCHANGED failed
     \/ /\ BuildFails(build, ko') /\ build' = "failed"
        /\ failed' = failed \cup {"build"}
  /\ UNCHANGED <<running, loaded, etc, pc, orphan, done>>

(* Not noticing that it has ended.                                         *)
OrphanStays ==
  /\ orphan # "none"
  /\ \E to \in Steps \cup {"ok"} : Built(orphan, to, ko') /\ orphan' = to
  /\ UNCHANGED <<running, loaded, etc, pc, build, failed, done>>

OrphanGoesOn ==
  /\ orphan # "none"
  /\ \/ \E to \in Steps \cup {"ok"} :
          Built(orphan, to, ko') /\ orphan' = IF to = "ok" THEN "none" ELSE to
     \/ BuildFails(orphan, ko') /\ orphan' = "none"
  /\ UNCHANGED <<running, loaded, etc, pc, build, failed, done>>

-----------------------------------------------------------------------------
(* The script.                                                             *)

(* With pipefail a loaded module is overlooked if lsmod is still writing   *)
(* when grep has found it.                                                 *)
CheckLoaded ==
  /\ pc = "lsmod"
  /\ \/ pc' = "module"
     \/ loaded /\ pc' = "unit"
  /\ UNCHANGED <<running, file, loaded, etc, failed, done>>

(* For a fresh build of whatever is not loaded.                            *)
AlwaysBuild == TRUE

NeedsBuild == ~ module_vermagic_matches

CheckModule ==
  /\ pc = "module"
  /\ \/ /\ NeedsBuild
        /\ pc' = "build" /\ build' = "apt"
     \/ /\ ~ NeedsBuild
        /\ pc' = "usable" /\ UNCHANGED build
  /\ UNCHANGED <<running, ko, loaded, etc, orphan, failed, done>>

(* Leaving what was just built for the next boot to load.                  *)
LoadNextTime ==
  /\ pc = "build" /\ build \in {"ok", "failed"}
  /\ pc' = "unit" /\ build' = "none"
  /\ UNCHANGED <<running, ko, loaded, etc, orphan, failed, done>>

EndBuild ==
  /\ pc = "build" /\ build \in {"ok", "failed"}
  /\ pc' = "usable" /\ build' = "none"
  /\ UNCHANGED <<running, ko, loaded, etc, orphan, failed, done>>

CheckUsable ==
  /\ pc = "usable"
  /\ pc' = IF module_vermagic_matches THEN "insmod" ELSE "unit"
  /\ UNCHANGED <<running, file, loaded, etc, failed, done>>

(* The kernel refuses what was built for another one, or is loaded, and it *)
(* may refuse what was built for it.                                       *)
insmod ==
  /\ pc = "insmod"
  /\ \/ loaded' = (loaded \/ ko = running) /\ UNCHANGED failed
     \/ failed' = failed \cup {"insmod"} /\ UNCHANGED loaded
  /\ pc' = "unit"
  /\ UNCHANGED <<running, file, etc, done>>

UnitIsThere == unit # "none"

(* [ -f ] and cmp.                                                         *)
UnitIsGood == unit = "whole"

CheckUnit ==
  /\ pc = "unit"
  /\ pc' = IF UnitIsGood THEN "enable" ELSE "copy"
  /\ UNCHANGED <<running, file, loaded, etc, failed, done>>

(* cp truncates, then writes, and may fail at either.                      *)
CopyUnit ==
  /\ \/ pc = "copy" /\ unit' = "torn" /\ pc' = "copying" /\ UNCHANGED failed
     \/ pc = "copying" /\ unit' = "whole" /\ pc' = "enable" /\ UNCHANGED failed
     \/ /\ pc \in {"copy", "copying"} /\ pc' = "enable"
        /\ failed' = failed \cup {"copy"} /\ UNCHANGED unit
  /\ UNCHANGED <<running, file, loaded, enabled, done>>

(* Half a unit may do, none does not.                                      *)
EnableUnit ==
  /\ pc = "enable"
  /\ \/ unit # "none" /\ enabled' = TRUE /\ UNCHANGED failed
     \/ failed' = failed \cup {"enable"} /\ UNCHANGED enabled
  /\ pc' = "ended" /\ done' = TRUE
  /\ UNCHANGED <<running, file, loaded, unit>>

-----------------------------------------------------------------------------
(* TrueNAS and the administrator.                                          *)

GiveUp ==
  /\ pc # "ended"
  /\ pc = "build" => orphan = "none"     \* bound: one such container
  /\ pc' = "ended"
  /\ orphan' = IF pc = "build" /\ build \in Steps THEN build ELSE orphan
  /\ build' = "none"
  /\ UNCHANGED <<running, ko, loaded, etc, failed, done>>

RunByHand ==
  /\ pc = "ended"
  /\ pc' = "lsmod"
  /\ failed' = {x \in {"beside"} : orphan # "none"}
  /\ done' = FALSE
  /\ UNCHANGED <<running, file, loaded, etc>>

(* A reboot or a power failure at any moment; an update or a rollback      *)
(* replaces /etc and may bring another kernel.                             *)
Boot ==
  /\ running' \in Kernels
  /\ \/ unit' = "none" /\ enabled' = FALSE
     \/ UNCHANGED etc
  /\ loaded' = FALSE /\ pc' = "lsmod"
  /\ build' = "none" /\ orphan' = "none"
  /\ failed' = {} /\ done' = FALSE
  /\ UNCHANGED ko

-----------------------------------------------------------------------------

Init ==
  /\ running \in Kernels
  /\ ko = "none" /\ loaded = FALSE
  /\ unit = "none" /\ enabled = FALSE
  /\ pc = "lsmod" /\ build = "none" /\ orphan = "none"
  /\ failed = {} /\ done = FALSE

Script ==
  \/ CheckLoaded \/ CheckModule \/ BuildGoesOn \/ EndBuild \/ CheckUsable \/ insmod
  \/ CheckUnit \/ CopyUnit \/ EnableUnit

Next == Script \/ OrphanGoesOn \/ GiveUp \/ RunByHand \/ Boot

Spec == Init /\ [][Next]_vars

-----------------------------------------------------------------------------
(* Properties.                                                             *)

(* Every variable has its type.                                            *)
TypeOK ==
  /\ running \in Kernels
  /\ ko \in Kernels \cup {"none", "torn"}
  /\ loaded \in BOOLEAN /\ enabled \in BOOLEAN
  /\ unit \in {"none", "torn", "whole"}
  /\ pc \in {"lsmod", "module", "build", "usable", "insmod", "unit", "copy",
            "copying", "enable", "ended"}
  /\ build \in Steps \cup {"none", "ok", "failed"}
  /\ orphan \in Steps \cup {"none"}
  /\ failed \subseteq {"build", "beside", "insmod", "copy", "enable"}
  /\ done \in BOOLEAN

(* make clean never takes away a module that fits the running kernel:      *)
(* through power failures, runs by hand and a loaded module that lsmod's   *)
(* pipe overlooks.  Only the container of a run that was given up may, and *)
(* the one of a run that began beside it.                                  *)
BuildsAlone == orphan = "none" /\ (build \in Steps => "beside" \notin failed)

UsableModuleIsKept ==
  [][ko = running /\ running' = running /\ BuildsAlone => ko' = ko]_vars

(* A run that comes to its end has the module loaded, whatever earlier     *)
(* runs and boots left behind, if neither its own build nor its insmod     *)
(* failed and no other container was still building when it began: but for *)
(* a module of another kernel whose vermagic contains the running one's    *)
(* name (grep -F looks for a substring), which is never rebuilt.           *)
EndsLoaded ==
  done /\ failed \cap {"build", "beside", "insmod"} = {} =>
    loaded \/ <<running, ko>> \in Confusable

(* ... and the LED unit whole unless its own copy failed, and enabled      *)
(* unless its own systemctl did, whatever became of the module, of earlier *)
(* copies and of /etc.                                                     *)
UnitIsRestored ==
  done => /\ "copy" \notin failed => unit = "whole"
          /\ "enable" \notin failed => enabled

=============================================================================
