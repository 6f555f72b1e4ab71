-------------------------- MODULE BootScriptProofs --------------------------
(***************************************************************************)
(* Proofs about BootScript, for any kernels and any confusable names.      *)
(***************************************************************************)
EXTENDS BootScript, TLAPS

(* A run is under way, or the last one came to its end, its container has  *)
(* been the only one and neither it nor insmod has failed.                 *)
Undisturbed ==
  (pc # "ended" \/ done) /\ failed \cap {"build", "beside", "insmod"} = {}

Available == loaded \/ <<running, ko>> \in Confusable

(* What an undisturbed run has achieved where it is.                       *)
Progress ==
  /\ Undisturbed => orphan = "none" /\ build # "failed"
  /\ pc # "ended" => ~ done
  /\ pc \in {"lsmod", "module"} \/ build \in Steps => failed \subseteq {"beside"}
  /\ build # "none" => pc = "build"
  /\ Undisturbed /\ build \in Steps => ko # running
  /\ Undisturbed /\ build = "ok" => ko = running
  /\ Undisturbed /\ pc \in {"usable", "insmod"} => module_vermagic_matches
  /\ Undisturbed /\ pc \in {"unit", "copy", "copying", "enable", "ended"} => Available
  /\ pc = "enable" /\ "copy" \notin failed => unit = "whole"

IInv == TypeOK /\ Progress /\ UnitIsRestored

LEMMA BuildTyped ==
  ASSUME TypeOK, NEW from, NEW to, NEW new, Built(from, to, new) \/ BuildFails(from, new)
  PROVE  new \in Kernels \cup {"none", "torn"}
BY DEF Built, BuildFails, TypeOK

LEMMA TypeInductive == TypeOK /\ [Next]_vars => TypeOK'
<1> SUFFICES ASSUME TypeOK, [Next]_vars PROVE TypeOK'
  OBVIOUS
<1> USE DEF TypeOK, Steps
<1>1. CASE CheckLoaded
  BY <1>1 DEF CheckLoaded, file, etc
<1>2. CASE CheckModule
  BY <1>2 DEF CheckModule, etc
<1>3. CASE BuildGoesOn
  BY <1>3, BuildTyped DEF BuildGoesOn, etc
<1>4. CASE EndBuild
  BY <1>4 DEF EndBuild, etc
<1>5. CASE CheckUsable
  BY <1>5 DEF CheckUsable, file, etc
<1>6. CASE insmod
  BY <1>6 DEF insmod, file, etc
<1>7. CASE CheckUnit
  BY <1>7 DEF CheckUnit, file, etc
<1>8. CASE CopyUnit
  <2>1. /\ unit' \in {"torn", "whole", unit} /\ pc' \in {"copying", "enable"}
        /\ failed' \in {failed, failed \cup {"copy"}}
        /\ UNCHANGED <<running, file, loaded, enabled, done>>
    BY <1>8 DEF CopyUnit
  <2> QED
    BY <2>1 DEF file
<1>9. CASE EnableUnit
  BY <1>9 DEF EnableUnit, file, etc
<1>10. CASE OrphanGoesOn
  BY <1>10, BuildTyped DEF OrphanGoesOn, etc
<1>11. CASE GiveUp
  BY <1>11 DEF GiveUp, etc
<1>12. CASE RunByHand
  BY <1>12 DEF RunByHand, file, etc
<1>13. CASE Boot
  BY <1>13 DEF Boot, etc
<1>14. CASE UNCHANGED vars
  BY <1>14 DEF vars
<1> QED
  BY <1>1, <1>2, <1>3, <1>4, <1>5, <1>6, <1>7, <1>8, <1>9, <1>10, <1>11, <1>12, <1>13,
     <1>14 DEF Next, Script

LEMMA ProgressInductive == IInv /\ [Next]_vars => Progress' /\ UnitIsRestored'
<1> SUFFICES ASSUME IInv, [Next]_vars PROVE Progress' /\ UnitIsRestored'
  OBVIOUS
<1> USE DEF IInv, TypeOK, Progress, Undisturbed, Available,
           UnitIsRestored, module_vermagic_matches, Steps
<1> USE BootAssumption
<1>1. CASE CheckLoaded
  BY <1>1 DEF CheckLoaded, file, etc
<1>2. CASE CheckModule
  BY <1>2 DEF CheckModule, etc, NeedsBuild
<1>3. CASE BuildGoesOn
  BY <1>3 DEF BuildGoesOn, etc, Built, BuildFails
<1>4. CASE EndBuild
  BY <1>4 DEF EndBuild, etc
<1>5. CASE CheckUsable
  BY <1>5 DEF CheckUsable, file, etc
<1>6. CASE insmod
  BY <1>6 DEF insmod, file, etc
<1>7. CASE CheckUnit
  BY <1>7 DEF CheckUnit, file, etc, UnitIsGood
<1>8. CASE CopyUnit
  <2>1. CASE pc = "copy" /\ pc' = "copying" /\ UNCHANGED failed
    BY <1>8, <2>1 DEF CopyUnit, file
  <2>2. CASE pc = "copying" /\ unit' = "whole" /\ pc' = "enable" /\ UNCHANGED failed
    BY <1>8, <2>2 DEF CopyUnit, file
  <2>3. CASE /\ pc \in {"copy", "copying"} /\ pc' = "enable"
             /\ failed' = failed \cup {"copy"}
    BY <1>8, <2>3 DEF CopyUnit, file
  <2> QED
    BY <1>8, <2>1, <2>2, <2>3 DEF CopyUnit
<1>9. CASE EnableUnit
  BY <1>9 DEF EnableUnit, file, etc
<1>10. CASE OrphanGoesOn
  BY <1>10 DEF OrphanGoesOn, etc, Built, BuildFails
<1>11. CASE GiveUp
  BY <1>11 DEF GiveUp, etc
<1>12. CASE RunByHand
  BY <1>12 DEF RunByHand, file, etc
<1>13. CASE Boot
  BY <1>13 DEF Boot, etc
<1>14. CASE UNCHANGED vars
  BY <1>14 DEF vars
<1> QED
  BY <1>1, <1>2, <1>3, <1>4, <1>5, <1>6, <1>7, <1>8, <1>9, <1>10, <1>11, <1>12, <1>13,
     <1>14 DEF Next, Script

-----------------------------------------------------------------------------

(* A run that comes to its end has the module loaded and the unit          *)
(* restored, whatever earlier runs and boots left behind (lines 26 to 63), *)
(* but for the exceptions EndsLoaded names.                                *)
THEOREM BootRestores == Spec => [](TypeOK /\ EndsLoaded /\ UnitIsRestored)
<1>1. Init => IInv
  BY DEF Init, IInv, TypeOK, Progress, Undisturbed, Available, UnitIsRestored, Steps
<1>2. IInv /\ [Next]_vars => IInv'
  BY TypeInductive, ProgressInductive DEF IInv
<1>3. IInv => EndsLoaded
  <2> SUFFICES ASSUME IInv, done, failed \cap {"build", "beside", "insmod"} = {}
               PROVE  Available
    BY DEF EndsLoaded, Available
  <2>1. pc = "ended"
    BY DEF IInv, Progress
  <2> QED
    BY <2>1 DEF IInv, Progress, Undisturbed
<1> QED
  BY <1>1, <1>2, <1>3, PTL DEF Spec, IInv

(* Only a container touches the module file.                               *)
LEMMA OnlyContainersWrite ==
  ASSUME IInv, [Next]_vars, ko' # ko
  PROVE  BuildGoesOn \/ OrphanGoesOn
BY DEF Next, Script, vars, file, CheckLoaded, CheckModule, EndBuild, CheckUsable,
   insmod, CheckUnit, CopyUnit, EnableUnit, GiveUp, RunByHand, Boot

(* No run takes away a module that fits the running kernel: make clean is  *)
(* only reached without one.                                               *)
THEOREM ModuleIsKept == Spec => UsableModuleIsKept
<1>1. Init => IInv
  BY DEF Init, IInv, TypeOK, Progress, Undisturbed, Available, UnitIsRestored, Steps
<1>2. IInv /\ [Next]_vars => IInv'
  BY TypeInductive, ProgressInductive DEF IInv
<1>3. IInv /\ [Next]_vars
      => [ko = running /\ running' = running /\ BuildsAlone => ko' = ko]_vars
  <2> SUFFICES ASSUME IInv, [Next]_vars, ko = running, BuildsAlone, ko' # ko
               PROVE  FALSE
    OBVIOUS
  <2>1. CASE BuildGoesOn
    <3>1. build \in Steps
      BY <2>1 DEF BuildGoesOn, Built, BuildFails, Steps
    <3> QED
      BY <2>1, <3>1 DEF BuildsAlone, BuildGoesOn, IInv, Progress, Undisturbed
  <2>2. CASE OrphanGoesOn
    BY <2>2 DEF OrphanGoesOn, BuildsAlone
  <2> QED
    BY <2>1, <2>2, OnlyContainersWrite
<1> QED
  BY <1>1, <1>2, <1>3, PTL DEF Spec, UsableModuleIsKept

=============================================================================
