--------------------------- MODULE DeviceCommands ---------------------------
(***************************************************************************)
(* The commands that check a device's image against the local checkout,    *)
(* flash a device and deploy a package to it, each one a flow of prompts   *)
(* and processes that the user may leave at every prompt.  Deploying       *)
(* includes a check, and a check that fails may include flashing.          *)
(***************************************************************************)
EXTENDS Integers

CONSTANTS
  Majors,      \* ChromeOS major versions
  MaxSkew,     \* the setting imageVersionMaxSkew
  MaxChanges   \* bound: how often somebody else flashes the device

VARIABLES
  command,   \* the command running: "check", "deploy" or "flash"
  at,        \* what it waits for
  debugFlag, \* the cros-debug USE flag: "on", "off", "absent" or "error"
  local,     \* major version of the postsubmit prebuilts, 0 when not known
  device,    \* the image on the device
  changes,   \* counts the changes of it by others
  input,     \* what the check has read of the device, NoImage on an error
  image,     \* the image picked for flashing
  suggested, \* whether it was picked among the suggestions
  outcome,   \* the check's CheckOutcome
  cancelled, \* whether the user has quit a prompt of the check, or a flash
  deployed   \* whether `cros deploy` was run

vars == <<command, at, debugFlag, local, device, changes, input, image, suggested, outcome, cancelled, deployed>>
checkout == <<debugFlag, local>>
others == <<device, changes>>

PrebuiltTypes == {"release", "cq", "postsubmit", "snapshot"}
Images == [type : PrebuiltTypes \cup {"local", "unknown"}, major : Majors]
NoImage == [type |-> "error", major |-> 0]

Init ==
  /\ command \in {"check", "deploy", "flash"}
  /\ at = "start"
  /\ debugFlag \in {"on", "off", "absent", "error"}
  /\ local \in Majors \cup {0}
  /\ device \in Images /\ changes = 0
  /\ input = NoImage /\ image = NoImage /\ suggested = FALSE
  /\ outcome = "none"
  /\ cancelled = FALSE /\ deployed = FALSE

Goes(stage) == at' = stage

\* Somebody else flashes the device, or it stops answering and comes back.
DeviceChanges(i) ==
  /\ changes < MaxChanges
  /\ changes' = changes + 1
  /\ device' = i
  /\ UNCHANGED <<command, at, checkout, input, image, suggested, outcome, cancelled, deployed>>
-----------------------------------------------------------------------------
(* CompatibilityChecker *)

DebugFlagAndImageTypeMatch(type) ==
  \/ debugFlag = "absent"
  \/ type = "local"
  \/ type = "release" /\ debugFlag = "off"
  \/ type # "release" /\ debugFlag = "on"

CheckUseFlags(i) ==
  CASE i = NoImage \/ i.type = "unknown" \/ debugFlag = "error" -> "ERROR"
    [] DebugFlagAndImageTypeMatch(i.type) -> "PASSED"
    [] OTHER -> "FAILED"

CheckCrosVersion(i) ==
  CASE i = NoImage \/ local = 0 -> "ERROR"
    [] i.major - local <= MaxSkew /\ local - i.major <= MaxSkew -> "PASSED"
    [] OTHER -> "FAILED"

Passed(i) == CheckUseFlags(i) = "PASSED" /\ CheckCrosVersion(i) = "PASSED"

\* Suggestions need both the device's and the checkout's attributes.
HasSuggestions == input # NoImage /\ debugFlag # "error" /\ local # 0

\* mutant: an unset flag is taken for one the package does not have
AnyUnlessOn ==
  IF debugFlag = "on" THEN {"postsubmit", "snapshot"} ELSE {"postsubmit", "snapshot", "release"}

ValidPrebuiltImageTypes ==
  CASE debugFlag = "absent" -> {"postsubmit", "snapshot", "release"}
    [] debugFlag = "on" -> {"postsubmit", "snapshot"}
    [] debugFlag = "off" -> {"release"}
    [] OTHER -> {}

\* What the suggestion pickers offer, local images of any version included.
SuggestedImages(types) ==
  [type : types, major : {m \in Majors : m - local <= MaxSkew /\ local - m <= MaxSkew}]
    \cup [type : {"local"}, major : Majors]
-----------------------------------------------------------------------------
(* checkDeviceImageCompatibilityOrSuggest *)

\* The device is picked, and for deploying its board and the package too; the
\* user may quit at each prompt.
PromptTargets ==
  /\ at = "start"
  /\ \/ Goes(IF command = "flash" THEN "pick image" ELSE "check")
     \/ Goes("end")
  /\ UNCHANGED <<command, checkout, others, input, image, suggested, outcome, cancelled, deployed>>

Ends(result) ==
  /\ outcome' = result
  /\ Goes(IF command = "deploy" THEN "checked" ELSE "end")

\* checkDeviceImageCompatibility: the attributes are read, or fail to be.
\* Dismissing the sudo prompt cancels the check.
Check ==
  /\ at = "check"
  /\ \/ /\ input' \in {device, NoImage}
        /\ IF Passed(input') THEN Ends("passed") ELSE Goes("report") /\ UNCHANGED outcome
        /\ UNCHANGED cancelled
     \/ /\ Ends("cancelled") /\ cancelled' = TRUE
        /\ UNCHANGED input
  /\ UNCHANGED <<command, checkout, others, image, suggested, deployed>>

\* reportResultAndPromptActionOnFailedCheck, and what follows the choice.
Report ==
  /\ at = "report"
  /\ \/ HasSuggestions /\ Goes("pick suggested") /\ UNCHANGED <<outcome, cancelled>>
     \/ Goes("pick image") /\ UNCHANGED <<outcome, cancelled>>
     \/ Ends("skipped") /\ UNCHANGED cancelled
     \/ CheckCrosVersion(input) = "FAILED" /\ Ends("open config") /\ UNCHANGED cancelled
     \/ Ends("cancelled") /\ cancelled' = TRUE
  /\ UNCHANGED <<command, checkout, others, input, image, suggested, deployed>>

\* showSuggestedImagesInputBox
PickSuggested(i) ==
  /\ at = "pick suggested"
  /\ i \in SuggestedImages(ValidPrebuiltImageTypes)
  /\ image' = i /\ suggested' = TRUE
  /\ Goes("flash")
  /\ UNCHANGED <<command, checkout, others, input, outcome, cancelled, deployed>>

\* flashPrebuiltImage: any type, any version.
PickImage(i) ==
  /\ at = "pick image" /\ i.type # "unknown"
  /\ image' = i /\ suggested' = FALSE
  /\ Goes("flash")
  /\ UNCHANGED <<command, checkout, others, input, outcome, cancelled, deployed>>

\* Quitting the pickers counts as skipping the flash.
QuitPicker ==
  /\ at \in {"pick suggested", "pick image"}
  /\ IF command = "flash" THEN Goes("end") /\ UNCHANGED outcome ELSE Ends("skipped")
  /\ cancelled' = TRUE
  /\ UNCHANGED <<command, checkout, others, input, image, suggested, deployed>>

\* flashImageToDevice: done, failed, or cancelled by its progress bar, which
\* again counts as skipped.
FlashImageToDevice ==
  /\ at = "flash"
  /\ \E result \in {"done", "error", "cancelled"} :
       /\ device' = IF result = "done" THEN image ELSE device
       /\ cancelled' = (cancelled \/ result = "cancelled")
       /\ IF command = "flash" THEN Goes("end") /\ UNCHANGED outcome
          ELSE Ends(CASE result = "error" -> "error"
                      [] result = "cancelled" -> "skipped"
                      [] OTHER -> IF suggested THEN "flashed from suggestion" ELSE "flashed from menu")
  /\ UNCHANGED <<command, checkout, changes, input, image, suggested, deployed>>
-----------------------------------------------------------------------------
(* deployToDevice, after the check *)

AfterCheck ==
  /\ at = "checked"
  /\ CASE outcome = "cancelled" -> Goes("end")
       [] outcome = "error" -> Goes("end") \/ Goes("deploy")
       [] OTHER -> Goes("deploy")
  /\ UNCHANGED <<command, checkout, others, input, image, suggested, outcome, cancelled, deployed>>

\* An ssh session is ensured, which may fail, and `cros deploy` is run.
CrosDeploy ==
  /\ at = "deploy"
  /\ deployed' \in BOOLEAN
  /\ Goes("end")
  /\ UNCHANGED <<command, checkout, others, input, image, suggested, outcome, cancelled>>

Next ==
  \/ \E i \in Images : DeviceChanges(i) \/ PickSuggested(i) \/ PickImage(i)
  \/ PromptTargets \/ Check \/ Report \/ QuitPicker \/ FlashImageToDevice
  \/ AfterCheck \/ CrosDeploy

Spec == Init /\ [][Next]_vars
-----------------------------------------------------------------------------
TypeOK ==
  /\ command \in {"check", "deploy", "flash"}
  /\ at \in {"start", "check", "report", "pick suggested", "pick image", "flash", "checked", "deploy", "end"}
  /\ device \in Images /\ {input, image} \subseteq Images \cup {NoImage}
  /\ outcome \in {"none", "cancelled", "passed", "flashed from suggestion", "flashed from menu",
                  "skipped", "open config", "error"}
  /\ {suggested, cancelled, deployed} \subseteq BOOLEAN

\* A device flashed with a suggested prebuilt passes the check that suggested
\* it: the types and versions suggested are some the checker accepts.
SuggestionPasses ==
  outcome = "flashed from suggestion" /\ device = image /\ image.type # "local" => Passed(device)

\* "Abort this command if user cancels the check at any point" (deploy_package.ts:117).
\* It is not so when the pickers are quit or the flash is cancelled.
CancelledMeansNoDeploy == ~(cancelled /\ deployed)
=============================================================================
