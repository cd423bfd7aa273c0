---------------------------- MODULE ImagePickers ----------------------------
(***************************************************************************)
(* The pickers that list ChromeOS images while `gsutil ls` answers: the    *)
(* one of the check image command, which suggests images near the local    *)
(* major version, and the one of the flash command, which lists what       *)
(* matches the user's input.  Answers come in any order, or as errors.     *)
(***************************************************************************)
EXTENDS Integers, FiniteSets

CONSTANTS
  Majors,   \* the ChromeOS major versions there are
  Local,    \* the local repository's
  Skews,    \* what imageVersionMaxSkew may be set to
  Builds    \* tells the images of one major version apart

VARIABLES
  kind,     \* "suggest" or "flash"
  maxSkew,  \* the setting
  archive,  \* the images in gs://chromeos-image-archive
  visible,  \* whether the picker is on the screen
  listens,  \* whether the picker's events are subscribed to
  mode,     \* what picker.items are: "loading", "versions", "milestones" or "oops"
  items,    \* versionItems, or fetchedVersionItems
  asked,    \* the major versions asked for, fetchedVersionPatterns
  pending,  \* those whose answer is still to come
  failed,   \* those whose answer was an error
  busy,     \* picker.busy
  result    \* what the task is settled with: "none", "image", "return" or "undefined"

vars == <<kind, maxSkew, archive, visible, listens, mode, items, asked, pending, failed, busy, result>>
world == <<kind, maxSkew, archive>>

Images == Majors \X Builds
OfMajor(m) == {i \in archive : i[1] = m}

\* The picker of the check starts with the local version, with no listener on.
Init ==
  /\ kind \in {"suggest", "flash"} /\ maxSkew \in Skews
  /\ archive \in SUBSET Images
  /\ visible = TRUE /\ listens = (kind = "flash")
  /\ mode = IF kind = "suggest" THEN "loading" ELSE "milestones"
  /\ items = {}
  /\ asked = IF kind = "suggest" THEN {Local} ELSE {}
  /\ pending = asked
  /\ failed = {}
  /\ busy = (kind = "suggest")
  /\ result = "none"
-----------------------------------------------------------------------------
(* listPrebuiltVersions *)

\* The answer for major version m: its images, none when no object matches,
\* or an error.
Listed(m, ok) ==
  /\ m \in pending
  /\ pending' = pending \ {m}
  /\ failed' = IF ok THEN failed ELSE failed \cup {m}
-----------------------------------------------------------------------------
(* showAllMatchingImagesQuickPick *)

\* The local version's images are there: listen, and offer to load the rest.
FirstListed(ok) ==
  /\ kind = "suggest" /\ ~listens
  /\ Listed(Local, ok)
  /\ items' = IF ok THEN OfMajor(Local) ELSE {}
  /\ mode' = "load all"
  /\ busy' = FALSE
  /\ listens' = TRUE
  /\ UNCHANGED <<world, visible, asked, result>>

\* mutant: the lower end of the range is missed
OthersOffByOne == {Local + maxSkew - k : k \in 0..(maxSkew - 1)} \cup {Local - k : k \in 0..(maxSkew - 1)}

\* The versions of the range other than the local one.
Others == {Local + maxSkew - k : k \in 0..(maxSkew - 1)} \cup {Local - k - 1 : k \in 0..(maxSkew - 1)}

LoadAllVersions ==
  /\ kind = "suggest" /\ visible /\ mode = "load all" /\ result = "none"
  /\ mode' = "versions"
  /\ busy' = TRUE
  /\ pending' = Others /\ asked' = asked \cup Others
  /\ UNCHANGED <<world, visible, listens, items, failed, result>>

\* onFetchedImageVersions: with the last answer the picker is not busy any
\* more, and an empty list offers to return to the image types.
MoreListed(m, ok) ==
  /\ kind = "suggest" /\ listens /\ result = "none"
  /\ Listed(m, ok)
  /\ items' = IF ok THEN items \cup OfMajor(m) ELSE items
  /\ busy' = (pending' # {})
  /\ mode' = IF pending' = {} /\ items' = {} THEN "oops" ELSE mode
  /\ UNCHANGED <<world, visible, listens, asked, result>>
-----------------------------------------------------------------------------
(* showImageVersionInputBoxWithDynamicSuggestions *)

\* onDidChangeValue to a version: its pattern is listed once.
ChangeValue(m) ==
  /\ kind = "flash" /\ visible /\ result = "none"
  /\ IF m \in asked
     THEN mode' = "versions" /\ UNCHANGED <<asked, pending, busy>>
     ELSE /\ asked' = asked \cup {m} /\ pending' = pending \cup {m}
          /\ busy' = TRUE
          /\ UNCHANGED mode
  /\ UNCHANGED <<world, visible, listens, items, failed, result>>

\* To something that is no version: the milestones are back.
ClearValue ==
  /\ kind = "flash" /\ visible /\ result = "none"
  /\ mode' = "milestones"
  /\ UNCHANGED <<world, visible, listens, items, asked, pending, failed, busy, result>>

\* mutant: an answer takes the others' place
AddedAlone(m) == OfMajor(m)

\* An answer is added to what others have brought.
Added(m) == items \cup OfMajor(m)

PatternListed(m, ok) ==
  /\ kind = "flash" /\ result = "none"
  /\ Listed(m, ok)
  /\ busy' = (pending' # {})
  /\ items' = IF ok THEN Added(m) ELSE items
  /\ mode' = IF ok THEN "versions" ELSE mode
  /\ UNCHANGED <<world, visible, listens, asked, result>>
-----------------------------------------------------------------------------
(* The user *)

\* A version is picked; the picker is hidden and later answers are ignored.
Accept(i) ==
  /\ visible /\ listens /\ result = "none"
  /\ mode \in {"versions", "load all"} /\ i \in items
  /\ result' = "image"
  /\ visible' = FALSE
  /\ UNCHANGED <<world, listens, mode, items, asked, pending, failed, busy>>

\* "Return to select image type", of a list that stayed empty.
ReturnToImageTypeSelection ==
  /\ visible /\ mode = "oops" /\ result = "none"
  /\ result' = "return"
  /\ visible' = FALSE
  /\ UNCHANGED <<world, listens, mode, items, asked, pending, failed, busy>>

\* The picker is dismissed.  Only a listener hears of it.
Hide ==
  /\ visible /\ result = "none"
  /\ visible' = FALSE
  /\ result' = IF listens THEN "undefined" ELSE "none"
  /\ UNCHANGED <<world, listens, mode, items, asked, pending, failed, busy>>

Next ==
  \/ \E ok \in BOOLEAN : FirstListed(ok)
  \/ LoadAllVersions
  \/ \E m \in Majors, ok \in BOOLEAN : MoreListed(m, ok) \/ PatternListed(m, ok)
  \/ \E m \in Majors : ChangeValue(m)
  \/ ClearValue
  \/ \E i \in Images : Accept(i)
  \/ ReturnToImageTypeSelection
  \/ Hide

Spec == Init /\ [][Next]_vars
FairSpec == Spec /\ WF_vars(\E ok \in BOOLEAN : FirstListed(ok))
                 /\ WF_vars(\E m \in Majors, ok \in BOOLEAN : MoreListed(m, ok))
-----------------------------------------------------------------------------
TypeOK ==
  /\ kind \in {"suggest", "flash"} /\ maxSkew \in Skews /\ archive \subseteq Images
  /\ mode \in {"loading", "load all", "versions", "milestones", "oops"}
  /\ items \subseteq archive
  /\ pending \subseteq asked /\ failed \subseteq asked
  /\ {visible, listens, busy} \subseteq BOOLEAN

InRange == {i \in archive : i[1] - Local <= maxSkew /\ Local - i[1] <= maxSkew}

\* A picker that is not busy lists what it was asked for: the suggestions are
\* all the images of the range and no other, the flash command's are those of
\* every version the user has tried, in whichever order the answers came.
ListIsComplete ==
  (listens /\ ~busy /\ failed = {}) =>
     items = IF kind = "suggest" /\ mode \in {"versions", "oops"} THEN InRange
             ELSE UNION {OfMajor(m) : m \in asked}

\* "... or undefined if user cancels" (suggest_image.ts:29).  It is not so for
\* a picker dismissed before the first answer: nobody listens yet.
DismissedReturns == (~visible) ~> (result # "none")
=============================================================================
