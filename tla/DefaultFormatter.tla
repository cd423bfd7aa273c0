--------------------------- MODULE DefaultFormatter ---------------------------
(***************************************************************************)
(* Making the extension the workspace's default formatter.  When folders   *)
(* are added the settings are looked at, the folders are looked up on disk *)
(* and the user is asked, or on cider the setting may be made without      *)
(* asking, once.  Between these steps settings and other additions change. *)
(***************************************************************************)
EXTENDS Naturals

CONSTANTS
  Additions, \* events of added folders
  Cider,     \* the platform is cider
  MaxChoices \* bound: how often the user changes a setting

VARIABLES
  defaultFormatter,    \* the settings
  suggestSetAsDefault,
  alwaysDefaultInCros,
  suggestAlwaysDefaultInCros,
  hasBeenSet,          \* hasBeenSetAsDefaultInThisWorkspace
  addition,            \* where the handling of each event is
  choices,             \* counts the user's changes
  chosen               \* the user has chosen another formatter since the
                       \* extension has been set, and meanwhile no two
                       \* additions were being handled

vars == <<defaultFormatter, suggestSetAsDefault, alwaysDefaultInCros, suggestAlwaysDefaultInCros, hasBeenSet, addition, choices, chosen>>
settings == <<defaultFormatter, suggestSetAsDefault, alwaysDefaultInCros, suggestAlwaysDefaultInCros, hasBeenSet>>

Init ==
  /\ defaultFormatter \in {"chromiumide", "other"}
  /\ suggestSetAsDefault = TRUE /\ suggestAlwaysDefaultInCros = TRUE
  /\ alwaysDefaultInCros \in BOOLEAN
  /\ hasBeenSet = FALSE
  /\ addition = [a \in Additions |-> "new"]
  /\ choices = 0 /\ chosen = FALSE

At(a, step) == addition[a] = step
Goto(a, step) == addition' = [addition EXCEPT ![a] = step]
Underway == {a \in Additions : addition[a] \notin {"new", "done"}}
Always == Cider /\ alwaysDefaultInCros
-----------------------------------------------------------------------------
(* maybeConfigureOrSuggestSettingDefaultFormatter *)

\* mutant: whether it has been set before is not looked at
AddedUnlessDefault(a) ==
  /\ At(a, "new")
  /\ IF defaultFormatter = "chromiumide" \/ ~suggestSetAsDefault
     THEN Goto(a, "done")
     ELSE Goto(a, IF Always THEN "find to set" ELSE "find to ask")
  /\ UNCHANGED <<settings, choices, chosen>>
\* The settings allow it, or all ends here.
Added(a) ==
  /\ At(a, "new")
  /\ IF defaultFormatter = "chromiumide" \/ ~suggestSetAsDefault \/ (Always /\ hasBeenSet)
     THEN Goto(a, "done")
     ELSE Goto(a, IF Always THEN "find to set" ELSE "find to ask")
  /\ UNCHANGED <<settings, choices, chosen>>

\* hasCrOSFolder
NoCrOSFolder(a) ==
  /\ addition[a] \in {"find to set", "find to ask"}
  /\ Goto(a, "done")
  /\ UNCHANGED <<settings, choices, chosen>>

HasCrOSFolder(a) ==
  \/ At(a, "find to set") /\ Goto(a, "set") /\ UNCHANGED <<settings, choices, chosen>>
  \/ At(a, "find to ask") /\ Goto(a, "ask") /\ UNCHANGED <<settings, choices, chosen>>

\* Two settings are updated one after the other.
SetDefault(a) ==
  /\ At(a, "set")
  /\ defaultFormatter' = "chromiumide"
  /\ Goto(a, "mark")
  /\ UNCHANGED <<suggestSetAsDefault, alwaysDefaultInCros, suggestAlwaysDefaultInCros, hasBeenSet, choices, chosen>>

MarkSet(a) ==
  /\ At(a, "mark")
  /\ hasBeenSet' = TRUE
  /\ Goto(a, "done")
  /\ UNCHANGED <<defaultFormatter, suggestSetAsDefault, alwaysDefaultInCros, suggestAlwaysDefaultInCros, choices, chosen>>

\* suggestSettingDefaultFormatterInThisWorkspace
AnswerYes(a) ==
  /\ At(a, "ask")
  /\ defaultFormatter' = "chromiumide"
  /\ Goto(a, IF Cider /\ suggestAlwaysDefaultInCros THEN "ask always" ELSE "done")
  /\ UNCHANGED <<suggestSetAsDefault, alwaysDefaultInCros, suggestAlwaysDefaultInCros, hasBeenSet, choices, chosen>>

\* Not again in this workspace, or never: a setting of one or of the other.
AnswerNoMore(a) ==
  /\ At(a, "ask")
  /\ suggestSetAsDefault' = FALSE
  /\ Goto(a, "done")
  /\ UNCHANGED <<defaultFormatter, alwaysDefaultInCros, suggestAlwaysDefaultInCros, hasBeenSet, choices, chosen>>

Dismiss(a) ==
  /\ addition[a] \in {"ask", "ask always"}
  /\ Goto(a, "done")
  /\ UNCHANGED <<settings, choices, chosen>>

\* suggestSettingDefaultFormatterAlways
AnswerAlways(a, yes) ==
  /\ At(a, "ask always")
  /\ IF yes THEN alwaysDefaultInCros' = TRUE /\ UNCHANGED suggestAlwaysDefaultInCros
     ELSE suggestAlwaysDefaultInCros' = FALSE /\ UNCHANGED alwaysDefaultInCros
  /\ Goto(a, "done")
  /\ UNCHANGED <<defaultFormatter, suggestSetAsDefault, hasBeenSet, choices, chosen>>

\* The user chooses another formatter.
Choose ==
  /\ choices < MaxChoices /\ choices' = choices + 1
  /\ defaultFormatter' = "other"
  /\ chosen' = (hasBeenSet /\ Underway = {})
  /\ UNCHANGED <<suggestSetAsDefault, alwaysDefaultInCros, suggestAlwaysDefaultInCros, hasBeenSet, addition>>

\* The user switches the option to set it always.
SwitchAlways ==
  /\ choices < MaxChoices /\ choices' = choices + 1
  /\ alwaysDefaultInCros' = ~alwaysDefaultInCros
  /\ UNCHANGED <<defaultFormatter, suggestSetAsDefault, suggestAlwaysDefaultInCros, hasBeenSet, addition, chosen>>

Next ==
  \/ \E a \in Additions : \/ Added(a) \/ NoCrOSFolder(a) \/ HasCrOSFolder(a) \/ SetDefault(a) \/ MarkSet(a)
                          \/ AnswerYes(a) \/ AnswerNoMore(a) \/ Dismiss(a)
                          \/ \E yes \in BOOLEAN : AnswerAlways(a, yes)
  \/ Choose \/ SwitchAlways

Spec == Init /\ [][Next]_vars
-----------------------------------------------------------------------------
TypeOK ==
  /\ defaultFormatter \in {"chromiumide", "other"}
  /\ <<suggestSetAsDefault, alwaysDefaultInCros, suggestAlwaysDefaultInCros, hasBeenSet, chosen>> \in BOOLEAN \X BOOLEAN \X BOOLEAN \X BOOLEAN \X BOOLEAN
  /\ addition \in [Additions -> {"new", "find to set", "find to ask", "set", "mark", "ask", "ask always", "done"}]

\* "This ensures user can change the default formatter in individual
\* workspaces even if they want the setting to be true in general."
\* (default_formatter.ts:69): what the user has chosen after the extension has
\* been set is undone by the user's own answer alone, if nothing was under way
\* at the choice.
ChoiceStands ==
  [][chosen /\ defaultFormatter = "other" /\ defaultFormatter' = "chromiumide"
       => \E a \in Additions : AnswerYes(a)]_vars
=============================================================================
