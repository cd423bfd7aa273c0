------------------------------ MODULE CrosFormat ------------------------------
(***************************************************************************)
(* Formatting a document with `cros format`: a call saves the active       *)
(* editor, runs the tool on the document's file and replaces the whole     *)
(* document by what the tool prints.  Whether and how a document is        *)
(* formatted is told by files of the repository that are read once and     *)
(* cached, as is the command made from them.                               *)
(***************************************************************************)
EXTENDS Naturals

CONSTANTS
  Docs,      \* documents, of one repository
  Calls,     \* calls of the provider or of the command forceFormat
  NoDoc,     \* no document
  MaxEdits,  \* bound: edits of a document
  MaxChanges \* bound: changes of the repository's files

VARIABLES
  buffer,      \* the documents as their editors have them: what the user
  disk,        \* wrote, and if it is formatted; and as the files are
  active,      \* the active editor's document
  presubmit,   \* the `cros format` line of PRESUBMIT.cfg
  ignores,     \* does .presubmitignore match the documents
  cfgCache,    \* GLOBAL_CACHE of PresubmitCfg
  ignoreCache, \* IGNORED_WILDCARDS_CACHE
  argsCache,   \* argsCache
  call,        \* the calls
  status,      \* of the formatter in the status bar
  changes      \* counts the changes

vars == <<buffer, disk, active, presubmit, ignores, cfgCache, ignoreCache, argsCache, call, status, changes>>
files == <<presubmit, ignores, changes>>
caches == <<cfgCache, ignoreCache, argsCache>>

Idle == [step |-> "idle", doc |-> NoDoc, force |-> FALSE, args |-> "none", asked |-> <<>>, behind |-> FALSE]
Unread == "unread"
Text == [edits : 0..MaxEdits, formatted : BOOLEAN]

Init ==
  /\ buffer = [d \in Docs |-> [edits |-> 0, formatted |-> FALSE]] /\ disk = buffer
  /\ active \in Docs
  /\ presubmit \in {"none", "no cros format", "unparsable", "cros format"}
  /\ ignores \in {"none", "matched", "unmatched"}
  /\ cfgCache = [d \in Docs |-> Unread] /\ ignoreCache = Unread
  /\ argsCache = [d \in Docs |-> "none"]
  /\ call = [c \in Calls |-> Idle]
  /\ status = "ok" /\ changes = 0
-----------------------------------------------------------------------------
(* The user and the repository *)

\* The user types; a formatting call for d may not know of it.
Edit(d) ==
  /\ buffer[d].edits < MaxEdits
  /\ buffer' = [buffer EXCEPT ![d] = [edits |-> @.edits + 1, formatted |-> FALSE]]
  /\ call' = [c \in Calls |-> IF call[c].doc = d THEN [call[c] EXCEPT !.behind = @ \/ call[c].step = "exec"] ELSE call[c]]
  /\ UNCHANGED <<disk, active, files, caches, status>>

Switch(d) ==
  /\ active' = d
  /\ UNCHANGED <<buffer, disk, files, caches, call, status>>

ChangeFiles ==
  /\ changes < MaxChanges /\ changes' = changes + 1
  /\ \/ presubmit' \in {"none", "no cros format", "cros format"} /\ UNCHANGED ignores
     \/ ignores' \in {"none", "matched", "unmatched"} /\ UNCHANGED presubmit
  /\ UNCHANGED <<buffer, disk, active, caches, call, status>>
-----------------------------------------------------------------------------
(* provideReplace *)

At(c, step) == call[c].step = step
Goto(c, step) == call' = [call EXCEPT ![c].step = step]
Return(c) == call' = [call EXCEPT ![c] = Idle]

\* The provider is asked to format any document, the command the active one.
ProvideReplace(c, d, force) ==
  /\ At(c, "idle") /\ (force => d = active)
  /\ call' = [call EXCEPT ![c] = [Idle EXCEPT !.step = IF force THEN "args" ELSE "ignored", !.doc = d, !.force = force, !.asked = <<buffer[d]>>]]
  /\ UNCHANGED <<buffer, disk, active, files, caches, status>>

\* isPresubmitignored; that there is no file is not cached.
IsPresubmitignored(c) ==
  /\ At(c, "ignored")
  /\ LET wildcards == IF ignoreCache = Unread THEN ignores ELSE ignoreCache IN
     /\ ignoreCache' = IF wildcards = "none" THEN Unread ELSE wildcards
     /\ IF wildcards = "matched" THEN Return(c) ELSE Goto(c, "args")
  /\ UNCHANGED <<buffer, disk, active, files, cfgCache, argsCache, status>>

WithArgs(c, args) ==
  /\ argsCache' = [argsCache EXCEPT ![call[c].doc] = args]
  /\ call' = [call EXCEPT ![c].step = "save", ![c].args = args]

CachedArgs(c) ==
  /\ At(c, "args") /\ argsCache[call[c].doc] # "none"
  /\ WithArgs(c, argsCache[call[c].doc])
  /\ UNCHANGED <<buffer, disk, active, files, cfgCache, ignoreCache, status>>

\* PresubmitCfg.forDocument: read once per document.
ForDocument(d) == IF cfgCache[d] = Unread THEN presubmit ELSE cfgCache[d]

\* crosFormatRunAsHookScript
HasHook(cfg) == cfg \in {"cros format", "unparsable"}

\* constructCrosFormatCommand
ForcedArgs(c) ==
  /\ At(c, "args") /\ argsCache[call[c].doc] = "none" /\ call[c].force
  /\ WithArgs(c, "default")
  /\ UNCHANGED <<buffer, disk, active, files, cfgCache, ignoreCache, status>>

ConstructArgs(c) ==
  /\ At(c, "args") /\ argsCache[call[c].doc] = "none" /\ ~call[c].force
  /\ LET cfg == ForDocument(call[c].doc) IN
     /\ cfgCache' = [cfgCache EXCEPT ![call[c].doc] = cfg]
     /\ IF HasHook(cfg) /\ cfg # "unparsable" THEN WithArgs(c, "hook") ELSE Return(c) /\ UNCHANGED argsCache
     /\ status' = IF cfg = "unparsable" THEN "error" ELSE status
  /\ UNCHANGED <<buffer, disk, active, files, ignoreCache>>

\* mutant: nothing is saved before the tool runs
RunWithoutSaving(c) ==
  /\ At(c, "save")
  /\ call' = [call EXCEPT ![c].step = "exec"]
  /\ UNCHANGED <<buffer, disk, active, files, caches, status>>
\* The command "save" saves the active editor, whatever document is formatted.
Save(c) ==
  /\ At(c, "save")
  /\ disk' = [disk EXCEPT ![active] = buffer[active]]
  /\ call' = [call EXCEPT ![c].step = "exec", ![c].behind = disk'[call[c].doc] # buffer[call[c].doc]]
  /\ UNCHANGED <<buffer, active, files, caches, status>>

\* Exit status 0: no changes are needed.
ExitUnchanged(c) ==
  /\ At(c, "exec") /\ disk[call[c].doc].formatted
  /\ status' = "ok" /\ Return(c)
  /\ UNCHANGED <<buffer, disk, active, files, caches>>

\* Exit status 1: the whole document is replaced by the formatted file.  For
\* a formatting request the editor drops the edit if the document has changed
\* since; forceFormat edits it in any case.
ExitChanged(c) ==
  /\ At(c, "exec") /\ ~disk[call[c].doc].formatted
  /\ LET d == call[c].doc IN
     buffer' = IF call[c].force \/ call[c].asked = <<buffer[d]>>
               THEN [buffer EXCEPT ![d] = [disk[d] EXCEPT !.formatted = TRUE]] ELSE buffer
  /\ status' = "ok" /\ Return(c)
  /\ UNCHANGED <<disk, active, files, caches>>

\* Any other exit, or the tool cannot be run.
ExitFailed(c) ==
  /\ At(c, "exec")
  /\ status' = "error" /\ Return(c)
  /\ UNCHANGED <<buffer, disk, active, files, caches>>

Next ==
  \/ \E d \in Docs : Edit(d) \/ Switch(d)
  \/ ChangeFiles
  \/ \E c \in Calls, d \in Docs, force \in BOOLEAN : ProvideReplace(c, d, force)
  \/ \E c \in Calls : \/ IsPresubmitignored(c) \/ CachedArgs(c) \/ ForcedArgs(c) \/ ConstructArgs(c)
                      \/ Save(c) \/ ExitUnchanged(c) \/ ExitChanged(c) \/ ExitFailed(c)

Spec == Init /\ [][Next]_vars
-----------------------------------------------------------------------------
TypeOK ==
  /\ buffer \in [Docs -> Text] /\ disk \in [Docs -> Text] /\ active \in Docs
  /\ argsCache \in [Docs -> {"none", "hook", "default"}]
  /\ status \in {"ok", "error"}

\* Formatting loses nothing the user has typed, except when the file the tool
\* read was behind the document: it was typed in while the tool ran, or was
\* not the active one that was saved.
KeepsText ==
  [][\A d \in Docs : buffer'[d].edits < buffer[d].edits =>
        \E c \in Calls : call[c].doc = d /\ call[c].behind]_vars

\* "Don't format if PRESUBMIT.cfg doesn't exist." and "Don't format if
\* PRESUBMIT.cfg instructs not to run cros format."
\* (formatting_edit_provider.ts:203, 215).  The command that a forced call has
\* left in the cache is run all the same.
NoHookNoFormat ==
  \A c \in Calls : At(c, "exec") /\ ~call[c].force => call[c].args = "hook"
=============================================================================
