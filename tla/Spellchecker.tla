----------------------------- MODULE Spellchecker -----------------------------
(***************************************************************************)
(* Spellchecking of files and of the commit messages at the HEAD of git    *)
(* directories: every change starts a check, a process with a temporary    *)
(* directory, whose result replaces the diagnostics.  A commit message is  *)
(* read when its check starts, a file when the process runs.  Messages are *)
(* shown by a provider of virtual documents with a cache.                  *)
(***************************************************************************)
EXTENDS Naturals, FiniteSets

CONSTANTS
  Dirs,      \* git directories
  Files,     \* files of the checkout
  Checks,    \* checks that may be under way at once
  None,      \* no directory or file
  MaxChanges \* bound: commits of a directory, versions of a file

VARIABLES
  version,     \* the commit at HEAD or the file's content; 0: none, or closed
  changes,     \* commits and versions so far
  check,       \* the checks
  diagnostics, \* what was checked last, 0: no diagnostics
  status,      \* of the background task
  tmp,         \* temporary directories left behind
  cache,       \* of the GitDocumentProvider: whose message "HEAD" stands for
  shown,       \* the message last shown to the user, and where
  upset        \* checks of these have failed or met another change

vars == <<version, changes, check, diagnostics, status, tmp, cache, shown, upset>>
Targets == Dirs \cup Files
Idle == [of |-> None, step |-> "idle", read |-> 0]
ChecksOf(t) == {c \in Checks : check[c].of = t}
Nothing == <<None, 0>>

Began(t) == [of |-> t, step |-> IF t \in Dirs THEN "message" ELSE "spell", read |-> 0]
Refresh(t) == \E c \in Checks : check[c] = Idle /\ check' = [check EXCEPT ![c] = Began(t)]

\* Every visible git directory is checked at the start.
Init ==
  /\ version = [t \in Targets |-> IF t \in Dirs THEN 1 ELSE 0] /\ changes = version
  /\ \E begun \in [Dirs -> Checks] :
       /\ \A d, e \in Dirs : begun[d] = begun[e] => d = e
       /\ check = [c \in Checks |-> IF \E d \in Dirs : begun[d] = c THEN Began(CHOOSE d \in Dirs : begun[d] = c) ELSE Idle]
  /\ diagnostics = [t \in Targets |-> 0]
  /\ status = "ok" /\ tmp = 0
  /\ cache = Nothing /\ shown = Nothing
  /\ upset = {}

Meet(t) == upset' = IF ChecksOf(t) # {} THEN upset \cup {t} ELSE upset

\* A commit is made or checked out; or a file is activated or saved.
Change(t) ==
  /\ changes[t] < MaxChanges
  /\ changes' = [changes EXCEPT ![t] = @ + 1]
  /\ version' = [version EXCEPT ![t] = changes'[t]]
  /\ Refresh(t)
  /\ Meet(t)
  /\ UNCHANGED <<diagnostics, status, tmp, cache, shown>>

\* mutant: the diagnostics stay
GoneKept(t) ==
  /\ version[t] # 0
  /\ version' = [version EXCEPT ![t] = 0]
  /\ Meet(t)
  /\ UNCHANGED <<changes, check, diagnostics, status, tmp, cache, shown>>
\* The directory has no HEAD to watch any more, or the file is closed.
Gone(t) ==
  /\ version[t] # 0
  /\ version' = [version EXCEPT ![t] = 0]
  /\ diagnostics' = [diagnostics EXCEPT ![t] = 0]
  /\ Meet(t)
  /\ UNCHANGED <<changes, check, status, tmp, cache, shown>>
-----------------------------------------------------------------------------
(* A check *)

End(c) == check' = [check EXCEPT ![c] = Idle]
Fail(c) == upset' = upset \cup {check[c].of}

\* getCommitMessage, and TmpFs.create
GetCommitMessage(c) ==
  /\ check[c].step = "message" /\ changes[check[c].of] > 0
  /\ check' = [check EXCEPT ![c].step = "spell", ![c].read = changes[check[c].of]]
  /\ UNCHANGED <<version, changes, diagnostics, status, tmp, cache, shown, upset>>

\* An error is ignored.
MessageFails(c) ==
  /\ check[c].step = "message"
  /\ End(c) /\ Fail(c)
  /\ UNCHANGED <<version, changes, diagnostics, status, tmp, cache, shown>>

\* callSpellchecker: the process has run.
Exec(c) ==
  /\ check[c].step = "spell"
  /\ check' = [check EXCEPT ![c].step = "read",
                            ![c].read = IF check[c].of \in Dirs THEN @ ELSE changes[check[c].of]]
  /\ UNCHANGED <<version, changes, diagnostics, status, tmp, cache, shown, upset>>

ExecFails(c) ==
  /\ check[c].step = "spell"
  /\ status' = "error"
  /\ End(c) /\ Fail(c)
  /\ UNCHANGED <<version, changes, diagnostics, tmp, cache, shown>>

\* readOutput throws before the directory is removed, JSON.parse after; the
\* status is as it was.
OutputFails(c) ==
  /\ check[c].step = "read"
  /\ tmp' \in {tmp, IF tmp < Cardinality(Checks) THEN tmp + 1 ELSE tmp}
  /\ End(c) /\ Fail(c)
  /\ UNCHANGED <<version, changes, diagnostics, status, cache, shown>>

RefreshDiagnostics(c) ==
  /\ check[c].step = "read"
  /\ diagnostics' = [diagnostics EXCEPT ![check[c].of] = check[c].read]
  /\ status' = "ok"
  /\ End(c)
  /\ UNCHANGED <<version, changes, tmp, cache, shown, upset>>

\* provideTextDocumentContent: the user opens the message of a directory.
ProvideTextDocumentContent(d) ==
  /\ version[d] # 0
  /\ cache' = IF cache = Nothing THEN <<d, version[d]>> ELSE cache
  /\ shown' = <<d, cache'>>
  /\ UNCHANGED <<version, changes, check, diagnostics, status, tmp, upset>>

Next ==
  \/ \E t \in Targets : Change(t) \/ Gone(t)
  \/ \E c \in Checks : \/ GetCommitMessage(c) \/ MessageFails(c) \/ Exec(c) \/ ExecFails(c)
                       \/ OutputFails(c) \/ RefreshDiagnostics(c)
  \/ \E d \in Dirs : ProvideTextDocumentContent(d)

Spec == Init /\ [][Next]_vars
-----------------------------------------------------------------------------
TypeOK ==
  /\ version \in [Targets -> 0..MaxChanges] /\ diagnostics \in [Targets -> 0..MaxChanges]
  /\ \A c \in Checks : check[c].of \in Targets \cup {None}
  /\ status \in {"ok", "error"} /\ upset \subseteq Targets
  /\ tmp \in 0..Cardinality(Checks)

\* Once all checks of a directory or file are done its diagnostics are about
\* its message or content, and there are none of what is gone, unless a check
\* failed or met a change: nothing orders the checks, and nothing cancels them.
DiagnosticsAreCurrent ==
  \A t \in Targets \ upset : ChecksOf(t) = {} => diagnostics[t] = version[t]

\* "a URI for which GitDocumentProvider provides a document containing the
\* commit message of the specified revision. The dir should be a directory
\* containing a git repository" (git_document.ts:15).  The cache has the
\* revision for its key, and not the directory.
DocumentIsOfItsDirectory == shown # Nothing => shown[2][1] = shown[1]
=============================================================================
