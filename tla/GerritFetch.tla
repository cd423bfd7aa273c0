---------------------------- MODULE GerritFetch ----------------------------
(***************************************************************************)
(* `GerritComments` (gerrit/model/gerrit_comments.ts): fetches the changes *)
(* of each visible git directory and their comments from Gerrit, on a new  *)
(* HEAD, on each tick of a clock, on a command, and after a draft command. *)
(*                                                                         *)
(* The first three go through a JobManager per directory: one fetch runs,  *)
(* and the newest request waits (JobManager.tla shows that).  A refresh    *)
(* after a draft command fetches directly, so it may cross a fetch of the  *)
(* JobManager; a Ticket taken at the request decides whose answer stays.   *)
(*                                                                         *)
(* The comments of a directory's changes are a version number, which grows *)
(* in Gerrit; version 0 stands for a change Gerrit does not know.  Only    *)
(* the order of tickets is ever looked at, and only for one directory: the *)
(* tickets in use are numbered anew, in their order, at every request.     *)
(***************************************************************************)
EXTENDS Naturals, FiniteSets, TLC

CONSTANTS
  Dirs,        \* git directories
  Refreshers,  \* draft commands that may be refreshing at once
  Commits,     \* commits HEAD may be at
  NoHead,      \* no event of HEAD yet
  MaxRemote    \* bound: how often comments are made in each directory

VARIABLES
  remote,   \* the comments in Gerrit
  visible,  \* gitDirsWatcher.visibleGitDirs
  gitHead,  \* the last HEAD that was told, of whichever directory
  known,    \* gitDirToChanges: ticket (0: no entry), version, own drafts included
  fetch,    \* the fetch of each JobManager and of each refresh
  queued,  \* the ticket of the request that waits in each JobManager, or 0
  rest,     \* directories each refresh has still to fetch
  outage    \* git or the network may fail

vars == <<remote, visible, gitHead, known, fetch, queued, rest, outage>>

Fetchers == Dirs \cup Refreshers

Unknown == [ticket |-> 0, ver |-> 0, mine |-> FALSE]
Idle == [at |-> "idle", dir |-> {}, ticket |-> 0, ver |-> 0, mine |-> FALSE,
         crossed |-> FALSE]

Running(d) == {f \in Fetchers : fetch[f].dir = {d}}

\* The tickets in use, and the place of a ticket among them.
Tickets == ({fetch[f].ticket : f \in Fetchers} \cup {queued[d] : d \in Dirs}
             \cup {known[d].ticket : d \in Dirs}) \ {0}
Rank(t) == Cardinality({u \in Tickets : u <= t})
NewTicket == Cardinality(Tickets) + 1

\* A fetch of d begins; it crosses those of d that are running.
Begin(d, ticket, others) ==
  [Idle EXCEPT !.at = "repo", !.dir = {d}, !.ticket = ticket,
               !.crossed = others # {}]

Init ==
  /\ remote = [d \in Dirs |-> 0]
  /\ visible = {}
  /\ gitHead = NoHead
  /\ known = [d \in Dirs |-> Unknown]
  /\ fetch = [f \in Fetchers |-> Idle]
  /\ queued = [d \in Dirs |-> 0]
  /\ rest = [r \in Refreshers |-> {}]
  /\ outage \in BOOLEAN
-----------------------------------------------------------------------------
\* Tickets are numbered anew; the fetches `begun` start with a new one.
Renumber(begun) ==
  /\ known' = [d \in Dirs |-> [known[d] EXCEPT !.ticket = Rank(@)]]
  /\ fetch' = [f \in Fetchers |->
       IF f \in DOMAIN begun
         THEN Begin(begun[f], NewTicket, Running(begun[f]))
         ELSE [fetch[f] EXCEPT !.ticket = Rank(@),
                 !.crossed = @ \/ \E g \in DOMAIN begun : fetch[f].dir = {begun[g]}]]

\* requestFetch for each directory of D: the fetch starts if the JobManager is
\* idle, and replaces the waiting one otherwise.
RequestFetch(D) ==
  LET idle == {d \in D : fetch[d] = Idle} IN
  /\ Renumber([d \in idle |-> d])
  /\ queued' = [d \in Dirs |-> IF d \in D \ idle THEN NewTicket ELSE Rank(queued[d])]

\* A reviewer or the user comments.
RemoteChanges(d) ==
  /\ remote[d] < MaxRemote
  /\ remote' = [remote EXCEPT ![d] = @ + 1]
  /\ UNCHANGED <<visible, gitHead, known, fetch, queued, rest, outage>>

VisibleChanges(d) ==
  /\ visible' = IF d \in visible THEN visible \ {d} ELSE visible \cup {d}
  /\ UNCHANGED <<remote, gitHead, known, fetch, queued, rest, outage>>

\* onDidChangeHead: the same HEAD again is ignored, also when another directory
\* told it.
HeadEvent(d, h) ==
  /\ d \in visible
  /\ h # gitHead
  /\ gitHead' = h
  /\ RequestFetch({d})
  /\ UNCHANGED <<remote, visible, rest, outage>>

\* Every visible directory is asked for.
RequestRefresh ==
  /\ visible # {}
  /\ RequestFetch(visible)
  /\ UNCHANGED <<remote, visible, gitHead, rest, outage>>

\* The clock fires every minute; the command refreshComments does the same.
Tick == RequestRefresh

\* A draft command has been executed: refresh() goes through the directories
\* that are visible now, one after the other.
DraftCommand(r) ==
  /\ fetch[r] = Idle /\ rest[r] = {}
  /\ visible # {}
  /\ rest' = [rest EXCEPT ![r] = visible]
  /\ UNCHANGED <<remote, visible, gitHead, known, fetch, queued, outage>>

RefreshNext(r) ==
  /\ fetch[r] = Idle
  /\ \E d \in rest[r] :
       /\ rest' = [rest EXCEPT ![r] = @ \ {d}]
       /\ Renumber([s \in {r} |-> d])
       /\ queued' = [e \in Dirs |-> Rank(queued[e])]
  /\ UNCHANGED <<remote, visible, gitHead, outage>>
-----------------------------------------------------------------------------
\* The fetch of f ends: a waiting request of the JobManager is taken up.
Ends(f) ==
  IF f \in Dirs /\ queued[f] # 0
    THEN /\ fetch' = [fetch EXCEPT ![f] = Begin(f, queued[f], Running(f) \ {f})]
         /\ queued' = [queued EXCEPT ![f] = 0]
    ELSE /\ fetch' = [fetch EXCEPT ![f] = Idle]
         /\ UNCHANGED queued

\* A step of a fetch that changes nothing but the fetch.
Goes(f, from, to) ==
  /\ fetch[f].at = from
  /\ fetch' = [fetch EXCEPT ![f] = to]
  /\ UNCHANGED <<remote, visible, gitHead, known, queued, rest, outage>>

\* getRepoId knows the remote; a Chromium repository is asked for its issue.
RepoFound(f, chromium) ==
  Goes(f, "repo", [fetch[f] EXCEPT !.at = IF chromium THEN "issue" ELSE "log"])

\* git cl issue knows the change of the branch, or git log is used after all.
IssueAnswered(f, found) ==
  Goes(f, "issue", [fetch[f] EXCEPT !.at = IF found THEN "account" ELSE "log"])

\* git log: the commits since the upstream of the branch, or of the branch that
\* a detached HEAD was last on, have change ids.
LogFound(f) == Goes(f, "log", [fetch[f] EXCEPT !.at = "account"])

\* What a request for /a/... is signed with: a cookie of .gitcookies for the
\* host, the configuration of git-remote-sso, or nothing Gerrit accepts.
Credentials == {"gitcookies", "sso", "rejected"}

\* fetchMyAccountInfoOrThrow: without an account (also if asking fails) the
\* fetch goes on, without drafts.
AccountAnswered(f, credentials) ==
  Goes(f, "account", [fetch[f] EXCEPT !.at = "change", !.mine = credentials # "rejected"])

\* Gerrit answers with the change and its published comments.
Answered(f) ==
  \E d \in fetch[f].dir :
    Goes(f, "change", [fetch[f] EXCEPT !.at = IF fetch[f].mine THEN "drafts" ELSE "apply",
                                      !.ver = remote[d]])

\* Drafts that Gerrit does not find are left out.
DraftsAnswered(f, found) == Goes(f, "drafts", [fetch[f] EXCEPT !.at = "apply", !.mine = found])

\* The network is back, and the repository in order.
Recovers ==
  /\ outage
  /\ outage' = FALSE
  /\ UNCHANGED <<remote, visible, gitHead, known, fetch, queued, rest>>

\* git fails, the remote is unknown, or no local commit has a change id.
NothingToFetch(f) ==
  /\ outage
  /\ fetch[f].at \in {"repo", "log"}
  /\ Ends(f)
  /\ UNCHANGED <<remote, visible, gitHead, known, rest, outage>>

\* A request other than the one for the account throws.
FetchThrows(f) ==
  /\ outage
  /\ fetch[f].at \in {"change", "drafts"}
  /\ Ends(f)
  /\ UNCHANGED <<remote, visible, gitHead, known, rest, outage>>

\* mutant: any answer that differs is taken
ApplyWithoutTicket(f) ==
  /\ fetch[f].at = "apply"
  /\ \E d \in fetch[f].dir :
       known' = [known EXCEPT ![d] =
         [ticket |-> fetch[f].ticket, ver |-> fetch[f].ver, mine |-> fetch[f].mine]]
  /\ Ends(f)
  /\ UNCHANGED <<remote, visible, gitHead, rest, outage>>

\* The answer is dropped if a newer request's is known or if nothing differs;
\* otherwise it is kept and onDidUpdateComments fires.
Apply(f) ==
  /\ fetch[f].at = "apply"
  /\ \E d \in fetch[f].dir :
       LET stale == known[d].ticket > fetch[f].ticket
           same == /\ known[d].ticket # 0
                   /\ known[d].ver = fetch[f].ver /\ known[d].mine = fetch[f].mine
       IN known' = IF stale \/ same THEN known
                   ELSE [known EXCEPT ![d] =
                          [ticket |-> fetch[f].ticket, ver |-> fetch[f].ver, mine |-> fetch[f].mine]]
  /\ Ends(f)
  /\ UNCHANGED <<remote, visible, gitHead, rest, outage>>

FetchStep(f) ==
  \/ \E found \in BOOLEAN : RepoFound(f, found) \/ IssueAnswered(f, found) \/ DraftsAnswered(f, found)
  \/ LogFound(f) \/ NothingToFetch(f)
  \/ \E c \in Credentials : AccountAnswered(f, c)
  \/ Answered(f) \/ FetchThrows(f)
  \/ Apply(f)

Next ==
  \/ \E d \in Dirs : RemoteChanges(d) \/ VisibleChanges(d) \/ \E h \in Commits : HeadEvent(d, h)
  \/ Tick \/ Recovers
  \/ \E r \in Refreshers : DraftCommand(r) \/ RefreshNext(r)
  \/ \E f \in Fetchers : FetchStep(f)

Spec == Init /\ [][Next]_vars

\* The clock ticks, the fetches of the JobManagers proceed (git and Gerrit answer
\* or fail), and failures end.
Fairness ==
  /\ WF_vars(Tick) /\ WF_vars(Recovers)
  /\ \A d \in Dirs : WF_vars(FetchStep(d))

-----------------------------------------------------------------------------
TypeOK ==
  /\ remote \in [Dirs -> 0..MaxRemote]
  /\ visible \subseteq Dirs
  /\ gitHead \in Commits \cup {NoHead}
  /\ known \in [Dirs -> [ticket : Nat, ver : 0..MaxRemote, mine : BOOLEAN]]
  /\ fetch \in [Fetchers -> [at : {"idle", "repo", "issue", "log", "account", "change", "drafts", "apply"},
                             dir : {{}} \cup {{d} : d \in Dirs}, ticket : Nat,
                             ver : 0..MaxRemote, mine : BOOLEAN, crossed : BOOLEAN]]
  /\ queued \in [Dirs -> Nat]
  /\ rest \in [Refreshers -> SUBSET Dirs]
  /\ outage \in BOOLEAN

\* "Return if newer change exists" (gerrit_comments.ts:108): comments go back to
\* an older version only by the answer to a newer request, and only if a refresh
\* that bypasses the JobManager was running at the same time as that request.
GoesBackOnlyCrossed ==
  [][\A d \in Dirs : known'[d].ver < known[d].ver =>
       /\ known'[d].ticket > known[d].ticket
       /\ \E f \in Fetchers : fetch[f].dir = {d} /\ fetch[f].at = "apply" /\ fetch[f].crossed]_vars

\* The comments of a directory that stays visible become the ones in Gerrit,
\* whatever requests crossed or failed on the way.
CommentsCatchUp ==
  \A d \in Dirs :
    <>[](d \in visible) => <>[](known[d].ticket # 0 /\ known[d].ver = remote[d])
=============================================================================
