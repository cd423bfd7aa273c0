---------------------------- MODULE EbuildCompdb ----------------------------
(***************************************************************************)
(* How the compilation database of a package is made: Ebuild               *)
(* (compdb_service/ebuild.ts), which runs ebuild and looks for what it has *)
(* written, and CompdbServiceImpl, which copies it into the source tree    *)
(* and runs ebuild a second time if files the database names are missing.  *)
(*                                                                         *)
(* The calls are for one package of one board.  As the class documents,    *)
(* they may overlap: its mutex makes one run of ebuild wait for the other, *)
(* and nothing else; what a run has found is copied after the mutex has    *)
(* been given up.                                                          *)
(***************************************************************************)
EXTENDS Naturals, Sequences

CONSTANTS
  Calls,        \* calls of CompdbServiceImpl.generate
  Dirs,         \* build directories, in any of which ebuild may work
  Cleaned,      \* those, of Dirs, that `ebuild clean` empties
  FileSystems,  \* the chroot and its `out` directory
  FirstTime     \* a modification time, in 10 .. LastTime (a run of ebuild takes a unit at least)

LastTime == 99  \* bound: times have as many digits as each other

Places == Dirs \X FileSystems
Never == 0      \* the modification time of a file that does not exist

VARIABLES
  makes,      \* whether the package makes a database at all
  written,    \* when the database of each place was written
  generated,  \* whether the files the databases name exist
  now,        \* the time at which ebuild last wrote a database
  waiting,    \* the calls in the mutex, the one that holds it first
  call        \* [at, pass, found, error, overtaken] of each call

vars == <<makes, written, generated, now, waiting, call>>
NoPlace == <<"none", "none">>

Init ==
  /\ makes \in BOOLEAN
  /\ \E old \in SUBSET Places : written = [p \in Places |-> IF p \in old THEN FirstTime ELSE Never]
  /\ generated = FALSE
  /\ now = FirstTime
  /\ waiting = <<>>
  /\ call = [c \in Calls |-> [at |-> "idle", pass |-> 1, found |-> NoPlace,
                              error |-> "none", overtaken |-> FALSE]]

Goto(c, at) == call' = [call EXCEPT ![c].at = at]
Holds(c) == waiting # <<>> /\ Head(waiting) = c
Throws(c, kind) == call' = [call EXCEPT ![c].at = "failed", ![c].error = kind]
-----------------------------------------------------------------------------
\* generate, and generateInner up to runExclusive: the first pass only asks for
\* the database.
Generate(c) ==
  /\ call[c].at = "idle"
  /\ waiting' = Append(waiting, c)
  /\ Goto(c, "removing")
  /\ UNCHANGED <<makes, written, generated, now>>

\* removeCache: of each directory, one of the file systems must let go of its
\* cache files.
RemoveCache(c, failing) ==
  /\ call[c].at = "removing" /\ Holds(c)
  /\ IF \E d \in Dirs : \A fs \in FileSystems : <<d, fs>> \in failing
     THEN /\ Throws(c, "RemoveCache")
          /\ waiting' = Tail(waiting)
     ELSE Goto(c, "ebuild") /\ UNCHANGED waiting
  /\ UNCHANGED <<makes, written, generated, now>>

\* runCompgen: the path of the ebuild is known and `ebuild clean` has run; it
\* may overtake the copying of what an earlier run has found.  Files that were
\* generated in a directory that is not emptied stay.
Clean(c) ==
  /\ call[c].at = "ebuild"
  /\ written' = [p \in Places |-> IF p[1] \in Cleaned THEN Never ELSE written[p]]
  /\ generated' \in {FALSE, generated}
  /\ call' = [d \in Calls |->
       IF d = c THEN [call[d] EXCEPT !.at = "compile"]
       ELSE [call[d] EXCEPT !.overtaken = @ \/ call[d].at = "copying"]]
  /\ UNCHANGED <<makes, now, waiting>>

\* `ebuild compile` has written a database; the second pass compiles as well.
Compile(c, p) ==
  /\ call[c].at = "compile" /\ makes /\ now < LastTime
  /\ now' = now + 1
  /\ written' = [written EXCEPT ![p] = now + 1]
  /\ generated' = (generated \/ call[c].pass = 2)
  /\ Goto(c, "looking")
  /\ UNCHANGED <<makes, waiting>>

\* The path of the ebuild is not found, or ebuild fails.
RunFails(c) ==
  /\ call[c].at \in {"ebuild", "compile"}
  /\ Throws(c, "RunEbuild")
  /\ waiting' = Tail(waiting)
  /\ UNCHANGED <<makes, written, generated, now>>

\* The package makes no database: there may be an old one, or none.
CompilesNothing(c) ==
  /\ call[c].at = "compile" /\ ~makes
  /\ Goto(c, "looking")
  /\ UNCHANGED <<makes, written, generated, now, waiting>>
-----------------------------------------------------------------------------
\* Times are compared as strings, by their digits (two stand for thirteen).
Digits(t) == IF t < 10 THEN <<t>> ELSE <<t \div 10, t % 10>>
SortsBefore(s, t) ==
  LET a == Digits(s)  b == Digits(t) IN
  \/ a[1] < b[1]
  \/ a[1] = b[1] /\ Len(a) < Len(b)
  \/ a[1] = b[1] /\ Len(a) = 2 /\ Len(b) = 2 /\ a[2] < b[2]

\* mutant: the first of the sorted candidates
FirstSorted(candidates) ==
  {p \in candidates : \A q \in candidates : ~SortsBefore(written[q], written[p])}

LastSorted(candidates) ==
  {p \in candidates : \A q \in candidates : ~SortsBefore(written[p], written[q])}

\* artifactPath, and the end of the job; the places do not change meanwhile,
\* for the call holds the mutex.
Look(c) ==
  /\ call[c].at = "looking"
  /\ LET candidates == {p \in Places : written[p] # Never} IN
     IF candidates = {} THEN Throws(c, "NotGenerated")
     ELSE \E p \in LastSorted(candidates) :
            call' = [call EXCEPT ![c].at = "copying", ![c].found = p]
  /\ waiting' = Tail(waiting)
  /\ UNCHANGED <<makes, written, generated, now>>

\* copyFile to a temporary file of its own, and rename.
Copy(c) ==
  /\ call[c].at = "copying"
  /\ IF written[call[c].found] = Never THEN Throws(c, "CopyFailed")
     ELSE Goto(c, IF call[c].pass = 1 THEN "checking" ELSE "done")
  /\ UNCHANGED <<makes, written, generated, now, waiting>>

\* mutant: the second pass is for the first database of a package only
CheckIfNew(c) ==
  /\ call[c].at = "checking"
  /\ IF generated \/ \E d \in Calls : call[d].at = "done"
     THEN Goto(c, "done") /\ UNCHANGED waiting
     ELSE /\ call' = [call EXCEPT ![c].at = "removing", ![c].pass = 2, ![c].found = NoPlace,
                                  ![c].overtaken = FALSE]
          /\ waiting' = Append(waiting, c)
  /\ UNCHANGED <<makes, written, generated, now>>

\* checkCompilationDatabase: do the files it names exist?  If not, the second
\* pass, which asks ebuild to compile.
Check(c) ==
  /\ call[c].at = "checking"
  /\ IF generated THEN Goto(c, "done") /\ UNCHANGED waiting
     ELSE /\ call' = [call EXCEPT ![c].at = "removing", ![c].pass = 2, ![c].found = NoPlace,
                                  ![c].overtaken = FALSE]
          /\ waiting' = Append(waiting, c)
  /\ UNCHANGED <<makes, written, generated, now>>

Next == \E c \in Calls :
  \/ Generate(c)
  \/ \E failing \in SUBSET Places : RemoveCache(c, failing)
  \/ Clean(c)
  \/ \E p \in Places : Compile(c, p)
  \/ RunFails(c)
  \/ CompilesNothing(c)
  \/ Look(c)
  \/ Copy(c)
  \/ Check(c)

Spec == Init /\ [][Next]_vars
-----------------------------------------------------------------------------
TypeOK ==
  /\ makes \in BOOLEAN
  /\ written \in [Places -> Nat] /\ now \in Nat /\ generated \in BOOLEAN
  /\ \A c \in Calls :
       /\ call[c].at \in {"idle", "removing", "ebuild", "compile", "looking", "copying",
                          "checking", "done", "failed"}
       /\ call[c].pass \in 1..2
       /\ call[c].found \in Places \cup {NoPlace}
       /\ call[c].error \in {"none", "RemoveCache", "RunEbuild", "NotGenerated", "CopyFailed"}

\* What is copied is the newest database there is, although times are compared
\* as strings (ebuild.ts:219), unless another run has begun since it was found.
NewestIsCopied == \A c \in Calls :
  call[c].at = "copying" /\ ~call[c].overtaken
    => \A p \in Places : written[p] <= written[call[c].found]

\* A copy fails only because another call has begun to clean in the meantime.
OnlyOvertakenFail == \A c \in Calls :
  call[c].error = "CopyFailed" => call[c].overtaken

\* Once no call is running, and none has failed, the files the database names
\* exist, whichever run of ebuild has removed them last
\* (compdb_service_impl.ts:39).
FilesExist ==
  (/\ makes
   /\ \A c \in Calls : call[c].at \in {"idle", "done"}
   /\ \E c \in Calls : call[c].at = "done")
  => generated
=============================================================================
