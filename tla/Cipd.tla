--------------------------------- MODULE Cipd ---------------------------------
(***************************************************************************)
(* The repository of CIPD binaries: crosfleet, the spellchecker and dirmd  *)
(* are installed, or brought up to date, each time before they are used.   *)
(* The repository itself is initialized by the first that finds it is not. *)
(***************************************************************************)
EXTENDS Naturals, Sequences

CONSTANTS
  Callers,   \* calls of ensureCrosfleet, ensureTriciumSpellchecker and ensureDirmd
  PackageOf, \* the package each ensures
  Nobody     \* no call

VARIABLES
  at,          \* where each call is
  waiting,     \* cipdMutex: the calls that wait for it, in order
  holder,      \* and the one that has it
  initialized, \* the directory has a .cipd
  inits,       \* how often `cipd init -force` has succeeded
  installed    \* the packages in it

vars == <<at, waiting, holder, initialized, inits, installed>>

Init ==
  /\ at = [c \in Callers |-> "idle"]
  /\ waiting = <<>> /\ holder = Nobody
  /\ initialized = FALSE /\ inits = 0 /\ installed = {}

Goto(c, step) == at' = [at EXCEPT ![c] = step]
Release ==
  /\ holder' = IF waiting = <<>> THEN Nobody ELSE Head(waiting)
  /\ waiting' = IF waiting = <<>> THEN <<>> ELSE Tail(waiting)
-----------------------------------------------------------------------------
\* ensurePackage, to runExclusive.
EnsurePackage(c) ==
  /\ at[c] = "idle"
  /\ IF holder = Nobody THEN holder' = c /\ UNCHANGED waiting
     ELSE waiting' = Append(waiting, c) /\ UNCHANGED holder
  /\ Goto(c, "called")
  /\ UNCHANGED <<initialized, inits, installed>>

\* mutant: it is not seen if the repository is there while another call works
LookUnlocked(c) ==
  /\ at[c] = "called"
  /\ Goto(c, IF initialized THEN "install" ELSE "init")
  /\ UNCHANGED <<waiting, holder, initialized, inits, installed>>
\* The job runs: is there a .cipd?
Look(c) ==
  /\ at[c] = "called" /\ holder = c
  /\ Goto(c, IF initialized THEN "install" ELSE "init")
  /\ UNCHANGED <<waiting, holder, initialized, inits, installed>>

CipdInit(c) ==
  /\ at[c] = "init"
  /\ initialized' = TRUE /\ inits' = inits + 1
  /\ Goto(c, "install")
  /\ UNCHANGED <<waiting, holder, installed>>

CipdInstall(c) ==
  /\ at[c] = "install"
  /\ installed' = installed \cup {PackageOf[c]}
  /\ Goto(c, "done")
  /\ Release
  /\ UNCHANGED <<initialized, inits>>

\* Either command fails and the error is thrown out of the job.
CipdFails(c) ==
  /\ at[c] \in {"init", "install"}
  /\ Goto(c, "failed")
  /\ Release
  /\ UNCHANGED <<initialized, inits, installed>>

\* The binary is used; the spellchecker gives up on an error for good, the
\* others call again.
Return(c) ==
  /\ \/ at[c] = "done" /\ PackageOf[c] # "spellchecker"
     \/ at[c] = "failed" /\ PackageOf[c] # "spellchecker"
  /\ Goto(c, "idle")
  /\ UNCHANGED <<waiting, holder, initialized, inits, installed>>

Next == \E c \in Callers : \/ EnsurePackage(c) \/ Look(c) \/ CipdInit(c) \/ CipdInstall(c)
                           \/ CipdFails(c) \/ Return(c)

Spec == Init /\ [][Next]_vars
-----------------------------------------------------------------------------
TypeOK ==
  /\ at \in [Callers -> {"idle", "called", "init", "install", "done", "failed"}]
  /\ holder \in Callers \cup {Nobody}
  /\ initialized \in BOOLEAN /\ inits \in Nat
  /\ installed \subseteq {PackageOf[c] : c \in Callers}

\* What is installed stays so: the repository is initialized, with -force, by
\* one call alone, and a binary is used only when it is there.
InitializedOnce ==
  /\ inits <= 1
  /\ \A c \in Callers : at[c] = "done" => initialized /\ PackageOf[c] \in installed
=============================================================================
