--------------------------------- MODULE Gcert ---------------------------------
(***************************************************************************)
(* Making sure that the user is certified: gcertstatus is asked, the user  *)
(* may be asked, and gcert is run in a terminal, first without and then    *)
(* with the SSH_AUTH_SOCK of a session of the user's choice.  A failure is *)
(* explained by what the system log has got meanwhile.                     *)
(***************************************************************************)
EXTENDS Naturals

CONSTANTS
  Calls,    \* calls of ensureOrRunGcert
  Sockets,  \* how many agents' sockets there may be
  MaxLog,   \* bound: size of the system log
  MaxLapses \* bound: how often the certificates lapse

VARIABLES
  certified, \* the certificates are there and have not lapsed
  lapses,    \* counts how often they lapsed
  log,       \* the size of the system log
  call       \* the calls

vars == <<certified, lapses, log, call>>

Idle == [step |-> "idle", force |-> FALSE, ask |-> FALSE, useSshAuthSock |-> FALSE, prevSize |-> 0, since |-> FALSE, result |-> "none"]
Init ==
  /\ certified \in BOOLEAN /\ lapses = 0 /\ log = 0
  /\ call = [c \in Calls |-> Idle]

At(c, step) == call[c].step = step
Goto(c, step) == call' = [call EXCEPT ![c].step = step]
Return(c, result) == call' = [call EXCEPT ![c].step = "returned", ![c].result = result]
others == <<certified, lapses, log>>
-----------------------------------------------------------------------------
(* The surroundings *)

Lapse ==
  /\ certified /\ lapses < MaxLapses
  /\ certified' = FALSE /\ lapses' = lapses + 1
  /\ call' = [c \in Calls |-> [call[c] EXCEPT !.since = TRUE]]
  /\ UNCHANGED log

\* The log grows, or is rotated.
Log == log < MaxLog /\ log' = log + 1 /\ UNCHANGED <<certified, lapses, call>>
Rotate == log > 0 /\ log' = 0 /\ UNCHANGED <<certified, lapses, call>>
-----------------------------------------------------------------------------
(* ensureOrRunGcert *)

EnsureOrRunGcert(c, force, ask) ==
  /\ call[c] = Idle
  /\ call' = [call EXCEPT ![c] = [Idle EXCEPT !.step = "status", !.force = force, !.ask = ask]]
  /\ UNCHANGED others

\* gcertstatus cannot be run: the certificates could exist.
GcertstatusNotFound(c) ==
  /\ At(c, "status")
  /\ Return(c, "true, unknown")
  /\ UNCHANGED others

Prompt(c) == IF call[c].ask THEN "prompt" ELSE "socket"

\* mutant: an expired certificate will do unless gcert is forced
SuccessOrNot(c) ==
  /\ At(c, "status")
  /\ IF call[c].force THEN Goto(c, Prompt(c)) ELSE Return(c, "true")
  /\ UNCHANGED others
\* The codes Success and ExpireSoon.
Success(c) ==
  /\ At(c, "status") /\ certified
  /\ IF call[c].force THEN Goto(c, Prompt(c)) ELSE Return(c, "true")
  /\ UNCHANGED others

\* The codes Expired and Invalid, and NotFound, after which gcert is not
\* tried without a socket.
ExpiredOrNotFound(c, useSshAuthSock) ==
  /\ At(c, "status") /\ ~certified
  /\ call' = [call EXCEPT ![c].step = Prompt(c), ![c].useSshAuthSock = useSshAuthSock]
  /\ UNCHANGED others

GenericFailure(c) ==
  /\ At(c, "status")
  /\ Return(c, "false")
  /\ UNCHANGED others

\* "Run gcert", "Continue anyway", or the prompt is dismissed.
Answer(c) ==
  /\ At(c, "prompt")
  /\ \/ Goto(c, "socket") \/ Return(c, "true, asked") \/ Return(c, "false")
  /\ UNCHANGED others

\* askSshAuthSock: none, the only one, or the user's choice, if any.
AskSshAuthSock(c, candidates) ==
  /\ At(c, "socket")
  /\ \/ /\ ~call[c].useSshAuthSock \/ candidates > 0
        /\ call' = [call EXCEPT ![c].step = "gcert", ![c].prevSize = log]
     \/ /\ call[c].useSshAuthSock /\ candidates # 1
        /\ Return(c, "false")
  /\ UNCHANGED others

\* runGcert: the terminal has closed with code 0.
GcertSucceeds(c) ==
  /\ At(c, "gcert")
  /\ certified' = TRUE
  /\ Return(c, "true")
  /\ UNCHANGED <<lapses, log>>

\* Any other code, or none.
GcertFails(c) == At(c, "gcert") /\ Goto(c, "log") /\ UNCHANGED others

\* The log is read from the size it had to the one it has; if that is less,
\* the stream cannot be made and the call throws.
ReadLog(c) ==
  /\ At(c, "log")
  /\ IF call[c].prevSize > log THEN Return(c, "throws")
     ELSE IF call[c].useSshAuthSock THEN Return(c, "false")
     ELSE call' = [call EXCEPT ![c].step = "socket", ![c].useSshAuthSock = TRUE]
  /\ UNCHANGED others

Next ==
  \/ Lapse \/ Log \/ Rotate
  \/ \E c \in Calls : \/ \E force, ask \in BOOLEAN : EnsureOrRunGcert(c, force, ask)
                      \/ GcertstatusNotFound(c) \/ Success(c) \/ GenericFailure(c) \/ Answer(c)
                      \/ \E useSshAuthSock \in BOOLEAN : ExpiredOrNotFound(c, useSshAuthSock)
                      \/ \E n \in 0..Sockets : AskSshAuthSock(c, n)
                      \/ GcertSucceeds(c) \/ GcertFails(c) \/ ReadLog(c)

Spec == Init /\ [][Next]_vars
-----------------------------------------------------------------------------
TypeOK ==
  /\ certified \in BOOLEAN /\ lapses \in 0..MaxLapses /\ log \in 0..MaxLog
  /\ \A c \in Calls : call[c].step \in {"idle", "status", "prompt", "socket", "gcert", "log", "returned"}

\* "Whether the user is now certified or asked to proceed anyway": who gets
\* the answer that they are is certified, or has been since the call.
CertifiedIfTold ==
  \A c \in Calls : call[c].result = "true" => certified \/ call[c].since
=============================================================================
