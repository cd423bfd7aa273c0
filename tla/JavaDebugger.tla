---------------------------- MODULE JavaDebugger ----------------------------
(***************************************************************************)
(* Attaching the Java debugger to an Android process                       *)
(* (chromium/java/debugger.ts): with the language server's class path at   *)
(* hand, a device and one of its debuggable processes are picked, one      *)
(* fixed local port is forwarded to the process, and a debug server is     *)
(* reached through a socket.  A session may be begun while another is      *)
(* being set up; they share the port.                                      *)
(***************************************************************************)
EXTENDS Naturals, FiniteSets

CONSTANTS
  Attempts,   \* debug sessions being set up
  Devices,    \* ADB devices
  Processes,  \* processes of a device
  Nowhere

VARIABLES
  online,      \* devices ADB lists, which may be down all the same
  debuggable,  \* debuggable processes, as pairs of a device and a process
  port,        \* what the local port is forwarded to
  attempt      \* the attempts

vars == <<online, debuggable, port, attempt>>

Idle == [at |-> "idle", device |-> Nowhere, process |-> Nowhere,
         to |-> <<Nowhere, Nowhere>>, shared |-> FALSE]

Init ==
  /\ online \in SUBSET Devices
  /\ debuggable \in SUBSET (Devices \X Processes)
  /\ port = <<Nowhere, Nowhere>>
  /\ attempt = [a \in Attempts |-> Idle]

Goes(a, from, to) ==
  /\ attempt[a].at = from
  /\ attempt' = [attempt EXCEPT ![a] = to]
  /\ UNCHANGED <<online, debuggable>>

To(a, stage) == [attempt[a] EXCEPT !.at = stage]

\* The phone is plugged in or out; a process starts or ends.
DeviceChanges(d) ==
  /\ online' = IF d \in online THEN online \ {d} ELSE online \cup {d}
  /\ UNCHANGED <<debuggable, port, attempt>>
-----------------------------------------------------------------------------
\* resolveDebugConfiguration: without a language server there is no session.
ResolveDebugConfiguration(a) ==
  Goes(a, "idle", To(a, "device")) /\ UNCHANGED port

\* A command of the set-up fails, or the user dismisses a choice.
GivesUp(a) ==
  /\ attempt[a].at \notin {"idle", "attached"}
  /\ Goes(a, attempt[a].at, Idle)
  /\ UNCHANGED port

\* listAvailableDevices, maybeChooseDevice: one device is taken unasked.
MaybeChooseDevice(a) ==
  \E d \in online :
    Goes(a, "device", [To(a, "alive") EXCEPT !.device = d]) /\ UNCHANGED port

EnsureDeviceIsAlive(a) ==
  attempt[a].device \in online /\ Goes(a, "alive", To(a, "process")) /\ UNCHANGED port

\* listDebuggableAndroidProcesses, and the user's choice.
PickProcess(a) ==
  \E p \in Processes :
    /\ <<attempt[a].device, p>> \in debuggable
    /\ Goes(a, "process", [To(a, "remove") EXCEPT !.process = p])
    /\ UNCHANGED port

\* The forwarding of the port on this device is removed, if there is one.
RemoveForward(a) ==
  /\ Goes(a, "remove", To(a, "forward"))
  /\ port' = IF port[1] = attempt[a].device THEN <<Nowhere, Nowhere>> ELSE port

\* mutant: a port that is forwarded on this device is left as it is
ForwardUnlessForwarded(a) ==
  /\ attempt[a].at = "forward"
  /\ port' = IF port[1] = Nowhere THEN <<attempt[a].device, attempt[a].process>> ELSE port
  /\ attempt' = [b \in Attempts |->
       IF b = a THEN To(a, "socket")
       ELSE [attempt[b] EXCEPT !.shared = @ \/ attempt[b].at \in {"socket", "attach"}]]
  /\ UNCHANGED <<online, debuggable>>

\* The port is forwarded to the process, from whatever it was forwarded to: an
\* attempt that has its port already now shares it.
SetUpJdwpForwarding(a) ==
  /\ attempt[a].at = "forward"
  /\ port' = <<attempt[a].device, attempt[a].process>>
  /\ attempt' = [b \in Attempts |->
       IF b = a THEN To(a, "socket")
       ELSE [attempt[b] EXCEPT !.shared = @ \/ attempt[b].at \in {"socket", "attach"}]]
  /\ UNCHANGED <<online, debuggable>>

\* The debug server's socket is made, and VS Code connects to it; the socket's
\* directory is removed meanwhile, so it may come too late.
CreateDebugAdapterDescriptor(a) ==
  Goes(a, "socket", To(a, "attach")) /\ UNCHANGED port

\* The server attaches through the port.
Attach(a) ==
  Goes(a, "attach", IF port[1] = Nowhere THEN Idle
                    ELSE [To(a, "attached") EXCEPT !.to = port])
  /\ UNCHANGED port

Detach(a) == Goes(a, "attached", Idle) /\ UNCHANGED port

Next ==
  \/ \E d \in Devices : DeviceChanges(d)
  \/ \E a \in Attempts :
       \/ ResolveDebugConfiguration(a) \/ GivesUp(a) \/ MaybeChooseDevice(a)
       \/ EnsureDeviceIsAlive(a) \/ PickProcess(a) \/ RemoveForward(a)
       \/ SetUpJdwpForwarding(a) \/ CreateDebugAdapterDescriptor(a)
       \/ Attach(a) \/ Detach(a)

Spec == Init /\ [][Next]_vars
-----------------------------------------------------------------------------
Place == Devices \cup Processes \cup {Nowhere}

TypeOK ==
  /\ online \subseteq Devices /\ debuggable \subseteq Devices \X Processes
  /\ port \in Place \X Place
  /\ attempt \in [Attempts -> [at : {"idle", "device", "alive", "process", "remove", "forward",
                                     "socket", "attach", "attached"},
                               device : Place, process : Place, to : Place \X Place,
                               shared : BOOLEAN]]

(***************************************************************************)
(* The debugger attaches to the process the user picked, on the device     *)
(* picked, whatever the port was forwarded to before; unless another       *)
(* session forwarded the same port between this one's forwarding and its   *)
(* attachment.                                                             *)
(***************************************************************************)
AttachedToPicked ==
  \A a \in Attempts :
    attempt[a].at = "attached" /\ ~attempt[a].shared =>
      attempt[a].to = <<attempt[a].device, attempt[a].process>>
=============================================================================
