----------------------------- MODULE DeviceList -----------------------------
(***************************************************************************)
(* What OwnedDeviceRepository promises about the setting that holds the    *)
(* user's devices: it only ever changes by one host being appended that    *)
(* was not listed, or one listed host being taken out, in the list as it   *)
(* is at that moment.                                                      *)
(***************************************************************************)
EXTENDS Sequences, SequencesExt

CONSTANT Hosts

VARIABLE hostnames

Init == hostnames = <<>>

AddHost(h) ==
  /\ ~Contains(hostnames, h)
  /\ hostnames' = Append(hostnames, h)

RemoveHost(h) ==
  /\ Contains(hostnames, h)
  /\ hostnames' = Remove(hostnames, h)

Next == \E h \in Hosts : AddHost(h) \/ RemoveHost(h)

Spec == Init /\ [][Next]_hostnames
=============================================================================
