---------------------------- MODULE DeviceClient ----------------------------
(***************************************************************************)
(* `DeviceClient` (device_client.ts) caches what /etc/lsb-release of each  *)
(* device says.  A refresh of all devices, started every minute and when   *)
(* the setting changes, or of one device, after flashing it, reads the     *)
(* file over SSH and fires an event if the cache has changed; the tree     *)
(* view (device_tree_data_provider.ts) reloads on that event and every     *)
(* minute, and asks getDeviceAttributes for what it shows.                 *)
(*                                                                         *)
(* Nothing keeps refreshes from overlapping each other or a query of the   *)
(* tree.  An SSH command sees the device at one moment and its answer is   *)
(* handled at a later one.  A set of at most one element stands for a      *)
(* value that may be absent.                                               *)
(***************************************************************************)
EXTENDS Naturals, FiniteSets

CONSTANTS
  Hosts,        \* the devices: their set does not change here
  Images,       \* what equalAttributes compares: board, builder path, milestone
  Releases,     \* chromeosReleaseVersion
  Refreshes,    \* refreshes that can be in progress at once
  MaxChanges    \* bound: how often a device changes

ASSUME BoundAssumption == MaxChanges \in Nat

Attributes == [image : Images, release : Releases]
Cached == {{}} \cup {{a} : a \in Attributes}
Answers == {"attributes", "error", "throws"}

\* Where an SSH command is, what it will end with, and what it has read.
Reads == [at : {"none", "sent", "answered"}, how : Answers, read : Cached]
NoRead == [at |-> "none", how |-> "error", read |-> {}]
SshSent == [NoRead EXCEPT !.at = "sent"]

VARIABLES
  installed, health, changes,  \* the devices, and how often they changed
  cachedDevicesWithAttributes,
  refresh,    \* for each refresh: [at, rejected, updated]
  reads,      \* its SSH commands, per host
  query,      \* the SSH command of getDeviceAttributes for the tree
  dirty,      \* hosts whose tree item is to be reloaded
  shown,      \* the attributes in the tree
  owed        \* history: hosts whose cache has changed with no event since

deviceVars == <<installed, health, changes>>
refreshVars == <<refresh, reads>>
treeVars == <<query, dirty, shown>>
vars == <<deviceVars, cachedDevicesWithAttributes, refreshVars, treeVars, owed>>

Idle == [at |-> "idle", rejected |-> FALSE, updated |-> {}]

Init ==
  /\ installed \in [Hosts -> Attributes]
  /\ health = [h \in Hosts |-> "ok"]
  /\ changes = 0
  /\ cachedDevicesWithAttributes = [h \in Hosts |-> {}]
  /\ refresh = [k \in Refreshes |-> Idle]
  /\ reads = [k \in Refreshes |-> [h \in Hosts |-> NoRead]]
  /\ query = [h \in Hosts |-> NoRead]
  /\ dirty = Hosts
  /\ shown = [h \in Hosts |-> {}]
  /\ owed = {}
-----------------------------------------------------------------------------
(***************************************************************************)
(* The devices, and SSH                                                    *)
(***************************************************************************)
\* The device is flashed, goes down, comes back, or has an lsb-release that
\* parseLsbRelease rejects (a host that is no ChromiumOS device).
DeviceChanges(h, a, s) ==
  /\ changes < MaxChanges
  /\ <<a, s>> # <<installed[h], health[h]>>
  /\ installed' = [installed EXCEPT ![h] = a]
  /\ health' = [health EXCEPT ![h] = s]
  /\ changes' = changes + 1
  /\ UNCHANGED <<cachedDevicesWithAttributes, refreshVars, treeVars, owed>>

\* readLsbReleaseFromDevice(h): what the command run now will give.
ReadLsbRelease(h) ==
  [at |-> "answered",
   how |-> CASE health[h] = "ok" -> "attributes"
             [] health[h] = "down" -> "error"
             [] health[h] = "garbled" -> "throws",
   read |-> IF health[h] = "ok" THEN {installed[h]} ELSE {}]
-----------------------------------------------------------------------------
(***************************************************************************)
(* refresh() and refreshDevicesAttributes()                                *)
(***************************************************************************)
\* Every minute, and when the setting changes: getHostnames is awaited.
RefreshStarts(k) ==
  /\ refresh[k].at = "idle"
  /\ refresh' = [refresh EXCEPT ![k].at = "hostnames"]
  /\ UNCHANGED <<deviceVars, cachedDevicesWithAttributes, reads, treeVars, owed>>

\* Listing the leased devices fails: the owned ones are not refreshed either.
HostnamesFail(k) ==
  /\ refresh[k].at = "hostnames"
  /\ refresh' = [refresh EXCEPT ![k] = Idle]
  /\ UNCHANGED <<deviceVars, cachedDevicesWithAttributes, reads, treeVars, owed>>

RefreshDevices(k, hostnames) ==
  /\ refresh' = [refresh EXCEPT ![k].at = "reading"]
  /\ reads' = [reads EXCEPT ![k] = [h \in Hosts |-> IF h \in hostnames
                                                    THEN SshSent ELSE NoRead]]
  /\ UNCHANGED <<deviceVars, cachedDevicesWithAttributes, treeVars, owed>>

HostnamesKnown(k) ==
  /\ refresh[k].at = "hostnames"
  /\ RefreshDevices(k, Hosts)

\* deviceClient.refresh([hostname]), after flashing one device.
RefreshOne(k, h) ==
  /\ refresh[k].at = "idle"
  /\ RefreshDevices(k, {h})

ReadAnswered(k, h) ==
  /\ reads[k][h].at = "sent"
  /\ reads' = [reads EXCEPT ![k][h] = ReadLsbRelease(h)]
  /\ UNCHANGED <<deviceVars, cachedDevicesWithAttributes, refresh, treeVars, owed>>

\* mutant: what is cached is not compared with what was read
UnchangedIfCached(h, read) == cachedDevicesWithAttributes[h] # {}

\* "Do nothing if there is no change": equalAttributes(cache, attributes).
UnchangedAttributes(h, read) ==
  \E c \in cachedDevicesWithAttributes[h], a \in read : c.image = a.image

\* The answer is handled: the cache is updated, if it has to be, at once, but
\* the event waits for the other devices.
ReadHandled(k, h) ==
  LET r == reads[k][h]
      changed == r.how = "attributes" /\ ~UnchangedAttributes(h, r.read) IN
  /\ r.at = "answered"
  /\ reads' = [reads EXCEPT ![k][h] = NoRead]
  /\ refresh' = [refresh EXCEPT
       ![k].rejected = refresh[k].rejected \/ r.how = "throws",
       ![k].updated = refresh[k].updated \cup {g \in {h} : changed}]
  /\ cachedDevicesWithAttributes' =
       IF changed THEN [cachedDevicesWithAttributes EXCEPT ![h] = r.read]
                  ELSE cachedDevicesWithAttributes
  /\ owed' = IF changed THEN owed \cup {h} ELSE owed
  /\ UNCHANGED <<deviceVars, treeVars>>

\* onDidChange, for the hosts hs: its listener reloads the whole tree.
FireOnDidChange(hs) ==
  /\ dirty' = Hosts
  /\ owed' = owed \ hs
  /\ UNCHANGED <<query, shown>>

\* mutant: the test of updatedDevicesAttributes.length is off by one
AllHandledOffByOne(k) ==
  /\ refresh[k].at = "reading"
  /\ \A h \in Hosts : reads[k][h].at = "none"
  /\ refresh' = [refresh EXCEPT ![k] = Idle]
  /\ IF ~refresh[k].rejected /\ Cardinality(refresh[k].updated) > 1
     THEN FireOnDidChange(refresh[k].updated)
     ELSE UNCHANGED <<treeVars, owed>>
  /\ UNCHANGED <<deviceVars, cachedDevicesWithAttributes, reads>>

\* Promise.all settles: it is rejected when one of the reads was, and then
\* nothing is fired.
AllHandled(k) ==
  /\ refresh[k].at = "reading"
  /\ \A h \in Hosts : reads[k][h].at = "none"
  /\ refresh' = [refresh EXCEPT ![k] = Idle]
  /\ IF ~refresh[k].rejected /\ refresh[k].updated # {}
     THEN FireOnDidChange(refresh[k].updated)
     ELSE UNCHANGED <<treeVars, owed>>
  /\ UNCHANGED <<deviceVars, cachedDevicesWithAttributes, reads>>
-----------------------------------------------------------------------------
(***************************************************************************)
(* The tree view: getChildren of a device, and getDeviceAttributes         *)
(***************************************************************************)
\* The tree is reloaded every minute to show how long leases last.
TreeTimer ==
  /\ dirty' = Hosts
  /\ UNCHANGED <<deviceVars, cachedDevicesWithAttributes, refreshVars, query,
                 shown, owed>>

\* The item of h is reloaded; one SSH command per host at a time.
TreeReloads(h) ==
  /\ h \in dirty
  /\ query[h].at = "none"
  /\ dirty' = dirty \ {h}
  /\ IF cachedDevicesWithAttributes[h] # {}
     THEN /\ shown' = [shown EXCEPT ![h] = cachedDevicesWithAttributes[h]]
          /\ UNCHANGED query
     ELSE /\ query' = [query EXCEPT ![h] = SshSent]
          /\ UNCHANGED shown
  /\ UNCHANGED <<deviceVars, cachedDevicesWithAttributes, refreshVars, owed>>

QueryAnswered(h) ==
  /\ query[h].at = "sent"
  /\ query' = [query EXCEPT ![h] = ReadLsbRelease(h)]
  /\ UNCHANGED <<deviceVars, cachedDevicesWithAttributes, refreshVars, dirty,
                 shown, owed>>

\* getDeviceAttributes goes on: the cache is set whatever it holds by now.
QueryHandled(h) ==
  /\ query[h].at = "answered"
  /\ query' = [query EXCEPT ![h] = NoRead]
  /\ IF query[h].how = "attributes"
     THEN /\ cachedDevicesWithAttributes' =
               [cachedDevicesWithAttributes EXCEPT ![h] = query[h].read]
          /\ dirty' = Hosts
          /\ owed' = owed \ {h}
     ELSE UNCHANGED <<cachedDevicesWithAttributes, dirty, owed>>
  /\ shown' = [shown EXCEPT ![h] = query[h].read]
  /\ UNCHANGED <<deviceVars, refreshVars>>

Refresh(k) ==
  \/ RefreshStarts(k)
  \/ HostnamesFail(k)
  \/ HostnamesKnown(k)
  \/ \E h \in Hosts : RefreshOne(k, h) \/ ReadAnswered(k, h) \/ ReadHandled(k, h)
  \/ AllHandled(k)

Tree(h) == TreeReloads(h) \/ QueryAnswered(h) \/ QueryHandled(h)

Next ==
  \/ \E h \in Hosts, a \in Attributes, s \in {"ok", "down", "garbled"} :
       DeviceChanges(h, a, s)
  \/ \E k \in Refreshes : Refresh(k)
  \/ TreeTimer
  \/ \E h \in Hosts : Tree(h)

Spec == Init /\ [][Next]_vars

(***************************************************************************)
(* The two timers fire, SSH commands end (their connection does time out), *)
(* the event loop goes on, and listing the devices does not fail for ever. *)
(* RefreshStarts is strongly fair because the timer does not wait for the  *)
(* refreshes of single devices that occupy the slots of the bound.         *)
(***************************************************************************)
FairSpec ==
  /\ Spec
  /\ \A k \in Refreshes :
       /\ SF_vars(RefreshStarts(k))
       /\ SF_vars(HostnamesKnown(k))
       /\ WF_vars(AllHandled(k))
       /\ \A h \in Hosts : WF_vars(ReadAnswered(k, h)) /\ WF_vars(ReadHandled(k, h))
  /\ WF_vars(TreeTimer)
  /\ \A h \in Hosts : WF_vars(Tree(h))
-----------------------------------------------------------------------------
\* Types; a refresh has SSH commands only while it is reading.
TypeOK ==
  /\ installed \in [Hosts -> Attributes]
  /\ health \in [Hosts -> {"ok", "down", "garbled"}]
  /\ changes \in 0..MaxChanges
  /\ cachedDevicesWithAttributes \in [Hosts -> Cached]
  /\ refresh \in [Refreshes -> [at : {"idle", "hostnames", "reading"},
                                rejected : BOOLEAN, updated : SUBSET Hosts]]
  /\ reads \in [Refreshes -> [Hosts -> Reads]]
  /\ \A k \in Refreshes, h \in Hosts :
       reads[k][h] # NoRead => refresh[k].at = "reading"
  /\ query \in [Hosts -> Reads]
  /\ dirty \subseteq Hosts
  /\ shown \in [Hosts -> Cached]
  /\ owed \subseteq Hosts

\* Device h is up and has image a installed.
Runs(h, a) == health[h] = "ok" /\ installed[h] = a

\* However refreshes and queries overlap and answers are handled out of
\* order, the tree ends up showing the image of a device that is left alone.
ImageIsShown ==
  \A h \in Hosts, a \in Attributes :
    <>[]Runs(h, a) => <>[](\E s \in shown[h] : s.image = a.image)

\* A change of the cache is announced, whichever devices are down or are
\* flashed meanwhile, if every device has a proper lsb-release.
AnnouncedIfAllParse ==
  ([]\A h \in Hosts : health[h] # "garbled")
    => \A h \in Hosts : h \in owed ~> h \notin owed
-----------------------------------------------------------------------------
(***************************************************************************)
(* What the comments say and the code does not do.                         *)
(***************************************************************************)
\* "Refresh every minute to make sure device attributes are up-to-date,
\* since users might be flashing image on terminal" (device_client.ts:60).
ReleaseIsShown ==
  \A h \in Hosts, a \in Attributes : <>[]Runs(h, a) => <>[](a \in shown[h])

\* "Otherwise, update cache and fire event to notify device client etc."
\* (device_client.ts:99).
ChangeIsAnnounced == \A h \in Hosts : h \in owed ~> h \notin owed
=============================================================================
