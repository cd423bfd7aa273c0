---------------------------- MODULE WorkspaceProofs ---------------------------
(***************************************************************************)
(* What follows the workspace, for any values of the constants.            *)
(*                                                                         *)
(* ProductWatcher: the map and the root agree after every step, in         *)
(* whatever order the handlers go on; as long as no two of them overlap,   *)
(* the map counts the folders of the workspace less those that the handler *)
(* in progress has still to add, and with those it has still to remove.    *)
(* Features: only an instance that was disposed early goes on.             *)
(* EbuildCompdb: who is between `ebuild clean` and the search for what     *)
(* ebuild wrote holds the mutex; some call will make what another lacks.   *)
(* JavaDebugger: the port is that of the attempt, unless it is shared.     *)
(* JavaServer: the session that is not cancelled is the manager's, and one *)
(* that is out of date is about to be replaced.                            *)
(***************************************************************************)
EXTENDS MCWorkspace, SequenceTheorems, FiniteSetTheorems, TLAPS

Distinct(ks) == \A i, j \in 1..Len(ks) : ks[i] = ks[j] => i = j

\* The map and the root; a key is in the map once.
RootIInv == TypeOK /\ Distinct(keys) /\ RootIsCounted

\* The folders that are counted while handler h is in progress.
Counted(h) ==
  IF handler[h].at = "add" THEN (workspace \ handler[h].todo) \cup handler[h].removed
  ELSE IF handler[h].at = "added" THEN workspace \cup handler[h].removed
  ELSE workspace \cup handler[h].todo

Under(fs, r) == {f \in fs : RootOf[f] = r}
Counts(fs) == \A r \in Roots : count[r] = Cardinality(Under(fs, r))

\* What handler h has still to do.
WorkIsLeft(h) ==
  LET s == handler[h] IN
  /\ s.at # "added" => s.todo # {}
  /\ s.at = "add" => s.todo \subseteq workspace
  /\ s.at = "remove" => s.todo \cap workspace = {}
  /\ s.at = "added" => s.removed # {}
  /\ s.removed \cap workspace = {}

\* The map and the listeners, while no handlers have overlapped.
CountIsExact ==
  ~overlapped =>
    /\ InProgress = {} => Counts(workspace) /\ LastEvent = root
    /\ \A h \in InProgress :
         /\ InProgress = {h}
         /\ WorkIsLeft(h)
         /\ Counts(Counted(h))
         /\ LastEvent = IF handler[h].at = "added" THEN root ELSE handler[h].prevRoot

\* The inductive invariant.
IInv == RootIInv /\ CountIsExact
-----------------------------------------------------------------------------
\* Map.delete: one key is taken out of a sequence of distinct keys.
LEMMA RemovedKey ==
  ASSUME NEW S, NEW ks \in Seq(S), NEW k, Distinct(ks)
  PROVE  LET kept == RemoveFirst(ks, k) IN
         /\ kept \in Seq(S) /\ Distinct(kept)
         /\ \A x : Contains(kept, x) <=> Contains(ks, x) /\ x # k
<1> DEFINE kept == RemoveFirst(ks, k)
<1>1. CASE ~Contains(ks, k)
  BY <1>1 DEF RemoveFirst, Contains
<1>2. CASE Contains(ks, k)
  <2>1. PICK i \in 1..Len(ks) : ks[i] = k
    BY <1>2 DEF Contains
  <2>2. {j \in 1..Len(ks) : ks[j] = k} = {i}
    BY <2>1 DEF Distinct
  <2>3. Min({i}) = i
    BY <2>1 DEF Min
  <2>4. kept = RemoveAt(ks, i)
    BY <2>1, <2>2, <2>3 DEF RemoveFirst, SelectInSeq
  <2>5. /\ kept \in Seq(S) /\ Len(kept) = Len(ks) - 1
        /\ \A j \in 1..Len(kept) : kept[j] = IF j < i THEN ks[j] ELSE ks[j + 1]
    <3> DEFINE before == SubSeq(ks, 1, i - 1)
               after == SubSeq(ks, i + 1, Len(ks))
    <3>1. i \in Nat /\ i >= 1 /\ i <= Len(ks) /\ Len(ks) \in Nat
      OBVIOUS
    <3>2. /\ before \in Seq(S) /\ Len(before) = i - 1
          /\ \A j \in 1..i - 1 : before[j] = ks[j]
      BY <3>1
    <3>3. /\ after \in Seq(S) /\ Len(after) = Len(ks) - i
          /\ \A j \in 1..Len(ks) - i : after[j] = ks[j + i]
      BY <3>1
    <3> HIDE DEF before, after
    <3>4. kept = before \o after
      BY <2>4 DEF RemoveAt, before, after
    <3> HIDE DEF kept
    <3>5. kept \in Seq(S) /\ Len(kept) = Len(ks) - 1
      BY <3>1, <3>2, <3>3, <3>4
    <3>6. ASSUME NEW j \in 1..Len(kept), j < i PROVE kept[j] = ks[j]
      <4>1. j \in 1..i - 1 /\ j \in 1..Len(before)
        BY <3>1, <3>2, <3>6
      <4>2. kept[j] = before[j]
        BY <3>2, <3>3, <3>4, <4>1
      <4>3. QED
        BY <3>2, <4>1, <4>2
    <3>7. ASSUME NEW j \in 1..Len(kept), ~(j < i) PROVE kept[j] = ks[j + 1]
      <4>1. kept[j] = after[j - (i - 1)]
        BY <3>1, <3>2, <3>3, <3>4, <3>5, <3>7
      <4>2. j - (i - 1) \in 1..Len(ks) - i /\ j - (i - 1) + i = j + 1
        BY <3>1, <3>5, <3>7
      <4>3. QED
        BY <3>3, <4>1, <4>2
    <3>8. QED
      BY <3>5, <3>6, <3>7
  <2>6. Distinct(kept)
    <3>1. ASSUME NEW j \in 1..Len(kept)
          PROVE  /\ j \in 1..Len(ks) /\ j + 1 \in 1..Len(ks)
      BY <2>1, <2>5
    <3>2. QED
      BY <2>1, <2>5, <3>1 DEF Distinct
  <2>7. ASSUME NEW x, Contains(kept, x) PROVE Contains(ks, x) /\ x # k
    <3>1. PICK j \in 1..Len(kept) : kept[j] = x
      BY <2>7 DEF Contains
    <3>2. CASE j < i
      <4>1. j \in 1..Len(ks) /\ j # i /\ ks[j] = x
        BY <2>1, <2>5, <3>1, <3>2
      <4>2. QED
        BY <2>1, <4>1 DEF Distinct, Contains
    <3>3. CASE ~(j < i)
      <4>1. j + 1 \in 1..Len(ks) /\ j + 1 # i /\ ks[j + 1] = x
        BY <2>1, <2>5, <3>1, <3>3
      <4>2. QED
        BY <2>1, <4>1 DEF Distinct, Contains
    <3>4. QED
      BY <3>2, <3>3
  <2>8. ASSUME NEW x, Contains(ks, x), x # k PROVE Contains(kept, x)
    <3>1. PICK j \in 1..Len(ks) : ks[j] = x
      BY <2>8 DEF Contains
    <3>2. CASE j < i
      BY <2>1, <2>5, <3>1, <3>2 DEF Contains
    <3>3. CASE j > i
      <4>1. j - 1 \in 1..Len(kept) /\ ~(j - 1 < i) /\ (j - 1) + 1 = j
        BY <2>1, <2>5, <3>1, <3>3
      <4>2. kept[j - 1] = x
        BY <2>5, <3>1, <4>1
      <4>3. QED
        BY <4>1, <4>2 DEF Contains
    <3>4. QED
      BY <2>1, <2>8, <3>1, <3>2, <3>3
  <2>9. QED
    BY <2>5, <2>6, <2>7, <2>8
<1>3. QED
  BY <1>1, <1>2

LEMMA FiniteUnder ==
  ASSUME NEW fs \in SUBSET Folders, NEW r
  PROVE  /\ IsFiniteSet(Under(fs, r)) /\ Cardinality(Under(fs, r)) \in Nat
         /\ Cardinality(Under(fs, r)) = 0 <=> Under(fs, r) = {}
<1>1. Under(fs, r) \in SUBSET Folders
  BY DEF Under
<1>2. IsFiniteSet(Under(fs, r))
  BY <1>1, FoldersAssumption, FS_Subset
<1>3. QED
  BY <1>2, FS_CardinalityType, FS_EmptySet

\* One folder more, or one less, changes the number of its own root only.
LEMMA OneFolder ==
  ASSUME NEW fs \in SUBSET Folders, NEW f \in Folders, f \notin fs, NEW r
  PROVE  Cardinality(Under(fs \cup {f}, r)) =
           IF RootOf[f] = r THEN Cardinality(Under(fs, r)) + 1
                            ELSE Cardinality(Under(fs, r))
<1>1. IsFiniteSet(Under(fs, r)) /\ f \notin Under(fs, r)
  BY FiniteUnder DEF Under
<1>2. CASE RootOf[f] = r
  <2>1. Under(fs \cup {f}, r) = Under(fs, r) \cup {f}
    BY <1>2 DEF Under
  <2>2. QED
    BY <1>1, <1>2, <2>1, FS_AddElement
<1>3. CASE RootOf[f] # r
  <2>1. Under(fs \cup {f}, r) = Under(fs, r)
    BY <1>3 DEF Under
  <2>2. QED
    BY <1>3, <2>1
<1>4. QED
  BY <1>2, <1>3

USE DEF rootVars, Products, InProgress

LEMMA InitRoot == Init => RootIInv
<1> SUFFICES ASSUME Init PROVE RootIInv
  OBVIOUS
<1> USE FoldersAssumption DEF Init, NotStarted
<1>1. keys = <<>> /\ Len(keys) = 0 /\ keys \in Seq(Roots) /\ events \in Seq(Products)
  OBVIOUS
<1>2. handler \in [Handlers -> States]
  BY DEF States
<1>3. \A r \in Roots : ~Contains(keys, r) /\ ~(count[r] > 0)
  BY <1>1 DEF Contains
<1>4. Distinct(keys) /\ RootIsCounted
  BY <1>1 DEF Distinct, RootIsCounted
<1>5. workspace \subseteq Folders /\ root \in Products /\ count \in [Roots -> Nat]
  OBVIOUS
<1>6. prompt \in {"none", "looking", "shown"} /\ overlapped \in BOOLEAN
  OBVIOUS
<1>7. QED
  BY <1>1, <1>2, <1>3, <1>4, <1>5, <1>6 DEF RootIInv, TypeOK

\* A folder of root r is counted.
LEMMA AddKeepsMap ==
  ASSUME RootIInv, NEW r \in Roots,
         count' = [count EXCEPT ![r] = @ + 1],
         keys' = IF count[r] = 0 THEN Append(keys, r) ELSE keys,
         root' = IF root = NoRoot THEN r ELSE root
  PROVE  /\ root' \in Products /\ keys' \in Seq(Roots) /\ count' \in [Roots -> Nat]
         /\ \A k \in Roots : Contains(keys', k) <=> count'[k] > 0
         /\ Distinct(keys')
         /\ RootIsCounted'
<1> USE FoldersAssumption DEF RootIInv, TypeOK
<1>1. /\ root' \in Products /\ keys' \in Seq(Roots) /\ count' \in [Roots -> Nat]
  OBVIOUS
<1>2. \A k \in Roots : Contains(keys', k) <=> Contains(keys, k) \/ k = r
  <2>1. CASE count[r] = 0
    <3>1. /\ Len(keys) \in Nat /\ Len(keys') = Len(keys) + 1 /\ keys'[Len(keys) + 1] = r
          /\ \A i \in 1..Len(keys) : keys'[i] = keys[i]
      BY <2>1
    <3>2. QED
      BY <3>1 DEF Contains
  <2>2. CASE count[r] # 0
    BY <2>2
  <2>3. QED
    BY <2>1, <2>2
<1>3. \A k \in Roots : Contains(keys', k) <=> count'[k] > 0
  BY <1>2
<1>4. Distinct(keys')
  <2>1. CASE count[r] = 0
    <3>1. /\ Len(keys) \in Nat /\ Len(keys') = Len(keys) + 1 /\ keys'[Len(keys) + 1] = r
          /\ \A i \in 1..Len(keys) : keys'[i] = keys[i]
      BY <2>1
    <3>2. ~Contains(keys, r)
      BY <2>1
    <3>3. \A i \in 1..Len(keys) : keys[i] # r
      BY <3>2 DEF Contains
    <3>4. QED
      BY <3>1, <3>3 DEF Distinct
  <2>2. CASE count[r] # 0
    BY <2>2
  <2>3. QED
    BY <2>1, <2>2
<1>5. RootIsCounted'
  <2>1. root' # NoRoot /\ root' \in Roots
    OBVIOUS
  <2>2. Contains(keys', root')
    BY <1>2, <2>1 DEF RootIsCounted
  <2>3. QED
    BY <2>1, <2>2 DEF RootIsCounted
<1>6. QED
  BY <1>1, <1>3, <1>4, <1>5

\* The last folder of root r is gone.
LEMMA DropKeepsMap ==
  ASSUME RootIInv, NEW r \in Roots, DropRoot(r)
  PROVE  /\ root' \in Products /\ keys' \in Seq(Roots) /\ count' \in [Roots -> Nat]
         /\ \A k \in Roots : Contains(keys', k) <=> count'[k] > 0
         /\ Distinct(keys')
         /\ RootIsCounted'
<1> USE FoldersAssumption DEF RootIInv, TypeOK
<1>1. /\ keys' \in Seq(Roots) /\ Distinct(keys')
      /\ \A k : Contains(keys', k) <=> Contains(keys, k) /\ k # r
  BY RemovedKey DEF DropRoot
<1>2. count' \in [Roots -> Nat] /\ \A k \in Roots : Contains(keys', k) <=> count'[k] > 0
  BY <1>1 DEF DropRoot
<1>3. keys' # <<>> => Head(keys') \in Roots /\ Contains(keys', Head(keys'))
  BY <1>1, HeadTailProperties, EmptySeq DEF Contains
<1>4. root' \in Products
  BY <1>3 DEF DropRoot
<1>5. RootIsCounted'
  <2>1. CASE root = r
    BY <1>3, <2>1 DEF DropRoot, RootIsCounted
  <2>2. CASE root # r /\ root # NoRoot
    BY <1>1, <2>2 DEF DropRoot, RootIsCounted
  <2>3. CASE root # r /\ root = NoRoot
    <3>1. keys = <<>> /\ Len(keys) = 0
      BY <2>3 DEF RootIsCounted
    <3>2. keys' # <<>> => Contains(keys', keys'[1])
      <4>1. keys' # <<>> => 1 \in 1..Len(keys')
        BY <1>1, EmptySeq
      <4>2. QED
        BY <4>1 DEF Contains
    <3>3. \A k : ~Contains(keys', k)
      <4>1. \A k : ~Contains(keys, k)
        BY <3>1 DEF Contains
      <4>2. QED
        BY <1>1, <4>1
    <3>4. keys' = <<>>
      BY <3>2, <3>3
    <3>5. QED
      BY <2>3, <3>4 DEF DropRoot, RootIsCounted
  <2>4. QED
    BY <2>1, <2>2, <2>3
<1>6. QED
  BY <1>1, <1>2, <1>4, <1>5

LEMMA FolderDoneTypes ==
  ASSUME TypeOK, NEW h \in Handlers, NEW f, NEW next \in {"done", "added"},
         FolderDone(h, f, next)
  PROVE  handler' \in [Handlers -> States]
<1> DEFINE s == handler[h]
<1>1. s \in States
  BY DEF TypeOK
<1>2. (IF s.todo = {f} THEN next ELSE s.at) \in {"idle", "add", "added", "remove", "done"}
  BY <1>1 DEF States
<1>3. QED
  BY <1>1, <1>2 DEF FolderDone, TypeOK, States

LEMMA StepRoot == RootIInv /\ [Next]_vars => RootIInv'
<1> SUFFICES ASSUME RootIInv, [Next]_vars PROVE RootIInv'
  OBVIOUS
<1> USE FoldersAssumption DEF RootIInv, TypeOK
<1>1. ASSUME NEW h \in Handlers, NEW a \in SUBSET (Folders \ workspace),
             NEW d \in SUBSET workspace, WorkspaceChanges(h, a, d)
      PROVE  RootIInv'
  BY <1>1 DEF WorkspaceChanges, RootIsCounted, States
<1>2. ASSUME NEW h \in Handlers, NEW f \in Folders, FolderAdded(h,
             f) PROVE RootIInv'
  <2>1. /\ root' \in Products /\ keys' \in Seq(Roots) /\ count' \in [Roots -> Nat]
        /\ \A k \in Roots : Contains(keys', k) <=> count'[k] > 0
        /\ Distinct(keys')
        /\ RootIsCounted'
    <3>1. CASE RootOf[f] = NoRoot
      BY <1>2, <3>1 DEF FolderAdded, RootIsCounted
    <3>2. CASE RootOf[f] \in Roots
      BY <1>2, <3>2, AddKeepsMap DEF FolderAdded
    <3>3. QED
      BY <3>1, <3>2
  <2>2. handler' \in [Handlers -> States]
    BY <1>2, FolderDoneTypes DEF FolderAdded
  <2>3. events' \in Seq(Products)
    BY <1>2, <2>1 DEF FolderAdded, FireIfLast
  <2>4. QED
    BY <1>2, <2>1, <2>2, <2>3 DEF FolderAdded, States
<1>3. ASSUME NEW h \in Handlers, NEW f \in Folders, FolderRemoved(h,
             f) PROVE RootIInv'
  <2>1. /\ root' \in Products /\ keys' \in Seq(Roots) /\ count' \in [Roots -> Nat]
        /\ \A k \in Roots : Contains(keys', k) <=> count'[k] > 0
        /\ Distinct(keys')
        /\ RootIsCounted'
    <3>1. CASE RootOf[f] = NoRoot
      BY <1>3, <3>1 DEF FolderRemoved, RootIsCounted
    <3>2. CASE RootOf[f] \in Roots /\ count[RootOf[f]] > 1
      <4> DEFINE r == RootOf[f]
      <4>1. count' = [count EXCEPT ![r] = count[r] - 1] /\ UNCHANGED <<root, keys>>
        BY <1>3, <3>2 DEF FolderRemoved
      <4>2. count[r] \in Nat /\ count[r] - 1 \in Nat /\ count[r] - 1 > 0
        BY <3>2
      <4>3. count' \in [Roots -> Nat] /\ \A k \in Roots : count'[k] > 0 <=> count[k] > 0
        BY <3>2, <4>1, <4>2
      <4>4. QED
        BY <4>1, <4>3 DEF RootIsCounted
    <3>3. CASE RootOf[f] \in Roots /\ count[RootOf[f]] <= 1
      BY <1>3, <3>3, DropKeepsMap DEF FolderRemoved
    <3>4. QED
      BY <3>1, <3>2, <3>3
  <2>2. handler' \in [Handlers -> States]
    BY <1>3, FolderDoneTypes DEF FolderRemoved
  <2>3. events' \in Seq(Products)
    BY <1>3, <2>1 DEF FolderRemoved, FireIfLast
  <2>4. QED
    BY <1>3, <2>1, <2>2, <2>3 DEF FolderRemoved, States
<1>4. ASSUME NEW h \in Handlers, RemoveStarts(h) PROVE RootIInv'
  BY <1>4 DEF RemoveStarts, RootIsCounted, States
<1>5. CASE FileOpened \/ PromptShown
  BY <1>5 DEF FileOpened, PromptShown, RootIsCounted
<1>6. CASE UNCHANGED vars
  BY <1>6 DEF vars, RootIsCounted
<1>7. QED
  BY <1>1, <1>2, <1>3, <1>4, <1>5, <1>6 DEF Next

LEMMA InitCount == Init => CountIsExact
<1> SUFFICES ASSUME Init PROVE CountIsExact
  OBVIOUS
<1> USE FoldersAssumption DEF Init, NotStarted
<1>1. LastEvent = NoRoot
  BY DEF LastEvent
<1>2. ASSUME NEW r \in Roots PROVE Cardinality(Under({}, r)) = 0
  <2>1. Under({}, r) = {}
    BY DEF Under
  <2>2. QED
    BY <2>1, FS_EmptySet
<1>3. Counts({})
  BY <1>2 DEF Counts
<1>4. CASE workspace = {}
  BY <1>1, <1>3, <1>4 DEF CountIsExact
<1>5. CASE workspace # {}
  <2>1. InProgress = {startup}
    BY <1>5
  <2>2. handler[startup] = [at |-> "add", todo |-> workspace, removed |-> {},
                            prevRoot |-> NoRoot]
    BY <1>5
  <2>3. WorkIsLeft(startup) /\ Counted(startup) = {}
    BY <1>5, <2>2 DEF WorkIsLeft, Counted
  <2>4. QED
    BY <1>1, <1>3, <2>1, <2>2, <2>3 DEF CountIsExact
<1>6. QED
  BY <1>4, <1>5

\* What listeners know at the end of a handler's turn.
LEMMA LastEventStep ==
  ASSUME RootIInv, NEW h, NEW f, FireIfLast(h, f), root' \in Products
  PROVE  LastEvent' = IF handler[h].todo = {f} /\ handler[h].prevRoot # root'
                      THEN root' ELSE LastEvent
<1>1. CASE handler[h].todo = {f} /\ handler[h].prevRoot # root'
  <2>1. events' = Append(events, root') /\ events \in Seq(Products)
    BY <1>1 DEF FireIfLast, RootIInv, TypeOK
  <2>2. Len(events') = Len(events) + 1 /\ events'[Len(events) + 1] = root' /\ events' # <<>>
    BY <2>1
  <2>3. QED
    BY <1>1, <2>2 DEF LastEvent, Last
<1>2. CASE ~(handler[h].todo = {f} /\ handler[h].prevRoot # root')
  BY <1>2 DEF FireIfLast, LastEvent, Last
<1>3. QED
  BY <1>1, <1>2

LEMMA ChangeCount ==
  ASSUME IInv, NEW h \in Handlers, NEW a \in SUBSET (Folders \ workspace),
         NEW d \in SUBSET workspace, WorkspaceChanges(h, a, d)
  PROVE  CountIsExact'
<1> SUFFICES ASSUME ~overlapped' PROVE CountIsExact'
  BY DEF CountIsExact
<1> USE DEF IInv, RootIInv, TypeOK
<1>1. InProgress = {} /\ Counts(workspace) /\ LastEvent = root
  BY DEF WorkspaceChanges, CountIsExact
<1>2. a # {} \/ d # {}
  <2>1. Cardinality(a \cup d) # 0
    BY FoldersAssumption DEF WorkspaceChanges
  <2>2. QED
    BY <2>1, FS_EmptySet
<1>3. handler' = [handler EXCEPT ![h] =
        [at |-> IF a # {} THEN "add" ELSE "remove", todo |-> IF a # {} THEN a ELSE d,
         removed |-> IF a # {} THEN d ELSE {}, prevRoot |-> root]]
  BY DEF WorkspaceChanges
<1>4. InProgress' = {h}
  BY <1>1, <1>3
<1>5. UNCHANGED <<root, keys, count, events>> /\ workspace' = (workspace \cup a) \ d
  BY DEF WorkspaceChanges
<1>6. WorkIsLeft(h)' /\ Counted(h)' = workspace
  BY <1>2, <1>3, <1>5 DEF WorkIsLeft, Counted
<1>7. Counts(Counted(h))' /\ LastEvent' = root /\ handler'[h].prevRoot = root
      /\ handler'[h].at # "added"
  BY <1>1, <1>3, <1>5, <1>6 DEF Counts, LastEvent
<1>8. QED
  BY <1>4, <1>6, <1>7 DEF CountIsExact

LEMMA AddCount ==
  ASSUME IInv, NEW h \in Handlers, NEW f \in Folders, FolderAdded(h, f),
         root' \in Products
  PROVE  CountIsExact'
<1> SUFFICES ASSUME ~overlapped' PROVE CountIsExact'
  BY DEF CountIsExact
<1> DEFINE s == handler[h]
           c == Counted(h)
<1> USE DEF IInv, RootIInv
<1>1. s.at = "add" /\ f \in s.todo /\ ~overlapped /\ workspace' = workspace
  BY DEF FolderAdded
<1>2. /\ InProgress = {h} /\ WorkIsLeft(h) /\ Counts(c)
      /\ LastEvent = s.prevRoot
  BY <1>1 DEF CountIsExact
<1>3. c = (workspace \ s.todo) \cup s.removed /\ f \notin c /\ f \in workspace
      /\ c \in SUBSET Folders
  BY <1>1, <1>2 DEF WorkIsLeft, Counted, TypeOK, States
<1>4. ASSUME NEW r \in Roots
      PROVE  count'[r] = Cardinality(Under(c \cup {f}, r))
  <2>1. count[r] = Cardinality(Under(c, r)) /\ count[r] \in Nat
    BY <1>2 DEF Counts, TypeOK
  <2>2. count'[r] = IF RootOf[f] = r THEN count[r] + 1 ELSE count[r]
    <3>1. CASE RootOf[f] = NoRoot
      BY <3>1, FoldersAssumption DEF FolderAdded
    <3>2. CASE RootOf[f] # NoRoot
      BY <3>2 DEF FolderAdded, TypeOK
    <3>3. QED
      BY <3>1, <3>2
  <2>3. c \in SUBSET Folders /\ f \notin c
    BY <1>3
  <2>4. Cardinality(Under(c \cup {f}, r)) =
          IF RootOf[f] = r THEN Cardinality(Under(c, r)) + 1 ELSE Cardinality(Under(c, r))
    BY <2>3, OneFolder
  <2>5. QED
    BY <2>1, <2>2, <2>4
<1>5. LastEvent' = IF s.todo = {f} /\ s.prevRoot # root' THEN root' ELSE LastEvent
  BY LastEventStep DEF FolderAdded
<1>6. handler' = [handler EXCEPT ![h] =
        [at |-> IF s.todo = {f} THEN IF s.removed = {} THEN "done" ELSE "added" ELSE "add",
         todo |-> s.todo \ {f}, removed |-> s.removed, prevRoot |-> s.prevRoot]]
  BY <1>1 DEF FolderAdded, FolderDone
<1>7. handler \in [Handlers -> States]
  BY DEF TypeOK
<1>8. CASE s.todo = {f} /\ s.removed = {}
  <2>1. InProgress' = {}
    BY <1>2, <1>6, <1>7, <1>8
  <2>2. c \cup {f} = workspace
    BY <1>3, <1>8
  <2>3. Counts(workspace)'
    BY <1>1, <1>4, <2>2 DEF Counts
  <2>4. LastEvent' = root'
    BY <1>2, <1>5, <1>8
  <2>5. QED
    BY <2>1, <2>3, <2>4 DEF CountIsExact
<1>9. CASE s.todo = {f} /\ s.removed # {}
  <2>1. InProgress' = {h} /\ handler'[h].at = "added" /\ handler'[h].removed = s.removed
    BY <1>2, <1>6, <1>7, <1>9
  <2>2. Counted(h)' = c \cup {f}
    BY <1>1, <1>3, <1>9, <2>1 DEF Counted
  <2>3. Counts(Counted(h))'
    BY <1>4, <2>2 DEF Counts
  <2>4. WorkIsLeft(h)' /\ LastEvent' = root'
    BY <1>1, <1>2, <1>5, <1>9, <2>1 DEF WorkIsLeft
  <2>5. QED
    BY <2>1, <2>3, <2>4 DEF CountIsExact
<1>10. CASE s.todo # {f}
  <2>1. /\ InProgress' = {h} /\ handler'[h].at = "add"
        /\ handler'[h].removed = s.removed
        /\ handler'[h].todo = s.todo \ {f}
        /\ handler'[h].prevRoot = s.prevRoot
    BY <1>2, <1>6, <1>7, <1>10
  <2>2. Counted(h)' = c \cup {f}
    BY <1>1, <1>3, <2>1 DEF Counted
  <2>3. Counts(Counted(h))'
    BY <1>4, <2>2 DEF Counts
  <2>4. WorkIsLeft(h)' /\ LastEvent' = s.prevRoot
    BY <1>1, <1>2, <1>5, <1>10, <2>1 DEF WorkIsLeft
  <2>5. QED
    BY <2>1, <2>3, <2>4 DEF CountIsExact
<1>11. QED
  BY <1>8, <1>9, <1>10

LEMMA RemoveCount ==
  ASSUME IInv, NEW h \in Handlers, NEW f \in Folders, FolderRemoved(h, f),
         root' \in Products
  PROVE  CountIsExact'
<1> SUFFICES ASSUME ~overlapped' PROVE CountIsExact'
  BY DEF CountIsExact
<1> DEFINE s == handler[h]
           c == Counted(h)
<1> USE DEF IInv, RootIInv
<1>1. s.at = "remove" /\ f \in s.todo /\ ~overlapped /\ workspace' = workspace
  BY DEF FolderRemoved
<1>2. /\ InProgress = {h} /\ WorkIsLeft(h) /\ Counts(c)
      /\ LastEvent = s.prevRoot
  BY <1>1 DEF CountIsExact
<1>3. c = workspace \cup s.todo /\ f \in c /\ f \notin workspace
      /\ c \ {f} \in SUBSET Folders
  BY <1>1, <1>2 DEF WorkIsLeft, Counted, TypeOK, States
<1>4. ASSUME NEW r \in Roots
      PROVE  count'[r] = Cardinality(Under(c \ {f}, r))
  <2>1. count[r] = Cardinality(Under(c, r)) /\ count[r] \in Nat
    BY <1>2 DEF Counts, TypeOK
  <2>2. Cardinality(Under(c, r)) = IF RootOf[f] = r THEN Cardinality(Under(c \ {f}, r)) + 1
                                                   ELSE Cardinality(Under(c \ {f}, r))
    <3>1. (c \ {f}) \cup {f} = c
      BY <1>3
    <3>2. QED
      BY <1>3, <3>1, OneFolder
  <2>3. Cardinality(Under(c \ {f}, r)) \in Nat
    BY <1>3, FiniteUnder
  <2>4. CASE RootOf[f] # r
    BY <2>1, <2>2, <2>4 DEF FolderRemoved, DropRoot, TypeOK
  <2>5. CASE RootOf[f] = r
    <3>1. count'[r] = IF count[r] > 1 THEN count[r] - 1 ELSE 0
      BY <2>1, <2>5, FoldersAssumption DEF FolderRemoved, DropRoot, TypeOK
    <3>2. QED
      BY <2>1, <2>2, <2>3, <2>5, <3>1
  <2>6. QED
    BY <2>4, <2>5
<1>5. LastEvent' = IF s.todo = {f} /\ s.prevRoot # root' THEN root' ELSE LastEvent
  BY LastEventStep DEF FolderRemoved
<1>6. handler' = [handler EXCEPT ![h] =
        [at |-> IF s.todo = {f} THEN "done" ELSE "remove",
         todo |-> s.todo \ {f}, removed |-> s.removed, prevRoot |-> s.prevRoot]]
  BY <1>1 DEF FolderRemoved, FolderDone
<1>7. handler \in [Handlers -> States]
  BY DEF TypeOK
<1>8. CASE s.todo = {f}
  <2>1. InProgress' = {}
    BY <1>2, <1>6, <1>7, <1>8
  <2>2. c \ {f} = workspace
    BY <1>3, <1>8
  <2>3. Counts(workspace)'
    BY <1>1, <1>4, <2>2 DEF Counts
  <2>4. LastEvent' = root'
    BY <1>2, <1>5, <1>8
  <2>5. QED
    BY <2>1, <2>3, <2>4 DEF CountIsExact
<1>9. CASE s.todo # {f}
  <2>1. /\ InProgress' = {h} /\ handler'[h].at = "remove"
        /\ handler'[h].removed = s.removed
        /\ handler'[h].todo = s.todo \ {f}
        /\ handler'[h].prevRoot = s.prevRoot
    BY <1>2, <1>6, <1>7, <1>9
  <2>2. Counted(h)' = c \ {f}
    BY <1>1, <1>3, <2>1 DEF Counted
  <2>3. Counts(Counted(h))'
    BY <1>4, <2>2 DEF Counts
  <2>4. WorkIsLeft(h)' /\ LastEvent' = s.prevRoot
    BY <1>1, <1>2, <1>5, <1>9, <2>1 DEF WorkIsLeft
  <2>5. QED
    BY <2>1, <2>3, <2>4 DEF CountIsExact
<1>10. QED
  BY <1>8, <1>9

LEMMA StartRemoveCount ==
  ASSUME IInv, NEW h \in Handlers, RemoveStarts(h)
  PROVE  CountIsExact'
<1> SUFFICES ASSUME ~overlapped' PROVE CountIsExact'
  BY DEF CountIsExact
<1> DEFINE s == handler[h]
<1> USE DEF IInv, RootIInv
<1>1. s.at = "added" /\ ~overlapped /\ UNCHANGED <<workspace, root, keys, count, events>>
  BY DEF RemoveStarts
<1>2. /\ InProgress = {h} /\ WorkIsLeft(h) /\ Counts(Counted(h))
      /\ LastEvent = root
  BY <1>1 DEF CountIsExact
<1>3. handler' = [handler EXCEPT ![h] =
        [at |-> "remove", todo |-> s.removed, removed |-> {}, prevRoot |-> root]]
  BY DEF RemoveStarts
<1>4. InProgress' = {h} /\ handler'[h].at = "remove" /\ handler'[h].todo = s.removed
      /\ handler'[h].removed = {} /\ handler'[h].prevRoot = root
  BY <1>2, <1>3 DEF TypeOK
<1>5. Counted(h)' = Counted(h)
  BY <1>1, <1>4 DEF Counted
<1>6. Counts(Counted(h))' /\ LastEvent' = root
  BY <1>1, <1>2, <1>5 DEF Counts, LastEvent
<1>7. WorkIsLeft(h)'
  BY <1>1, <1>2, <1>4 DEF WorkIsLeft
<1>8. QED
  BY <1>4, <1>6, <1>7 DEF CountIsExact

LEMMA QuietCount ==
  ASSUME CountIsExact, UNCHANGED <<workspace, root, keys, count, handler, events, overlapped>>
  PROVE  CountIsExact'
BY DEF CountIsExact, WorkIsLeft, Counts, Counted, LastEvent

\* The map and the root, and as long as no handlers overlap also the count,
\* for any folders, roots and events.
THEOREM WatcherInvariance == Spec => []IInv
<1>1. Init => IInv
  BY InitRoot, InitCount DEF IInv
<1>2. IInv /\ [Next]_vars => IInv'
  <2> SUFFICES ASSUME IInv, [Next]_vars PROVE IInv'
    OBVIOUS
  <2>1. RootIInv'
    BY StepRoot DEF IInv
  <2>2. root' \in Products
    BY <2>1 DEF RootIInv, TypeOK
  <2>3. ASSUME NEW h \in Handlers, NEW a \in SUBSET (Folders \ workspace),
               NEW d \in SUBSET workspace, WorkspaceChanges(h, a, d)
        PROVE  CountIsExact'
    BY <2>3, ChangeCount
  <2>4. ASSUME NEW h \in Handlers, NEW f \in Folders, FolderAdded(h, f) PROVE CountIsExact'
    BY <2>2, <2>4, AddCount
  <2>5. ASSUME NEW h \in Handlers, NEW f \in Folders, FolderRemoved(h, f) PROVE CountIsExact'
    BY <2>2, <2>5, RemoveCount
  <2>6. ASSUME NEW h \in Handlers, RemoveStarts(h) PROVE CountIsExact'
    BY <2>6, StartRemoveCount
  <2>7. CASE FileOpened
    BY <2>1, <2>7, QuietCount DEF FileOpened, IInv
  <2>8. CASE PromptShown
    BY <2>1, <2>8, QuietCount DEF PromptShown, IInv
  <2>9. CASE UNCHANGED vars
    BY <2>1, <2>9, QuietCount DEF vars, IInv
  <2>10. CASE Next
    BY <2>1, <2>3, <2>4, <2>5, <2>6, <2>7, <2>8, <2>10 DEF IInv, Next
  <2>11. QED
    BY <2>1, <2>9, <2>10 DEF IInv
<1>3. QED
  BY <1>1, <1>2, PTL DEF Spec

\* A root that is selected has a folder that was counted, and one is selected
\* if any was, however the handlers overlap (watcher.ts:176).
THEOREM SelectedRootIsCounted == Spec => []RootIsCounted
<1>1. IInv => RootIsCounted
  BY DEF IInv, RootIInv
<1>2. QED
  BY WatcherInvariance, <1>1, PTL

\* Handlers that do not overlap leave the map with the folders of the
\* workspace, a tree that has one selected, and the listeners told of it.
THEOREM ExactCount == Spec => []ExactWithoutOverlap
<1>1. IInv => ExactWithoutOverlap
  <2> SUFFICES ASSUME IInv, ~overlapped, InProgress = {}
               PROVE  /\ \A r \in Roots : count[r] = Cardinality(FoldersOf(r))
                      /\ IF \A r \in Roots : FoldersOf(r) = {}
                         THEN root = NoRoot
                         ELSE \E r \in Roots : root = r /\ FoldersOf(r) # {}
                      /\ LastEvent = root
    BY DEF ExactWithoutOverlap
  <2> USE DEF IInv, RootIInv
  <2>1. Counts(workspace) /\ LastEvent = root
    BY DEF CountIsExact
  <2>2. ASSUME NEW r \in Roots
        PROVE  /\ count[r] = Cardinality(FoldersOf(r))
               /\ count[r] \in Nat /\ (count[r] = 0 <=> FoldersOf(r) = {})
               /\ Contains(keys, r) <=> count[r] > 0
    <3>1. FoldersOf(r) = Under(workspace, r) /\ workspace \in SUBSET Folders
      BY DEF FoldersOf, Under, TypeOK
    <3>2. QED
      BY <2>1, <3>1, FiniteUnder DEF Counts, TypeOK
  <2>3. CASE root = NoRoot
    <3>1. Len(keys) = 0
      BY <2>3 DEF RootIsCounted
    <3>2. \A r \in Roots : ~Contains(keys, r)
      BY <3>1 DEF Contains
    <3>3. \A r \in Roots : FoldersOf(r) = {}
      BY <2>2, <3>2
    <3>4. QED
      BY <2>1, <2>2, <2>3, <3>3
  <2>4. CASE root \in Roots
    <3>1. Contains(keys, root)
      BY <2>4, FoldersAssumption DEF RootIsCounted
    <3>2. FoldersOf(root) # {}
      BY <2>2, <2>4, <3>1
    <3>3. QED
      BY <2>1, <2>2, <2>4, <3>2
  <2>5. QED
    BY <2>3, <2>4 DEF TypeOK
<1>2. QED
  BY WatcherInvariance, <1>1, PTL
-----------------------------------------------------------------------------
(* Features *)

InstanceRecords ==
  [root : Roots, batch : 1 .. Len(Batches) + 1, failed : BOOLEAN, disposed : BOOLEAN,
   early : BOOLEAN]
FeaturesTypes ==
  /\ instances \in Seq(InstanceRecords)
  /\ \A p \in live : p[2] \in DOMAIN instances

\* A new instance is made when the others have been disposed of.
OthersAreDisposed == \A k \in DOMAIN instances : k # Len(instances) => instances[k].disposed
\* An activation that goes on after the disposal was cut off by it.
EarlyGoesOn ==
  \A k \in DOMAIN instances :
    /\ instances[k].disposed /\ ~instances[k].early => ~Features!Activating(k)
    /\ instances[k].failed => ~Features!Activating(k)
\* What a disposed instance leaves is what nobody disposes.
LeftIsUndisposed ==
  \A p \in live : instances[p[2]].disposed /\ ~instances[p[2]].early => p[1] \in Undisposed
Runs(k, f) == <<f, k>> \in live
\* The features of the batches that were passed run.
PassedRun ==
  \A k \in DOMAIN instances : ~instances[k].disposed /\ ~instances[k].failed =>
    \A i \in 1 .. instances[k].batch - 1 : \A j \in DOMAIN Batches[i] :
      Batches[i][j] \notin Optional => Runs(k, Batches[i][j])

FeaturesIInv ==
  FeaturesTypes /\ OthersAreDisposed /\ EarlyGoesOn /\ LeftIsUndisposed /\ PassedRun

\* The invariant holds at the start.
LEMMA FeaturesInit == Features!Init => FeaturesIInv
BY DEF Features!Init, FeaturesIInv, FeaturesTypes, OthersAreDisposed,
       EarlyGoesOn, LeftIsUndisposed, PassedRun

\* What starts belongs to the instance, and all that is not skipped starts
\* unless a command has an owner.
LEMMA StartedRuns ==
  ASSUME NEW k, NEW batch \in Seq(STRING), NEW skipped, NEW running
  PROVE  LET started == Features!Started(k, batch, skipped, running) IN
         /\ started.failed \in BOOLEAN
         /\ running \subseteq started.live
         /\ \A p \in started.live : p \in running \/ p[2] = k
         /\ ~started.failed =>
              \A j \in DOMAIN batch : batch[j] \notin skipped => <<batch[j], k>> \in started.live
<1> DEFINE Throws(i) == batch[i] \notin skipped /\ Features!Taken(batch[i], running)
           starts == {i \in DOMAIN batch : batch[i] \notin skipped /\ \A j \in 1 .. i : ~Throws(j)}
           started == Features!Started(k, batch, skipped, running)
<1>1. started.live = running \cup {<<batch[i], k>> : i \in starts}
  BY DEF Features!Started
<1>2. started.failed = \E i \in DOMAIN batch : Throws(i)
  BY DEF Features!Started
<1>3. ASSUME ~started.failed, NEW j \in DOMAIN batch, batch[j] \notin skipped
      PROVE  j \in starts
  <2>1. \A i \in DOMAIN batch : ~Throws(i)
    BY <1>2, <1>3
  <2>2. \A i \in 1 .. j : i \in DOMAIN batch
    OBVIOUS
  <2>3. QED
    BY <1>3, <2>1, <2>2
<1> HIDE DEF Throws, starts, started
<1>4. started.failed \in BOOLEAN
  BY <1>2
<1>5. \A j \in DOMAIN batch : ~started.failed /\ batch[j] \notin skipped => <<batch[j], k>> \in started.live
  BY <1>1, <1>3
<1>6. running \subseteq started.live /\ \A p \in started.live : p \in running \/ p[2] = k
  BY <1>1
<1>7. QED
  BY <1>4, <1>5, <1>6 DEF started

\* The invariant says what the run checks.
LEMMA FeaturesHold == FeaturesIInv => Features!FeaturesAreOfTheRoot
<1> SUFFICES ASSUME FeaturesIInv, ~Features!Early
             PROVE  Features!FeaturesAreOfTheRoot
  BY DEF Features!FeaturesAreOfTheRoot
<1> USE DEF FeaturesIInv, FeaturesTypes
<1>1. ASSUME NEW k \in DOMAIN instances, ~instances[k].disposed
      PROVE  k = Features!Current
  BY <1>1 DEF OthersAreDisposed, Features!Current, Features!Last
<1>2. ASSUME NEW p \in live
      PROVE  p[2] = Features!Current \/ p[1] \in Undisposed
  BY <1>1 DEF LeftIsUndisposed, Features!Early
<1>3. ASSUME Features!Current # 0
      PROVE  Features!Current \in DOMAIN instances /\ ~instances[Features!Current].disposed
  BY <1>3 DEF Features!Current, Features!Last
<1>4. ASSUME Features!Current # 0, ~Features!Activating(Features!Current), 
             ~instances[Features!Current].failed,
             NEW f \in Features!FeatureSet \ Optional
      PROVE  <<f, Features!Current>> \in live
  <2>1. PICK i \in DOMAIN Batches : f \in Features!ToSet(Batches[i])
    BY DEF Features!FeatureSet
  <2>2. PICK j \in DOMAIN Batches[i] : f = Batches[i][j]
    BY <2>1 DEF Features!ToSet
  <2>3. i \in 1 .. instances[Features!Current].batch - 1
    <3>1. instances[Features!Current] \in InstanceRecords
      BY <1>3, <1>4
    <3>2. instances[Features!Current].batch \in 1 .. Len(Batches) + 1
      BY <3>1 DEF InstanceRecords
    <3>3. Len(Batches) \in Nat /\ i \in 1 .. Len(Batches)
      BY FeaturesAssumption
    <3>4. QED
      BY <1>4, <3>2, <3>3 DEF Features!Activating
  <2>4. QED
    BY <1>3, <1>4, <2>2, <2>3 DEF PassedRun, Runs
<1>5. QED
  BY <1>2, <1>4 DEF Features!FeaturesAreOfTheRoot

\* An interval tells its end.
LEMMA SameLength ==
  ASSUME NEW m \in Nat, NEW n \in Nat, 1 .. m = 1 .. n
  PROVE  m = n
<1>1. ASSUME m < n PROVE FALSE
  <2>1. n \in 1 .. n /\ ~(n \in 1 .. m)
    BY <1>1
  <2>2. QED
    BY <2>1
<1>2. ASSUME n < m PROVE FALSE
  <2>1. m \in 1 .. m /\ ~(m \in 1 .. n)
    BY <1>2
  <2>2. QED
    BY <2>1
<1>3. QED
  BY <1>1, <1>2

\* What an activation changes of an instance.
LEMMA InstanceFields ==
  ASSUME NEW r \in InstanceRecords, NEW b \in 1 .. Len(Batches) + 1, NEW f \in BOOLEAN
  PROVE  LET new == [r EXCEPT !.batch = b, !.failed = f] IN
         /\ new \in InstanceRecords /\ new.batch = b /\ new.failed = f
         /\ new.disposed = r.disposed /\ new.early = r.early
BY DEF InstanceRecords

\* The instance there is is disposed of, and another one begins.
LEMMA ChangeRootStep ==
  ASSUME FeaturesIInv, NEW r \in Roots \cup {NoRoot}, Features!ChangeRoot(r)
  PROVE  FeaturesIInv'
<1> USE DEF FeaturesIInv, FeaturesTypes
<1> DEFINE current == Features!Current
           n == Len(instances)
           old == [k \in DOMAIN instances |->
                     IF k = current
                     THEN [instances[k] EXCEPT !.disposed = TRUE, !.early = Features!Activating(k)]
                     ELSE instances[k]]
           left == live \ (IF current = 0 THEN {} ELSE Features!Disposing(current))
           started == Features!Started(n + 1, Batches[1], {}, left)
           new == [root |-> r, batch |-> IF started.failed THEN Len(Batches) + 1 ELSE 2,
                   failed |-> started.failed, disposed |-> FALSE, early |-> FALSE]
<1>1. \/ r = NoRoot /\ instances' = old /\ live' = left
      \/ r # NoRoot /\ instances' = Append(old, new) /\ live' = started.live
  BY DEF Features!ChangeRoot
<1>2. /\ n \in Nat /\ DOMAIN instances = 1 .. n
      /\ Len(Batches) \in Nat /\ Len(Batches) >= 1 /\ Batches[1] \in Seq(STRING)
  BY FeaturesAssumption
<1>3. /\ current = 0 \/ (current = n /\ n \in DOMAIN instances)
      /\ \A k \in DOMAIN instances : ~instances[k].disposed => k = current
  <2>1. CASE instances = <<>>
    BY <1>2, <2>1 DEF Features!Current
  <2>2. CASE instances # <<>>
    <3>1. n \in DOMAIN instances /\ Features!Last(instances) = instances[n]
      BY <1>2, <2>2 DEF Features!Last
    <3>2. QED
      BY <2>2, <3>1 DEF OthersAreDisposed, Features!Current
  <2>3. QED
    BY <2>1, <2>2
<1>4. ASSUME NEW k \in DOMAIN instances
      PROVE  /\ old[k] \in InstanceRecords /\ old[k].disposed
             /\ old[k].batch = instances[k].batch /\ old[k].failed = instances[k].failed
             /\ k = current => (old[k].early <=> Features!Activating(k))
             /\ k # current => old[k] = instances[k]
  <2>1. instances[k] \in InstanceRecords
    OBVIOUS
  <2>2. CASE k = current
    <3>1. Features!Activating(k) \in BOOLEAN
      BY DEF Features!Activating
    <3>2. old[k] = [instances[k] EXCEPT !.disposed = TRUE, !.early = Features!Activating(k)]
      BY <2>2
    <3>3. QED
      BY <2>1, <2>2, <3>1, <3>2 DEF InstanceRecords
  <2>3. CASE k # current
    BY <1>3, <2>1, <2>3
  <2>4. QED
    BY <2>2, <2>3
<1>5. old \in Seq(InstanceRecords) /\ Len(old) = n /\ DOMAIN old = 1 .. n
  <2>1. old \in [1 .. n -> InstanceRecords]
    BY <1>2, <1>4
  <2>2. old \in Seq(InstanceRecords)
    BY <1>2, <2>1, SeqDef, ZenonT(60)
  <2>3. Len(old) \in Nat /\ DOMAIN old = 1 .. Len(old) /\ DOMAIN old = 1 .. n
    BY <2>1, <2>2, LenProperties
  <2> HIDE DEF old
  <2>4. Len(old) = n
    BY <1>2, <2>3, SameLength
  <2>5. QED
    BY <2>2, <2>3, <2>4
<1> HIDE DEF old, left, started
<1>6. ASSUME NEW p \in left
      PROVE  /\ p[2] \in DOMAIN instances
             /\ old[p[2]].disposed /\ ~old[p[2]].early => p[1] \in Undisposed
  <2>1. p \in live /\ p[2] \in DOMAIN instances
    BY DEF left
  <2>2. CASE p[2] = current
    <3>1. current # 0
      BY <1>2, <2>1, <2>2
    <3>2. QED
      BY <2>1, <2>2, <3>1 DEF left, Features!Disposing
  <2>3. CASE p[2] # current
    BY <1>4, <2>1, <2>3 DEF LeftIsUndisposed
  <2>4. QED
    BY <2>2, <2>3
<1>7. ASSUME NEW k \in DOMAIN instances
      PROVE  /\ ~old[k].early => old[k].batch > Len(Batches)
             /\ old[k].failed => old[k].batch > Len(Batches)
  <2>1. instances[k].batch \in Nat
    <3>1. instances[k] \in InstanceRecords
      OBVIOUS
    <3>2. QED
      BY <1>2, <3>1 DEF InstanceRecords
  <2>2. instances[k].failed => instances[k].batch > Len(Batches)
    BY <1>2, <2>1 DEF EarlyGoesOn, Features!Activating
  <2>3. CASE k = current
    BY <1>2, <1>4, <2>1, <2>2, <2>3 DEF Features!Activating
  <2>4. CASE k # current
    <3>1. instances[k].disposed /\ old[k] = instances[k]
      BY <1>3, <1>4, <2>4
    <3>2. QED
      BY <1>2, <2>1, <2>2, <3>1 DEF EarlyGoesOn, Features!Activating
  <2>5. QED
    BY <2>3, <2>4
<1>8. CASE r = NoRoot
  <2>1. instances' = old /\ live' = left
    BY <1>1, <1>8
  <2>2. QED
    BY <1>2, <1>4, <1>5, <1>6, <1>7, <2>1 DEF OthersAreDisposed, EarlyGoesOn,
                                              LeftIsUndisposed, PassedRun,
                                              Features!Activating
<1>9. CASE r # NoRoot
  <2>1. instances' = Append(old, new) /\ live' = started.live
    BY <1>1, <1>9
  <2>2. /\ started.failed \in BOOLEAN /\ \A p \in started.live : p \in left \/ p[2] = n + 1
        /\ ~started.failed => \A j \in DOMAIN Batches[1] : <<Batches[1][j], n + 1>> \in started.live
    BY <1>2, StartedRuns DEF started
  <2>3. new \in InstanceRecords
    BY <1>2, <1>9, <2>2 DEF InstanceRecords
  <2>4. /\ instances' \in Seq(InstanceRecords) /\ Len(instances') = n + 1
        /\ DOMAIN instances' = 1 .. n + 1 /\ instances'[n + 1] = new
        /\ \A k \in 1 .. n : instances'[k] = old[k]
    BY <1>2, <1>5, <2>1, <2>3
  <2> HIDE DEF new
  <2>5. FeaturesTypes'
    <3>1. \A p \in live' : p[2] \in DOMAIN instances'
      <4>1. n + 1 \in 1 .. n + 1 /\ \A k \in 1 .. n : k \in 1 .. n + 1
        BY <1>2
      <4>2. QED
        BY <1>2, <1>6, <2>1, <2>2, <2>4, <4>1
    <3>2. QED
      BY <2>4, <3>1
  <2>6. OthersAreDisposed'
    BY <1>2, <1>4, <2>4 DEF OthersAreDisposed
  <2>7. EarlyGoesOn'
    <3>1. ASSUME NEW k \in 1 .. n
          PROVE  /\ ~instances'[k].early => ~(instances'[k].batch <= Len(Batches))
                 /\ instances'[k].failed => ~(instances'[k].batch <= Len(Batches))
      <4>1. k \in DOMAIN instances /\ instances'[k] = old[k]
        BY <1>2, <2>4
      <4>2. old[k].batch \in Nat
        BY <1>4, <4>1 DEF InstanceRecords
      <4>3. QED
        BY <1>2, <1>7, <4>1, <4>2
    <3>2. new.failed => ~(new.batch <= Len(Batches))
      BY <1>2, <2>2 DEF new
    <3>3. ~new.disposed
      BY DEF new
    <3>4. \A k \in DOMAIN instances' : k \in 1 .. n \/ k = n + 1
      BY <1>2, <2>4
    <3>5. QED
      BY <2>4, <3>1, <3>2, <3>3, <3>4 DEF EarlyGoesOn, Features!Activating
  <2>8. LeftIsUndisposed'
    <3>1. ~new.disposed
      BY DEF new
    <3>2. QED
      BY <1>2, <1>6, <2>1, <2>2, <2>4, <3>1 DEF LeftIsUndisposed
  <2>9. PassedRun'
    <3>1. ASSUME ~new.failed
          PROVE  new.batch = 2 /\ ~started.failed
      BY <3>1 DEF new
    <3>2. ASSUME NEW k \in DOMAIN instances', ~instances'[k].disposed, ~instances'[k].failed,
                 NEW i \in 1 .. instances'[k].batch - 1, NEW j \in DOMAIN Batches[i]
          PROVE  <<Batches[i][j], k>> \in live'
      <4>1. k = n + 1
        <5>1. k \in 1 .. n \/ k = n + 1
          BY <1>2, <2>4, <3>2
        <5>2. ~(k \in 1 .. n)
          BY <1>2, <1>4, <2>4, <3>2
        <5>3. QED
          BY <5>1, <5>2
      <4>2. instances'[k] = new
        BY <2>4, <4>1
      <4>3. i = 1
        BY <3>1, <3>2, <4>2
      <4>4. QED
        BY <2>1, <2>2, <3>1, <3>2, <4>1, <4>2, <4>3
    <3>3. QED
      BY <3>2 DEF PassedRun, Runs
  <2>10. QED
    BY <2>5, <2>6, <2>7, <2>8, <2>9
<1>10. QED
  BY <1>8, <1>9

\* An `await` of an activation returns.
LEMMA ActivateStep ==
  ASSUME FeaturesIInv, NEW k \in Nat, NEW skipped,
         skipped \subseteq Optional, Features!Activate(k, skipped)
  PROVE  FeaturesIInv'
<1> USE DEF FeaturesIInv, FeaturesTypes
<1> DEFINE n == Len(instances)
           started == Features!Started(k, Batches[instances[k].batch], skipped, live)
           new == [instances[k] EXCEPT
                     !.batch = IF started.failed THEN Len(Batches) + 1 ELSE instances[k].batch + 1,
                     !.failed = started.failed]
<1>1. k \in DOMAIN instances /\ Features!Activating(k) /\ live' = started.live
  BY DEF Features!Activate
<1>2. /\ n \in Nat /\ DOMAIN instances = 1 .. n /\ k \in 1 .. n
      /\ Len(Batches) \in Nat /\ Len(Batches) >= 1
  BY <1>1, FeaturesAssumption
<1>3. instances[k] \in InstanceRecords /\ instances[k].batch \in 1 .. Len(Batches)
  <2>1. instances[k] \in InstanceRecords
    BY <1>1
  <2>2. QED
    BY <1>1, <1>2, <2>1 DEF InstanceRecords, Features!Activating
<1>4. Batches[instances[k].batch] \in Seq(STRING)
  BY <1>3, FeaturesAssumption
<1>5. /\ started.failed \in BOOLEAN /\ live \subseteq started.live
      /\ \A p \in started.live : p \in live \/ p[2] = k
      /\ ~started.failed =>
           \A j \in DOMAIN Batches[instances[k].batch] :
             Batches[instances[k].batch][j] \notin skipped =>
               <<Batches[instances[k].batch][j], k>> \in started.live
  <2> DEFINE batch == Batches[instances[k].batch]
  <2>1. batch \in Seq(STRING)
    BY <1>4
  <2> HIDE DEF batch
  <2>2. LET begun == Features!Started(k, batch, skipped, live) IN
        /\ begun.failed \in BOOLEAN /\ live \subseteq begun.live
        /\ \A p \in begun.live : p \in live \/ p[2] = k
        /\ ~begun.failed =>
             \A j \in DOMAIN batch : batch[j] \notin skipped => <<batch[j], k>> \in begun.live
    BY <2>1, StartedRuns
  <2>3. QED
    BY <2>2 DEF batch
<1>6. instances' = [instances EXCEPT ![k] = new]
  BY <1>3 DEF Features!Activate
<1> HIDE DEF started
<1>7. new \in InstanceRecords /\ new.disposed = instances[k].disposed /\ new.early = instances[k].early
      /\ new.failed = started.failed
      /\ new.batch = IF started.failed THEN Len(Batches) + 1 ELSE instances[k].batch + 1
  <2> DEFINE b == IF started.failed THEN Len(Batches) + 1 ELSE instances[k].batch + 1
  <2>1. b \in 1 .. Len(Batches) + 1
    BY <1>2, <1>3
  <2> HIDE DEF b
  <2>2. LET m == [instances[k] EXCEPT !.batch = b, !.failed = started.failed] IN
        /\ m \in InstanceRecords /\ m.batch = b /\ m.failed = started.failed
        /\ m.disposed = instances[k].disposed /\ m.early = instances[k].early
    <3> DEFINE f == started.failed
               r == instances[k]
    <3>1. f \in BOOLEAN /\ r \in InstanceRecords
      BY <1>3, <1>5
    <3> HIDE DEF f, r, new
    <3>2. LET m == [r EXCEPT !.batch = b, !.failed = f] IN
          /\ m \in InstanceRecords /\ m.batch = b /\ m.failed = f
          /\ m.disposed = r.disposed /\ m.early = r.early
      BY <2>1, <3>1 DEF InstanceRecords
    <3>3. QED
      BY <3>2 DEF f, r
  <2>3. QED
    BY <2>2 DEF b
<1> HIDE DEF new
<1>8. /\ instances' \in Seq(InstanceRecords) /\ Len(instances') = n /\ DOMAIN instances' = 1 .. n
      /\ instances'[k] = new /\ \A i \in 1 .. n : i # k => instances'[i] = instances[i]
  BY <1>2, <1>6, <1>7
<1>9. ~instances[k].disposed \/ instances[k].early
  BY <1>1 DEF EarlyGoesOn
<1>10. ~instances[k].failed
  BY <1>1 DEF EarlyGoesOn
<1>11. FeaturesTypes'
  BY <1>1, <1>2, <1>5, <1>8
<1>12. OthersAreDisposed'
  BY <1>2, <1>7, <1>8 DEF OthersAreDisposed
<1>13. EarlyGoesOn'
  <2>1. ASSUME NEW i \in 1 .. n
        PROVE  /\ instances'[i].disposed /\ ~instances'[i].early =>
                    ~(instances'[i].batch <= Len(Batches))
               /\ instances'[i].failed => ~(instances'[i].batch <= Len(Batches))
    <3>1. CASE i = k
      BY <1>2, <1>3, <1>7, <1>8, <1>9, <3>1
    <3>2. CASE i # k
      BY <1>2, <1>8, <3>2 DEF EarlyGoesOn, Features!Activating
    <3>3. QED
      BY <3>1, <3>2
  <2>2. QED
    BY <1>8, <2>1 DEF EarlyGoesOn, Features!Activating
<1>14. LeftIsUndisposed'
  <2>1. ASSUME NEW p \in live'
        PROVE  instances'[p[2]].disposed /\ ~instances'[p[2]].early => p[1] \in Undisposed
    <3>1. CASE p[2] = k
      BY <1>7, <1>8, <1>9, <3>1
    <3>2. CASE p[2] # k
      BY <1>1, <1>2, <1>5, <1>8, <3>2 DEF LeftIsUndisposed
    <3>3. QED
      BY <3>1, <3>2
  <2>2. QED
    BY <2>1 DEF LeftIsUndisposed
<1>15. PassedRun'
  <2>1. ASSUME NEW i \in 1 .. n, ~instances'[i].disposed, ~instances'[i].failed,
               NEW b \in 1 .. instances'[i].batch - 1, NEW j \in DOMAIN Batches[b],
               Batches[b][j] \notin Optional
        PROVE  Runs(i, Batches[b][j])'
    <3>1. CASE i # k
      BY <1>1, <1>2, <1>5, <1>8, <2>1, <3>1 DEF PassedRun, Runs
    <3>2. CASE i = k /\ b # instances[k].batch
      <4>1. b \in 1 .. instances[k].batch - 1
        BY <1>3, <1>7, <1>8, <2>1, <3>2
      <4>2. Runs(k, Batches[b][j])
        BY <1>2, <1>7, <1>8, <1>10, <2>1, <3>2, <4>1 DEF PassedRun
      <4>3. QED
        BY <1>1, <1>5, <3>2, <4>2 DEF Runs
    <3>3. CASE i = k /\ b = instances[k].batch
      BY <1>1, <1>5, <1>7, <1>8, <2>1, <3>3 DEF Runs
    <3>4. QED
      BY <3>1, <3>2, <3>3
  <2>2. QED
    BY <1>8, <2>1 DEF PassedRun
<1>16. QED
  BY <1>11, <1>12, <1>13, <1>14, <1>15

\* What an activation awaits is rejected.
LEMMA ActivateFailsStep ==
  ASSUME FeaturesIInv, NEW k \in Nat, Features!ActivateFails(k)
  PROVE  FeaturesIInv'
<1> USE DEF FeaturesIInv, FeaturesTypes
<1> DEFINE n == Len(instances)
           new == [instances[k] EXCEPT !.batch = Len(Batches) + 1, !.failed = TRUE]
<1>1. k \in DOMAIN instances /\ Features!Activating(k) /\ live' = live
  BY DEF Features!ActivateFails
<1>2. /\ n \in Nat /\ DOMAIN instances = 1 .. n /\ k \in 1 .. n
      /\ Len(Batches) \in Nat /\ Len(Batches) >= 1
  BY <1>1, FeaturesAssumption
<1>3. instances[k] \in InstanceRecords
  BY <1>1
<1>4. instances' = [instances EXCEPT ![k] = new]
  BY <1>3 DEF Features!ActivateFails
<1>5. new \in InstanceRecords /\ new.disposed = instances[k].disposed /\ new.early = instances[k].early
      /\ new.failed /\ new.batch = Len(Batches) + 1
  <2>1. Len(Batches) + 1 \in 1 .. Len(Batches) + 1
    BY <1>2
  <2>2. QED
    BY <1>3, <2>1, InstanceFields
<1> HIDE DEF new
<1>6. /\ instances' \in Seq(InstanceRecords) /\ Len(instances') = n /\ DOMAIN instances' = 1 .. n
      /\ instances'[k] = new /\ \A i \in 1 .. n : i # k => instances'[i] = instances[i]
  BY <1>2, <1>4, <1>5
<1>7. FeaturesTypes'
  BY <1>1, <1>2, <1>6
<1>8. OthersAreDisposed'
  BY <1>2, <1>5, <1>6 DEF OthersAreDisposed
<1>9. EarlyGoesOn'
  BY <1>2, <1>5, <1>6 DEF EarlyGoesOn, Features!Activating
<1>10. LeftIsUndisposed'
  BY <1>1, <1>2, <1>5, <1>6 DEF LeftIsUndisposed
<1>11. PassedRun'
  <2>1. ASSUME NEW i \in 1 .. n, ~instances'[i].disposed, ~instances'[i].failed
        PROVE  instances'[i] = instances[i]
    BY <1>5, <1>6, <2>1
  <2>2. QED
    BY <1>1, <1>2, <1>6, <2>1 DEF PassedRun, Runs
<1>12. QED
  BY <1>7, <1>8, <1>9, <1>10, <1>11

\* Each step keeps the invariant.
LEMMA FeaturesStep ==
  ASSUME FeaturesIInv, [Features!Next]_featuresVars
  PROVE  FeaturesIInv'
<1>1. ASSUME NEW k \in 1 .. MaxEvents
      PROVE  k \in Nat
  OBVIOUS
<1>2. CASE Features!Next
  BY <1>1, <1>2, ChangeRootStep, ActivateStep, ActivateFailsStep DEF Features!Next
<1>3. CASE UNCHANGED featuresVars
  BY <1>3 DEF featuresVars, FeaturesIInv, FeaturesTypes, OthersAreDisposed,
              EarlyGoesOn, Features!Activating, LeftIsUndisposed, PassedRun,
              Runs
<1>4. QED
  BY <1>2, <1>3
-----------------------------------------------------------------------------
(* EbuildCompdb *)

Stops == {"idle", "removing", "ebuild", "compile", "looking", "copying", "checking", "done",
          "failed"}
Errors == {"none", "RemoveCache", "RunEbuild", "NotGenerated", "CopyFailed"}
CallRecords ==
  [at : Stops,
   pass : {1, 2}, found : Compdb!Places \cup {Compdb!NoPlace},
   error : Errors,
   overtaken : BOOLEAN]
Times == {Compdb!Never} \cup 10 .. Compdb!LastTime
CompdbTypes ==
  /\ makes \in BOOLEAN /\ generated \in BOOLEAN
  /\ now \in 10 .. Compdb!LastTime
  /\ written \in [Compdb!Places -> Times]
  /\ \A p \in Compdb!Places : written[p] <= now
  /\ waiting \in Seq(Calls)
  /\ call \in [Calls -> CallRecords]

\* The mutex is held from the run of ebuild to the search.
HoldersRun ==
  \A c \in Calls : call[c].at \in {"ebuild", "compile", "looking"} => Compdb!Holds(c)

\* What was found stays the newest until another run begins.
FoundIsNewest ==
  \A c \in Calls :
    call[c].at = "copying" /\ ~call[c].overtaken =>
      /\ call[c].found \in Compdb!Places /\ written[call[c].found] # Compdb!Never
      /\ \A p \in Compdb!Places : written[p] <= written[call[c].found]
      /\ \A d \in Calls : call[d].at # "compile"

\* A call that throws ends; a copy fails for a call that was overtaken.
ErrorsFail ==
  \A c \in Calls :
    /\ call[c].error # "none" => call[c].at = "failed"
    /\ call[c].error = "CopyFailed" => call[c].overtaken

\* Calls that took the files for made, and calls that make them or have failed.
RelyOnFiles(c) ==
  \/ call[c].at = "done"
  \/ call[c].pass = 2 /\ call[c].at \in {"looking", "copying"}
MakesFiles(d) ==
  \/ call[d].at \in {"failed", "compile"}
  \/ call[d].pass = 1 /\ call[d].at \in {"looking", "copying", "checking"}
  \/ call[d].pass = 2 /\ call[d].at \in {"removing", "ebuild"}
\* If the files are not there although a call relies on them, a call is on its
\* way to make them.
FilesAreMade ==
  makes /\ ~generated /\ (\E c \in Calls : RelyOnFiles(c)) => \E d \in Calls : MakesFiles(d)

FirstPass == \A c \in Calls : call[c].at = "idle" => call[c].pass = 1

CompdbIInv ==
  CompdbTypes /\ HoldersRun /\ FoundIsNewest /\ ErrorsFail /\ FilesAreMade /\ FirstPass

\* Changes of a call that keep it one.
LEMMA CallFields ==
  ASSUME NEW r \in CallRecords
  PROVE  /\ \A at \in Stops : [r EXCEPT !.at = at] \in CallRecords
         /\ \A error \in Errors : [r EXCEPT !.at = "failed", !.error = error] \in CallRecords
         /\ \A p \in Compdb!Places : [r EXCEPT !.at = "copying", !.found = p] \in CallRecords
         /\ [r EXCEPT !.at = "removing", !.pass = 2, !.found = Compdb!NoPlace, !.overtaken = FALSE]
              \in CallRecords
         /\ \A new : [r EXCEPT !.overtaken = r.overtaken \/ new] \in CallRecords
BY DEF CallRecords, Stops, Errors

\* The other calls stay as they are, and what becomes of a call.
Alone(c) == \A d \in Calls : d # c => call'[d] = call[d]

\* What Goto, Throws, Look, Check and Clean make of the calls.
LEMMA GotoFields ==
  ASSUME CompdbTypes, NEW c \in Calls, NEW at \in Stops, Compdb!Goto(c, at)
  PROVE  /\ call' \in [Calls -> CallRecords] /\ Alone(c)
         /\ call'[c].at = at /\ call'[c].pass = call[c].pass /\ call'[c].found = call[c].found
         /\ call'[c].error = call[c].error /\ call'[c].overtaken = call[c].overtaken
<1>1. call[c] \in CallRecords /\ call'[c] = [call[c] EXCEPT !.at = at] /\ Alone(c)
  BY DEF CompdbTypes, Compdb!Goto, Alone
<1>2. call' \in [Calls -> CallRecords]
  BY <1>1, CallFields DEF CompdbTypes, Compdb!Goto
<1>3. QED
  BY <1>1, <1>2 DEF CallRecords

LEMMA ThrowsFields ==
  ASSUME CompdbTypes, NEW c \in Calls, NEW kind \in Errors, Compdb!Throws(c, kind)
  PROVE  /\ call' \in [Calls -> CallRecords] /\ Alone(c)
         /\ call'[c].at = "failed" /\ call'[c].pass = call[c].pass
         /\ call'[c].error = kind /\ call'[c].overtaken = call[c].overtaken
<1>1. /\ call[c] \in CallRecords /\ Alone(c)
      /\ call' = [call EXCEPT ![c] = [call[c] EXCEPT !.at = "failed", !.error = kind]]
  BY DEF CompdbTypes, Compdb!Throws, Alone
<1>2. [call[c] EXCEPT !.at = "failed", !.error = kind] \in CallRecords
  BY <1>1, CallFields
<1>3. QED
  BY <1>1, <1>2 DEF CallRecords, CompdbTypes

LEMMA LookFields ==
  ASSUME CompdbTypes, NEW c \in Calls, Compdb!Look(c)
  PROVE  /\ call' \in [Calls -> CallRecords] /\ Alone(c)
         /\ call'[c].pass = call[c].pass /\ call'[c].overtaken = call[c].overtaken
         /\ \/ call'[c].at = "failed" /\ call'[c].error = "NotGenerated"
            \/ /\ call'[c].at = "copying" /\ call'[c].error = call[c].error
               /\ call'[c].found \in Compdb!Places
               /\ written[call'[c].found] # Compdb!Never
               /\ \A q \in Compdb!Places : written[q] # Compdb!Never =>
                    ~Compdb!SortsBefore(written[call'[c].found], written[q])
<1>1. CASE Compdb!Throws(c, "NotGenerated")
  BY <1>1, ThrowsFields DEF Errors
<1>2. ASSUME NEW p \in Compdb!Places, written[p] # Compdb!Never,
             \A q \in Compdb!Places : written[q] # Compdb!Never =>
               ~Compdb!SortsBefore(written[p], written[q]),
             call' = [call EXCEPT ![c].at = "copying", ![c].found = p]
      PROVE  /\ call' \in [Calls -> CallRecords] /\ Alone(c)
             /\ call'[c].at = "copying" /\ call'[c].pass = call[c].pass /\ call'[c].found = p
             /\ call'[c].error = call[c].error /\ call'[c].overtaken = call[c].overtaken
  <2>1. /\ call[c] \in CallRecords /\ Alone(c)
        /\ call' = [call EXCEPT ![c] = [call[c] EXCEPT !.at = "copying", !.found = p]]
    BY <1>2 DEF CompdbTypes, Alone
  <2>2. [call[c] EXCEPT !.at = "copying", !.found = p] \in CallRecords
    BY <2>1, CallFields
  <2>3. QED
    BY <2>1, <2>2 DEF CallRecords, CompdbTypes
<1>3. \/ Compdb!Throws(c, "NotGenerated")
      \/ \E p \in Compdb!Places :
           /\ written[p] # Compdb!Never
           /\ \A q \in Compdb!Places : written[q] # Compdb!Never =>
                ~Compdb!SortsBefore(written[p], written[q])
           /\ call' = [call EXCEPT ![c].at = "copying", ![c].found = p]
  BY DEF Compdb!Look, Compdb!LastSorted
<1>4. QED
  BY <1>1, <1>2, <1>3

LEMMA CheckFields ==
  ASSUME CompdbTypes, NEW c \in Calls, Compdb!Check(c)
  PROVE  /\ call' \in [Calls -> CallRecords] /\ Alone(c)
         /\ call'[c].error = call[c].error
         /\ \/ generated /\ call'[c].at = "done" /\ call'[c].overtaken = call[c].overtaken
               /\ waiting' = waiting
            \/ ~generated /\ call'[c].at = "removing" /\ call'[c].pass = 2
               /\ waiting' = Append(waiting, c)
<1>1. CASE generated
  BY <1>1, GotoFields DEF Compdb!Check, Stops
<1>2. CASE ~generated
  <2>1. /\ call[c] \in CallRecords /\ Alone(c)
        /\ call' = [call EXCEPT ![c] =
             [call[c] EXCEPT !.at = "removing", !.pass = 2, !.found = Compdb!NoPlace,
                             !.overtaken = FALSE]]
    BY <1>2 DEF CompdbTypes, Alone, Compdb!Check
  <2>2. [call[c] EXCEPT !.at = "removing", !.pass = 2, !.found = Compdb!NoPlace,
                        !.overtaken = FALSE] \in CallRecords
    BY <2>1, CallFields
  <2>3. waiting' = Append(waiting, c)
    BY <1>2 DEF Compdb!Check
  <2>4. QED
    BY <1>2, <2>1, <2>2, <2>3 DEF CallRecords, CompdbTypes
<1>3. QED
  BY <1>1, <1>2

LEMMA CleanFields ==
  ASSUME CompdbTypes, NEW c \in Calls, Compdb!Clean(c)
  PROVE  /\ call' \in [Calls -> CallRecords]
         /\ call'[c].at = "compile" /\ call'[c].pass = call[c].pass
         /\ call'[c].error = call[c].error /\ call'[c].overtaken = call[c].overtaken
         /\ \A d \in Calls : d # c =>
              /\ call'[d].at = call[d].at /\ call'[d].pass = call[d].pass
              /\ call'[d].found = call[d].found /\ call'[d].error = call[d].error
              /\ (call'[d].overtaken <=> call[d].overtaken \/ call[d].at = "copying")
<1>1. /\ \A d \in Calls : call[d] \in CallRecords
      /\ call' = [d \in Calls |-> call'[d]]
      /\ call'[c] = [call[c] EXCEPT !.at = "compile"]
      /\ \A d \in Calls : d # c =>
           call'[d] = [call[d] EXCEPT !.overtaken = call[d].overtaken \/ call[d].at = "copying"]
  BY DEF CompdbTypes, Compdb!Clean
<1>2. \A d \in Calls : call'[d] \in CallRecords
  <2>1. \A r \in CallRecords :
          /\ [r EXCEPT !.at = "compile"] \in CallRecords
          /\ [r EXCEPT !.overtaken = r.overtaken \/ r.at = "copying"] \in CallRecords
    BY DEF CallRecords, Stops
  <2>2. ASSUME NEW d \in Calls
        PROVE  call'[d] \in CallRecords
    <3>1. CASE d = c
      <4>1. call[c] \in CallRecords
        BY <1>1
      <4>2. [call[c] EXCEPT !.at = "compile"] \in CallRecords
        BY <2>1, <4>1
      <4>3. QED
        BY <1>1, <3>1, <4>2
    <3>2. CASE d # c
      <4>1. call[d] \in CallRecords
        BY <1>1
      <4>2. [call[d] EXCEPT !.overtaken = call[d].overtaken \/ call[d].at = "copying"] \in CallRecords
        BY <2>1, <4>1
      <4>3. QED
        BY <1>1, <3>2, <4>2
    <3>3. QED
      BY <3>1, <3>2
  <2>3. QED
    BY <2>2
<1>3. QED
  BY <1>1, <1>2 DEF CallRecords

\* The digits of a time.
LEMMA DigitsOf == ASSUME NEW t \in 10 .. Compdb!LastTime
                  PROVE \E a, b \in 0 .. 9 : t = 10 * a + b /\ Compdb!Digits(t) = <<a, b>>
<1>1. t % 10 = t - 10 * (t \div 10) /\ t % 10 \in 0 .. 9 /\ t \div 10 \in 0 .. 9
  BY SMT DEF Compdb!LastTime
<1> DEFINE a == t \div 10  b == t % 10
<1>2. Compdb!Digits(t) = <<a, b>>
  BY DEF Compdb!Digits, Compdb!LastTime
<1> HIDE DEF a, b
<1>3. b = t - 10 * a /\ b \in 0 .. 9 /\ a \in 0 .. 9
  BY <1>1 DEF a, b
<1>4. t = 10 * a + b
  BY <1>3 DEF Compdb!LastTime
<1>5. QED
  BY <1>2, <1>3, <1>4
\* Times of as many digits compare as their digits do.
LEMMA SortsAsTimes ==
  \A s, t \in 10 .. Compdb!LastTime : Compdb!SortsBefore(s, t) <=> s < t
<1> TAKE s, t \in 10 .. Compdb!LastTime
<1>1. PICK a, b \in 0 .. 9 : s = 10 * a + b /\ Compdb!Digits(s) = <<a, b>>
  BY DigitsOf
<1>2. PICK c, d \in 0 .. 9 : t = 10 * c + d /\ Compdb!Digits(t) = <<c, d>>
  BY DigitsOf
<1>3. s < t <=> a < c \/ (a = c /\ b < d)
  BY <1>1, <1>2
<1>4. Compdb!SortsBefore(s, t) <=> a < c \/ (a = c /\ b < d)
  BY <1>1, <1>2 DEF Compdb!SortsBefore
<1>5. QED
  BY <1>3, <1>4

\* Times are numbers.
LEMMA TimesAreNumbers == \A t \in Times : t \in Nat
<1> TAKE t \in Times
<1>1. CASE t = 0
  BY <1>1
<1>2. CASE t \in 10 .. Compdb!LastTime
  BY <1>2
<1>3. QED
  BY <1>1, <1>2 DEF Times, Compdb!Never

\* What does not sort before is as late.
LEMMA NotBefore ==
  \A s, t \in 10 .. Compdb!LastTime : ~Compdb!SortsBefore(s, t) => t <= s
<1> TAKE s, t \in 10 .. Compdb!LastTime
<1>1. Compdb!SortsBefore(s, t) <=> s < t
  BY SortsAsTimes
<1>2. QED
  BY <1>1 DEF Compdb!LastTime

\* Who holds the mutex is alone between the run and the search.
LEMMA HoldersTail ==
  ASSUME CompdbIInv, NEW c \in Calls, call[c].at \in {"ebuild", "compile", "looking"}
  PROVE  /\ Compdb!Holds(c) /\ Tail(waiting) \in Seq(Calls)
         /\ \A d \in Calls : call[d].at \in {"ebuild", "compile", "looking"} => d = c
<1>1. Compdb!Holds(c) /\ waiting \in Seq(Calls)
  BY DEF CompdbIInv, HoldersRun, CompdbTypes
<1>2. Tail(waiting) \in Seq(Calls)
  BY <1>1 DEF Compdb!Holds
<1>3. QED
  BY <1>1, <1>2 DEF Compdb!Holds, CompdbIInv, HoldersRun

\* The invariant holds at the start.
LEMMA CompdbInit == Compdb!Init => CompdbIInv
<1> SUFFICES ASSUME Compdb!Init PROVE CompdbIInv
  OBVIOUS
<1> DEFINE r == [at |-> "idle", pass |-> 1, found |-> Compdb!NoPlace, error |-> "none",
                 overtaken |-> FALSE]
<1>1. r \in CallRecords
  BY DEF CallRecords, Stops, Errors
<1>2. call = [c \in Calls |-> r]
  BY DEF Compdb!Init
<1>3. CompdbTypes
  <2>1. written \in [Compdb!Places -> {Compdb!Never, FirstTime}]
    BY DEF Compdb!Init
  <2>2. \A p \in Compdb!Places : written[p] \in Times /\ written[p] <= now
    BY <2>1, CompdbAssumption DEF Compdb!Init, Compdb!Never, Times
  <2>3. written \in [Compdb!Places -> Times]
    BY <2>1, <2>2
  <2>4. now \in 10 .. Compdb!LastTime
    BY CompdbAssumption DEF Compdb!Init
  <2>5. generated \in BOOLEAN /\ waiting \in Seq(Calls)
    <3>1. generated = FALSE /\ waiting = <<>>
      BY DEF Compdb!Init
    <3>2. generated \in BOOLEAN
      BY <3>1
    <3>3. waiting \in Seq(Calls)
      BY <3>1
    <3>4. QED
      BY <3>2, <3>3
  <2>8. makes \in BOOLEAN
    BY DEF Compdb!Init
  <2>6. call \in [Calls -> CallRecords]
    BY <1>1, <1>2
  <2>7. QED
    BY <2>2, <2>3, <2>4, <2>5, <2>6, <2>8 DEF CompdbTypes
<1>4. \A c \in Calls : call[c].at = "idle" /\ call[c].pass = 1 /\ call[c].error = "none"
  BY <1>2
<1>5. QED
  BY <1>3, <1>4 DEF CompdbIInv, HoldersRun, FoundIsNewest, ErrorsFail,
                    FilesAreMade, RelyOnFiles, MakesFiles, FirstPass

\* Each step keeps the calls, the mutex's queue and the times in their types ...
LEMMA CallsStep ==
  ASSUME CompdbIInv, Compdb!Next
  PROVE  call' \in [Calls -> CallRecords]
<1> USE DEF CompdbIInv, Stops, Errors
<1>1. ASSUME NEW c \in Calls, Compdb!Generate(c)
      PROVE  call' \in [Calls -> CallRecords]
  BY <1>1, GotoFields DEF Compdb!Generate
<1>2. ASSUME NEW c \in Calls, NEW failing, Compdb!RemoveCache(c, failing)
      PROVE  call' \in [Calls -> CallRecords]
  BY <1>2, GotoFields, ThrowsFields DEF Compdb!RemoveCache
<1>3. ASSUME NEW c \in Calls, Compdb!Clean(c)
      PROVE  call' \in [Calls -> CallRecords]
  BY <1>3, CleanFields DEF Compdb!Clean
<1>4. ASSUME NEW c \in Calls, NEW p \in Compdb!Places, Compdb!Compile(c, p)
      PROVE  call' \in [Calls -> CallRecords]
  BY <1>4, GotoFields DEF Compdb!Compile
<1>5. ASSUME NEW c \in Calls, Compdb!RunFails(c)
      PROVE  call' \in [Calls -> CallRecords]
  BY <1>5, ThrowsFields DEF Compdb!RunFails
<1>6. ASSUME NEW c \in Calls, Compdb!CompilesNothing(c)
      PROVE  call' \in [Calls -> CallRecords]
  BY <1>6, GotoFields DEF Compdb!CompilesNothing
<1>7. ASSUME NEW c \in Calls, Compdb!Look(c)
      PROVE  call' \in [Calls -> CallRecords]
  BY <1>7, LookFields DEF Compdb!Look
<1>8. ASSUME NEW c \in Calls, Compdb!Copy(c)
      PROVE  call' \in [Calls -> CallRecords]
  BY <1>8, GotoFields, ThrowsFields DEF Compdb!Copy
<1>9. ASSUME NEW c \in Calls, Compdb!Check(c)
      PROVE  call' \in [Calls -> CallRecords]
  BY <1>9, CheckFields DEF Compdb!Check
<1>10. QED
  BY <1>1, <1>2, <1>3, <1>4, <1>5, <1>6, <1>7, <1>8, <1>9 DEF Compdb!Next

LEMMA WaitingStep ==
  ASSUME CompdbIInv, Compdb!Next
  PROVE  (makes \in BOOLEAN /\ generated \in BOOLEAN /\ waiting \in Seq(Calls))'
<1> USE DEF CompdbIInv, CompdbTypes
<1>1. ASSUME NEW c \in Calls, Compdb!Generate(c)
      PROVE  (makes \in BOOLEAN /\ generated \in BOOLEAN /\ waiting \in Seq(Calls))'
  BY <1>1, GotoFields DEF Compdb!Generate
<1>2. ASSUME NEW c \in Calls, NEW failing, Compdb!RemoveCache(c, failing)
      PROVE  (makes \in BOOLEAN /\ generated \in BOOLEAN /\ waiting \in Seq(Calls))'
  <2>1. waiting # <<>>
    BY <1>2 DEF Compdb!RemoveCache, Compdb!Holds
  <2>2. Tail(waiting) \in Seq(Calls)
    BY <2>1
  <2>3. waiting' \in {waiting, Tail(waiting)} /\ UNCHANGED <<makes, generated>>
    BY <1>2 DEF Compdb!RemoveCache
  <2>4. QED
    BY <2>2, <2>3
<1>3. ASSUME NEW c \in Calls, Compdb!Clean(c)
      PROVE  (makes \in BOOLEAN /\ generated \in BOOLEAN /\ waiting \in Seq(Calls))'
  BY <1>3, CleanFields DEF Compdb!Clean
<1>4. ASSUME NEW c \in Calls, NEW p \in Compdb!Places, Compdb!Compile(c, p)
      PROVE  (makes \in BOOLEAN /\ generated \in BOOLEAN /\ waiting \in Seq(Calls))'
  BY <1>4, GotoFields DEF Compdb!Compile
<1>5. ASSUME NEW c \in Calls, Compdb!RunFails(c)
      PROVE  (makes \in BOOLEAN /\ generated \in BOOLEAN /\ waiting \in Seq(Calls))'
  BY <1>5, HoldersTail DEF Compdb!RunFails, CompdbIInv
<1>6. ASSUME NEW c \in Calls, Compdb!CompilesNothing(c)
      PROVE  (makes \in BOOLEAN /\ generated \in BOOLEAN /\ waiting \in Seq(Calls))'
  BY <1>6, GotoFields DEF Compdb!CompilesNothing
<1>7. ASSUME NEW c \in Calls, Compdb!Look(c)
      PROVE  (makes \in BOOLEAN /\ generated \in BOOLEAN /\ waiting \in Seq(Calls))'
  BY <1>7, HoldersTail DEF Compdb!Look, CompdbIInv
<1>8. ASSUME NEW c \in Calls, Compdb!Copy(c)
      PROVE  (makes \in BOOLEAN /\ generated \in BOOLEAN /\ waiting \in Seq(Calls))'
  BY <1>8, GotoFields, ThrowsFields DEF Compdb!Copy
<1>9. ASSUME NEW c \in Calls, Compdb!Check(c)
      PROVE  (makes \in BOOLEAN /\ generated \in BOOLEAN /\ waiting \in Seq(Calls))'
  <2>1. waiting' \in {waiting, Append(waiting, c)}
    BY <1>9, CheckFields
  <2>2. QED
    BY <1>9, <2>1 DEF Compdb!Check
<1>10. QED
  BY <1>1, <1>2, <1>3, <1>4, <1>5, <1>6, <1>7, <1>8, <1>9 DEF Compdb!Next

LEMMA TimesStep ==
  ASSUME CompdbIInv, Compdb!Next
  PROVE  (/\ now \in 10 .. Compdb!LastTime /\ written \in [Compdb!Places -> Times]
           /\ \A q \in Compdb!Places : written[q] <= now)'
<1> USE DEF CompdbIInv, CompdbTypes, Times, Compdb!Never, Compdb!LastTime
<1>1. ASSUME NEW c \in Calls, Compdb!Generate(c)
      PROVE  (/\ now \in 10 .. Compdb!LastTime /\ written \in [Compdb!Places -> Times]
           /\ \A q \in Compdb!Places : written[q] <= now)'
  BY <1>1, GotoFields DEF Compdb!Generate
<1>2. ASSUME NEW c \in Calls, NEW failing, Compdb!RemoveCache(c, failing)
      PROVE  (/\ now \in 10 .. Compdb!LastTime /\ written \in [Compdb!Places -> Times]
           /\ \A q \in Compdb!Places : written[q] <= now)'
  BY <1>2, GotoFields, ThrowsFields DEF Compdb!RemoveCache
<1>3. ASSUME NEW c \in Calls, Compdb!Clean(c)
      PROVE  (/\ now \in 10 .. Compdb!LastTime /\ written \in [Compdb!Places -> Times]
           /\ \A q \in Compdb!Places : written[q] <= now)'
  <2>1. now' = now
    BY <1>3 DEF Compdb!Clean
  <2>2. written' \in [Compdb!Places -> Times]
    BY <1>3 DEF Compdb!Clean
  <2>3. ASSUME NEW q \in Compdb!Places
        PROVE  written'[q] <= now
    <3>1. written'[q] = written[q] \/ written'[q] = 0
      BY <1>3 DEF Compdb!Clean
    <3>2. written[q] <= now /\ now \in Int /\ 0 <= now
      OBVIOUS
    <3>3. QED
      BY <3>1, <3>2
  <2>4. QED
    BY <2>1, <2>2, <2>3
<1>4. ASSUME NEW c \in Calls, NEW p \in Compdb!Places, Compdb!Compile(c, p)
      PROVE  (/\ now \in 10 .. Compdb!LastTime /\ written \in [Compdb!Places -> Times]
           /\ \A q \in Compdb!Places : written[q] <= now)'
  <2>1. now' = now + 1 /\ now' \in 10 .. Compdb!LastTime
    BY <1>4 DEF Compdb!Compile
  <2>2. written' = [written EXCEPT ![p] = now']
    BY <1>4 DEF Compdb!Compile
  <2>3. ASSUME NEW q \in Compdb!Places
        PROVE  written'[q] \in Times /\ written'[q] <= now'
    <3>1. CASE q = p
      BY <2>1, <2>2, <3>1
    <3>2. CASE q # p
      <4>1. written'[q] = written[q] /\ written[q] \in Times /\ written[q] <= now
        BY <2>2, <3>2
      <4>2. written[q] \in Nat
        BY <4>1, TimesAreNumbers
      <4>4. now \in Nat
        OBVIOUS
      <4>3. QED
        BY <2>1, <4>1, <4>2, <4>4
    <3>3. QED
      BY <3>1, <3>2
  <2>4. QED
    BY <2>1, <2>2, <2>3
<1>5. ASSUME NEW c \in Calls, Compdb!RunFails(c)
      PROVE  (/\ now \in 10 .. Compdb!LastTime /\ written \in [Compdb!Places -> Times]
           /\ \A q \in Compdb!Places : written[q] <= now)'
  BY <1>5, ThrowsFields DEF Compdb!RunFails
<1>6. ASSUME NEW c \in Calls, Compdb!CompilesNothing(c)
      PROVE  (/\ now \in 10 .. Compdb!LastTime /\ written \in [Compdb!Places -> Times]
           /\ \A q \in Compdb!Places : written[q] <= now)'
  BY <1>6, GotoFields DEF Compdb!CompilesNothing
<1>7. ASSUME NEW c \in Calls, Compdb!Look(c)
      PROVE  (/\ now \in 10 .. Compdb!LastTime /\ written \in [Compdb!Places -> Times]
           /\ \A q \in Compdb!Places : written[q] <= now)'
  BY <1>7, LookFields DEF Compdb!Look
<1>8. ASSUME NEW c \in Calls, Compdb!Copy(c)
      PROVE  (/\ now \in 10 .. Compdb!LastTime /\ written \in [Compdb!Places -> Times]
           /\ \A q \in Compdb!Places : written[q] <= now)'
  BY <1>8, GotoFields, ThrowsFields DEF Compdb!Copy
<1>9. ASSUME NEW c \in Calls, Compdb!Check(c)
      PROVE  (/\ now \in 10 .. Compdb!LastTime /\ written \in [Compdb!Places -> Times]
           /\ \A q \in Compdb!Places : written[q] <= now)'
  BY <1>9, CheckFields DEF Compdb!Check
<1>10. QED
  BY <1>1, <1>2, <1>3, <1>4, <1>5, <1>6, <1>7, <1>8, <1>9 DEF Compdb!Next

\* ... and the other parts of the invariant.
LEMMA HoldersStep ==
  ASSUME CompdbIInv, Compdb!Next
  PROVE  HoldersRun'
<1> USE DEF CompdbIInv, CompdbTypes, HoldersRun, Compdb!Holds, Stops, Errors,
            Alone
<1>1. ASSUME NEW c \in Calls, Compdb!Generate(c)
      PROVE  HoldersRun'
  <2>1. \A d \in Calls : call'[d].at \in {"ebuild", "compile", "looking"} =>
          Compdb!Holds(d) /\ d # c
    BY <1>1, GotoFields DEF Compdb!Generate
  <2>2. CASE waiting = <<>>
    BY <2>1, <2>2
  <2>3. CASE waiting # <<>>
    <3>1. waiting' \in {waiting, Append(waiting, c)}
      BY <1>1, CheckFields DEF Compdb!Generate
    <3>2. waiting \in Seq(Calls) /\ Head(Append(waiting, c)) = Head(waiting) /\ Append(waiting, c) # <<>>
      BY <2>3
    <3>3. QED
      BY <2>1, <2>3, <3>1, <3>2
  <2>4. QED
    BY <2>2, <2>3
<1>2. ASSUME NEW c \in Calls, NEW failing, Compdb!RemoveCache(c, failing)
      PROVE  HoldersRun'
  <2>1. \A d \in Calls : call'[d].at \in {"ebuild", "compile", "looking"} =>
          Compdb!Holds(d)
    BY <1>2, GotoFields, ThrowsFields DEF Compdb!RemoveCache
  <2>2. CASE waiting' = waiting
    BY <2>1, <2>2
  <2>3. CASE Compdb!Throws(c, "RemoveCache")
    BY <1>2, <2>3, ThrowsFields DEF Compdb!RemoveCache
  <2>4. QED
    BY <1>2, <2>2, <2>3 DEF Compdb!RemoveCache
<1>3. ASSUME NEW c \in Calls, Compdb!Clean(c)
      PROVE  HoldersRun'
  BY <1>3, CleanFields DEF Compdb!Clean
<1>4. ASSUME NEW c \in Calls, NEW p \in Compdb!Places, Compdb!Compile(c, p)
      PROVE  HoldersRun'
  BY <1>4, GotoFields DEF Compdb!Compile
<1>5. ASSUME NEW c \in Calls, Compdb!RunFails(c)
      PROVE  HoldersRun'
  BY <1>5, ThrowsFields DEF Compdb!RunFails
<1>6. ASSUME NEW c \in Calls, Compdb!CompilesNothing(c)
      PROVE  HoldersRun'
  BY <1>6, GotoFields DEF Compdb!CompilesNothing
<1>7. ASSUME NEW c \in Calls, Compdb!Look(c)
      PROVE  HoldersRun'
  BY <1>7, LookFields, ZenonT(60) DEF Compdb!Look
<1>8. ASSUME NEW c \in Calls, Compdb!Copy(c)
      PROVE  HoldersRun'
  BY <1>8, GotoFields, ThrowsFields DEF Compdb!Copy
<1>9. ASSUME NEW c \in Calls, Compdb!Check(c)
      PROVE  HoldersRun'
  <2>1. \A d \in Calls : call'[d].at \in {"ebuild", "compile", "looking"} =>
          Compdb!Holds(d) /\ d # c
    BY <1>9, CheckFields DEF Compdb!Check
  <2>2. CASE waiting = <<>>
    BY <2>1, <2>2
  <2>3. CASE waiting # <<>>
    <3>1. waiting' \in {waiting, Append(waiting, c)}
      BY <1>9, CheckFields DEF Compdb!Check
    <3>2. waiting \in Seq(Calls) /\ Head(Append(waiting, c)) = Head(waiting) /\ Append(waiting, c) # <<>>
      BY <2>3
    <3>3. QED
      BY <2>1, <2>3, <3>1, <3>2
  <2>4. QED
    BY <2>2, <2>3
<1>10. QED
  BY <1>1, <1>2, <1>3, <1>4, <1>5, <1>6, <1>7, <1>8, <1>9 DEF Compdb!Next

LEMMA NewestStep ==
  ASSUME CompdbIInv, Compdb!Next
  PROVE  FoundIsNewest'
<1> USE DEF CompdbIInv, FoundIsNewest, Stops, Errors, Alone
<1>1. ASSUME NEW c \in Calls, Compdb!Generate(c)
      PROVE  FoundIsNewest'
  BY <1>1, GotoFields DEF Compdb!Generate
<1>2. ASSUME NEW c \in Calls, NEW failing, Compdb!RemoveCache(c, failing)
      PROVE  FoundIsNewest'
  BY <1>2, GotoFields, ThrowsFields DEF Compdb!RemoveCache
<1>3. ASSUME NEW c \in Calls, Compdb!Clean(c)
      PROVE  FoundIsNewest'
  <2>1. ASSUME NEW d \in Calls
        PROVE  ~(call'[d].at = "copying" /\ ~call'[d].overtaken)
    BY <1>3, CleanFields DEF Compdb!Clean
  <2>2. QED
    BY <2>1
<1>4. ASSUME NEW c \in Calls, NEW p \in Compdb!Places, Compdb!Compile(c, p)
      PROVE  FoundIsNewest'
  BY <1>4, GotoFields DEF Compdb!Compile
<1>5. ASSUME NEW c \in Calls, Compdb!RunFails(c)
      PROVE  FoundIsNewest'
  BY <1>5, ThrowsFields DEF Compdb!RunFails
<1>6. ASSUME NEW c \in Calls, Compdb!CompilesNothing(c)
      PROVE  FoundIsNewest'
  BY <1>6, GotoFields DEF Compdb!CompilesNothing
<1>7. ASSUME NEW c \in Calls, Compdb!Look(c)
      PROVE  FoundIsNewest'
  <2>1. ASSUME call'[c].at = "copying"
        PROVE  /\ call'[c].found \in Compdb!Places /\ written[call'[c].found] # Compdb!Never
               /\ \A q \in Compdb!Places : written[q] <= written[call'[c].found]
    <3>1. /\ call'[c].found \in Compdb!Places /\ written[call'[c].found] # Compdb!Never
          /\ \A q \in Compdb!Places : written[q] # Compdb!Never =>
               ~Compdb!SortsBefore(written[call'[c].found], written[q])
      BY <1>7, <2>1, LookFields
    <3>2. \A q \in Compdb!Places : written[q] # Compdb!Never => written[q] \in 10 .. Compdb!LastTime
      BY DEF CompdbTypes, Times
    <3>3. ASSUME NEW q \in Compdb!Places
          PROVE  written[q] <= written[call'[c].found]
      <4> DEFINE w == written[call'[c].found]
      <4>1. w \in 10 .. Compdb!LastTime
        BY <3>1, <3>2
      <4>2. CASE written[q] = Compdb!Never
        BY <4>1, <4>2 DEF Compdb!Never, Compdb!LastTime
      <4>3. CASE written[q] # Compdb!Never
        <5>1. written[q] \in 10 .. Compdb!LastTime /\ ~Compdb!SortsBefore(w, written[q])
          BY <3>1, <3>2, <4>3
        <5>2. QED
          BY <4>1, <5>1, NotBefore
      <4>4. QED
        BY <4>2, <4>3
    <3>4. QED
      BY <3>1, <3>3
  <2>2. \A d \in Calls : call[d].at # "compile" /\ call'[d].at # "compile"
    BY <1>7, LookFields, HoldersTail, ZenonT(60) DEF Compdb!Look, CompdbIInv
  <2>3. QED
    BY <1>7, <2>1, <2>2, LookFields DEF Compdb!Look
<1>8. ASSUME NEW c \in Calls, Compdb!Copy(c)
      PROVE  FoundIsNewest'
  BY <1>8, GotoFields, ThrowsFields DEF Compdb!Copy
<1>9. ASSUME NEW c \in Calls, Compdb!Check(c)
      PROVE  FoundIsNewest'
  BY <1>9, CheckFields, ZenonT(60) DEF Compdb!Check
<1>10. QED
  BY <1>1, <1>2, <1>3, <1>4, <1>5, <1>6, <1>7, <1>8, <1>9 DEF Compdb!Next

LEMMA ErrorsStep ==
  ASSUME CompdbIInv, Compdb!Next
  PROVE  ErrorsFail'
<1> USE DEF CompdbIInv, FoundIsNewest, ErrorsFail, Stops, Errors, Alone
<1>1. ASSUME NEW c \in Calls, Compdb!Generate(c)
      PROVE  ErrorsFail'
  BY <1>1, GotoFields DEF Compdb!Generate
<1>2. ASSUME NEW c \in Calls, NEW failing, Compdb!RemoveCache(c, failing)
      PROVE  ErrorsFail'
  BY <1>2, GotoFields, ThrowsFields DEF Compdb!RemoveCache
<1>3. ASSUME NEW c \in Calls, Compdb!Clean(c)
      PROVE  ErrorsFail'
  <2>1. ASSUME NEW d \in Calls
        PROVE  /\ call'[d].error # "none" => call'[d].at = "failed"
               /\ call'[d].error = "CopyFailed" => call'[d].overtaken
    <3>1. CASE d = c
      <4>1. call[c].error = "none"
        BY <1>3 DEF Compdb!Clean
      <4>2. QED
        BY <1>3, <3>1, <4>1, CleanFields
    <3>2. CASE d # c
      BY <1>3, <3>2, CleanFields
    <3>3. QED
      BY <3>1, <3>2
  <2>2. QED
    BY <2>1
<1>4. ASSUME NEW c \in Calls, NEW p \in Compdb!Places, Compdb!Compile(c, p)
      PROVE  ErrorsFail'
  BY <1>4, GotoFields DEF Compdb!Compile
<1>5. ASSUME NEW c \in Calls, Compdb!RunFails(c)
      PROVE  ErrorsFail'
  BY <1>5, ThrowsFields DEF Compdb!RunFails
<1>6. ASSUME NEW c \in Calls, Compdb!CompilesNothing(c)
      PROVE  ErrorsFail'
  BY <1>6, GotoFields DEF Compdb!CompilesNothing
<1>7. ASSUME NEW c \in Calls, Compdb!Look(c)
      PROVE  ErrorsFail'
  <2>1. call[c].error = "none"
    BY <1>7 DEF Compdb!Look
  <2>2. QED
    BY <1>7, <2>1, LookFields
<1>8. ASSUME NEW c \in Calls, Compdb!Copy(c)
      PROVE  ErrorsFail'
  BY <1>8, GotoFields, ThrowsFields DEF Compdb!Copy
<1>9. ASSUME NEW c \in Calls, Compdb!Check(c)
      PROVE  ErrorsFail'
  <2>1. call[c].error = "none"
    BY <1>9 DEF Compdb!Check
  <2>2. QED
    BY <1>9, <2>1, CheckFields
<1>10. QED
  BY <1>1, <1>2, <1>3, <1>4, <1>5, <1>6, <1>7, <1>8, <1>9 DEF Compdb!Next

LEMMA FilesStep ==
  ASSUME CompdbIInv, Compdb!Next
  PROVE  (FilesAreMade /\ FirstPass)'
<1> USE DEF CompdbIInv, FilesAreMade, FirstPass, RelyOnFiles, MakesFiles, Stops,
            Errors, Alone
<1>1. ASSUME NEW c \in Calls, Compdb!Generate(c)
      PROVE  (FilesAreMade /\ FirstPass)'
  BY <1>1, GotoFields DEF Compdb!Generate
<1>2. ASSUME NEW c \in Calls, NEW failing, Compdb!RemoveCache(c, failing)
      PROVE  (FilesAreMade /\ FirstPass)'
  BY <1>2, GotoFields, ThrowsFields DEF Compdb!RemoveCache
<1>3. ASSUME NEW c \in Calls, Compdb!Clean(c)
      PROVE  (FilesAreMade /\ FirstPass)'
  BY <1>3, CleanFields DEF Compdb!Clean
<1>4. ASSUME NEW c \in Calls, NEW p \in Compdb!Places, Compdb!Compile(c, p)
      PROVE  (FilesAreMade /\ FirstPass)'
  <2>1. call[c].pass \in {1, 2} /\ generated \in BOOLEAN
    BY DEF CompdbTypes, CallRecords
  <2>2. /\ Alone(c) /\ call'[c].at = "looking" /\ call'[c].pass = call[c].pass
        /\ generated' = (generated \/ call[c].pass = 2)
    BY <1>4, GotoFields DEF Compdb!Compile
  <2>3. CASE call[c].pass = 1
    BY <2>2, <2>3
  <2>4. CASE call[c].pass = 2
    BY <2>1, <2>2, <2>4
  <2>5. QED
    BY <2>1, <2>3, <2>4
<1>5. ASSUME NEW c \in Calls, Compdb!RunFails(c)
      PROVE  (FilesAreMade /\ FirstPass)'
  BY <1>5, ThrowsFields DEF Compdb!RunFails
<1>6. ASSUME NEW c \in Calls, Compdb!CompilesNothing(c)
      PROVE  (FilesAreMade /\ FirstPass)'
  BY <1>6, GotoFields DEF Compdb!CompilesNothing
<1>7. ASSUME NEW c \in Calls, Compdb!Look(c)
      PROVE  (FilesAreMade /\ FirstPass)'
  <2>1. call[c].pass \in {1, 2}
    BY DEF CompdbTypes, CallRecords
  <2>2. /\ Alone(c) /\ call[c].at = "looking" /\ call'[c].at \in {"failed", "copying"}
        /\ call'[c].pass = call[c].pass
        /\ UNCHANGED <<makes, generated>>
    BY <1>7, LookFields DEF Compdb!Look
  <2>3. QED
    BY <2>1, <2>2
<1>8. ASSUME NEW c \in Calls, Compdb!Copy(c)
      PROVE  (FilesAreMade /\ FirstPass)'
  <2>1. call[c].pass \in {1, 2}
    BY DEF CompdbTypes, CallRecords
  <2>2. /\ Alone(c) /\ call[c].at = "copying" /\ call'[c].pass = call[c].pass
        /\ call'[c].at \in {"failed", IF call[c].pass = 1 THEN "checking" ELSE "done"}
        /\ UNCHANGED <<makes, generated>>
    BY <1>8, GotoFields, ThrowsFields DEF Compdb!Copy
  <2>3. CASE call[c].pass = 1
    BY <2>2, <2>3
  <2>4. CASE call[c].pass = 2
    BY <2>2, <2>4
  <2>5. QED
    BY <2>1, <2>3, <2>4
<1>9. ASSUME NEW c \in Calls, Compdb!Check(c)
      PROVE  (FilesAreMade /\ FirstPass)'
  BY <1>9, CheckFields, ZenonT(60) DEF Compdb!Check
<1>10. QED
  BY <1>1, <1>2, <1>3, <1>4, <1>5, <1>6, <1>7, <1>8, <1>9 DEF Compdb!Next

\* Each step keeps the invariant.
LEMMA CompdbStep ==
  ASSUME CompdbIInv, [Compdb!Next]_compdbVars
  PROVE  CompdbIInv'
<1>1. CASE Compdb!Next
  BY <1>1, CallsStep, WaitingStep, TimesStep, HoldersStep, NewestStep,
     ErrorsStep, FilesStep DEF CompdbIInv, CompdbTypes
<1>2. CASE UNCHANGED compdbVars
  BY <1>2 DEF compdbVars, CompdbIInv, CompdbTypes, HoldersRun, Compdb!Holds,
              FoundIsNewest, ErrorsFail, FilesAreMade, RelyOnFiles, MakesFiles,
              FirstPass
<1>3. QED
  BY <1>1, <1>2

\* The invariant says what the run checks.
LEMMA CompdbHolds ==
  CompdbIInv => Compdb!NewestIsCopied /\ Compdb!OnlyOvertakenFail /\ Compdb!FilesExist
<1> SUFFICES ASSUME CompdbIInv PROVE Compdb!NewestIsCopied /\ Compdb!OnlyOvertakenFail /\ Compdb!FilesExist
  OBVIOUS
<1>1. Compdb!NewestIsCopied
  BY DEF CompdbIInv, FoundIsNewest, Compdb!NewestIsCopied
<1>2. Compdb!OnlyOvertakenFail
  BY DEF CompdbIInv, ErrorsFail, Compdb!OnlyOvertakenFail
<1>3. Compdb!FilesExist
  <2>1. generated \in BOOLEAN /\ makes \in BOOLEAN
    BY DEF CompdbIInv, CompdbTypes
  <2>2. SUFFICES ASSUME makes, \A c \in Calls : call[c].at \in {"idle", "done"},
                        \E c \in Calls : call[c].at = "done", ~generated
                 PROVE  FALSE
    BY <2>1 DEF Compdb!FilesExist
  <2>3. \E d \in Calls : MakesFiles(d)
    <3>1. PICK c \in Calls : call[c].at = "done"
      BY <2>2
    <3>3. RelyOnFiles(c)
      BY <3>1 DEF RelyOnFiles
    <3>2. QED
      BY <2>1, <2>2, <3>3 DEF CompdbIInv, FilesAreMade
  <2>4. QED
    BY <2>2, <2>3 DEF MakesFiles
<1>4. QED
  BY <1>1, <1>2, <1>3
-----------------------------------------------------------------------------
(* JavaDebugger *)

Pairs == Debugger!Place \X Debugger!Place
AttemptRecords ==
  [at : {"idle", "device", "alive", "process", "remove", "forward", "socket", "attach",
         "attached"},
   device : Debugger!Place, process : Debugger!Place,
   to : Pairs, shared : BOOLEAN]
DebugTypes ==
  /\ online \subseteq Devices /\ debuggable \subseteq Devices \X Processes
  /\ port \in Pairs
  /\ attempt \in [Attempts -> AttemptRecords]

\* The port leads to the picked process, or nowhere.
PortIsOwn ==
  \A a \in Attempts :
    attempt[a].at \in {"socket", "attach"} /\ ~attempt[a].shared =>
      port = <<attempt[a].device, attempt[a].process>> \/ port[1] = Nowhere

DebugIInv == DebugTypes /\ PortIsOwn /\ Debugger!AttachedToPicked

\* Devices and processes are places.
LEMMA PlacesOfAttempts ==
  /\ Nowhere \in Debugger!Place /\ Devices \subseteq Debugger!Place
  /\ Processes \subseteq Debugger!Place
  /\ \A p, q \in Debugger!Place : <<p, q>> \in Pairs
BY DEF Pairs, Debugger!Place

\* The invariant holds at the start.
LEMMA DebugInit == Debugger!Init => DebugIInv
BY PlacesOfAttempts DEF Debugger!Init, DebugIInv, DebugTypes, AttemptRecords,
                        PortIsOwn, Debugger!Idle, Debugger!AttachedToPicked

\* Each step keeps the types and the invariant.
LEMMA DebugTypesStep ==
  ASSUME DebugIInv, Debugger!Next
  PROVE  DebugTypes'
<1> USE PlacesOfAttempts DEF DebugIInv, DebugTypes, AttemptRecords, Debugger!Idle
<1>1. ASSUME NEW d \in Devices, Debugger!DeviceChanges(d)
      PROVE  DebugTypes'
  BY <1>1 DEF Debugger!DeviceChanges
<1>2. ASSUME NEW a \in Attempts, Debugger!ResolveDebugConfiguration(a)
      PROVE  DebugTypes'
  BY <1>2, PlacesOfAttempts DEF Debugger!ResolveDebugConfiguration,
                                Debugger!Goes, Debugger!To
<1>3. ASSUME NEW a \in Attempts, Debugger!GivesUp(a)
      PROVE  DebugTypes'
  BY <1>3 DEF Debugger!GivesUp, Debugger!Goes, Debugger!To
<1>4. ASSUME NEW a \in Attempts, Debugger!MaybeChooseDevice(a)
      PROVE  DebugTypes'
  BY <1>4, ZenonT(60) DEF Debugger!MaybeChooseDevice, Debugger!Goes, Debugger!To
<1>5. ASSUME NEW a \in Attempts, Debugger!EnsureDeviceIsAlive(a)
      PROVE  DebugTypes'
  BY <1>5 DEF Debugger!EnsureDeviceIsAlive, Debugger!Goes, Debugger!To
<1>6. ASSUME NEW a \in Attempts, Debugger!PickProcess(a)
      PROVE  DebugTypes'
  BY <1>6, ZenonT(60) DEF Debugger!PickProcess, Debugger!Goes, Debugger!To
<1>7. ASSUME NEW a \in Attempts, Debugger!RemoveForward(a)
      PROVE  DebugTypes'
  BY <1>7 DEF Debugger!RemoveForward, Debugger!Goes, Debugger!To
<1>8. ASSUME NEW a \in Attempts, Debugger!SetUpJdwpForwarding(a)
      PROVE  DebugTypes'
  BY <1>8 DEF Debugger!SetUpJdwpForwarding, Debugger!To
<1>9. ASSUME NEW a \in Attempts, Debugger!CreateDebugAdapterDescriptor(a)
      PROVE  DebugTypes'
  BY <1>9 DEF Debugger!CreateDebugAdapterDescriptor, Debugger!Goes, Debugger!To
<1>10. ASSUME NEW a \in Attempts, Debugger!Attach(a)
       PROVE  DebugTypes'
  BY <1>10 DEF Debugger!Attach, Debugger!Goes, Debugger!To
<1>11. ASSUME NEW a \in Attempts, Debugger!Detach(a)
       PROVE  DebugTypes'
  BY <1>11 DEF Debugger!Detach, Debugger!Goes, Debugger!To
<1>12. QED
  BY <1>1, <1>2, <1>3, <1>4, <1>5, <1>6, <1>7, <1>8, <1>9, <1>10, <1>11
     DEF Debugger!Next

LEMMA DebugPortStep ==
  ASSUME DebugIInv, Debugger!Next
  PROVE  (PortIsOwn /\ Debugger!AttachedToPicked)'
<1> USE PlacesOfAttempts DEF DebugIInv, DebugTypes, AttemptRecords,
                             Debugger!Idle, PortIsOwn, Debugger!AttachedToPicked
<1>1. ASSUME NEW d \in Devices, Debugger!DeviceChanges(d)
      PROVE  (PortIsOwn /\ Debugger!AttachedToPicked)'
  BY <1>1 DEF Debugger!DeviceChanges
<1>2. ASSUME NEW a \in Attempts, Debugger!ResolveDebugConfiguration(a)
      PROVE  (PortIsOwn /\ Debugger!AttachedToPicked)'
  BY <1>2 DEF Debugger!ResolveDebugConfiguration, Debugger!Goes, Debugger!To
<1>3. ASSUME NEW a \in Attempts, Debugger!GivesUp(a)
      PROVE  (PortIsOwn /\ Debugger!AttachedToPicked)'
  BY <1>3 DEF Debugger!GivesUp, Debugger!Goes, Debugger!To
<1>4. ASSUME NEW a \in Attempts, Debugger!MaybeChooseDevice(a)
      PROVE  (PortIsOwn /\ Debugger!AttachedToPicked)'
  BY <1>4 DEF Debugger!MaybeChooseDevice, Debugger!Goes, Debugger!To
<1>5. ASSUME NEW a \in Attempts, Debugger!EnsureDeviceIsAlive(a)
      PROVE  (PortIsOwn /\ Debugger!AttachedToPicked)'
  BY <1>5 DEF Debugger!EnsureDeviceIsAlive, Debugger!Goes, Debugger!To
<1>6. ASSUME NEW a \in Attempts, Debugger!PickProcess(a)
      PROVE  (PortIsOwn /\ Debugger!AttachedToPicked)'
  BY <1>6 DEF Debugger!PickProcess, Debugger!Goes, Debugger!To
<1>7. ASSUME NEW a \in Attempts, Debugger!RemoveForward(a)
      PROVE  (PortIsOwn /\ Debugger!AttachedToPicked)'
  BY <1>7 DEF Debugger!RemoveForward, Debugger!Goes, Debugger!To
<1>8. ASSUME NEW a \in Attempts, Debugger!SetUpJdwpForwarding(a)
      PROVE  (PortIsOwn /\ Debugger!AttachedToPicked)'
  <2>1. port' = <<attempt[a].device, attempt[a].process>>
    BY <1>8 DEF Debugger!SetUpJdwpForwarding
  <2>2. /\ attempt'[a].device = attempt[a].device /\ attempt'[a].process = attempt[a].process
        /\ attempt'[a].at = "socket"
    BY <1>8 DEF Debugger!SetUpJdwpForwarding, Debugger!To
  <2>3. ASSUME NEW b \in Attempts, b # a
        PROVE  /\ attempt'[b].at = attempt[b].at /\ attempt'[b].to = attempt[b].to
               /\ attempt'[b].device = attempt[b].device
               /\ attempt'[b].process = attempt[b].process
               /\ attempt'[b].shared = (attempt[b].shared \/ attempt[b].at \in {"socket", "attach"})
    BY <1>8, <2>3 DEF Debugger!SetUpJdwpForwarding
  <2>4. QED
    BY <2>1, <2>2, <2>3, ZenonT(60)
<1>9. ASSUME NEW a \in Attempts, Debugger!CreateDebugAdapterDescriptor(a)
      PROVE  (PortIsOwn /\ Debugger!AttachedToPicked)'
  BY <1>9 DEF Debugger!CreateDebugAdapterDescriptor, Debugger!Goes, Debugger!To
<1>10. ASSUME NEW a \in Attempts, Debugger!Attach(a)
       PROVE  (PortIsOwn /\ Debugger!AttachedToPicked)'
  BY <1>10 DEF Debugger!Attach, Debugger!Goes, Debugger!To
<1>11. ASSUME NEW a \in Attempts, Debugger!Detach(a)
       PROVE  (PortIsOwn /\ Debugger!AttachedToPicked)'
  BY <1>11 DEF Debugger!Detach, Debugger!Goes, Debugger!To
<1>12. QED
  BY <1>1, <1>2, <1>3, <1>4, <1>5, <1>6, <1>7, <1>8, <1>9, <1>10, <1>11
     DEF Debugger!Next

LEMMA DebugStep ==
  ASSUME DebugIInv, [Debugger!Next]_debugVars
  PROVE  DebugIInv'
<1>1. CASE Debugger!Next
  BY <1>1, DebugTypesStep, DebugPortStep DEF DebugIInv
<1>2. CASE UNCHANGED debugVars
  BY <1>2 DEF debugVars, DebugIInv, DebugTypes, PortIsOwn,
              Debugger!AttachedToPicked
<1>3. QED
  BY <1>1, <1>2
-----------------------------------------------------------------------------
(* JavaServer *)

Dir == OutDirs \cup {NoDir}
Todos == SUBSET Jars
Busies == SUBSET (OutDirs \X Jars)
UpdateRecords == [at : {"idle", "stat", "read"}, inode : Dir, late : BOOLEAN]
Stages == {"gone", "cert", "api", "targets", "query", "jars", "extract", "start", "running"}
SessionRecords ==
  [at : Stages,
   inode : Dir, cancelled : BOOLEAN, late : BOOLEAN, from : Dir,
   todo : Todos, busy : Busies]
LinkTypes == link \in Dir /\ lastInode \in Dir /\ opened \in BOOLEAN
UpdateTypes == update \in [Updates -> UpdateRecords]
SessionTypes == session \in Sessions \cup {NoSession} /\ state \in [Sessions -> SessionRecords]
\* Updates and sessions come from opened documents.
OnlyIfOpened == ~opened => session = NoSession /\ \A u \in Updates : update[u].at = "idle"
JavaTypes == LinkTypes /\ UpdateTypes /\ SessionTypes /\ OnlyIfOpened

\* The session that has not been cancelled is the manager's.
OneIsAlive ==
  \A s \in Sessions : state[s].at # "gone" /\ ~state[s].cancelled <=> s = session

\* An inode that was read is that of the link, unless the link has moved since.
ReadIsLate ==
  \A u \in Updates : update[u].at = "read" /\ ~update[u].late => update[u].inode = link

\* A session of another directory than the link's is about to be replaced:
\* the poll has still to see it, or an update is under way.
StaleIsUpdated ==
  session # NoSession /\ ~state[session].late /\ state[session].inode \notin {link, lastInode} =>
    \E u \in Updates :
      \/ update[u].at = "stat"
      \/ update[u].at = "read" /\ update[u].inode # state[session].inode

JavaIInv == JavaTypes /\ OneIsAlive /\ ReadIsLate /\ StaleIsUpdated

USE JavaAssumption

\* The records that the code starts from.
LEMMA JavaRecords == Java!NoUpdate \in UpdateRecords /\ Java!Gone \in SessionRecords
  /\ Java!NoUpdate.at = "idle" /\ Java!Gone.at = "gone" /\ NoDir \in Dir
BY DEF Java!NoUpdate, UpdateRecords, Java!Gone, SessionRecords, Stages, Dir,
       Todos, Busies

\* The invariant holds at the start.
LEMMA JavaInit == Java!Init => JavaIInv
BY JavaRecords DEF Java!Init, JavaIInv, JavaTypes, LinkTypes, UpdateTypes,
                   SessionTypes, OnlyIfOpened, OneIsAlive, ReadIsLate,
                   StaleIsUpdated, Dir


\* Changes of a session that keep it one.
LEMMA SessionFields ==
  ASSUME NEW r \in SessionRecords
  PROVE  /\ \A at \in Stages : [r EXCEPT !.at = at] \in SessionRecords
         /\ [r EXCEPT !.cancelled = TRUE] \in SessionRecords
         /\ \A late : [r EXCEPT !.late = r.late \/ late] \in SessionRecords
         /\ \A d \in Dir : [r EXCEPT !.from = d] \in SessionRecords
         /\ \A todo \in Todos, busy \in Busies : 
              [r EXCEPT !.todo = todo, !.busy = busy] \in SessionRecords
         /\ \A todo \in Todos : [r EXCEPT !.at = "jars", !.todo = todo] \in SessionRecords
         /\ \A busy \in Busies : [r EXCEPT !.busy = busy] \in SessionRecords
         /\ r.at \in Stages /\ r.todo \in Todos /\ r.busy \in Busies
BY DEF SessionRecords, Stages

\* A session that begins.
Began(inode, late) == [Java!Gone EXCEPT !.at = "cert", !.inode = inode, !.late = late]

LEMMA BeganType == \A inode \in Dir, late \in BOOLEAN : Began(inode, late) \in SessionRecords
BY DEF Began, Java!Gone, SessionRecords, Stages, Dir, Todos, Busies

\* Each step keeps the types ...
LEMMA SessionTypesStep ==
  ASSUME JavaIInv, Java!Next
  PROVE  SessionTypes'
<1> USE JavaRecords, SessionFields, BeganType DEF JavaIInv, JavaTypes,
                                                  SessionTypes, Stages
<1>1. ASSUME NEW d \in OutDirs \cup {NoDir}, Java!MoveLink(d)
      PROVE  SessionTypes'
  BY <1>1 DEF Java!MoveLink
<1>2. CASE Java!OnDidOpenJavaSource
  BY <1>2 DEF Java!OnDidOpenJavaSource
<1>3. CASE Java!CheckInode
  BY <1>3 DEF Java!CheckInode
<1>4. ASSUME NEW u \in Updates, Java!GetOutDirInode(u)
      PROVE  SessionTypes'
  BY <1>4 DEF Java!GetOutDirInode
<1>5. ASSUME NEW u \in Updates, Java!UpdateSession(u)
      PROVE  SessionTypes'
  <2>1. Java!Disposed \in [Sessions -> SessionRecords]
    BY DEF Java!Disposed
  <2>2. update[u].inode \in Dir /\ update[u].late \in BOOLEAN
    BY DEF UpdateTypes, UpdateRecords
  <2>3. Began(update[u].inode, update[u].late) \in SessionRecords
    BY <2>2
  <2>4. \/ UNCHANGED <<session, state>>
        \/ session' = NoSession /\ state' = Java!Disposed
        \/ \E s \in Sessions :
             session' = s
               /\ state' = [Java!Disposed EXCEPT ![s] = Began(update[u].inode, update[u].late)]
    BY <1>5 DEF Java!UpdateSession, Began
  <2>5. QED
    BY <2>1, <2>3, <2>4
<1>6. ASSUME NEW s \in Sessions, Java!EnsureCert(s)
      PROVE  SessionTypes'
  BY <1>6 DEF Java!EnsureCert, Java!Goes, Java!To
<1>7. ASSUME NEW s \in Sessions, Java!GetApiVersion(s)
      PROVE  SessionTypes'
  <2>1. Java!To(s, "targets") \in SessionRecords /\ Java!To(s, "query") \in SessionRecords
    BY DEF Java!To
  <2>2. Java!Goes(s, "api", Java!To(s, "targets")) \/ Java!Goes(s, "api", Java!To(s, "query"))
    BY <1>7 DEF Java!GetApiVersion
  <2>3. QED
    BY <2>1, <2>2, ZenonT(60) DEF Java!Goes
<1>8. ASSUME NEW s \in Sessions, Java!Fails(s)
      PROVE  SessionTypes'
  BY <1>8 DEF Java!Fails
<1>9. ASSUME NEW s \in Sessions, Java!ComputeCompilerConfigApiV1(s)
      PROVE  SessionTypes'
  <2>1. Java!To(s, "start") \in SessionRecords /\ link \in Dir
    BY DEF Java!To, LinkTypes
  <2>2. QED
    BY <1>9, <2>1 DEF Java!ComputeCompilerConfigApiV1, Java!Goes
<1>10. ASSUME NEW s \in Sessions, Java!BuildConfigJsons(s)
       PROVE  SessionTypes'
  <2>1. [state[s] EXCEPT !.from = link] \in SessionRecords
    BY DEF LinkTypes
  <2>2. Java!UsefulJars \in Todos
    BY DEF Java!UsefulJars, Todos
  <2>3. QED
    BY <1>10, <2>1, <2>2 DEF Java!BuildConfigJsons, Java!ProcessConfigJsons,
                             Java!Goes
<1>11. ASSUME NEW s \in Sessions, Java!BuildSourceJars(s)
       PROVE  SessionTypes'
  BY <1>11 DEF Java!BuildSourceJars
<1>12. ASSUME NEW s \in Sessions, Java!AllExtracted(s)
       PROVE  SessionTypes'
  BY <1>12 DEF Java!AllExtracted, Java!Goes, Java!To
<1>13. ASSUME NEW s \in Sessions, Java!Started(s)
       PROVE  SessionTypes'
  BY <1>13 DEF Java!Started, Java!Goes, Java!To
<1>14. ASSUME NEW s \in Sessions, NEW jar \in state[s].todo,
              Java!ExtractSourceJar(s, jar)
       PROVE  SessionTypes'
  <2>1. link \in OutDirs
    BY <1>14 DEF Java!ExtractSourceJar, LinkTypes, Dir
  <2>2. state[s].todo \ {jar} \in Todos /\ state[s].busy \cup {<<link, jar>>} \in Busies
    <3>1. state[s].todo \in Todos /\ state[s].busy \in Busies
      OBVIOUS
    <3>2. jar \in Jars
      BY <3>1 DEF Todos
    <3>3. state[s].todo \ {jar} \in Todos
      BY <3>1 DEF Todos
    <3>4. state[s].busy \cup {<<link, jar>>} \in Busies
      <4>1. ASSUME NEW p \in OutDirs \X Jars, NEW busy \in SUBSET (OutDirs \X Jars)
            PROVE  busy \cup {p} \in SUBSET (OutDirs \X Jars)
        OBVIOUS
      <4>2. <<link, jar>> \in OutDirs \X Jars
        BY <2>1, <3>2
      <4>3. QED
        BY <3>1, <4>1, <4>2 DEF Busies
    <3>5. QED
      BY <3>3, <3>4
  <2>3. \E busy \in Busies :
          state' = [state EXCEPT ![s].todo = state[s].todo \ {jar}, ![s].busy = busy]
    BY <1>14, <2>2 DEF Java!ExtractSourceJar
  <2>4. QED
    BY <1>14, <2>2, <2>3 DEF Java!ExtractSourceJar
<1>15. ASSUME NEW s \in Sessions, NEW d, NEW jar, Java!Extracted(s, d, jar)
       PROVE  SessionTypes'
  <2>1. state[s].busy \ {<<d, jar>>} \in Busies
    <3>1. state[s].busy \in Busies
      OBVIOUS
    <3>2. QED
      BY <3>1 DEF Busies
  <2>2. QED
    BY <1>15, <2>1 DEF Java!Extracted
<1>16. QED
  BY <1>1, <1>2, <1>3, <1>4, <1>5, <1>6, <1>7, <1>8, <1>9, <1>10, <1>11, <1>12,
     <1>13, <1>14, <1>15 DEF Java!Next

LEMMA UpdateTypesStep ==
  ASSUME JavaIInv, Java!Next
  PROVE  UpdateTypes'
<1> USE DEF JavaIInv, JavaTypes, LinkTypes, UpdateTypes, UpdateRecords, Dir
<1>1. ASSUME NEW d \in OutDirs \cup {NoDir}, Java!MoveLink(d)
      PROVE  UpdateTypes'
  BY <1>1 DEF Java!MoveLink
<1>2. CASE Java!OnDidOpenJavaSource
  BY <1>2 DEF Java!OnDidOpenJavaSource, Java!MaybeUpdateSession
<1>3. CASE Java!CheckInode
  BY <1>3 DEF Java!CheckInode, Java!MaybeUpdateSession
<1>4. ASSUME NEW u \in Updates, Java!GetOutDirInode(u)
      PROVE  UpdateTypes'
  BY <1>4 DEF Java!GetOutDirInode
<1>5. ASSUME NEW u \in Updates, Java!UpdateSession(u)
      PROVE  UpdateTypes'
  BY <1>5, JavaRecords DEF Java!UpdateSession
<1>6. ASSUME NEW s \in Sessions, Java!EnsureCert(s)
      PROVE  UpdateTypes'
  BY <1>6 DEF Java!EnsureCert, Java!Goes, Java!To
<1>7. ASSUME NEW s \in Sessions, Java!GetApiVersion(s)
      PROVE  UpdateTypes'
  BY <1>7 DEF Java!GetApiVersion, Java!Goes, Java!To
<1>8. ASSUME NEW s \in Sessions, Java!Fails(s)
      PROVE  UpdateTypes'
  BY <1>8 DEF Java!Fails
<1>9. ASSUME NEW s \in Sessions, Java!ComputeCompilerConfigApiV1(s)
      PROVE  UpdateTypes'
  BY <1>9 DEF Java!ComputeCompilerConfigApiV1, Java!Goes, Java!To
<1>10. ASSUME NEW s \in Sessions, Java!BuildConfigJsons(s)
       PROVE  UpdateTypes'
  BY <1>10 DEF Java!BuildConfigJsons, Java!ProcessConfigJsons, Java!UsefulJars,
               Java!Goes, Java!To
<1>11. ASSUME NEW s \in Sessions, Java!BuildSourceJars(s)
       PROVE  UpdateTypes'
  BY <1>11 DEF Java!BuildSourceJars
<1>12. ASSUME NEW s \in Sessions, Java!AllExtracted(s)
       PROVE  UpdateTypes'
  BY <1>12 DEF Java!AllExtracted, Java!Goes, Java!To
<1>13. ASSUME NEW s \in Sessions, Java!Started(s)
       PROVE  UpdateTypes'
  BY <1>13 DEF Java!Started, Java!Goes, Java!To
<1>14. ASSUME NEW s \in Sessions, NEW jar, Java!ExtractSourceJar(s, jar)
       PROVE  UpdateTypes'
  BY <1>14 DEF Java!ExtractSourceJar
<1>15. ASSUME NEW s \in Sessions, NEW d, NEW jar, Java!Extracted(s, d, jar)
       PROVE  UpdateTypes'
  BY <1>15 DEF Java!Extracted
<1>16. QED
  BY <1>1, <1>2, <1>3, <1>4, <1>5, <1>6, <1>7, <1>8, <1>9, <1>10, <1>11, <1>12,
     <1>13, <1>14, <1>15 DEF Java!Next

LEMMA OpenedStep ==
  ASSUME JavaIInv, Java!Next
  PROVE  (LinkTypes /\ OnlyIfOpened)'
<1> USE DEF JavaIInv, JavaTypes, LinkTypes, UpdateTypes, UpdateRecords,
            SessionTypes, OnlyIfOpened, Dir
<1>1. ASSUME NEW d \in OutDirs \cup {NoDir}, Java!MoveLink(d)
      PROVE  (LinkTypes /\ OnlyIfOpened)'
  BY <1>1 DEF Java!MoveLink
<1>2. CASE Java!OnDidOpenJavaSource
  BY <1>2 DEF Java!OnDidOpenJavaSource, Java!MaybeUpdateSession
<1>3. CASE Java!CheckInode
  BY <1>3 DEF Java!CheckInode, Java!MaybeUpdateSession
<1>4. ASSUME NEW u \in Updates, Java!GetOutDirInode(u)
      PROVE  (LinkTypes /\ OnlyIfOpened)'
  BY <1>4 DEF Java!GetOutDirInode
<1>5. ASSUME NEW u \in Updates, Java!UpdateSession(u)
      PROVE  (LinkTypes /\ OnlyIfOpened)'
  BY <1>5 DEF Java!UpdateSession, Java!Disposed
<1>6. ASSUME NEW s \in Sessions, Java!EnsureCert(s)
      PROVE  (LinkTypes /\ OnlyIfOpened)'
  BY <1>6 DEF Java!EnsureCert, Java!Goes, Java!To
<1>7. ASSUME NEW s \in Sessions, Java!GetApiVersion(s)
      PROVE  (LinkTypes /\ OnlyIfOpened)'
  BY <1>7 DEF Java!GetApiVersion, Java!Goes, Java!To
<1>8. ASSUME NEW s \in Sessions, Java!Fails(s)
      PROVE  (LinkTypes /\ OnlyIfOpened)'
  BY <1>8 DEF Java!Fails
<1>9. ASSUME NEW s \in Sessions, Java!ComputeCompilerConfigApiV1(s)
      PROVE  (LinkTypes /\ OnlyIfOpened)'
  BY <1>9 DEF Java!ComputeCompilerConfigApiV1, Java!Goes, Java!To
<1>10. ASSUME NEW s \in Sessions, Java!BuildConfigJsons(s)
       PROVE  (LinkTypes /\ OnlyIfOpened)'
  BY <1>10 DEF Java!BuildConfigJsons, Java!ProcessConfigJsons, Java!UsefulJars,
               Java!Goes, Java!To
<1>11. ASSUME NEW s \in Sessions, Java!BuildSourceJars(s)
       PROVE  (LinkTypes /\ OnlyIfOpened)'
  BY <1>11 DEF Java!BuildSourceJars
<1>12. ASSUME NEW s \in Sessions, Java!AllExtracted(s)
       PROVE  (LinkTypes /\ OnlyIfOpened)'
  BY <1>12 DEF Java!AllExtracted, Java!Goes, Java!To
<1>13. ASSUME NEW s \in Sessions, Java!Started(s)
       PROVE  (LinkTypes /\ OnlyIfOpened)'
  BY <1>13 DEF Java!Started, Java!Goes, Java!To
<1>14. ASSUME NEW s \in Sessions, NEW jar, Java!ExtractSourceJar(s, jar)
       PROVE  (LinkTypes /\ OnlyIfOpened)'
  BY <1>14 DEF Java!ExtractSourceJar
<1>15. ASSUME NEW s \in Sessions, NEW d, NEW jar, Java!Extracted(s, d, jar)
       PROVE  (LinkTypes /\ OnlyIfOpened)'
  BY <1>15 DEF Java!Extracted
<1>16. QED
  BY <1>1, <1>2, <1>3, <1>4, <1>5, <1>6, <1>7, <1>8, <1>9, <1>10, <1>11, <1>12,
     <1>13, <1>14, <1>15 DEF Java!Next

\* ... and the other parts of the invariant.
LEMMA OneIsAliveStep ==
  ASSUME JavaIInv, Java!Next
  PROVE  OneIsAlive'
<1> USE DEF JavaIInv, JavaTypes, LinkTypes, UpdateTypes, UpdateRecords,
            SessionTypes, SessionRecords, Dir, OneIsAlive
<1>1. ASSUME NEW d \in OutDirs \cup {NoDir}, Java!MoveLink(d)
      PROVE  OneIsAlive'
  BY <1>1 DEF Java!MoveLink
<1>2. CASE Java!OnDidOpenJavaSource
  BY <1>2 DEF Java!OnDidOpenJavaSource, Java!MaybeUpdateSession
<1>3. CASE Java!CheckInode
  BY <1>3 DEF Java!CheckInode, Java!MaybeUpdateSession
<1>4. ASSUME NEW u \in Updates, Java!GetOutDirInode(u)
      PROVE  OneIsAlive'
  BY <1>4 DEF Java!GetOutDirInode
<1>5. ASSUME NEW u \in Updates, Java!UpdateSession(u)
      PROVE  OneIsAlive'
  <2>1. session # NoSession => session \in Sessions
    OBVIOUS
  <2>2. ASSUME NEW r \in Sessions
        PROVE  Java!Disposed[r].at = "gone" \/ Java!Disposed[r].cancelled
    BY <2>1, JavaRecords DEF Java!Disposed
  <2>3. CASE UNCHANGED <<session, state>>
    BY <2>3
  <2>4. CASE session' = NoSession /\ state' = Java!Disposed
    BY <2>2, <2>4
  <2>5. ASSUME NEW s \in Sessions, session' = s,
               state' = [Java!Disposed EXCEPT ![s] = Began(update[u].inode, update[u].late)]
        PROVE  OneIsAlive'
    <3>1. Java!Disposed = [r \in Sessions |-> Java!Disposed[r]]
      BY DEF Java!Disposed
    <3>2. state' = [r \in Sessions |-> IF r = s THEN Began(update[u].inode, update[u].late)
                                       ELSE Java!Disposed[r]]
      BY <2>5, <3>1
    <3>3. Began(update[u].inode, update[u].late).at = "cert"
          /\ ~Began(update[u].inode, update[u].late).cancelled
      BY DEF Began, Java!Gone
    <3>4. QED
      BY <2>2, <2>5, <3>2, <3>3
  <2>6. QED
    BY <1>5, <2>3, <2>4, <2>5 DEF Java!UpdateSession, Began
<1>6. ASSUME NEW s \in Sessions, Java!EnsureCert(s)
      PROVE  OneIsAlive'
  BY <1>6 DEF Java!EnsureCert, Java!Goes, Java!To
<1>7. ASSUME NEW s \in Sessions, Java!GetApiVersion(s)
      PROVE  OneIsAlive'
  BY <1>7 DEF Java!GetApiVersion, Java!Goes, Java!To
<1>8. ASSUME NEW s \in Sessions, Java!Fails(s)
      PROVE  OneIsAlive'
  BY <1>8, JavaRecords DEF Java!Fails
<1>9. ASSUME NEW s \in Sessions, Java!ComputeCompilerConfigApiV1(s)
      PROVE  OneIsAlive'
  BY <1>9 DEF Java!ComputeCompilerConfigApiV1, Java!Goes, Java!To
<1>10. ASSUME NEW s \in Sessions, Java!BuildConfigJsons(s)
       PROVE  OneIsAlive'
  BY <1>10 DEF Java!BuildConfigJsons, Java!ProcessConfigJsons, Java!UsefulJars,
               Java!Goes, Java!To
<1>11. ASSUME NEW s \in Sessions, Java!BuildSourceJars(s)
       PROVE  OneIsAlive'
  BY <1>11 DEF Java!BuildSourceJars
<1>12. ASSUME NEW s \in Sessions, Java!AllExtracted(s)
       PROVE  OneIsAlive'
  BY <1>12 DEF Java!AllExtracted, Java!Goes, Java!To
<1>13. ASSUME NEW s \in Sessions, Java!Started(s)
       PROVE  OneIsAlive'
  BY <1>13, JavaRecords DEF Java!Started, Java!Goes, Java!To
<1>14. ASSUME NEW s \in Sessions, NEW jar, Java!ExtractSourceJar(s, jar)
       PROVE  OneIsAlive'
  BY <1>14 DEF Java!ExtractSourceJar
<1>15. ASSUME NEW s \in Sessions, NEW d, NEW jar, Java!Extracted(s, d, jar)
       PROVE  OneIsAlive'
  BY <1>15 DEF Java!Extracted
<1>16. QED
  BY <1>1, <1>2, <1>3, <1>4, <1>5, <1>6, <1>7, <1>8, <1>9, <1>10, <1>11, <1>12,
     <1>13, <1>14, <1>15 DEF Java!Next

LEMMA ReadIsLateStep ==
  ASSUME JavaIInv, Java!Next
  PROVE  ReadIsLate'
<1> USE DEF JavaIInv, JavaTypes, LinkTypes, UpdateTypes, UpdateRecords,
            ReadIsLate, Dir
<1>1. ASSUME NEW d \in OutDirs \cup {NoDir}, Java!MoveLink(d)
      PROVE  ReadIsLate'
  BY <1>1 DEF Java!MoveLink
<1>2. CASE Java!OnDidOpenJavaSource
  BY <1>2 DEF Java!OnDidOpenJavaSource, Java!MaybeUpdateSession
<1>3. CASE Java!CheckInode
  BY <1>3 DEF Java!CheckInode, Java!MaybeUpdateSession
<1>4. ASSUME NEW u \in Updates, Java!GetOutDirInode(u)
      PROVE  ReadIsLate'
  BY <1>4 DEF Java!GetOutDirInode
<1>5. ASSUME NEW u \in Updates, Java!UpdateSession(u)
      PROVE  ReadIsLate'
  BY <1>5, JavaRecords DEF Java!UpdateSession
<1>6. ASSUME NEW s \in Sessions, Java!EnsureCert(s)
      PROVE  ReadIsLate'
  BY <1>6 DEF Java!EnsureCert, Java!Goes, Java!To
<1>7. ASSUME NEW s \in Sessions, Java!GetApiVersion(s)
      PROVE  ReadIsLate'
  BY <1>7 DEF Java!GetApiVersion, Java!Goes, Java!To
<1>8. ASSUME NEW s \in Sessions, Java!Fails(s)
      PROVE  ReadIsLate'
  BY <1>8 DEF Java!Fails
<1>9. ASSUME NEW s \in Sessions, Java!ComputeCompilerConfigApiV1(s)
      PROVE  ReadIsLate'
  BY <1>9 DEF Java!ComputeCompilerConfigApiV1, Java!Goes, Java!To
<1>10. ASSUME NEW s \in Sessions, Java!BuildConfigJsons(s)
       PROVE  ReadIsLate'
  BY <1>10 DEF Java!BuildConfigJsons, Java!ProcessConfigJsons, Java!UsefulJars,
               Java!Goes, Java!To
<1>11. ASSUME NEW s \in Sessions, Java!BuildSourceJars(s)
       PROVE  ReadIsLate'
  BY <1>11 DEF Java!BuildSourceJars
<1>12. ASSUME NEW s \in Sessions, Java!AllExtracted(s)
       PROVE  ReadIsLate'
  BY <1>12 DEF Java!AllExtracted, Java!Goes, Java!To
<1>13. ASSUME NEW s \in Sessions, Java!Started(s)
       PROVE  ReadIsLate'
  BY <1>13 DEF Java!Started, Java!Goes, Java!To
<1>14. ASSUME NEW s \in Sessions, NEW jar, Java!ExtractSourceJar(s, jar)
       PROVE  ReadIsLate'
  BY <1>14 DEF Java!ExtractSourceJar
<1>15. ASSUME NEW s \in Sessions, NEW d, NEW jar, Java!Extracted(s, d, jar)
       PROVE  ReadIsLate'
  BY <1>15 DEF Java!Extracted
<1>16. QED
  BY <1>1, <1>2, <1>3, <1>4, <1>5, <1>6, <1>7, <1>8, <1>9, <1>10, <1>11, <1>12,
     <1>13, <1>14, <1>15 DEF Java!Next

LEMMA StaleIsUpdatedStep ==
  ASSUME JavaIInv, Java!Next
  PROVE  StaleIsUpdated'
<1> USE DEF JavaIInv, JavaTypes, LinkTypes, UpdateTypes, UpdateRecords,
            SessionTypes, SessionRecords, Dir, OneIsAlive, ReadIsLate,
            StaleIsUpdated
<1>1. ASSUME NEW d \in OutDirs \cup {NoDir}, Java!MoveLink(d)
      PROVE  StaleIsUpdated'
  <2>1. SUFFICES ASSUME session # NoSession, ~state'[session].late,
                        state'[session].inode \notin {link', lastInode}
                 PROVE  \E u \in Updates :
                          \/ update'[u].at = "stat"
                          \/ update'[u].at = "read" /\ update'[u].inode # state'[session].inode
    BY <1>1 DEF Java!MoveLink
  <2>2. session \in Sessions
    BY <2>1
  <2>3. /\ state'[session].inode = state[session].inode
        /\ state'[session].late = (state[session].late \/ (state[session].inode = link /\ lastInode # link))
    BY <1>1, <2>2 DEF Java!MoveLink
  <2>4. \A u \in Updates : update'[u].at = update[u].at /\ update'[u].inode = update[u].inode
    BY <1>1 DEF Java!MoveLink
  <2>5. ~state[session].late /\ state[session].inode \notin {link, lastInode}
    BY <2>1, <2>3
  <2>6. QED
    BY <2>1, <2>3, <2>4, <2>5
<1>2. CASE Java!OnDidOpenJavaSource
  BY <1>2 DEF Java!OnDidOpenJavaSource, Java!MaybeUpdateSession
<1>3. CASE Java!CheckInode
  <2>1. CASE opened
    BY <1>3, <2>1, JavaRecords DEF Java!CheckInode, Java!MaybeUpdateSession
  <2>2. CASE ~opened
    BY <1>3, <2>2 DEF Java!CheckInode, OnlyIfOpened
  <2>3. QED
    BY <2>1, <2>2
<1>4. ASSUME NEW u \in Updates, Java!GetOutDirInode(u)
      PROVE  StaleIsUpdated'
  BY <1>4 DEF Java!GetOutDirInode
<1>5. ASSUME NEW u \in Updates, Java!UpdateSession(u)
      PROVE  StaleIsUpdated'
  <2>1. CASE UNCHANGED <<session, state>>
    BY <1>5, <2>1, JavaRecords DEF Java!UpdateSession
  <2>2. CASE session' = NoSession /\ state' = Java!Disposed
    BY <1>5, <2>2 DEF Java!UpdateSession
  <2>3. ASSUME NEW s \in Sessions, session' = s,
               state' = [Java!Disposed EXCEPT ![s] = Began(update[u].inode, update[u].late)]
        PROVE  StaleIsUpdated'
    <3>1. state'[s] = Began(update[u].inode, update[u].late)
      BY <2>3 DEF Java!Disposed
    <3>2. state'[s].inode = update[u].inode /\ state'[s].late = update[u].late
      BY <3>1 DEF Began, Java!Gone
    <3>3. update[u].at = "read" /\ link' = link
      BY <1>5 DEF Java!UpdateSession
    <3>4. QED
      BY <2>3, <3>2, <3>3
  <2>4. QED
    BY <1>5, <2>1, <2>2, <2>3 DEF Java!UpdateSession, Began
<1>6. ASSUME NEW s \in Sessions, Java!EnsureCert(s)
      PROVE  StaleIsUpdated'
  BY <1>6 DEF Java!EnsureCert, Java!Goes, Java!To
<1>7. ASSUME NEW s \in Sessions, Java!GetApiVersion(s)
      PROVE  StaleIsUpdated'
  BY <1>7 DEF Java!GetApiVersion, Java!Goes, Java!To
<1>8. ASSUME NEW s \in Sessions, Java!Fails(s)
      PROVE  StaleIsUpdated'
  BY <1>8 DEF Java!Fails
<1>9. ASSUME NEW s \in Sessions, Java!ComputeCompilerConfigApiV1(s)
      PROVE  StaleIsUpdated'
  BY <1>9 DEF Java!ComputeCompilerConfigApiV1, Java!Goes, Java!To
<1>10. ASSUME NEW s \in Sessions, Java!BuildConfigJsons(s)
       PROVE  StaleIsUpdated'
  BY <1>10 DEF Java!BuildConfigJsons, Java!ProcessConfigJsons, Java!UsefulJars,
               Java!Goes, Java!To
<1>11. ASSUME NEW s \in Sessions, Java!BuildSourceJars(s)
       PROVE  StaleIsUpdated'
  BY <1>11 DEF Java!BuildSourceJars
<1>12. ASSUME NEW s \in Sessions, Java!AllExtracted(s)
       PROVE  StaleIsUpdated'
  BY <1>12 DEF Java!AllExtracted, Java!Goes, Java!To
<1>13. ASSUME NEW s \in Sessions, Java!Started(s)
       PROVE  StaleIsUpdated'
  BY <1>13 DEF Java!Started, Java!Goes, Java!To
<1>14. ASSUME NEW s \in Sessions, NEW jar, Java!ExtractSourceJar(s, jar)
       PROVE  StaleIsUpdated'
  BY <1>14 DEF Java!ExtractSourceJar
<1>15. ASSUME NEW s \in Sessions, NEW d, NEW jar, Java!Extracted(s, d, jar)
       PROVE  StaleIsUpdated'
  BY <1>15 DEF Java!Extracted
<1>16. QED
  BY <1>1, <1>2, <1>3, <1>4, <1>5, <1>6, <1>7, <1>8, <1>9, <1>10, <1>11, <1>12,
     <1>13, <1>14, <1>15 DEF Java!Next

\* Each step keeps the invariant.
LEMMA JavaStep ==
  ASSUME JavaIInv, [Java!Next]_javaVars
  PROVE  JavaIInv'
<1>1. CASE Java!Next
  BY <1>1, UpdateTypesStep, SessionTypesStep, OpenedStep, OneIsAliveStep,
     ReadIsLateStep, StaleIsUpdatedStep DEF JavaIInv, JavaTypes
<1>2. CASE UNCHANGED javaVars
  BY <1>2 DEF javaVars, JavaIInv, JavaTypes, LinkTypes, UpdateTypes,
              SessionTypes, OnlyIfOpened, OneIsAlive, ReadIsLate, StaleIsUpdated
<1>3. QED
  BY <1>1, <1>2

\* The invariant says what the run checks.
LEMMA JavaServerIsOne == JavaIInv => Java!OneServer /\ Java!SessionFollowsLink
BY JavaRecords DEF JavaIInv, JavaTypes, UpdateTypes, SessionTypes, OneIsAlive,
                   StaleIsUpdated, Java!OneServer, Java!SessionFollowsLink
-----------------------------------------------------------------------------
(***************************************************************************)
(* HEAD and the comments.  The oldest job of a watcher that is listened to *)
(* has read no older HEAD than was told; the tickets of a directory are    *)
(* different, and a fetch that no other crossed is alone with its          *)
(* directory.                                                              *)
(***************************************************************************)
\* Of the jobs of a watcher only the oldest has run rev-parse; a watcher whose
\* events are passed on has read no older HEAD than was told.
HeadJobs ==
  \A w \in GitHead!Watchers :
    /\ w > created => jobs[w] = <<>> /\ w \notin notified
    /\ \A i \in 1..Len(jobs[w]) :
         jobs[w][i] # GitHead!None =>
           /\ i = 1 /\ jobs[w][i] <= head
           /\ w \in watcher => newest <= jobs[w][i]

\* At most the last watcher is there; what is told is the newest that was.
HeadIInv ==
  /\ GitHead!TypeOK
  /\ watcher \subseteq {created}
  /\ HeadJobs
  /\ newest <= head
  /\ told # GitHead!None => told = newest
  /\ GitHead!UndefinedMeansUnwatched

\* The fetch of a JobManager is one of its directory; no fetch and no entry is
\* ahead of Gerrit.
GerritFetches ==
  [at : {"idle", "repo", "issue", "log", "account", "change", "drafts", "apply"},
   dir : {{}} \cup {{d} : d \in GitDirs}, ticket : Nat, ver : 0..MaxRemote,
   mine : BOOLEAN, crossed : BOOLEAN]
FetchesFit ==
  /\ \A f \in Gerrit!Fetchers :
       /\ fetch[f].at = "idle" => fetch[f] = Gerrit!Idle
       /\ fetch[f].at # "idle" => fetch[f].dir # {}
       /\ \A d \in fetch[f].dir : f \in GitDirs => f = d
       /\ \A d \in fetch[f].dir : fetch[f].ver <= remote[d]
  /\ \A d \in GitDirs : known[d].ver <= remote[d]

\* The tickets of a directory are all different.
TicketsDiffer ==
  \A d \in GitDirs :
    /\ queued[d] # 0 => queued[d] # known[d].ticket
    /\ \A f \in Gerrit!Running(d) :
         /\ fetch[f].ticket \notin {0, queued[d], known[d].ticket}
         /\ \A q \in Gerrit!Running(d) : fetch[f].ticket = fetch[q].ticket => f = q

\* A fetch that was not crossed is alone, and its answer is not older than the
\* one that is known.
UncrossedIsNew ==
  \A d \in GitDirs : \A f \in Gerrit!Running(d) : ~fetch[f].crossed =>
    /\ Gerrit!Running(d) = {f}
    /\ fetch[f].at \in {"drafts", "apply"} => known[d].ver <= fetch[f].ver

GerritIInv == Gerrit!TypeOK /\ FetchesFit /\ TicketsDiffer /\ UncrossedIsNew

USE HeadAssumption, GerritAssumption

\* The oldest job ends.
LEMMA OldestEnds ==
  ASSUME NEW S, NEW s \in Seq(S), s # <<>>
  PROVE  GitHead!RemoveAt(s, 1) = Tail(s)
<1> DEFINE t == SubSeq(s, 2, Len(s))
<1>1. Len(s) \in Nat /\ \A i \in 2..Len(s) : s[i] \in S
  BY LenProperties, ElementOfSeq
<1>2. t \in Seq(S)
  BY <1>1, SubSeqProperties
<1>3. SubSeq(s, 1, 1 - 1) = <<>> /\ SubSeq(s, 1 + 1, Len(s)) = t
  BY SubSeqEmpty
<1>4. <<>> \o t = t
  BY <1>2, ConcatEmptySeq
<1>5. GitHead!RemoveAt(s, 1) = SubSeq(s, 1, 1 - 1) \o SubSeq(s, 1 + 1, Len(s))
  BY DEF GitHead!RemoveAt
<1>6. Tail(s) = t
  BY TailIsSubSeq
<1>7. QED
  BY <1>3, <1>4, <1>5, <1>6

LEMMA HeadInit == GitHead!Init => HeadIInv
<1> SUFFICES ASSUME GitHead!Init PROVE HeadIInv
  OBVIOUS
<1>1. \A w \in GitHead!Watchers : jobs[w] = <<>> /\ Len(jobs[w]) = 0
  BY EmptySeq DEF GitHead!Init
<1>2. jobs \in [GitHead!Watchers -> Seq(GitHead!Heads \cup {GitHead!None})]
  BY EmptySeq DEF GitHead!Init
<1>3. GitHead!TypeOK
  <2>1. head \in GitHead!Heads /\ newest \in GitHead!Heads /\ created \in 0..MaxWatchers
    BY DEF GitHead!Init, GitHead!Heads
  <2>2. QED
    BY <1>2, <2>1 DEF GitHead!Init, GitHead!TypeOK
<1>4. HeadJobs
  BY <1>1 DEF GitHead!Init, HeadJobs
<1>5. QED
  BY <1>3, <1>4 DEF GitHead!Init, HeadIInv, GitHead!UndefinedMeansUnwatched

\* A job of watcher w is queued, reads HEAD or ends.
LEMMA HeadJobsStep ==
  ASSUME HeadIInv, NEW w \in GitHead!Watchers, GitHead!Watcher(w)
  PROVE  HeadIInv' /\ (told' \in GitHead!Heads => told' >= newest)
<1> DEFINE S == GitHead!Heads \cup {GitHead!None}
<1> USE DEF HeadIInv
<1>0. /\ jobs \in [GitHead!Watchers -> Seq(S)] /\ jobs[w] \in Seq(S)
      /\ head \in Nat /\ newest \in Nat /\ head \in GitHead!Heads /\ Len(jobs[w]) \in Nat
      /\ GitHead!None \notin GitHead!Heads /\ GitHead!None \in S
  BY LenProperties DEF GitHead!TypeOK, GitHead!Heads, GitHead!None
<1>1. CASE GitHead!Handle(w)
  <2>1. /\ Append(jobs[w], GitHead!None) \in Seq(S)
        /\ Len(Append(jobs[w], GitHead!None)) = Len(jobs[w]) + 1
        /\ \A i \in 1..Len(jobs[w]) : Append(jobs[w], GitHead!None)[i] = jobs[w][i]
        /\ Append(jobs[w], GitHead!None)[Len(jobs[w]) + 1] = GitHead!None
    BY <1>0, AppendProperties
  <2>2. /\ jobs' = [jobs EXCEPT ![w] = Append(@, GitHead!None)]
        /\ w \in notified /\ notified' = notified \ {w}
        /\ UNCHANGED <<head, created, watcher, told, newest, failed>>
    BY <1>1 DEF GitHead!Handle
  <2>3. GitHead!TypeOK'
    BY <1>0, <2>1, <2>2 DEF GitHead!TypeOK
  <2>4. HeadJobs'
    BY <1>0, <2>1, <2>2 DEF HeadJobs
  <2>5. QED
    BY <1>0, <2>2, <2>3, <2>4 DEF GitHead!UndefinedMeansUnwatched, GitHead!TypeOK
<1>2. CASE GitHead!RevParse(w)
  <2>1. /\ 1 \in 1..Len(jobs[w]) /\ jobs' = [jobs EXCEPT ![w][1] = head]
        /\ UNCHANGED <<head, created, watcher, notified, told, newest, failed>>
    BY <1>2 DEF GitHead!RevParse, GitHead!JobsRunning
  <2>2. /\ jobs'[w] = [jobs[w] EXCEPT ![1] = head] /\ jobs'[w] \in Seq(S)
        /\ Len(jobs'[w]) = Len(jobs[w])
        /\ \A v \in GitHead!Watchers \ {w} : jobs'[v] = jobs[v]
        /\ jobs' \in [GitHead!Watchers -> Seq(S)]
    BY <1>0, <2>1, ExceptSeq
  <2>3. GitHead!TypeOK'
    BY <1>0, <2>1, <2>2 DEF GitHead!TypeOK
  <2>4. HeadJobs'
    BY <1>0, <2>1, <2>2 DEF HeadJobs
  <2>5. QED
    BY <1>0, <2>1, <2>3, <2>4 DEF GitHead!UndefinedMeansUnwatched, GitHead!TypeOK
<1>3. ASSUME GitHead!RevParseFails(w) \/ GitHead!Fire(w)
      PROVE  /\ jobs[w] # <<>> /\ 1 \in 1..Len(jobs[w])
             /\ jobs' = [jobs EXCEPT ![w] = GitHead!RemoveAt(@, 1)]
             /\ jobs' \in [GitHead!Watchers -> Seq(S)]
             /\ \A v \in GitHead!Watchers \ {w} : jobs'[v] = jobs[v]
             /\ \A i \in 1..Len(jobs'[w]) : jobs'[w][i] = GitHead!None
             /\ UNCHANGED <<head, created, watcher, notified>>
  <2>1. /\ 1 \in 1..Len(jobs[w])
        /\ jobs' = [jobs EXCEPT ![w] = GitHead!RemoveAt(@, 1)]
        /\ UNCHANGED <<head, created, watcher, notified>>
    BY <1>3 DEF GitHead!RevParseFails, GitHead!Fire, GitHead!JobsRunning
  <2>2. jobs[w] # <<>>
    BY <2>1, EmptySeq
  <2>3. /\ GitHead!RemoveAt(jobs[w], 1) \in Seq(S)
        /\ Len(GitHead!RemoveAt(jobs[w], 1)) = Len(jobs[w]) - 1
        /\ \A i \in 1..(Len(jobs[w]) - 1) :
             GitHead!RemoveAt(jobs[w], 1)[i] = jobs[w][i + 1]
    <3>1. GitHead!RemoveAt(jobs[w], 1) = Tail(jobs[w])
      BY <1>0, <2>2, OldestEnds
    <3>2. /\ Tail(jobs[w]) \in Seq(S) /\ Len(Tail(jobs[w])) = Len(jobs[w]) - 1
          /\ \A i \in 1..Len(Tail(jobs[w])) : Tail(jobs[w])[i] = jobs[w][i + 1]
      BY <1>0, <2>2, HeadTailProperties
    <3>3. QED
      BY <3>1, <3>2
  <2>4. \A i \in 1..(Len(jobs[w]) - 1) : jobs[w][i + 1] = GitHead!None
    BY <1>0 DEF HeadJobs
  <2>5. QED
    BY <1>0, <2>1, <2>2, <2>3, <2>4
<1>4. CASE GitHead!RevParseFails(w)
  <2>1. UNCHANGED <<told, newest>> /\ failed' = TRUE
    BY <1>4 DEF GitHead!RevParseFails
  <2>2. HeadJobs'
    BY <1>0, <1>3, <1>4, <2>1 DEF HeadJobs
  <2>3. GitHead!TypeOK'
    BY <1>3, <1>4, <2>1 DEF GitHead!TypeOK
  <2>4. QED
    BY <1>0, <1>3, <1>4, <2>1, <2>2, <2>3 DEF GitHead!UndefinedMeansUnwatched, GitHead!TypeOK
<1>5. CASE GitHead!Fire(w)
  <2>1. /\ jobs[w][1] # GitHead!None /\ failed' = failed
        /\ w \in watcher => told' = jobs[w][1] /\ newest' = jobs[w][1]
        /\ w \notin watcher => UNCHANGED <<told, newest>>
    BY <1>5 DEF GitHead!Fire, GitHead!JobsRunning
  <2>2. /\ jobs[w][1] \in GitHead!Heads /\ jobs[w][1] <= head
        /\ w \in watcher => newest <= jobs[w][1]
    BY <1>0, <1>3, <1>5, <2>1, ElementOfSeq DEF HeadJobs
  <2>3. HeadJobs'
    BY <1>0, <1>3, <1>5, <2>1, <2>2 DEF HeadJobs
  <2>4. GitHead!TypeOK'
    BY <1>0, <1>3, <1>5, <2>1, <2>2 DEF GitHead!TypeOK
  <2>5. UNCHANGED <<head, created, watcher>>
    BY <1>3, <1>5
  <2>6. newest' <= head' /\ (told' \in GitHead!Heads => told' = newest' /\ told' >= newest)
    BY <1>0, <2>1, <2>2, <2>5
  <2>7. GitHead!UndefinedMeansUnwatched'
    BY <2>1, <2>5 DEF GitHead!UndefinedMeansUnwatched
  <2>8. QED
    BY <1>0, <2>3, <2>4, <2>5, <2>6, <2>7 DEF GitHead!TypeOK
<1>6. QED
  BY <1>1, <1>2, <1>4, <1>5 DEF GitHead!Watcher

LEMMA HeadStep ==
  ASSUME HeadIInv, [GitHead!Next]_headVars
  PROVE  HeadIInv' /\ (told' \in GitHead!Heads => told' >= newest)
<1> USE DEF HeadIInv
<1>0. /\ head \in Nat /\ newest \in Nat /\ created \in Nat
      /\ told \in GitHead!Heads => told = newest
  BY DEF GitHead!TypeOK, GitHead!Heads, GitHead!None
<1>1. CASE GitHead!HeadChanges
  BY <1>0, <1>1 DEF GitHead!HeadChanges, HeadJobs, GitHead!TypeOK, GitHead!Heads,
     GitHead!None, GitHead!Watchers, GitHead!UndefinedMeansUnwatched
<1>2. CASE GitHead!Add
  <2>1. /\ created' = created + 1 /\ created' \in GitHead!Watchers
        /\ watcher' = {created'} /\ notified' = notified \cup {created'}
        /\ UNCHANGED <<head, jobs, told, newest, failed>>
        /\ created < MaxWatchers /\ created' \in 0..MaxWatchers
    BY <1>0, <1>2 DEF GitHead!Add, GitHead!TypeOK, GitHead!Watchers
  <2>2. Len(jobs[created']) = 0
    BY <1>0, <2>1, EmptySeq DEF HeadJobs
  <2>3. GitHead!TypeOK'
    BY <2>1 DEF GitHead!TypeOK
  <2>4. HeadJobs'
    BY <1>0, <2>1, <2>2 DEF HeadJobs, GitHead!Watchers
  <2>5. QED
    BY <1>0, <2>1, <2>3, <2>4 DEF GitHead!UndefinedMeansUnwatched
<1>3. CASE GitHead!RemoveWatcher
  BY <1>0, <1>3 DEF GitHead!RemoveWatcher, HeadJobs, GitHead!TypeOK, GitHead!Heads,
     GitHead!None, GitHead!UndefinedMeansUnwatched
<1>4. CASE UNCHANGED headVars
  BY <1>0, <1>4 DEF headVars, HeadJobs, GitHead!TypeOK, GitHead!UndefinedMeansUnwatched
<1>5. QED
  BY <1>1, <1>2, <1>3, <1>4, HeadJobsStep DEF GitHead!Next

\* The tickets are finitely many numbers; their places are numbered from one and
\* differ as they do.
LEMMA TicketPlaces ==
  ASSUME Gerrit!TypeOK
  PROVE  /\ Gerrit!NewTicket \in Nat /\ Gerrit!NewTicket # 0
         /\ \A t \in Gerrit!Tickets \cup {0} :
              /\ Gerrit!Rank(t) \in Nat /\ Gerrit!Rank(t) < Gerrit!NewTicket
              /\ Gerrit!Rank(t) = 0 <=> t = 0
         /\ \A t, u \in Gerrit!Tickets \cup {0} : Gerrit!Rank(t) = Gerrit!Rank(u) => t = u
<1> DEFINE T == Gerrit!Tickets
           Below(t) == {u \in T : u <= t}
<1>1. IsFiniteSet(T) /\ T \subseteq Nat /\ 0 \notin T
  <2>1. IsFiniteSet(Gerrit!Fetchers) /\ GitDirs \subseteq Gerrit!Fetchers
    BY FS_Union, GerritAssumption DEF Gerrit!Fetchers
  <2> DEFINE F == {fetch[f].ticket : f \in Gerrit!Fetchers}
             Q == {queued[d] : d \in GitDirs}
             K == {known[d].ticket : d \in GitDirs}
  <2>2. IsFiniteSet(F)
    <3>1. [f \in Gerrit!Fetchers |-> fetch[f].ticket] \in Surjection(Gerrit!Fetchers, F)
      BY DEF Surjection
    <3>2. QED
      BY <2>1, <3>1, FS_Surjection
  <2>3. IsFiniteSet(Q)
    <3>1. [d \in GitDirs |-> queued[d]] \in Surjection(GitDirs, Q)
      BY DEF Surjection
    <3>2. QED
      BY <3>1, FS_Surjection, GerritAssumption
  <2>4. IsFiniteSet(K)
    <3>1. [d \in GitDirs |-> known[d].ticket] \in Surjection(GitDirs, K)
      BY DEF Surjection
    <3>2. QED
      BY <3>1, FS_Surjection, GerritAssumption
  <2>5. F \subseteq Nat /\ Q \subseteq Nat /\ K \subseteq Nat
    BY DEF Gerrit!TypeOK
  <2>6. T = (F \cup Q \cup K) \ {0}
    BY DEF Gerrit!Tickets
  <2> HIDE DEF F, Q, K
  <2>7. IsFiniteSet((F \cup Q) \cup K)
    BY <2>2, <2>3, <2>4, FS_Union
  <2>8. QED
    BY <2>5, <2>6, <2>7, FS_Subset
<1>2. /\ \A S : Gerrit!Cardinality(S) = Cardinality(S)
      /\ Cardinality(T) \in Nat
  BY <1>1, FS_CardinalityType DEF Gerrit!Cardinality, Cardinality
<1>3. /\ Gerrit!NewTicket = Cardinality(T) + 1
      /\ \A t : Gerrit!Rank(t) = Cardinality(Below(t))
  BY <1>2 DEF Gerrit!NewTicket, Gerrit!Rank
<1> HIDE DEF T
<1>4. \A t : IsFiniteSet(Below(t)) /\ Cardinality(Below(t)) \in Nat
             /\ Cardinality(Below(t)) <= Cardinality(T)
  BY <1>1, FS_Subset, FS_CardinalityType
<1>5. Cardinality(Below(0)) = 0
  <2>1. \A u \in T : ~(u <= 0)
    <3>1. \A n \in Nat : n <= 0 => n = 0
      OBVIOUS
    <3>2. QED
      BY <1>1, <3>1
  <2>2. Below(0) = {}
    BY <2>1
  <2>3. QED
    BY <2>2, FS_EmptySet
<1>6. ASSUME NEW t \in T \cup {0}, NEW u \in T, t < u
      PROVE  Cardinality(Below(t)) < Cardinality(Below(u))
  <2>1. Below(t) \subseteq Below(u) /\ u \in Below(u) /\ u \notin Below(t)
    <3>1. t \in Nat /\ u \in Nat
      BY <1>1
    <3>2. \A v \in Nat : v <= t => v <= u
      BY <1>6, <3>1
    <3>3. ~(u <= t) /\ u <= u
      BY <1>6, <3>1
    <3>4. QED
      BY <1>1, <3>2, <3>3
  <2> HIDE DEF Below
  <2>2. /\ Cardinality(Below(t)) <= Cardinality(Below(u))
        /\ Cardinality(Below(t)) # Cardinality(Below(u))
    BY <1>4, <2>1, FS_Subset
  <2>3. QED
    BY <1>4, <2>2
<1> HIDE DEF Below
<1>7. \A t \in T : 0 < t
  BY <1>1
<1>8. \A t, u \in T \cup {0} : t = u \/ t < u \/ u < t
  BY <1>1
<1>9. QED
  <2>1. /\ Gerrit!NewTicket \in Nat /\ Gerrit!NewTicket # 0
        /\ \A t \in T \cup {0} : Gerrit!Rank(t) \in Nat /\ Gerrit!Rank(t) < Gerrit!NewTicket
    BY <1>2, <1>3, <1>4
  <2>2. \A t, u \in T \cup {0} : Gerrit!Rank(t) = Gerrit!Rank(u) => t = u
    <3> SUFFICES ASSUME NEW t \in T \cup {0}, NEW u \in T \cup {0}, t < u
                 PROVE  Gerrit!Rank(t) # Gerrit!Rank(u)
      BY <1>8
    <3>1. u \in T
      BY <1>1
    <3>2. Cardinality(Below(t)) < Cardinality(Below(u))
      BY <1>6, <3>1
    <3>3. QED
      BY <1>3, <1>4, <3>2
  <2>3. Gerrit!Rank(0) = 0
    BY <1>3, <1>5
  <2>4. QED
    BY <2>1, <2>2, <2>3 DEF T

LEMMA GerritInit == Gerrit!Init => GerritIInv
<1> SUFFICES ASSUME Gerrit!Init PROVE GerritIInv
  OBVIOUS
<1>1. Gerrit!Idle \in GerritFetches /\ Gerrit!Idle.dir = {} /\ Gerrit!Idle.at = "idle"
  BY DEF Gerrit!Idle, GerritFetches
<1>2. /\ Gerrit!Unknown \in [ticket : Nat, ver : 0..MaxRemote, mine : BOOLEAN]
      /\ Gerrit!Unknown.ver = 0
  BY DEF Gerrit!Unknown
<1>3. \A f \in Gerrit!Fetchers : fetch[f] = Gerrit!Idle
  BY DEF Gerrit!Init
<1>4. \A d \in GitDirs : known[d] = Gerrit!Unknown /\ remote[d] = 0 /\ queued[d] = 0
  BY DEF Gerrit!Init
<1>5. Gerrit!TypeOK
  BY <1>1, <1>2 DEF Gerrit!Init, Gerrit!TypeOK, GerritFetches
<1>6. \A d \in GitDirs : Gerrit!Running(d) = {}
  BY <1>1, <1>3 DEF Gerrit!Running
<1>7. FetchesFit
  BY <1>1, <1>2, <1>3, <1>4 DEF FetchesFit
<1>8. QED
  BY <1>4, <1>5, <1>6, <1>7 DEF GerritIInv, TicketsDiffer, UncrossedIsNew

\* Where tickets are.
LEMMA TicketsAre ==
  /\ \A f \in Gerrit!Fetchers : fetch[f].ticket \in Gerrit!Tickets \cup {0}
  /\ \A d \in GitDirs : /\ queued[d] \in Gerrit!Tickets \cup {0}
                        /\ known[d].ticket \in Gerrit!Tickets \cup {0}
BY DEF Gerrit!Tickets

\* A fetch that begins.
LEMMA FetchBegun ==
  ASSUME NEW d \in GitDirs, NEW t \in Nat, NEW others
  PROVE  LET b == Gerrit!Begin(d, t, others) IN
         /\ b \in GerritFetches
         /\ b.at = "repo" /\ b.dir = {d} /\ b.ticket = t /\ b.ver = 0
         /\ b.crossed <=> others # {}
<1>1. Gerrit!Idle \in GerritFetches /\ Gerrit!Idle.ver = 0
  BY DEF Gerrit!Idle, GerritFetches
<1>2. QED
  BY <1>1 DEF Gerrit!Begin, GerritFetches

GerritKnown == [ticket : Nat, ver : 0..MaxRemote, mine : BOOLEAN]

LEMMA IdleIs ==
  ASSUME NEW r \in GerritFetches, r.at = "idle", r.dir = {}, r.ticket = 0, r.ver = 0,
         r.mine = FALSE, r.crossed = FALSE
  PROVE  r = Gerrit!Idle
BY DEF GerritFetches, Gerrit!Idle

\* Fetches begin and the tickets are numbered anew: they differ as before.
LEMMA Renumbered ==
  ASSUME GerritIInv, NEW S \in SUBSET Gerrit!Fetchers, NEW b \in [S -> GitDirs],
         \A f, q \in S : b[f] = b[q] => f = q,
         \A f \in S : fetch[f] = Gerrit!Idle /\ (f \in GitDirs => b[f] = f),
         Gerrit!Renumber(b), UNCHANGED remote,
         queued' = [d \in GitDirs |-> queued'[d]],
         \A d \in GitDirs : \/ queued'[d] = Gerrit!Rank(queued[d])
                            \/ queued'[d] = Gerrit!NewTicket /\ \A f \in S : b[f] # d
  PROVE  /\ known' \in [GitDirs -> GerritKnown] /\ fetch' \in [Gerrit!Fetchers -> GerritFetches]
         /\ queued' \in [GitDirs -> Nat]
         /\ FetchesFit' /\ TicketsDiffer' /\ UncrossedIsNew'
         /\ \A d \in GitDirs : known'[d].ver = known[d].ver
<1> USE DEF GerritIInv
<1>0. /\ known \in [GitDirs -> GerritKnown] /\ fetch \in [Gerrit!Fetchers -> GerritFetches]
      /\ queued \in [GitDirs -> Nat] /\ remote \in [GitDirs -> 0..MaxRemote]
      /\ GitDirs \subseteq Gerrit!Fetchers
  BY DEF Gerrit!TypeOK, GerritKnown, GerritFetches, Gerrit!Fetchers
<1>1. /\ Gerrit!NewTicket \in Nat /\ Gerrit!NewTicket # 0
      /\ \A t \in Gerrit!Tickets \cup {0} :
           /\ Gerrit!Rank(t) \in Nat /\ Gerrit!Rank(t) # Gerrit!NewTicket
           /\ Gerrit!Rank(t) = 0 <=> t = 0
      /\ \A t, u \in Gerrit!Tickets \cup {0} : Gerrit!Rank(t) = Gerrit!Rank(u) => t = u
  BY TicketPlaces
<1>2. ASSUME NEW d \in GitDirs
      PROVE  /\ known'[d] \in GerritKnown /\ known'[d].ver = known[d].ver
             /\ known'[d].ticket = Gerrit!Rank(known[d].ticket)
  <2>1. known[d] \in GerritKnown /\ Gerrit!Rank(known[d].ticket) \in Nat
    BY <1>0, <1>1, TicketsAre
  <2>2. known'[d] = [known[d] EXCEPT !.ticket = Gerrit!Rank(known[d].ticket)]
    BY DEF Gerrit!Renumber
  <2>3. QED
    BY <2>1, <2>2 DEF GerritKnown
<1>3. ASSUME NEW f \in S
      PROVE  /\ fetch'[f] \in GerritFetches /\ fetch'[f].at = "repo" /\ fetch'[f].dir = {b[f]}
             /\ fetch'[f].ticket = Gerrit!NewTicket /\ fetch'[f].ver = 0
             /\ fetch'[f].crossed <=> Gerrit!Running(b[f]) # {}
  <2>1. fetch'[f] = Gerrit!Begin(b[f], Gerrit!NewTicket, Gerrit!Running(b[f]))
    BY <1>0 DEF Gerrit!Renumber
  <2>2. QED
    BY <1>1, <2>1, FetchBegun
<1>4. ASSUME NEW f \in Gerrit!Fetchers \ S
      PROVE  /\ fetch'[f] \in GerritFetches /\ fetch'[f].at = fetch[f].at
             /\ fetch'[f].dir = fetch[f].dir /\ fetch'[f].ver = fetch[f].ver
             /\ fetch'[f].ticket = Gerrit!Rank(fetch[f].ticket)
             /\ fetch'[f].crossed <=>
                  fetch[f].crossed \/ \E q \in S : fetch[f].dir = {b[q]}
             /\ fetch[f] = Gerrit!Idle => fetch'[f] = Gerrit!Idle
  <2> DEFINE t == Gerrit!Rank(fetch[f].ticket)
             c == fetch[f].crossed \/ \E q \in S : fetch[f].dir = {b[q]}
  <2>1. fetch[f] \in GerritFetches /\ t \in Nat /\ c \in BOOLEAN
    BY <1>0, <1>1, TicketsAre
  <2>2. fetch'[f] = [fetch[f] EXCEPT !.ticket = t, !.crossed = c]
    BY <1>0 DEF Gerrit!Renumber
  <2>3. fetch[f] = Gerrit!Idle => t = 0 /\ c = FALSE
    BY <1>1 DEF Gerrit!Idle
  <2> HIDE DEF t, c
  <2>4. /\ fetch'[f] \in GerritFetches /\ fetch'[f].at = fetch[f].at
        /\ fetch'[f].dir = fetch[f].dir /\ fetch'[f].ver = fetch[f].ver
        /\ fetch'[f].ticket = t /\ fetch'[f].crossed = c
    BY <2>1, <2>2 DEF GerritFetches
  <2>5. fetch[f] = Gerrit!Idle => fetch'[f] = Gerrit!Idle
    <3>1. SUFFICES ASSUME fetch[f] = Gerrit!Idle PROVE fetch'[f] = Gerrit!Idle
      OBVIOUS
    <3>2. /\ fetch[f].at = "idle" /\ fetch[f].dir = {} /\ fetch[f].ver = 0
          /\ fetch[f].mine = FALSE
      BY <3>1 DEF Gerrit!Idle
    <3>3. fetch'[f].mine = fetch[f].mine
      BY <2>1, <2>2 DEF GerritFetches
    <3>4. /\ fetch'[f].at = "idle" /\ fetch'[f].dir = {} /\ fetch'[f].ver = 0
          /\ fetch'[f].mine = FALSE /\ fetch'[f].ticket = 0 /\ fetch'[f].crossed = FALSE
      BY <2>3, <2>4, <3>1, <3>2, <3>3
    <3>5. QED
      BY <2>4, <3>4, IdleIs
  <2>6. QED
    BY <2>4, <2>5 DEF t, c
<1>5. ASSUME NEW d \in GitDirs, NEW f \in Gerrit!Fetchers
      PROVE  /\ f \in Gerrit!Running(d)' <=>
                  f \in Gerrit!Running(d) \/ (f \in S /\ b[f] = d)
             /\ f \in Gerrit!Running(d) => f \notin S
  <2>1. f \in S => fetch[f].dir = {}
    BY DEF Gerrit!Idle
  <2>2. f \in Gerrit!Running(d)' <=> fetch'[f].dir = {d}
    BY DEF Gerrit!Running
  <2>3. f \in Gerrit!Running(d) <=> fetch[f].dir = {d}
    BY DEF Gerrit!Running
  <2>4. CASE f \in S
    BY <1>3, <2>1, <2>2, <2>3, <2>4
  <2>5. CASE f \notin S
    BY <1>4, <2>2, <2>3, <2>5
  <2>6. QED
    BY <2>4, <2>5
<1>6. /\ known' \in [GitDirs -> GerritKnown] /\ fetch' \in [Gerrit!Fetchers -> GerritFetches]
      /\ queued' \in [GitDirs -> Nat]
  <2>1. queued' \in [GitDirs -> Nat]
    BY <1>1, TicketsAre
  <2>2. known' = [d \in GitDirs |-> known'[d]] /\ fetch' = [f \in Gerrit!Fetchers |-> fetch'[f]]
    BY DEF Gerrit!Renumber
  <2>3. QED
    BY <1>2, <1>3, <1>4, <2>1, <2>2
<1>7. FetchesFit'
  <2>1. ASSUME NEW f \in Gerrit!Fetchers
        PROVE  /\ fetch'[f].at = "idle" => fetch'[f] = Gerrit!Idle
               /\ fetch'[f].at # "idle" => fetch'[f].dir # {}
               /\ \A d \in fetch'[f].dir : f \in GitDirs => f = d
               /\ \A d \in fetch'[f].dir : fetch'[f].ver <= remote'[d]
    <3>1. CASE f \in S
      <4>1. b[f] \in GitDirs /\ remote[b[f]] >= 0
        BY <1>0, <3>1
      <4>2. QED
        BY <1>3, <3>1, <4>1
    <3>2. CASE f \notin S
      BY <1>4, <3>2 DEF FetchesFit
    <3>3. QED
      BY <3>1, <3>2
  <2>2. \A d \in GitDirs : known'[d].ver <= remote'[d]
    BY <1>2 DEF FetchesFit
  <2>3. QED
    BY <2>1, <2>2 DEF FetchesFit
<1>8. TicketsDiffer'
  <2> SUFFICES ASSUME NEW d \in GitDirs
               PROVE  /\ queued'[d] # 0 => queued'[d] # known'[d].ticket
                      /\ \A f \in Gerrit!Running(d)' :
                           /\ fetch'[f].ticket \notin {0, queued'[d], known'[d].ticket}
                           /\ \A q \in Gerrit!Running(d)' :
                                fetch'[f].ticket = fetch'[q].ticket => f = q
    BY DEF TicketsDiffer
  <2>1. queued[d] \in Gerrit!Tickets \cup {0} /\ known[d].ticket \in Gerrit!Tickets \cup {0}
    BY TicketsAre
  <2>2. queued'[d] # 0 => queued'[d] # known'[d].ticket
    BY <1>1, <1>2, <2>1 DEF TicketsDiffer
  <2>3. ASSUME NEW f \in Gerrit!Running(d)
        PROVE  /\ f \in Gerrit!Fetchers \ S /\ fetch[f].ticket \in Gerrit!Tickets
               /\ fetch[f].ticket \notin {0, queued[d], known[d].ticket}
               /\ fetch'[f].ticket = Gerrit!Rank(fetch[f].ticket)
    <3>1. f \in Gerrit!Fetchers
      BY DEF Gerrit!Running
    <3>2. QED
      BY <1>4, <1>5, <3>1, TicketsAre DEF TicketsDiffer
  <2>4. ASSUME NEW f \in Gerrit!Running(d)'
        PROVE  fetch'[f].ticket \notin {0, queued'[d], known'[d].ticket}
    <3>1. f \in Gerrit!Fetchers
      BY DEF Gerrit!Running
    <3>2. CASE f \in Gerrit!Running(d)
      BY <1>1, <1>2, <2>1, <2>3, <3>2
    <3>3. CASE f \in S /\ b[f] = d
      BY <1>1, <1>2, <1>3, <2>1, <3>3
    <3>4. QED
      BY <1>5, <3>1, <3>2, <3>3
  <2>5. ASSUME NEW f \in Gerrit!Running(d)', NEW q \in Gerrit!Running(d)',
               fetch'[f].ticket = fetch'[q].ticket
        PROVE  f = q
    <3>1. f \in Gerrit!Fetchers /\ q \in Gerrit!Fetchers
      BY DEF Gerrit!Running
    <3>2. f \in S <=> q \in S
      BY <1>1, <1>3, <1>5, <2>3, <2>5, <3>1
    <3>3. CASE f \in S
      BY <1>5, <3>1, <3>2, <3>3
    <3>4. CASE f \notin S
      <4>1. f \in Gerrit!Running(d) /\ q \in Gerrit!Running(d)
        BY <1>5, <3>1, <3>2, <3>4
      <4>2. fetch[f].ticket = fetch[q].ticket
        BY <1>1, <2>3, <2>5, <4>1
      <4>3. QED
        BY <4>1, <4>2 DEF TicketsDiffer
    <3>5. QED
      BY <3>3, <3>4
  <2>6. QED
    BY <2>2, <2>4, <2>5
<1>9. UncrossedIsNew'
  <2> SUFFICES ASSUME NEW d \in GitDirs, NEW f \in Gerrit!Running(d)', ~fetch'[f].crossed
               PROVE  /\ Gerrit!Running(d)' = {f}
                      /\ fetch'[f].at \in {"drafts", "apply"} =>
                           known'[d].ver <= fetch'[f].ver
    BY DEF UncrossedIsNew
  <2>1. f \in Gerrit!Fetchers /\ Gerrit!Running(d)' \subseteq Gerrit!Fetchers
    BY DEF Gerrit!Running
  <2>2. CASE f \in S /\ b[f] = d
    <3>1. Gerrit!Running(d) = {} /\ fetch'[f].at = "repo"
      BY <1>3, <2>2
    <3>2. QED
      BY <1>5, <2>1, <2>2, <3>1
  <2>3. CASE f \in Gerrit!Running(d)
    <3>1. f \notin S /\ ~fetch[f].crossed /\ \A q \in S : b[q] # d
      BY <1>4, <1>5, <2>1, <2>3 DEF Gerrit!Running
    <3>2. /\ Gerrit!Running(d) = {f}
          /\ fetch[f].at \in {"drafts", "apply"} => known[d].ver <= fetch[f].ver
      BY <2>3, <3>1 DEF UncrossedIsNew
    <3>3. Gerrit!Running(d)' = {f}
      BY <1>5, <2>1, <3>1, <3>2
    <3>4. QED
      BY <1>2, <1>4, <2>1, <3>1, <3>2, <3>3
  <2>4. QED
    BY <1>5, <2>1, <2>2, <2>3
<1>10. QED
  BY <1>2, <1>6, <1>7, <1>8, <1>9

\* A fetch goes on: it stays that of its directory, with its ticket; what Gerrit
\* answers is what there is.
LEMMA FetchGoes ==
  ASSUME GerritIInv, NEW f \in Gerrit!Fetchers, NEW to \in GerritFetches,
         fetch[f].at # "idle", to.at # "idle", to.dir = fetch[f].dir,
         to.ticket = fetch[f].ticket, to.crossed = fetch[f].crossed,
         \/ to.ver = fetch[f].ver /\ (to.at \in {"drafts", "apply"} => fetch[f].at = "drafts")
         \/ \A d \in fetch[f].dir : to.ver = remote[d],
         fetch' = [fetch EXCEPT ![f] = to], UNCHANGED <<remote, known, queued>>
  PROVE  /\ fetch' \in [Gerrit!Fetchers -> GerritFetches]
         /\ FetchesFit' /\ TicketsDiffer' /\ UncrossedIsNew'
<1> USE DEF GerritIInv
<1>0. /\ fetch \in [Gerrit!Fetchers -> GerritFetches] /\ remote \in [GitDirs -> 0..MaxRemote]
      /\ known \in [GitDirs -> GerritKnown]
  BY DEF Gerrit!TypeOK, GerritKnown, GerritFetches
<1>1. /\ fetch' \in [Gerrit!Fetchers -> GerritFetches] /\ fetch'[f] = to
      /\ \A q \in Gerrit!Fetchers \ {f} : fetch'[q] = fetch[q]
      /\ \A q \in Gerrit!Fetchers : /\ fetch'[q].dir = fetch[q].dir
                                    /\ fetch'[q].ticket = fetch[q].ticket
                                    /\ fetch'[q].crossed = fetch[q].crossed
  BY <1>0
<1>2. ASSUME NEW d \in GitDirs
      PROVE  Gerrit!Running(d)' = Gerrit!Running(d) /\ Gerrit!Running(d) \subseteq Gerrit!Fetchers
  BY <1>1 DEF Gerrit!Running
<1>3. FetchesFit'
  <2>1. ASSUME NEW d \in to.dir PROVE d \in GitDirs /\ to.ver <= remote[d]
    <3>1. d \in GitDirs
      BY DEF GerritFetches
    <3>2. remote[d] \in Nat /\ fetch[f].ver <= remote[d]
      BY <1>0, <3>1 DEF FetchesFit
    <3>3. QED
      BY <3>1, <3>2
  <2>2. QED
    BY <1>1, <2>1 DEF FetchesFit
<1>4. TicketsDiffer'
  BY <1>1, <1>2 DEF TicketsDiffer
<1>5. UncrossedIsNew'
  <2> SUFFICES ASSUME NEW d \in GitDirs, NEW q \in Gerrit!Running(d), ~fetch'[q].crossed,
                      fetch'[q].at \in {"drafts", "apply"}
               PROVE  known[d].ver <= fetch'[q].ver
    BY <1>1, <1>2 DEF UncrossedIsNew
  <2>1. /\ q \in Gerrit!Fetchers /\ ~fetch[q].crossed /\ fetch[q].dir = {d}
        /\ known[d].ver <= remote[d]
        /\ fetch[q].at \in {"drafts", "apply"} => known[d].ver <= fetch[q].ver
    BY <1>1, <1>2 DEF UncrossedIsNew, FetchesFit, Gerrit!Running
  <2>2. QED
    BY <1>1, <2>1
<1>6. QED
  BY <1>1, <1>3, <1>4, <1>5

\* A fetch ends, with its answer or without; the waiting request of a JobManager
\* begins.
LEMMA FetchEnds ==
  ASSUME GerritIInv, NEW f \in Gerrit!Fetchers, NEW d \in GitDirs, fetch[f].dir = {d},
         Gerrit!Ends(f), UNCHANGED remote,
         \/ known' = known
         \/ /\ fetch[f].at = "apply" /\ known' \in [GitDirs -> GerritKnown]
            /\ \A e \in GitDirs \ {d} : known'[e] = known[e]
            /\ known'[d].ticket = fetch[f].ticket /\ known'[d].ver = fetch[f].ver
  PROVE  /\ known' \in [GitDirs -> GerritKnown] /\ fetch' \in [Gerrit!Fetchers -> GerritFetches]
         /\ queued' \in [GitDirs -> Nat]
         /\ FetchesFit' /\ TicketsDiffer' /\ UncrossedIsNew'
<1> USE DEF GerritIInv
<1>0. /\ fetch \in [Gerrit!Fetchers -> GerritFetches] /\ remote \in [GitDirs -> 0..MaxRemote]
      /\ known \in [GitDirs -> GerritKnown] /\ queued \in [GitDirs -> Nat]
      /\ GitDirs \subseteq Gerrit!Fetchers
  BY DEF Gerrit!TypeOK, GerritKnown, GerritFetches, Gerrit!Fetchers
<1>1. /\ f \in GitDirs => f = d
      /\ f \in Gerrit!Running(d) /\ \A e \in GitDirs \ {d} : f \notin Gerrit!Running(e)
      /\ fetch[f].ver <= remote[d]
  BY DEF FetchesFit, Gerrit!Running
<1>2. /\ Gerrit!Idle \in GerritFetches /\ Gerrit!Idle.dir = {} /\ Gerrit!Idle.at = "idle"
  BY DEF Gerrit!Idle, GerritFetches
<1>3. /\ fetch' = [fetch EXCEPT ![f] = fetch'[f]] /\ fetch'[f] \in GerritFetches
      /\ queued' \in [GitDirs -> Nat] /\ \A e \in GitDirs \ {d} : queued'[e] = queued[e]
      /\ \/ fetch'[f] = Gerrit!Idle /\ fetch'[f].dir = {} /\ queued'[d] = queued[d]
         \/ /\ f = d /\ queued[d] # 0 /\ queued'[d] = 0
            /\ fetch'[f].at = "repo" /\ fetch'[f].dir = {d} /\ fetch'[f].ver = 0
            /\ fetch'[f].ticket = queued[d]
            /\ fetch'[f].crossed <=> Gerrit!Running(d) \ {f} # {}
  <2>1. CASE f \in GitDirs /\ queued[f] # 0
    <3> DEFINE others == Gerrit!Running(f) \ {f}
    <3>1. /\ fetch' = [fetch EXCEPT ![f] = fetch'[f]] /\ queued' = [queued EXCEPT ![f] = 0]
          /\ fetch'[f] = Gerrit!Begin(f, queued[f], others)
      BY <1>0, <2>1 DEF Gerrit!Ends
    <3>2. /\ fetch'[f] \in GerritFetches /\ fetch'[f].at = "repo" /\ fetch'[f].dir = {f}
          /\ fetch'[f].ver = 0 /\ fetch'[f].ticket = queued[f]
          /\ fetch'[f].crossed <=> others # {}
      <4> HIDE DEF others
      <4>1. f \in GitDirs /\ queued[f] \in Nat
        BY <1>0, <2>1
      <4>2. QED
        BY <3>1, <4>1, FetchBegun
    <3>3. QED
      BY <1>0, <1>1, <2>1, <3>1, <3>2
  <2>2. CASE ~(f \in GitDirs /\ queued[f] # 0)
    BY <1>0, <1>2, <2>2 DEF Gerrit!Ends
  <2>3. QED
    BY <2>1, <2>2
<1>4. /\ fetch' \in [Gerrit!Fetchers -> GerritFetches]
      /\ \A q \in Gerrit!Fetchers \ {f} : fetch'[q] = fetch[q]
  BY <1>0, <1>3
<1>5. /\ known' \in [GitDirs -> GerritKnown]
      /\ \A e \in GitDirs \ {d} : known'[e] = known[e]
      /\ \/ known'[d] = known[d]
         \/ /\ fetch[f].at = "apply" /\ known'[d].ticket = fetch[f].ticket
            /\ known'[d].ver = fetch[f].ver
  BY <1>0
<1>6. ASSUME NEW e \in GitDirs, NEW q \in Gerrit!Fetchers
      PROVE  /\ q # f => (q \in Gerrit!Running(e)' <=> q \in Gerrit!Running(e))
             /\ f \in Gerrit!Running(e)' => e = d /\ f = d /\ queued[d] # 0 /\ queued'[d] = 0
  BY <1>2, <1>3, <1>4 DEF Gerrit!Running
<1>7. \A e \in GitDirs : Gerrit!Running(e) \subseteq Gerrit!Fetchers
                         /\ Gerrit!Running(e)' \subseteq Gerrit!Fetchers
  BY DEF Gerrit!Running
<1>8. FetchesFit'
  <2>1. ASSUME NEW q \in Gerrit!Fetchers
        PROVE  /\ fetch'[q].at = "idle" => fetch'[q] = Gerrit!Idle
               /\ fetch'[q].at # "idle" => fetch'[q].dir # {}
               /\ \A e \in fetch'[q].dir : q \in GitDirs => q = e
               /\ \A e \in fetch'[q].dir : fetch'[q].ver <= remote'[e]
    <3>1. CASE q = f
      BY <1>0, <1>2, <1>3, <3>1
    <3>2. CASE q # f
      BY <1>4, <3>2 DEF FetchesFit
    <3>3. QED
      BY <3>1, <3>2
  <2>2. \A e \in GitDirs : known'[e].ver <= remote'[e]
    BY <1>1, <1>5 DEF FetchesFit
  <2>3. QED
    BY <2>1, <2>2 DEF FetchesFit
<1>9. TicketsDiffer'
  <2> SUFFICES ASSUME NEW e \in GitDirs
               PROVE  /\ queued'[e] # 0 => queued'[e] # known'[e].ticket
                      /\ \A q \in Gerrit!Running(e)' :
                           /\ fetch'[q].ticket \notin {0, queued'[e], known'[e].ticket}
                           /\ \A h \in Gerrit!Running(e)' :
                                fetch'[q].ticket = fetch'[h].ticket => q = h
    BY DEF TicketsDiffer
  <2>1. /\ queued[e] # 0 => queued[e] # known[e].ticket
        /\ \A q \in Gerrit!Running(e) :
             /\ fetch[q].ticket \notin {0, queued[e], known[e].ticket}
             /\ \A h \in Gerrit!Running(e) : fetch[q].ticket = fetch[h].ticket => q = h
    BY DEF TicketsDiffer
  <2>2. queued'[e] # 0 => queued'[e] # known'[e].ticket
    BY <1>1, <1>3, <1>5, <2>1
  <2>3. ASSUME NEW q \in Gerrit!Running(e)'
        PROVE  fetch'[q].ticket \notin {0, queued'[e], known'[e].ticket}
    <3>1. CASE q = f
      BY <1>1, <1>3, <1>5, <1>6, <2>1, <2>3, <3>1
    <3>2. CASE q # f
      <4>1. /\ q \in Gerrit!Running(e) /\ fetch'[q] = fetch[q]
            /\ e = d => fetch[q].ticket # fetch[f].ticket
        BY <1>1, <1>4, <1>6, <1>7, <2>1, <3>2
      <4>2. QED
        BY <1>3, <1>5, <2>1, <4>1
    <3>3. QED
      BY <3>1, <3>2
  <2>4. ASSUME NEW q \in Gerrit!Running(e)', NEW h \in Gerrit!Running(e)', q # h
        PROVE  fetch'[q].ticket # fetch'[h].ticket
    <3>1. ASSUME NEW k \in Gerrit!Running(e)', k # f
          PROVE  /\ k \in Gerrit!Running(e) /\ fetch'[k] = fetch[k]
                 /\ f \in Gerrit!Running(e)' => fetch'[f].ticket # fetch'[k].ticket
      <4>1. k \in Gerrit!Running(e) /\ fetch'[k] = fetch[k]
        BY <1>4, <1>6, <1>7, <3>1
      <4>2. f \in Gerrit!Running(e)' => fetch'[f].ticket = queued[e] /\ queued[e] # 0
        BY <1>2, <1>3, <1>6
      <4>3. QED
        BY <2>1, <4>1, <4>2
    <3>2. CASE q = f \/ h = f
      BY <2>4, <3>1, <3>2
    <3>3. CASE q # f /\ h # f
      BY <2>1, <2>4, <3>1, <3>3
    <3>4. QED
      BY <3>2, <3>3
  <2>5. QED
    BY <2>2, <2>3, <2>4
<1>10. UncrossedIsNew'
  <2> SUFFICES ASSUME NEW e \in GitDirs, NEW q \in Gerrit!Running(e)', ~fetch'[q].crossed
               PROVE  /\ Gerrit!Running(e)' = {q}
                      /\ fetch'[q].at \in {"drafts", "apply"} =>
                           known'[e].ver <= fetch'[q].ver
    BY DEF UncrossedIsNew
  <2>1. CASE q = f
    <3>1. e = d /\ fetch'[f].at = "repo" /\ Gerrit!Running(d) \ {f} = {}
      BY <1>2, <1>3, <1>6, <2>1
    <3>2. QED
      BY <1>6, <1>7, <2>1, <3>1
  <2>2. CASE q # f
    <3>1. q \in Gerrit!Running(e) /\ fetch'[q] = fetch[q]
      BY <1>4, <1>6, <1>7, <2>2
    <3>2. /\ Gerrit!Running(e) = {q}
          /\ fetch[q].at \in {"drafts", "apply"} => known[e].ver <= fetch[q].ver
      BY <3>1 DEF UncrossedIsNew
    <3>3. e # d
      BY <1>1, <2>2, <3>2
    <3>4. QED
      BY <1>5, <1>6, <1>7, <3>1, <3>2, <3>3
  <2>3. QED
    BY <2>1, <2>2
<1>11. QED
  BY <1>3, <1>4, <1>5, <1>8, <1>9, <1>10

LEMMA GerritTypes ==
  Gerrit!TypeOK <=>
    /\ remote \in [GitDirs -> 0..MaxRemote] /\ visible \subseteq GitDirs
    /\ gitHead \in Commits \cup {NoHead} /\ known \in [GitDirs -> GerritKnown]
    /\ fetch \in [Gerrit!Fetchers -> GerritFetches] /\ queued \in [GitDirs -> Nat]
    /\ rest \in [Refreshers -> SUBSET GitDirs] /\ outage \in BOOLEAN
BY DEF Gerrit!TypeOK, GerritKnown, GerritFetches

\* A request for the directories of D.
LEMMA Requested ==
  ASSUME GerritIInv, NEW D \in SUBSET GitDirs, Gerrit!RequestFetch(D), UNCHANGED remote
  PROVE  /\ known' \in [GitDirs -> GerritKnown] /\ fetch' \in [Gerrit!Fetchers -> GerritFetches]
         /\ queued' \in [GitDirs -> Nat]
         /\ FetchesFit' /\ TicketsDiffer' /\ UncrossedIsNew'
         /\ \A d \in GitDirs : known'[d].ver = known[d].ver
<1> DEFINE S == {d \in D : fetch[d] = Gerrit!Idle}
           b == [d \in S |-> d]
<1>1. /\ Gerrit!Renumber(b)
      /\ queued' = [d \in GitDirs |-> IF d \in D \ S THEN Gerrit!NewTicket
                                                      ELSE Gerrit!Rank(queued[d])]
  BY DEF Gerrit!RequestFetch
<1>2. /\ S \in SUBSET Gerrit!Fetchers /\ b \in [S -> GitDirs]
      /\ \A f, q \in S : b[f] = b[q] => f = q
      /\ \A f \in S : fetch[f] = Gerrit!Idle /\ (f \in GitDirs => b[f] = f)
      /\ \A f \in S : b[f] \in S
  BY DEF Gerrit!Fetchers
<1> HIDE DEF S, b
<1>3. /\ queued' = [d \in GitDirs |-> queued'[d]]
      /\ \A d \in GitDirs : \/ queued'[d] = Gerrit!Rank(queued[d])
                            \/ queued'[d] = Gerrit!NewTicket /\ \A f \in S : b[f] # d
  BY <1>1, <1>2
<1>4. QED
  BY <1>1, <1>2, <1>3, Renumbered

\* An entry goes back only by the answer to a newer request that was crossed.
BackOnlyCrossed ==
  \A d \in GitDirs : known'[d].ver < known[d].ver =>
    /\ known'[d].ticket > known[d].ticket
    /\ \E f \in Gerrit!Fetchers :
         fetch[f].dir = {d} /\ fetch[f].at = "apply" /\ fetch[f].crossed

LEMMA FetchStepKeeps ==
  ASSUME GerritIInv, NEW f \in Gerrit!Fetchers, Gerrit!FetchStep(f)
  PROVE  GerritIInv' /\ BackOnlyCrossed
<1> USE DEF GerritIInv
<1>0. /\ fetch \in [Gerrit!Fetchers -> GerritFetches] /\ remote \in [GitDirs -> 0..MaxRemote]
      /\ known \in [GitDirs -> GerritKnown] /\ queued \in [GitDirs -> Nat]
      /\ fetch[f] \in GerritFetches
      /\ \A d \in GitDirs : known[d].ver \in Nat
  BY GerritTypes DEF GerritKnown
<1>1. ASSUME NEW from, NEW to, Gerrit!Goes(f, from, to), from # "idle",
             to \in GerritFetches, to.at # "idle", to.dir = fetch[f].dir,
             to.ticket = fetch[f].ticket, to.crossed = fetch[f].crossed,
             \/ /\ to.ver = fetch[f].ver
                /\ to.at \in {"drafts", "apply"} => fetch[f].at = "drafts"
             \/ \A d \in fetch[f].dir : to.ver = remote[d]
      PROVE  GerritIInv' /\ BackOnlyCrossed
  <2>1. /\ fetch[f].at # "idle" /\ fetch' = [fetch EXCEPT ![f] = to]
        /\ UNCHANGED <<remote, visible, gitHead, known, queued, rest, outage>>
    BY <1>1 DEF Gerrit!Goes
  <2>2. /\ fetch' \in [Gerrit!Fetchers -> GerritFetches]
        /\ FetchesFit' /\ TicketsDiffer' /\ UncrossedIsNew'
    BY <1>1, <2>1, FetchGoes
  <2>3. Gerrit!TypeOK'
    BY <2>1, <2>2 DEF Gerrit!TypeOK, GerritFetches
  <2>4. QED
    BY <1>0, <2>1, <2>2, <2>3 DEF BackOnlyCrossed
<1>2. ASSUME NEW found \in BOOLEAN, Gerrit!RepoFound(f, found)
      PROVE  GerritIInv' /\ BackOnlyCrossed
  BY <1>0, <1>1, <1>2 DEF Gerrit!RepoFound, GerritFetches
<1>3. ASSUME NEW found \in BOOLEAN, Gerrit!IssueAnswered(f, found)
      PROVE  GerritIInv' /\ BackOnlyCrossed
  BY <1>0, <1>1, <1>3 DEF Gerrit!IssueAnswered, GerritFetches
<1>4. ASSUME NEW found \in BOOLEAN, Gerrit!DraftsAnswered(f, found)
      PROVE  GerritIInv' /\ BackOnlyCrossed
  <2> DEFINE to == [fetch[f] EXCEPT !.at = "apply", !.mine = found]
  <2>1. Gerrit!Goes(f, "drafts", to) /\ fetch[f].at = "drafts"
    BY <1>4 DEF Gerrit!DraftsAnswered, Gerrit!Goes
  <2>2. /\ to \in GerritFetches /\ to.at = "apply" /\ to.dir = fetch[f].dir
        /\ to.ticket = fetch[f].ticket /\ to.crossed = fetch[f].crossed
        /\ to.ver = fetch[f].ver
    BY <1>0 DEF GerritFetches
  <2> HIDE DEF to
  <2>3. QED
    BY <1>1, <2>1, <2>2
<1>5. CASE Gerrit!LogFound(f)
  BY <1>0, <1>1, <1>5 DEF Gerrit!LogFound, GerritFetches
<1>6. ASSUME NEW c \in Gerrit!Credentials, Gerrit!AccountAnswered(f, c)
      PROVE  GerritIInv' /\ BackOnlyCrossed
  <2> DEFINE mine == c # "rejected"
             to == [fetch[f] EXCEPT !.at = "change", !.mine = mine]
  <2>1. Gerrit!Goes(f, "account", to) /\ mine \in BOOLEAN
    BY <1>6 DEF Gerrit!AccountAnswered
  <2> HIDE DEF mine
  <2>2. /\ to \in GerritFetches /\ to.at = "change" /\ to.dir = fetch[f].dir
        /\ to.ticket = fetch[f].ticket /\ to.crossed = fetch[f].crossed
        /\ to.ver = fetch[f].ver
    BY <1>0, <2>1 DEF GerritFetches
  <2> HIDE DEF to
  <2>3. QED
    BY <1>1, <2>1, <2>2
<1>7. CASE Gerrit!Answered(f)
  <2>1. PICK d \in fetch[f].dir :
          Gerrit!Goes(f, "change", [fetch[f] EXCEPT
            !.at = IF fetch[f].mine THEN "drafts" ELSE "apply", !.ver = remote[d]])
    BY <1>7 DEF Gerrit!Answered
  <2>2. d \in GitDirs /\ fetch[f].dir = {d} /\ remote[d] \in 0..MaxRemote
    BY <1>0 DEF GerritFetches
  <2> DEFINE next == IF fetch[f].mine THEN "drafts" ELSE "apply"
             to == [fetch[f] EXCEPT !.at = next, !.ver = remote[d]]
  <2>3. Gerrit!Goes(f, "change", to) /\ next \in {"drafts", "apply"}
    BY <2>1
  <2> HIDE DEF next
  <2>4. /\ to \in GerritFetches /\ to.at = next /\ to.dir = fetch[f].dir
        /\ to.ticket = fetch[f].ticket /\ to.crossed = fetch[f].crossed
        /\ to.ver = remote[d]
    BY <1>0, <2>2, <2>3 DEF GerritFetches
  <2> HIDE DEF to
  <2>5. QED
    BY <1>1, <2>2, <2>3, <2>4
<1>8. ASSUME fetch[f].at # "idle", Gerrit!Ends(f),
             UNCHANGED <<remote, visible, gitHead, known, rest, outage>>
      PROVE  GerritIInv' /\ BackOnlyCrossed
  <2>1. PICK d \in GitDirs : fetch[f].dir = {d}
    BY <1>0, <1>8 DEF FetchesFit, GerritFetches
  <2>2. /\ fetch' \in [Gerrit!Fetchers -> GerritFetches] /\ queued' \in [GitDirs -> Nat]
        /\ FetchesFit' /\ TicketsDiffer' /\ UncrossedIsNew'
    BY <1>8, <2>1, FetchEnds
  <2>3. Gerrit!TypeOK'
    BY <1>8, <2>2 DEF Gerrit!TypeOK, GerritFetches
  <2>4. QED
    BY <1>0, <1>8, <2>2, <2>3 DEF BackOnlyCrossed
<1>9. CASE Gerrit!NothingToFetch(f) \/ Gerrit!FetchThrows(f)
  BY <1>8, <1>9 DEF Gerrit!NothingToFetch, Gerrit!FetchThrows
<1>10. CASE Gerrit!Apply(f)
  <2>1. PICK d \in fetch[f].dir :
          LET stale == known[d].ticket > fetch[f].ticket
              same == /\ known[d].ticket # 0
                      /\ known[d].ver = fetch[f].ver /\ known[d].mine = fetch[f].mine
          IN known' = IF stale \/ same THEN known
                      ELSE [known EXCEPT ![d] = [ticket |-> fetch[f].ticket,
                              ver |-> fetch[f].ver, mine |-> fetch[f].mine]]
    BY <1>10 DEF Gerrit!Apply
  <2>2. /\ d \in GitDirs /\ fetch[f].dir = {d} /\ fetch[f].at = "apply" /\ Gerrit!Ends(f)
        /\ UNCHANGED <<remote, visible, gitHead, rest, outage>>
    BY <1>0, <1>10 DEF Gerrit!Apply, GerritFetches
  <2>3. \/ known' = known
        \/ /\ known[d].ticket <= fetch[f].ticket
           /\ known' \in [GitDirs -> GerritKnown]
           /\ \A e \in GitDirs \ {d} : known'[e] = known[e]
           /\ known'[d].ticket = fetch[f].ticket /\ known'[d].ver = fetch[f].ver
    <3> DEFINE entry == [ticket |-> fetch[f].ticket, ver |-> fetch[f].ver,
                         mine |-> fetch[f].mine]
    <3>1. /\ entry \in GerritKnown /\ entry.ticket = fetch[f].ticket
          /\ entry.ver = fetch[f].ver
      BY <1>0 DEF GerritKnown, GerritFetches
    <3>2. \/ known' = known
          \/ ~(known[d].ticket > fetch[f].ticket) /\ known' = [known EXCEPT ![d] = entry]
      BY <2>1
    <3> HIDE DEF entry
    <3>3. known[d].ticket \in Nat /\ fetch[f].ticket \in Nat
      BY <1>0, <2>2 DEF GerritKnown, GerritFetches
    <3>4. QED
      BY <1>0, <2>2, <3>1, <3>2, <3>3
  <2>4. /\ fetch' \in [Gerrit!Fetchers -> GerritFetches] /\ queued' \in [GitDirs -> Nat]
        /\ known' \in [GitDirs -> GerritKnown]
        /\ FetchesFit' /\ TicketsDiffer' /\ UncrossedIsNew'
    BY <2>2, <2>3, FetchEnds
  <2>5. Gerrit!TypeOK'
    BY <2>2, <2>4 DEF Gerrit!TypeOK, GerritFetches, GerritKnown
  <2>6. BackOnlyCrossed
    <3> SUFFICES ASSUME NEW e \in GitDirs, known'[e].ver < known[e].ver
                 PROVE  /\ known'[e].ticket > known[e].ticket
                        /\ fetch[f].dir = {e} /\ fetch[f].crossed
      BY <2>2 DEF BackOnlyCrossed
    <3>1. e = d /\ known[d].ticket <= fetch[f].ticket /\ known'[d].ticket = fetch[f].ticket
          /\ known'[d].ver = fetch[f].ver
      BY <1>0, <2>3
    <3>2. f \in Gerrit!Running(d) /\ known[d].ticket \in Nat /\ fetch[f].ticket \in Nat
          /\ known[d].ver \in Nat /\ fetch[f].ver \in Nat
      BY <1>0, <2>2 DEF Gerrit!Running, GerritKnown, GerritFetches
    <3>3. fetch[f].ticket # known[d].ticket
      BY <2>2, <3>2 DEF TicketsDiffer
    <3>4. fetch[f].crossed
      BY <2>2, <3>1, <3>2 DEF UncrossedIsNew
    <3>5. QED
      BY <2>2, <3>1, <3>2, <3>3, <3>4
  <2>7. QED
    BY <2>4, <2>5, <2>6
<1>11. QED
  BY <1>2, <1>3, <1>4, <1>5, <1>6, <1>7, <1>9, <1>10 DEF Gerrit!FetchStep

LEMMA GerritStep ==
  ASSUME GerritIInv, [Gerrit!Next]_gerritVars
  PROVE  GerritIInv' /\ BackOnlyCrossed
<1> USE DEF GerritIInv
<1>0. /\ fetch \in [Gerrit!Fetchers -> GerritFetches] /\ remote \in [GitDirs -> 0..MaxRemote]
      /\ known \in [GitDirs -> GerritKnown] /\ queued \in [GitDirs -> Nat]
      /\ \A d \in GitDirs : known[d].ver \in Nat
  BY GerritTypes DEF GerritKnown
<1>1. ASSUME UNCHANGED <<known, fetch, queued>>, remote' \in [GitDirs -> 0..MaxRemote],
             \A d \in GitDirs : remote[d] <= remote'[d], Gerrit!TypeOK'
      PROVE  GerritIInv' /\ BackOnlyCrossed
  <2>1. \A d \in GitDirs : Gerrit!Running(d)' = Gerrit!Running(d)
    BY <1>1 DEF Gerrit!Running
  <2>2. FetchesFit'
    <3>1. \A d \in GitDirs : known'[d].ver <= remote'[d]
      BY <1>0, <1>1 DEF FetchesFit, GerritKnown
    <3>2. ASSUME NEW f \in Gerrit!Fetchers, NEW d \in fetch[f].dir
          PROVE  fetch[f].ver <= remote'[d]
      BY <1>0, <1>1 DEF FetchesFit, GerritFetches
    <3>3. QED
      BY <1>1, <3>1, <3>2 DEF FetchesFit
  <2>3. TicketsDiffer' /\ UncrossedIsNew'
    BY <1>1, <2>1 DEF TicketsDiffer, UncrossedIsNew
  <2>4. BackOnlyCrossed
    BY <1>0, <1>1 DEF BackOnlyCrossed
  <2>5. QED
    BY <1>1, <2>2, <2>3, <2>4
<1>2. ASSUME known' \in [GitDirs -> GerritKnown], fetch' \in [Gerrit!Fetchers -> GerritFetches],
             queued' \in [GitDirs -> Nat], FetchesFit', TicketsDiffer', UncrossedIsNew',
             \A d \in GitDirs : known'[d].ver = known[d].ver,
             UNCHANGED <<remote, visible, outage>>, gitHead' \in Commits \cup {NoHead},
             rest' \in [Refreshers -> SUBSET GitDirs]
      PROVE  GerritIInv' /\ BackOnlyCrossed
  <2>1. Gerrit!TypeOK'
    BY <1>2 DEF Gerrit!TypeOK, GerritFetches, GerritKnown
  <2>2. QED
    BY <1>0, <1>2, <2>1 DEF BackOnlyCrossed
<1>3. ASSUME NEW d \in GitDirs, Gerrit!RemoteChanges(d)
      PROVE  GerritIInv' /\ BackOnlyCrossed
  <2>1. /\ remote' \in [GitDirs -> 0..MaxRemote] /\ \A e \in GitDirs : remote[e] <= remote'[e]
    BY <1>0, <1>3 DEF Gerrit!RemoteChanges
  <2>2. Gerrit!TypeOK'
    BY <1>3, <2>1 DEF Gerrit!RemoteChanges, Gerrit!TypeOK
  <2>3. QED
    BY <1>1, <1>3, <2>1, <2>2 DEF Gerrit!RemoteChanges
<1>4. ASSUME UNCHANGED <<remote, gitHead, known, fetch, queued>>,
             visible' \subseteq GitDirs, rest' \in [Refreshers -> SUBSET GitDirs],
             outage' \in BOOLEAN
      PROVE  GerritIInv' /\ BackOnlyCrossed
  <2>1. Gerrit!TypeOK' /\ \A d \in GitDirs : remote[d] <= remote'[d]
    BY <1>0, <1>4 DEF Gerrit!TypeOK
  <2>2. QED
    BY <1>0, <1>1, <1>4, <2>1
<1>5. ASSUME NEW d \in GitDirs, Gerrit!VisibleChanges(d)
      PROVE  GerritIInv' /\ BackOnlyCrossed
  BY <1>4, <1>5 DEF Gerrit!VisibleChanges, Gerrit!TypeOK
<1>6. ASSUME NEW d \in GitDirs, NEW h \in Commits, Gerrit!HeadEvent(d, h)
      PROVE  GerritIInv' /\ BackOnlyCrossed
  BY <1>2, <1>6, Requested DEF Gerrit!HeadEvent, Gerrit!TypeOK
<1>7. CASE Gerrit!Tick
  BY <1>2, <1>7, Requested DEF Gerrit!Tick, Gerrit!RequestRefresh, Gerrit!TypeOK
<1>8. CASE Gerrit!Recovers
  BY <1>4, <1>8 DEF Gerrit!Recovers, Gerrit!TypeOK
<1>9. ASSUME NEW r \in Refreshers, Gerrit!DraftCommand(r)
      PROVE  GerritIInv' /\ BackOnlyCrossed
  BY <1>4, <1>9 DEF Gerrit!DraftCommand, Gerrit!TypeOK
<1>10. ASSUME NEW r \in Refreshers, Gerrit!RefreshNext(r)
       PROVE  GerritIInv' /\ BackOnlyCrossed
  <2>1. PICK d \in rest[r] :
          /\ fetch[r] = Gerrit!Idle /\ rest' = [rest EXCEPT ![r] = @ \ {d}]
          /\ Gerrit!Renumber([s \in {r} |-> d])
          /\ queued' = [e \in GitDirs |-> Gerrit!Rank(queued[e])]
          /\ UNCHANGED <<remote, visible, gitHead, outage>>
    BY <1>10 DEF Gerrit!RefreshNext
  <2>2. /\ d \in GitDirs /\ r \in Gerrit!Fetchers /\ r \notin GitDirs
        /\ rest' \in [Refreshers -> SUBSET GitDirs]
    BY <2>1 DEF Gerrit!TypeOK, Gerrit!Fetchers
  <2>3. /\ known' \in [GitDirs -> GerritKnown] /\ fetch' \in [Gerrit!Fetchers -> GerritFetches]
        /\ queued' \in [GitDirs -> Nat]
        /\ FetchesFit' /\ TicketsDiffer' /\ UncrossedIsNew'
        /\ \A e \in GitDirs : known'[e].ver = known[e].ver
    <3> DEFINE S == {r}
               b == [s \in S |-> d]
    <3>1. /\ S \in SUBSET Gerrit!Fetchers /\ b \in [S -> GitDirs] /\ Gerrit!Renumber(b)
          /\ \A f, q \in S : b[f] = b[q] => f = q
          /\ \A f \in S : fetch[f] = Gerrit!Idle /\ (f \in GitDirs => b[f] = f)
      BY <2>1, <2>2
    <3>2. /\ queued' = [e \in GitDirs |-> queued'[e]]
          /\ \A e \in GitDirs : queued'[e] = Gerrit!Rank(queued[e])
      BY <2>1
    <3> HIDE DEF S, b
    <3>3. QED
      BY <2>1, <3>1, <3>2, Renumbered
  <2>4. gitHead' \in Commits \cup {NoHead}
    BY <2>1 DEF Gerrit!TypeOK
  <2>5. QED
    BY <1>2, <2>1, <2>2, <2>3, <2>4
<1>11. CASE UNCHANGED gerritVars
  BY <1>4, <1>11 DEF gerritVars, Gerrit!TypeOK
<1>12. QED
  BY <1>3, <1>5, <1>6, <1>7, <1>8, <1>9, <1>10, <1>11, FetchStepKeeps DEF Gerrit!Next

-----------------------------------------------------------------------------
\* The inductive invariants hold of every component at once, whichever of them
\* runs, for any constants that meet the assumptions.
THEOREM WorkspaceInvariance ==
  MCSpec => [](/\ FeaturesIInv /\ CompdbIInv /\ DebugIInv /\ JavaIInv
                                        /\ HeadIInv /\ GerritIInv)
<1> DEFINE All == /\ FeaturesIInv /\ CompdbIInv /\ DebugIInv /\ JavaIInv
                  /\ HeadIInv /\ GerritIInv
<1>1. MCInit => All
  BY FeaturesInit, CompdbInit, DebugInit, JavaInit, HeadInit, GerritInit DEF MCInit
<1>2. All /\ [MCNext]_MCvars => All'
  <2> SUFFICES ASSUME All, [MCNext]_MCvars
               PROVE  All'
    OBVIOUS
  <2>1. /\ [Features!Next]_featuresVars /\ [Compdb!Next]_compdbVars
        /\ [Debugger!Next]_debugVars /\ [Java!Next]_javaVars
        /\ [GitHead!Next]_headVars /\ [Gerrit!Next]_gerritVars
    BY DEF MCNext, MCvars
  <2>2. QED
    BY <2>1, FeaturesStep, CompdbStep, DebugStep, JavaStep, HeadStep, GerritStep
<1>3. QED
  BY <1>1, <1>2, PTL DEF MCSpec

\* The features that run are those of the selected root, once its activation is
\* through, unless an instance was disposed of in the middle of its own
\* (chromiumos.ts:84), for any roots, batches and events.
THEOREM FeaturesOfTheRoot == MCSpec => []FeaturesAreOfTheRoot
<1>1. FeaturesIInv => FeaturesAreOfTheRoot
  BY FeaturesHold DEF FeaturesAreOfTheRoot
<1>2. QED
  BY <1>1, WorkspaceInvariance, PTL

\* However updates, failures and cancelled starts cross, one session at most
\* runs a server or goes on to, and it is that of the link (java/language.ts:386),
\* for any output directories, sessions and moves of the link.
THEOREM OneServer == MCSpec => []OneServerOfTheLink
<1>1. JavaIInv => OneServerOfTheLink
  BY JavaServerIsOne DEF OneServerOfTheLink
<1>2. QED
  BY <1>1, WorkspaceInvariance, PTL

\* The debugger attaches to the picked process (java/debugger.ts:321), and the
\* newest compilation database is copied, with the files it names
\* (compdb_service/ebuild.ts:219), for any attempts, calls and directories.
THEOREM PickedIsUsed == MCSpec => []WhatWasPickedIsUsed
<1>1. DebugIInv /\ CompdbIInv => WhatWasPickedIsUsed
  BY CompdbHolds DEF DebugIInv, WhatWasPickedIsUsed
<1>2. QED
  BY <1>1, WorkspaceInvariance, PTL

\* An event never goes back to an older HEAD, also when the watcher was replaced
\* in between (head.ts:65), and none is told after the `undefined` that ends a
\* watch (git_dirs/watcher.ts:113); comments go back only by the answer to a
\* newer request that a refresh crossed (gerrit_comments.ts:108): for any
\* directories and any number of changes, watchers and requests.
THEOREM NoneGoesBack == MCSpec => NothingGoesBack
<1>1. HeadIInv => (part = "head" => GitHead!UndefinedMeansUnwatched)
  BY DEF HeadIInv
<1>2. [MCNext]_MCvars => [GitHead!Next]_headVars /\ [Gerrit!Next]_gerritVars
  BY DEF MCNext, MCvars
<1>3. HeadIInv /\ [MCNext]_MCvars =>
        [told' \in GitHead!Heads => told' >= newest]_(GitHead!vars)
  BY <1>2, HeadStep
<1>4. GerritIInv /\ [MCNext]_MCvars =>
        [\A d \in GitDirs : known'[d].ver < known[d].ver =>
           /\ known'[d].ticket > known[d].ticket
           /\ \E f \in Gerrit!Fetchers :
                fetch[f].dir = {d} /\ fetch[f].at = "apply" /\ fetch[f].crossed]_(Gerrit!vars)
  BY <1>2, GerritStep DEF BackOnlyCrossed
<1>5. QED
  BY <1>1, <1>3, <1>4, WorkspaceInvariance, PTL
     DEF MCSpec, NothingGoesBack, GitHead!HeadsInOrder, Gerrit!GoesBackOnlyCrossed
=============================================================================
