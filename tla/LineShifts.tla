---------------------------- MODULE LineShifts ----------------------------
(***************************************************************************)
(* Where a comment made on a line of a patchset is shown in the file as it *)
(* is on disk: `git diff -U0` as hunks (gerrit/git.ts) and                 *)
(* CommentThread.getShift (gerrit/data/comment_thread.ts).                 *)
(*                                                                         *)
(* The input is an edit of a file of N lines: which lines are kept, and    *)
(* how many lines are inserted after each kept line (or at the start, 0).  *)
(***************************************************************************)
EXTENDS Integers, SequencesExt

CONSTANTS
  N,          \* lines of the patchset's file
  MaxInsert   \* bound: lines inserted at one place

VARIABLES
  kept,     \* the lines that are kept
  inserted, \* lines inserted after each line of Anchors
  line      \* the line of the comment

Anchors(k) == {0} \cup k

Init ==
  /\ kept = 1..N
  /\ inserted = [a \in Anchors(kept) |-> 0]
  /\ line \in 1..N

\* The user edits the file: a line is dropped, or one is inserted.
Drop(l) ==
  /\ l \in kept /\ inserted[l] = 0
  /\ kept' = kept \ {l}
  /\ inserted' = [a \in Anchors(kept') |-> inserted[a]]
  /\ UNCHANGED line

Insert(a) ==
  /\ inserted[a] < MaxInsert
  /\ inserted' = [inserted EXCEPT ![a] = @ + 1]
  /\ UNCHANGED <<kept, line>>

Next == (\E l \in kept : Drop(l)) \/ (\E a \in Anchors(kept) : Insert(a))

Spec == Init /\ [][Next]_<<kept, inserted, line>>

\* Lines between the kept line a (or the start) and the next kept one.
DroppedAfter(a) == {l \in 1..N : a < l /\ \A k \in kept : k > a => l < k}
-----------------------------------------------------------------------------
\* A hunk of `git diff -U0`: "@@ -start,size +start,size @@", where a hunk that
\* only inserts has the line before it as its start.
HunkAfter(a) ==
  LET size == Cardinality(DroppedAfter(a)) IN
  [originalStart |-> IF size = 0 THEN a ELSE a + 1, originalSize |-> size,
   currentSize |-> inserted[a]]

Changed == {a \in Anchors(kept) : DroppedAfter(a) # {} \/ inserted[a] > 0}

\* parseDiffHunks, in the order of the lines: the hunks after line n or before.
HunksUpTo ==
  LET upTo[n \in 0..N] == (IF n = 0 THEN <<>> ELSE upTo[n - 1])
                          \o (IF n \in Changed THEN <<HunkAfter(n)>> ELSE <<>>)
  IN upTo

Hunks == HunksUpTo[N]

SizeDelta(h) == h.currentSize - h.originalSize

\* mutant: a hunk that inserts is taken to come before its start line too
FollowsHunkOrAt(h, l) == l >= h.originalStart + h.originalSize

FollowsHunk(h, l) ==
  IF h.originalSize = 0 THEN l > h.originalStart ELSE l >= h.originalStart + h.originalSize

WithinHunk(h, l) == l >= h.originalStart /\ l < h.originalStart + h.originalSize

\* What one hunk adds to the shift of line l: a comment in a hunk that shrinks
\* stays in the hunk, or goes to the line before it.
HunkShift(h, l) ==
  LET protrusion == l - (h.originalStart + h.currentSize) + 1 IN
  CASE FollowsHunk(h, l) -> SizeDelta(h)
    [] WithinHunk(h, l) /\ SizeDelta(h) < 0 /\ protrusion > 0 -> - protrusion
    [] OTHER -> 0

\* The loop of getShift: the shift after the first i hunks.
ShiftAfter(hunks, l) ==
  LET shift[i \in 0..Len(hunks)] == IF i = 0 THEN 0 ELSE shift[i - 1] + HunkShift(hunks[i], l)
  IN shift

\* getShift of a comment on line l of a file: never before the first line.
GetShift(hunks, l) ==
  LET shift == ShiftAfter(hunks, l)[Len(hunks)] IN
  IF l + shift <= 0 THEN - (l - 1) ELSE shift
-----------------------------------------------------------------------------
\* How long the edited file is from its start to line n, with what was inserted
\* after it; and the line of it at which the kept line a (or the start) is now.
LengthUpTo ==
  LET upTo[n \in 0..N] == (IF n = 0 THEN 0 ELSE upTo[n - 1])
                          + (IF n \in kept THEN 1 ELSE 0)
                          + (IF n \in Anchors(kept) THEN inserted[n] ELSE 0)
  IN upTo

NewPlace(a) == LengthUpTo[a] - inserted[a]

AtLeastOne(n) == IF n < 1 THEN 1 ELSE n

\* A kept line's comment follows the line; the comment of a dropped line is
\* within the lines that replace it, at its own place if there are enough of
\* them, or on the line before if nothing does.
Reference ==
  IF line \in kept THEN NewPlace(line)
  ELSE LET a == CHOOSE b \in Anchors(kept) : line \in DroppedAfter(b)
           k == line - a
       IN AtLeastOne(NewPlace(a) + (IF k <= inserted[a] THEN k ELSE inserted[a]))

\* Every comment is shown at the line it is about, for every edit of the file.
CommentFollowsItsLine == line + GetShift(Hunks, line) = Reference
=============================================================================
