--------------------------- MODULE LineCoverage ---------------------------
(***************************************************************************)
(* Which lines of a file the coverage feature paints as covered or as      *)
(* uncovered: llvmToLineFormat (coverage/llvm_json_parser.ts), which turns *)
(* the segments of a report of LLVM into lines.                            *)
(*                                                                         *)
(* A segment says what holds from its start to the start of the next one:  *)
(* how often it was executed, whether that was counted at all, whether it  *)
(* enters a region or returns to an outer one, and whether it is a gap     *)
(* between two regions.  The report is written by LLVM, in the order of    *)
(* the starts; columns play no part in the code.                           *)
(***************************************************************************)
EXTENDS Integers, SequencesExt

CONSTANTS
  MaxLine,      \* bound: lines of the file
  MaxSegments,  \* bound: segments of the report
  Counts        \* how often a region is executed

VARIABLE segments

\* What LLVM emits: nothing is counted in a skipped region, and only a counted
\* one is marked as a gap.
Segments ==
  {s \in [line : 1..MaxLine, count : Counts \cup {0}, counted : BOOLEAN, entry : BOOLEAN,
          gap : BOOLEAN] : ~s.counted => s.count = 0 /\ ~s.gap}

Init == segments = <<>>

Report(s) ==
  /\ Len(segments) < MaxSegments
  /\ segments # <<>> => Last(segments).line <= s.line
  /\ segments' = Append(segments, s)

Next == \E s \in Segments : Report(s)

Spec == Init /\ [][Next]_segments
-----------------------------------------------------------------------------
\* getSegmentsInLine of the segments that are left, which are in order: those of
\* the lines before were taken off.
InLine(segs, l) ==
  SubSeq(segs, 1, CHOOSE n \in 0..Len(segs) :
                    /\ \A i \in 1..n : segs[i].line = l
                    /\ n < Len(segs) => segs[n + 1].line # l)

IsStartOfInstrumentedRegion(s) == s.counted /\ s.entry

IsStartOfSkippedRegion(lineSegs) ==
  lineSegs # <<>> /\ ~lineSegs[1].counted /\ lineSegs[1].entry

HasStartOfNewInstrumentedRegion(lineSegs) ==
  \E i \in DOMAIN lineSegs : ~lineSegs[i].gap /\ IsStartOfInstrumentedRegion(lineSegs[i])

\* wrapped is the sequence of the last segment of the lines before, if any.
IsCoverable(lineSegs, wrapped) ==
  /\ ~IsStartOfSkippedRegion(lineSegs)
  /\ \/ wrapped # <<>> /\ wrapped[1].counted
     \/ HasStartOfNewInstrumentedRegion(lineSegs)

\* mutant: what goes on from the line before does not count
LineExecCountAlone(lineSegs, wrapped) ==
  Max({0} \cup {s.count : s \in {x \in ToSet(lineSegs) : IsStartOfInstrumentedRegion(x)}})

LineExecCount(lineSegs, wrapped) ==
  Max({IF wrapped = <<>> THEN 0 ELSE wrapped[1].count}
      \cup {s.count : s \in {x \in ToSet(lineSegs) : IsStartOfInstrumentedRegion(x)}})

\* mutant: a line without segments ends what goes on from the line before
NextWrappedOrNone(lineSegs, wrapped) == IF lineSegs = <<>> THEN <<>> ELSE <<Last(lineSegs)>>

NextWrapped(lineSegs, wrapped) == IF lineSegs = <<>> THEN wrapped ELSE <<Last(lineSegs)>>

\* One turn of the loop: the segments of the line are taken off the rest.
CountLine(acc, l) ==
  LET lineSegs == InLine(acc.rest, l) IN
  [rest |-> SubSeq(acc.rest, Len(lineSegs) + 1, Len(acc.rest)),
   wrapped |-> NextWrapped(lineSegs, acc.wrapped),
   execCount |-> IF IsCoverable(lineSegs, acc.wrapped)
                 THEN acc.execCount \cup {<<l, LineExecCount(lineSegs, acc.wrapped)>>}
                 ELSE acc.execCount]

\* The turns for the lines 0..n.
Turns(segs, n) ==
  LET after[l \in 0..n] == IF l = 0 THEN [rest |-> segs, wrapped |-> <<>>, execCount |-> {}]
                                    ELSE CountLine(after[l - 1], l)
  IN after

LlvmToLineFormat(segs) ==
  LET lastLine == IF segs = <<>> THEN 0 ELSE Last(segs).line
      execCount == Turns(segs, lastLine)[lastLine].execCount
  IN [covered |-> {c[1] : c \in {x \in execCount : x[2] > 0}},
      uncovered |-> {c[1] : c \in {x \in execCount : x[2] = 0}}]
-----------------------------------------------------------------------------
\* The same from the definition of the report, line by line.  Of line l, in a
\* report of n segments: i is the segment that goes on from the lines before.
GoesOn(l) == {i \in DOMAIN segments : segments[i].line < l
                /\ \A j \in DOMAIN segments : segments[j].line < l => j <= i}
Starts(l) == {i \in DOMAIN segments : segments[i].line = l}
Regions(l) == {i \in Starts(l) : segments[i].counted /\ segments[i].entry /\ ~segments[i].gap}
Gaps(l) == {i \in Starts(l) : segments[i].counted /\ segments[i].entry /\ segments[i].gap}

Skipped(l) == \E i \in Starts(l) : /\ \A j \in Starts(l) : i <= j
                                   /\ ~segments[i].counted /\ segments[i].entry
Painted(l) == /\ segments # <<>> /\ l <= Last(segments).line
              /\ ~Skipped(l)
              /\ Regions(l) # {} \/ \E i \in GoesOn(l) : segments[i].counted
Executed(l) == \E i \in GoesOn(l) \cup Regions(l) : segments[i].count > 0

PaintedRight(l) ==
  /\ l \in LlvmToLineFormat(segments).covered <=> Painted(l) /\ Executed(l)
  /\ l \in LlvmToLineFormat(segments).uncovered <=> Painted(l) /\ ~Executed(l)

\* Every line is painted as the report has it, unless an executed gap starts on
\* it (llvm_json_parser.ts:43).
LinesAreRight ==
  \A l \in 1..MaxLine : PaintedRight(l) \/ \E i \in Gaps(l) : segments[i].count > 0

\* "The final line exec count is the maximum of [...] maximum exec count among
\* all non-gap, region entry segments in the current line"
\* (llvm_json_parser.ts:113): a gap never makes a line covered.
GapsDoNotCount == \A l \in 1..MaxLine : PaintedRight(l)
=============================================================================
