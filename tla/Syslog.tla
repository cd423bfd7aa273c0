------------------------------- MODULE Syslog -------------------------------
(***************************************************************************)
(* The system log viewer of a device: `tail -F` over ssh writes the remote *)
(* log to a local file, the panel reads what is new of the file whenever   *)
(* its webview polls, cuts it into numbered lines and posts them, and the  *)
(* webview shows those that pass the filter.                               *)
(***************************************************************************)
EXTENDS Integers, SequencesExt

CONSTANTS
  Ascii,     \* one-byte characters of the log other than the end of line
  Wide,      \* whether the log has characters of two bytes
  Patterns,  \* what the user may enter as a filter
  Invalid,   \* the patterns that are no regular expression
  CopyMax,   \* COPY_MAX
  MaxBytes   \* bound: the bytes the remote log grows to

VARIABLES
  tail,      \* the tail process: "starting", "running" or "exited"
  file,      \* the bytes of the local file
  readByte,  \* localSyslogReadByte
  readLine,  \* localSyslogReadLine
  stream,    \* the read stream, NoStream when loading is not locked
  inbox,     \* `add` messages on their way to the webview
  entries,   \* the webview's entries, by line number
  filter,    \* the webview's message filter
  clipboard, \* the lines copied last
  disposed,  \* whether the panel is closed
  halved     \* history: a read has ended within a character

vars == <<tail, file, readByte, readLine, stream, inbox, entries, filter, clipboard, disposed,
          halved>>
panel == <<readByte, readLine, stream>>
webview == <<entries, filter, clipboard>>

Bytes == Ascii \cup {"nl"} \cup (IF Wide THEN {"lead", "trail"} ELSE {})
NoStream == [pos |-> 0, text |-> <<>>, half |-> FALSE, open |-> FALSE]

\* The bytes of a decoded character: U+FFFD takes three.
Size(char) == CASE char = "wide" -> 2 [] char = "U+FFFD" -> 3 [] OTHER -> 1
BytesUpTo(text) ==
  LET upTo[i \in 0..Len(text)] == IF i = 0 THEN 0 ELSE upTo[i - 1] + Size(text[i]) IN upTo
ByteLength(text) == BytesUpTo(text)[Len(text)]

\* The cut of characters into lines, the last of them unfinished.
Cut(acc, char) ==
  IF char = "nl" THEN [acc EXCEPT !.lines = Append(@, acc.text), !.text = <<>>]
                 ELSE [acc EXCEPT !.text = Append(@, char)]

\* The decoder's next byte: a character is complete with its last byte, half
\* a character that is not continued becomes U+FFFD.
Read(acc, byte) ==
  LET whole == IF acc.half /\ byte # "trail" THEN Cut(acc, "U+FFFD") ELSE acc
      read == CASE byte = "lead" -> whole
                [] byte = "trail" -> Cut(whole, IF acc.half THEN "wide" ELSE "U+FFFD")
                [] OTHER -> Cut(whole, byte)
  IN [read EXCEPT !.half = byte = "lead"]

\* What has been read after each of some bytes.
Reading(text, half, bytes) ==
  LET read[i \in 0..Len(bytes)] == IF i = 0 THEN [lines |-> <<>>, text |-> text, half |-> half]
                                            ELSE Read(read[i - 1], bytes[i])
  IN read
ReadAll(text, half, bytes) == Reading(text, half, bytes)[Len(bytes)]

\* The panel at its start, or one that was closed before anything was read.
Initially(closed) ==
  /\ tail = "starting" /\ file = <<>>
  /\ readByte = 0 /\ readLine = 0 /\ stream = NoStream
  /\ inbox = <<>> /\ entries = <<>>
  /\ filter = [includes |-> "", byRegex |-> FALSE, regex |-> "none"]
  /\ clipboard = <<>>
  /\ disposed = closed /\ halved = FALSE

Init == Initially(FALSE)
-----------------------------------------------------------------------------
(* The tail process *)

\* The shell has made the local file.
ExecSyslogTail ==
  /\ tail = "starting"
  /\ tail' = "running"
  /\ UNCHANGED <<file, panel, inbox, webview, disposed, halved>>

\* What the device logs arrives in pieces that need not end with a character.
Logged(byte) ==
  /\ tail = "running" /\ Len(file) < MaxBytes
  /\ byte = "trail" <=> (file # <<>> /\ Last(file) = "lead")
  /\ file' = Append(file, byte)
  /\ UNCHANGED <<tail, panel, inbox, webview, disposed, halved>>

\* ssh fails or the connection ends: a popup, and no retry.
Aborted ==
  /\ tail \in {"starting", "running"}
  /\ tail' = "exited"
  /\ UNCHANGED <<file, panel, inbox, webview, disposed, halved>>
-----------------------------------------------------------------------------
(* SyslogPanel *)

\* mutant: the stream of a file that is not there yet is never closed
LoadForever ==
  /\ ~disposed /\ ~stream.open
  /\ stream' = [NoStream EXCEPT !.pos = IF tail = "starting" THEN -1 ELSE readByte, !.open = TRUE]
  /\ UNCHANGED <<tail, file, readByte, readLine, inbox, webview, disposed, halved>>

\* A poll of the webview reaches loadNewSyslogEntries: one that comes while
\* loading is locked is dropped.  There are MaxBytes lines at most; the bound is
\* for those that are read again and again once a read has ended within a character.
LoadNewSyslogEntries ==
  /\ ~disposed /\ ~stream.open /\ readLine <= MaxBytes
  /\ stream' = [NoStream EXCEPT !.pos = readByte, !.open = TRUE]
  /\ UNCHANGED <<tail, file, readByte, readLine, inbox, webview, disposed, halved>>

\* The lines numbered from readLine on are posted, in one message; a message
\* without a line changes nothing and is left out.
Post(lines) ==
  /\ inbox' = IF lines = <<>> THEN inbox ELSE Append(inbox, [from |-> readLine, lines |-> lines])
  /\ readLine' = readLine + Len(lines)

\* A chunk of n bytes is read.  A stream is not made for a negative start: it
\* throws, and loading stays locked.
OnData(n) ==
  /\ stream.open /\ stream.pos >= 0 /\ tail # "starting"
  /\ n \in 1..(Len(file) - stream.pos)
  /\ LET read == ReadAll(stream.text, stream.half, SubSeq(file, stream.pos + 1, stream.pos + n))
     IN /\ stream' = [stream EXCEPT !.pos = @ + n, !.text = read.text, !.half = read.half]
        /\ Post(read.lines)
  /\ UNCHANGED <<tail, file, readByte, webview, disposed, halved>>

\* The end of the file is met, or the file is not there yet.  Half a character
\* at the end is decoded to U+FFFD, which then is part of the remainder.
Remainder == stream.text \o (IF stream.half THEN <<"U+FFFD">> ELSE <<>>)

\* mutant: the unfinished line is not read again
OnCloseAtEnd ==
  /\ stream.open /\ stream.pos = Len(file)
  /\ readByte' = stream.pos
  /\ stream' = NoStream
  /\ halved' = (halved \/ stream.half)
  /\ UNCHANGED <<tail, file, readLine, inbox, webview, disposed>>

OnClose ==
  /\ stream.open /\ stream.pos = Len(file)
  /\ readByte' = stream.pos - ByteLength(Remainder)
  /\ stream' = NoStream
  /\ halved' = (halved \/ stream.half)
  /\ UNCHANGED <<tail, file, readLine, inbox, webview, disposed>>

\* The panel is closed: its webview is gone and its directory is removed.  The
\* canceller is disposed of, not cancelled: the tail goes on.
Dispose ==
  /\ ~disposed
  /\ disposed' = TRUE
  /\ inbox' = <<>>
  /\ UNCHANGED <<tail, file, panel, webview, halved>>
-----------------------------------------------------------------------------
(* The webview *)

\* handleMsg writes each new entry at its line number.
HandleMsg ==
  /\ ~disposed /\ inbox # <<>>
  /\ inbox' = Tail(inbox)
  /\ LET msg == Head(inbox)
         numbered == msg.from + 1..(msg.from + Len(msg.lines))
     IN entries' = [k \in DOMAIN entries \cup numbered |->
                      IF k \in numbered THEN msg.lines[k - msg.from] ELSE entries[k]]
  /\ UNCHANGED <<tail, file, panel, filter, clipboard, disposed, halved>>

CalcRegex(includes, byRegex) ==
  IF byRegex /\ includes \notin Invalid THEN includes ELSE "none"

\* The user types a filter, or ticks that it is a regular expression.
ChangeFilter(includes, byRegex) ==
  /\ ~disposed
  /\ (includes = filter.includes) # (byRegex = filter.byRegex)
  /\ filter' = [includes |-> includes, byRegex |-> byRegex, regex |-> CalcRegex(includes, byRegex)]
  /\ UNCHANGED <<tail, file, panel, inbox, entries, clipboard, disposed, halved>>

\* matchText: an invalid regular expression matches nothing.
MatchText(line) ==
  LET pattern == IF filter.byRegex THEN filter.regex ELSE filter.includes IN
  /\ pattern # "none"
  /\ pattern = "" \/ pattern \in Range(line)

\* The numbers of the entries that pass, in order, up to each number.
FilteredUpTo ==
  LET upTo[n \in 0..readLine] ==
        IF n = 0 THEN <<>>
        ELSE IF n \in DOMAIN entries /\ MatchText(entries[n]) THEN Append(upTo[n - 1], n)
        ELSE upTo[n - 1]
  IN upTo
FilteredEntries == FilteredUpTo[readLine]

\* The last CopyMax lines shown are copied.
Copy ==
  LET shown == FilteredEntries
      from == IF Len(shown) > CopyMax THEN Len(shown) - CopyMax + 1 ELSE 1
  IN /\ ~disposed
     /\ clipboard' = [i \in 1..(Len(shown) - from + 1) |-> entries[shown[from + i - 1]]]
     /\ UNCHANGED <<tail, file, panel, inbox, entries, filter, disposed, halved>>

Next ==
  \/ ExecSyslogTail
  \/ \E byte \in Bytes : Logged(byte)
  \/ Aborted
  \/ LoadNewSyslogEntries
  \/ \E n \in 1..MaxBytes : OnData(n)
  \/ OnClose
  \/ Dispose
  \/ HandleMsg
  \/ \E includes \in Patterns, byRegex \in BOOLEAN : ChangeFilter(includes, byRegex)
  \/ Copy

Spec == Init /\ [][Next]_vars

\* The webview polls every second; a stream and the messages get on.
Fairness ==
  /\ WF_vars(LoadNewSyslogEntries)
  /\ WF_vars(\E n \in 1..MaxBytes : OnData(n))
  /\ WF_vars(OnClose)
  /\ WF_vars(HandleMsg)

-----------------------------------------------------------------------------
TypeOK ==
  /\ tail \in {"starting", "running", "exited"}
  /\ file \in Seq(Bytes) /\ Len(file) <= MaxBytes
  /\ readByte \in Int /\ readByte <= Len(file) /\ readLine \in Nat
  /\ stream.pos \in Int /\ stream.pos <= Len(file)
  /\ stream.half \in BOOLEAN /\ stream.open \in BOOLEAN
  /\ DOMAIN entries \subseteq 1..readLine
  /\ filter \in [includes : Patterns, byRegex : BOOLEAN, regex : Patterns \cup {"none"}]
  /\ disposed \in BOOLEAN

\* The complete lines of the log.
Log == ReadAll(<<>>, FALSE, file).lines

\* What is shown as line k is line k of the log, whole, and what is copied is
\* a run of lines that all stand in the log, however the log grew between and
\* during the reads, as long as no read has ended within a character.
ShownIsLogged ==
  /\ ~halved => /\ \A k \in DOMAIN entries : k <= Len(Log) /\ entries[k] = Log[k]
                /\ Range(clipboard) \subseteq Range(Log)
  /\ Len(clipboard) <= CopyMax

\* "Set the cursor to the beginning of the next line" (panel.ts:187).  It is
\* not so after a read that ended within a character.
CursorAtLineStart == ~stream.open /\ readByte # 0 => readByte > 0 /\ file[readByte] = "nl"

\* The lines the device has logged are shown in the end, as long as the panel
\* is open: no order of polls, reads and failed reads leaves loading locked.
EveryLineIsShown == []<>(disposed \/ \A k \in 1..Len(Log) : k \in DOMAIN entries)
=============================================================================
