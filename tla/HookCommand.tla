----------------------------- MODULE HookCommand -----------------------------
(***************************************************************************)
(* From the hook that a PRESUBMIT.cfg has for `cros format` or `cros lint` *)
(* to the command the extension runs on one document.  The hook is written *)
(* for many files of a commit; its options are parsed into words, edited   *)
(* in place by two loops, and the document is put at the end.              *)
(***************************************************************************)
EXTENDS Integers, Sequences

CONSTANTS MaxOptions \* bound: options of a hook

VARIABLE hook \* the options of the hook, each with its value

\* A word of a command; a path is resolved when it no longer depends on cwd.
Word(w) == [word |-> w, resolved |-> FALSE]
Resolve(w) == [word |-> w.word, resolved |-> TRUE]
Options == {<<"--check">>, <<"--commit", "sha">>, <<"--exclude", "dir">>, <<"--include", "dir">>,
            <<"${PRESUBMIT_FILES}">>, <<"--">>, <<"-v">>, <<"dir">>}
Init == hook = <<>>
Next == \E o \in Options : Len(hook) < MaxOptions /\ hook' = Append(hook, o)

Spec == Init /\ [][Next]_hook
-----------------------------------------------------------------------------
\* The words of the first options of a command, those that are dropped left
\* out; a resolved option has its value resolved.
Rendered(o, resolved) ==
  [j \in DOMAIN o |-> [word |-> o[j], resolved |-> j = 2 /\ o[1] \in resolved]]
Written(options, dropped, resolved) ==
  LET upTo[k \in 0..Len(options)] ==
        IF k = 0 THEN <<>>
        ELSE upTo[k - 1] \o (IF options[k][1] \in dropped THEN <<>>
                             ELSE Rendered(options[k], resolved))
  IN upTo

\* The parser yields an option and its value, which "=" or a space separates,
\* as two words.
Named(options) == <<<<"cros">>, <<"verb">>>> \o options
Parsed(options) == Written(Named(options), {}, {})[Len(Named(options))]

\* `args.splice(endOfOptions)` with the index of "--".
BeforeEnd(a) ==
  IF \E i \in DOMAIN a : a[i].word = "--"
  THEN SubSeq(a, 1, (CHOOSE i \in DOMAIN a : a[i].word = "--" /\ \A j \in 1..(i-1) : a[j].word # "--") - 1)
  ELSE a

AnyWord == "/.*/"
MatchesAt(a, i, rs) == \A j \in DOMAIN rs : rs[j] \in {AnyWord, a[i + j - 1].word}
Splice(a, i, n) == SubSeq(a, 1, i - 1) \o SubSeq(a, i + n, Len(a))

\* mutant: the index moves on after a removal too
RemoveAndMove(s, rs) ==
  CASE s.i > Len(s.a) - Len(rs) + 1 -> s
    [] s.i <= Len(s.a) - Len(rs) + 1 /\ MatchesAt(s.a, s.i, rs) ->
         [a |-> Splice(s.a, s.i, Len(rs)), i |-> s.i + 1]
    [] OTHER -> [a |-> s.a, i |-> s.i + 1]
\* `remove`: every subslice that matches rs goes.  A turn of its loop, the
\* turns, of which there are no more than words, and the last of them.
RemoveTurn(s, rs) ==
  CASE s.i > Len(s.a) - Len(rs) + 1 -> s
    [] s.i <= Len(s.a) - Len(rs) + 1 /\ MatchesAt(s.a, s.i, rs) ->
         [a |-> Splice(s.a, s.i, Len(rs)), i |-> s.i]
    [] OTHER -> [a |-> s.a, i |-> s.i + 1]
Removing(a, rs) ==
  LET after[k \in 0..Len(a)] ==
        IF k = 0 THEN [a |-> a, i |-> 1] ELSE RemoveTurn(after[k - 1], rs)
  IN after
RemoveAll(a, rs) == Removing(a, rs)[Len(a)].a

\* `replaceArg`: the word after each `arg` is resolved, and skipped.
ReplaceTurn(s, arg) ==
  CASE s.i >= Len(s.a) -> s
    [] s.i < Len(s.a) /\ s.a[s.i].word = arg ->
         [a |-> [s.a EXCEPT ![s.i + 1] = Resolve(@)], i |-> s.i + 2]
    [] OTHER -> [a |-> s.a, i |-> s.i + 1]
Replacing(a, arg) ==
  LET after[k \in 0..Len(a)] ==
        IF k = 0 THEN [a |-> a, i |-> 1] ELSE ReplaceTurn(after[k - 1], arg)
  IN after
ReplaceArg(a, arg) == Replacing(a, arg)[Len(a)].a

Patterns(a) == ReplaceArg(ReplaceArg(a, "--exclude"), "--include")

\* constructCrosFormatCommand
FormatCommand(options) ==
  Patterns(RemoveAll(RemoveAll(RemoveAll(BeforeEnd(Parsed(options)), <<"--check">>), <<"--commit", AnyWord>>),
                     <<"${PRESUBMIT_FILES}">>))
  \o <<Word("--stdout"), Word("document")>>

\* CrosLintConfig.command
LintCommand(options, language) ==
  Patterns(RemoveAll(RemoveAll(BeforeEnd(Parsed(options)), <<"--commit", AnyWord>>), <<"${PRESUBMIT_FILES}">>))
  \o (IF language = "shellscript" THEN <<Word("--output=parseable")>> ELSE <<>>)
  \o <<Word("document")>>
-----------------------------------------------------------------------------
(* The reference, on options instead of words *)

\* What the command has of the hook.
Meant(options, dropped) ==
  LET ends == {i \in DOMAIN options : options[i] = <<"--">>}
      last == IF ends = {} THEN Len(options)
              ELSE (CHOOSE i \in ends : \A j \in ends : i <= j) - 1
  IN Written(options, dropped, {"--exclude", "--include"})[last]

TypeOK == hook \in Seq(Options)

\* The command on the document has every option of the hook, in order, up to
\* the "--", with its patterns resolved, but nothing that selects a commit or
\* other files: the loops that edit the words lose and keep nothing else.
OptionsSurvive ==
  /\ FormatCommand(hook) = Meant(Named(hook), {"--check", "--commit", "${PRESUBMIT_FILES}"})
                           \o <<Word("--stdout"), Word("document")>>
  /\ LintCommand(hook, "shellscript") = Meant(Named(hook), {"--commit", "${PRESUBMIT_FILES}"})
                                        \o <<Word("--output=parseable")>> \o <<Word("document")>>
=============================================================================
