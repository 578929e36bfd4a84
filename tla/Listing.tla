------------------------------- MODULE Listing -------------------------------
(***************************************************************************)
(* list.go: the source lines the shell shows at every prompt and for the   *)
(* list command, on top of DebugShell.  printLines goes through the file   *)
(* once; lines near a range of the step are printed, a separator where     *)
(* lines were left out, a mark at breakpoints and an arrow at the ranges.  *)
(***************************************************************************)
EXTENDS DebugShell, Integers, Sequences

CONSTANTS
  LineCount,          \* lines of every file
  DefaultListRange,   \* defaultListRange
  FlagValues          \* bound: values given to -A, -B and --range

ASSUME ListingAssumption ==
  LineCount \in Nat /\ DefaultListRange \in FlagValues /\ FlagValues \subseteq Int

\* What the last step printed: [before, after, all, text], or None; text has a
\* sequence of lines for each source of the step (in an order that varies).
VARIABLE shown

listingVars == <<vars, shown>>

-----------------------------------------------------------------------------
(* printLines *)

RangesIn(f) == {r \in Locations[event.vertex] : r.file = f}
Sources == {r.file : r \in Locations[event.vertex]}

Near(r, i, before, after, all) == all \/ (r.start - before <= i /\ i <= r.end + after)

\* lineBreakpoint.IsMarked; on-fail marks no line.
IsMarked(f, i) ==
  \E k \in DOMAIN breakpoints \ {OnFail} : breakpoints[k] = [file |-> f, line |-> i]

Separator == [line |-> 0, marked |-> FALSE, target |-> FALSE]

PrintLine_NoResetBug(f, i, before, after, all, out) ==
  LET near == {r \in RangesIn(f) : Near(r, i, before, after, all)} IN
  IF near = {} THEN out
  ELSE [lastLinePrinted |-> TRUE,
        text |-> out.text \o (IF ~out.lastLinePrinted /\ out.text # <<>>
                              THEN <<Separator>> ELSE <<>>)
                   \o <<[line |-> i, marked |-> IsMarked(f, i),
                         target |-> \E r \in near : r.start <= i /\ i <= r.end]>>]

\* The body of the loop for line i.
PrintLine(f, i, before, after, all, out) ==
  LET near == {r \in RangesIn(f) : Near(r, i, before, after, all)} IN
  IF near = {} THEN [out EXCEPT !.lastLinePrinted = FALSE]
  ELSE [lastLinePrinted |-> TRUE,
        text |-> out.text \o (IF ~out.lastLinePrinted /\ out.text # <<>>
                              THEN <<Separator>> ELSE <<>>)
                   \o <<[line |-> i, marked |-> IsMarked(f, i),
                         target |-> \E r \in near : r.start <= i /\ i <= r.end]>>]

PrintLines(f, before, after, all) ==
  LET out[i \in 0..LineCount] ==
        IF i = 0 THEN [lastLinePrinted |-> FALSE, text |-> <<>>]
        ELSE PrintLine(f, i, before, after, all, out[i - 1])
  IN out[LineCount].text

Shows(before, after, all) ==
  shown' = [before |-> before, after |-> after, all |-> all,
            text |-> [f \in Sources |-> PrintLines(f, before, after, all)]]

-----------------------------------------------------------------------------
(* The prompt and the list command *)

ListingInit == Init /\ shown = None

PromptLists == Prompt /\ Shows(DefaultListRange, DefaultListRange, FALSE)

\* A flag that has the default value counts as not given.
Flag(given, range) == IF given # DefaultListRange THEN given ELSE range

ListCommand(range, A, B, all) ==
  /\ AtPrompt
  /\ Shows(Flag(B, range), Flag(A, range), all)
  /\ UNCHANGED vars

Silent ==
  /\ (\E e \in Events : Arrive(e)) \/ Skip \/ Ignore \/ Command
  /\ shown' = None

ListingNext ==
  \/ PromptLists
  \/ \E range, A, B \in FlagValues, all \in BOOLEAN : ListCommand(range, A, B, all)
  \/ Silent

ListingSpec == ListingInit /\ [][ListingNext]_listingVars

-----------------------------------------------------------------------------
(* Properties *)

\* The lines the listing owes: those of the ranges, with the given number of
\* lines around them, that the file has.
Window(f) ==
  {i \in 1..LineCount :
     shown.all \/ \E r \in RangesIn(f) : i \in (r.start - shown.before)..(r.end + shown.after)}

Rows(text) == {j \in 1..Len(text) : text[j] # Separator}

\* A listing has every line of its window once and in order, also where ranges
\* overlap or reach beyond the file; separators stand exactly between lines that
\* do not follow each other, never first or last; the lines of the step and the
\* breakpoints set by now are marked, and no other (list.go:59-111).  (A negative
\* flag narrows the ranges themselves, and their arrows with them.)
ListsTheWindow ==
  shown # None => \A f \in Sources :
    LET text == shown.text[f] IN
    /\ {text[j].line : j \in Rows(text)} = Window(f)
    /\ \A j, k \in Rows(text) : j < k => text[j].line < text[k].line
    /\ \A j \in Rows(text) :
         /\ text[j].marked <=> \E k \in DOMAIN breakpoints :
              k # OnFail /\ breakpoints[k].file = f /\ breakpoints[k].line = text[j].line
         /\ shown.before >= 0 /\ shown.after >= 0 =>
              (text[j].target <=> \E r \in RangesIn(f) : text[j].line \in r.start..r.end)
    /\ \A j \in 1..Len(text) :
         /\ text[j] = Separator => j > 1 /\ j < Len(text) /\ text[j + 1].line > text[j - 1].line + 1
         /\ j > 1 /\ text[j].line > text[j - 1].line + 1 => text[j - 1] = Separator
=============================================================================
