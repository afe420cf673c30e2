------------------------------ MODULE LineEditor ------------------------------
(***************************************************************************)
(* The line editor of the interactive shell: what each key does to the     *)
(* input line, the history, the reverse search and the completion cycle.   *)
(* Every key is a function of the editor's record e.  A text is a sequence *)
(* of runes; "nl" is the line feed.                                        *)
(***************************************************************************)
EXTENDS Naturals, Integers, SequencesExt, FiniteSets

CONSTANTS
  Runes,
  Letters,      (* the runes of an identifier                               *)
  Words,        (* names of variables, builtins and keywords, sorted        *)
  Executables,  (* the programs in PATH, sorted                             *)
  PathNames     (* the paths of the host and of the namespace, sorted       *)

Text == Seq(Runes)

ASSUME LineEditorAssumption ==
  /\ "nl" \in Runes
  /\ {Words, Executables, PathNames} \subseteq Seq(Text)

Blanks  == {" ", "\t", "nl"}
Openers == {"(", "{", "["}
Closers == {")", "}", "]"}

NewEditor(history) ==
  [input |-> <<>>, cursor |-> 0,
   history |-> history, hindex |-> Len(history), draft |-> <<>>,
   searching |-> FALSE, query |-> <<>>, sindex |-> 0,
   cands |-> <<>>, fragment |-> 0, cycle |-> 0,
   scroll |-> 0]

-----------------------------------------------------------------------------
(* Positions.                                                              *)

IsWordRune(c)  == c \notin Blanks
IsIdentRune(c) == c \in Letters
IsNameRune(c)  == IsIdentRune(c) \/ c = "-"
IsPathRune(c)  == IsIdentRune(c) \/ c \in {"/", ".", "-"}

\* The start of the run of runes that satisfy Is and end before position i.
RunBack(text, i, Is(_)) ==
  CHOOSE s \in 0 .. i : /\ \A j \in s + 1 .. i : Is(text[j])
                        /\ s > 0 => ~Is(text[s])

\* The end of the run that begins at position i.
RunOn(text, i, Is(_)) ==
  CHOOSE n \in i .. Len(text) : /\ \A j \in i + 1 .. n : Is(text[j])
                                /\ n < Len(text) => ~Is(text[n + 1])

LineStart(e) == RunBack(e.input, e.cursor, LAMBDA c : c # "nl")
LineEnd(e)   == RunOn(e.input, e.cursor, LAMBDA c : c # "nl")

\* The input with the runes after start and up to end replaced.
Replace(e, start, end, text) ==
  [e EXCEPT !.input = SubSeq(@, 1, start) \o text \o SubSeq(@, end + 1, Len(@)),
            !.cursor = start + Len(text)]

-----------------------------------------------------------------------------
(* Typing, moving and killing.                                             *)

Insert(e, text) == Replace(e, e.cursor, e.cursor, text)

Backspace(e) == IF e.cursor = 0 THEN e ELSE Replace(e, e.cursor - 1, e.cursor, <<>>)

DeleteForward(e) ==
  IF e.cursor = Len(e.input) THEN e ELSE Replace(e, e.cursor, e.cursor + 1, <<>>)

MoveLeft(e)  == IF e.cursor = 0 THEN e ELSE [e EXCEPT !.cursor = @ - 1]
MoveRight(e) == IF e.cursor = Len(e.input) THEN e ELSE [e EXCEPT !.cursor = @ + 1]

\* A word and the blanks between it and the cursor, across lines.
WordLeft(e, floor) ==
  LET gap == RunBack(e.input, e.cursor, LAMBDA c : ~IsWordRune(c)) IN
  RunBack(e.input, IF gap < floor THEN floor ELSE gap, IsWordRune)

MoveWordLeft(e) == [e EXCEPT !.cursor = WordLeft(e, 0)]

MoveWordRight(e) ==
  [e EXCEPT !.cursor =
     RunOn(e.input, RunOn(e.input, e.cursor, LAMBDA c : ~IsWordRune(c)), IsWordRune)]

MoveHome(e) == [e EXCEPT !.cursor = LineStart(e)]
MoveEnd(e)  == [e EXCEPT !.cursor = LineEnd(e)]

\* The kills stay in the line the cursor is on.
KillToLineStart(e)  == Replace(e, LineStart(e), e.cursor, <<>>)
KillToLineEnd(e)    == Replace(e, e.cursor, LineEnd(e), <<>>)
KillWordBackward(e) == Replace(e, WordLeft(e, LineStart(e)), e.cursor, <<>>)

-----------------------------------------------------------------------------
(* History.  hindex = Len(history) when it is not being browsed.           *)

MultiLine(e) == "nl" \in ToSet(e.input)

Recall(e, i, text) == [e EXCEPT !.hindex = i, !.input = text, !.cursor = Len(text)]

HistoryPrev(e) ==
  IF MultiLine(e) \/ e.history = <<>> THEN e
  ELSE LET d == IF e.hindex = Len(e.history) THEN [e EXCEPT !.draft = e.input] ELSE e
           i == IF e.hindex > 0 THEN e.hindex - 1 ELSE 0
       IN Recall(d, i, e.history[i + 1])

HistoryNext(e) ==
  IF MultiLine(e) \/ e.hindex >= Len(e.history) THEN e
  ELSE LET i == e.hindex + 1 IN
       Recall(e, i, IF i = Len(e.history) THEN e.draft ELSE e.history[i + 1])

\* The members of s at the positions in at, in their order.
Selected(s, at) ==
  LET first[n \in 0 .. Len(s)] ==
        IF n = 0 THEN <<>> ELSE IF n \in at THEN Append(first[n - 1], s[n]) ELSE first[n - 1]
  IN first[Len(s)]

RemoveOccurrences(history, text) == Selected(history, {i \in DOMAIN history : history[i] # text})

\* Mutant: the place in the history is not brought back into it.
DeleteHistoryEntryOnly(e, i) ==
  IF i \notin 0 .. Len(e.history) - 1 THEN e ELSE [e EXCEPT !.history = RemoveAt(@, i + 1)]

\* What history_delete and history_clear do, on the goroutine of the statement.
DeleteHistoryEntry(e, i) ==
  IF i \notin 0 .. Len(e.history) - 1 THEN e
  ELSE LET rest == RemoveAt(e.history, i + 1) IN
       [e EXCEPT !.history = rest, !.hindex = IF @ > Len(rest) THEN Len(rest) ELSE @]

ClearHistoryEntries(e) == [e EXCEPT !.history = <<>>, !.hindex = 0, !.draft = <<>>]

-----------------------------------------------------------------------------
(* Reverse search.  sindex = Len(history) when nothing has matched.        *)

Occurs(part, text) == \E i \in 0 .. Len(text) - Len(part) : SubSeq(text, i + 1, i + Len(part)) = part

\* The last match at or before index start; without one the old match stays.
SearchFrom(e, start) ==
  LET hits == {i \in 0 .. start : Occurs(e.query, e.history[i + 1])} IN
  IF e.query = <<>> \/ hits = {} THEN e
  ELSE [e EXCEPT !.sindex = CHOOSE i \in hits : \A j \in hits : j <= i]

SearchStep(e) ==
  IF e.searching THEN SearchFrom(e, e.sindex - 1)
  ELSE [e EXCEPT !.searching = TRUE, !.query = <<>>, !.sindex = Len(e.history)]

\* What was found becomes the input.
LeaveSearch(e) ==
  LET d == [e EXCEPT !.searching = FALSE, !.query = <<>>] IN
  IF e.sindex < Len(e.history)
  THEN LET found == e.history[e.sindex + 1] IN [d EXCEPT !.input = found, !.cursor = Len(found)]
  ELSE d

\* Any key in search mode but Ctrl-R and Enter.
SearchKey(e, k) ==
  CASE k.key = "Esc" -> LeaveSearch(e)
    [] k.key = "Backspace" /\ e.query # <<>> ->
         SearchFrom([e EXCEPT !.query = Front(@)], Len(e.history) - 1)
    [] k.key = "rune" -> SearchFrom([e EXCEPT !.query = Append(@, k.rune)], Len(e.history) - 1)
    [] OTHER -> e

-----------------------------------------------------------------------------
(* Completion.                                                             *)

\* Where the name of a command after "%" begins, if the cursor is in one.
NameStart(e)   == RunBack(e.input, e.cursor, IsNameRune)
IsCommand(e)   == NameStart(e) > 0 /\ e.input[NameStart(e)] = "%"

PathStart(e)   == RunBack(e.input, e.cursor, IsPathRune)
IsPathAt(e)    == PathStart(e) < e.cursor /\ e.input[PathStart(e) + 1] = "/"

FragmentStart(e) ==
  IF IsCommand(e) THEN NameStart(e)
  ELSE IF IsPathAt(e) THEN PathStart(e)
  ELSE RunBack(e.input, e.cursor, IsIdentRune)

Fragment(e) == SubSeq(e.input, FragmentStart(e) + 1, e.cursor)

Candidates(e) ==
  LET all == IF IsCommand(e) THEN Executables ELSE IF IsPathAt(e) THEN PathNames ELSE Words
  IN Selected(all, {i \in DOMAIN all : IsPrefix(Fragment(e), all[i])})

CommonPrefix(texts) ==
  LET n == CHOOSE n \in 0 .. Len(texts[1]) :
             /\ \A i \in DOMAIN texts : IsPrefix(SubSeq(texts[1], 1, n), texts[i])
             /\ n < Len(texts[1]) =>
                  \E i \in DOMAIN texts : ~IsPrefix(SubSeq(texts[1], 1, n + 1), texts[i])
  IN SubSeq(texts[1], 1, n)

\* The first Tab puts in what all candidates share; the next ones go through them.
CompleteTab(e) ==
  LET start == FragmentStart(e)
      fresh == Candidates(e)
      turn  == (e.cycle + 1) % Len(e.cands)
  IN IF e.cands # <<>> /\ e.fragment = start
     THEN Replace([e EXCEPT !.cycle = turn], start, e.cursor, e.cands[turn + 1])
     ELSE IF fresh = <<>> THEN e
     ELSE Replace([e EXCEPT !.cands = fresh, !.fragment = start, !.cycle = 0],
                  start, e.cursor, CommonPrefix(fresh))

-----------------------------------------------------------------------------
(* Keys.                                                                   *)

\* Mutant: the candidates of a Tab outlive the keys that follow it.
EditKeyKeeps(e, k) ==
  CASE k.key = "rune" -> Insert(e, <<k.rune>>)
    [] k.key = "Tab" -> CompleteTab(e)
    [] k.key = "Backspace" -> Backspace(e)
    [] OTHER -> e

\* A key of the ordinary mode that neither submits nor leaves the editor.
EditKey(e, k) ==
  LET d == IF k.key = "Tab" THEN e ELSE [e EXCEPT !.cands = <<>>] IN
  CASE k.key = "rune" -> Insert(d, <<k.rune>>)
    [] k.key = "Tab" -> CompleteTab(d)
    [] k.key = "Backspace" -> Backspace(d)
    [] k.key = "Delete" -> DeleteForward(d)
    [] k.key = "Left" -> MoveLeft(d)
    [] k.key = "Right" -> MoveRight(d)
    [] k.key = "C-Left" -> MoveWordLeft(d)
    [] k.key = "C-Right" -> MoveWordRight(d)
    [] k.key = "Home" -> MoveHome(d)
    [] k.key = "End" -> MoveEnd(d)
    [] k.key = "Up" -> HistoryPrev(d)
    [] k.key = "Down" -> HistoryNext(d)
    [] k.key = "PgUp" -> [d EXCEPT !.scroll = @ + 1]
    [] k.key = "PgDn" -> [d EXCEPT !.scroll = IF @ = 0 THEN 0 ELSE @ - 1]
    [] k.key = "C-u" -> KillToLineStart(d)
    [] k.key = "C-k" -> KillToLineEnd(d)
    [] k.key = "C-w" -> KillWordBackward(d)
    [] k.key = "C-l" -> [d EXCEPT !.scroll = 0]
    [] OTHER -> d

\* A paste and the wheel are no keys: nothing gates them.
Paste(e, text) == Insert(e, text)
Wheel(e, up)   == [e EXCEPT !.scroll = IF up THEN @ + 1 ELSE IF @ = 0 THEN 0 ELSE @ - 1]

\* How many brackets are open.
BracketDepth(text) ==
  LET count(set) == Len(SelectSeq(text, LAMBDA c : c \in set)) IN count(Openers) - count(Closers)

IsBlank(text) == ToSet(text) \subseteq Blanks

\* Enter goes on to a new line while a bracket is open.
Unfinished(e) == BracketDepth(e.input) > 0
NewLine(e)    == Insert(e, <<"nl">>)

\* A text that is submitted becomes the last of the history, and the line is empty.
Submitted(e, unique) ==
  LET src  == e.input
      kept == IF unique THEN RemoveOccurrences(e.history, src) ELSE e.history
      new  == IF IsBlank(src) THEN e.history ELSE Append(kept, src)
  IN [e EXCEPT !.history = new, !.hindex = Len(new), !.draft = <<>>,
               !.input = <<>>, !.cursor = 0, !.scroll = 0]

-----------------------------------------------------------------------------

\* Every index points into what it indexes.
EditorOK(e) ==
  /\ e.cursor \in 0 .. Len(e.input)
  /\ e.hindex \in 0 .. Len(e.history)
  /\ e.searching => e.sindex \in 0 .. Len(e.history)
  /\ e.cands # <<>> => e.cycle \in 0 .. Len(e.cands) - 1
  /\ e.fragment \in Nat /\ e.scroll \in Nat
  /\ <<>> \notin ToSet(e.history)
=============================================================================
