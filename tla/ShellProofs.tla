---------------------------- MODULE ShellProofs -----------------------------
(***************************************************************************)
(* Theorems about Shell: one statement at a time, each result shown once and *)
(* in order, every screen that is handed over given back once, what an     *)
(* evaluation opened undone however it ends, no index of the line editor   *)
(* astray, and no text lost to a Tab.                                      *)
(*                                                                         *)
(* The argument of the first: a statement is in the hands of one after the *)
(* other, the goroutine (run.at), the slot (pending), the transcript, and  *)
(* busy says so; nothing the threads do in between reaches the hooks or the *)
(* context of the prompt's root, however many closures of its own run      *)
(* elsewhere.  Of the second: what is handed over is named by the number of *)
(* its statement, and is in one place, msgs, screen or done, at a time.    *)
(*                                                                         *)
(* Of the third, the invariant is Kept: every depth of a root counts the   *)
(* frames open on it in all the threads (Balanced), whoever is its handler *)
(* is in a process at home in it (Handled), and the namespace of the prompt *)
(* is what the lowest in_ns block found, for as long as the blocks of two  *)
(* threads have not mixed (NsOK).  Counting alone would not be kept by a   *)
(* step: it takes the shapes of the stacks (Shapes), that a free job has   *)
(* nothing on its stack (JobsOK), and that the prompt's thread has only in *)
(* an evaluation (PromptOK, which the first argument gives).               *)
(*                                                                         *)
(* Of the last two it is EditInv: the editor is Sound whatever is done to  *)
(* it, each of its operations by a lemma of its own; a search is not on    *)
(* while a statement runs, so that history_delete does not take the history *)
(* from under it (this needs that only the prompt's root has the hooks,    *)
(* HooksOK, and the first argument); and candidates are kept only as long  *)
(* as the editor hears nothing but Tabs, pastes and a search (Editing).    *)
(***************************************************************************)
EXTENDS Shell, EvaluatorProofs

-----------------------------------------------------------------------------
(* What the threads leave alone.                                           *)

\* The prompt's root is there, with the fields of Ctrl-C and of the hooks.
RootFits == "fg" \in DOMAIN root /\ {"ctx", "hooks"} \subseteq DOMAIN root["fg"]

\* new agrees with root on the context and the hooks of the prompt.
Keeps(new) ==
  /\ "fg" \in DOMAIN new /\ {"ctx", "hooks"} \subseteq DOMAIN new["fg"]
  /\ new["fg"].ctx = root["fg"].ctx /\ new["fg"].hooks = root["fg"].hooks

LEMMA CallKeeps ==
  ASSUME RootFits, NEW t, NEW s, NEW f, NEW n, Call(t, s, f, n)
  PROVE  Keeps(root')
  BY DEF Call, RootFits, Keeps

LEMMA DefineKeeps ==
  ASSUME RootFits, NEW t, NEW s, NEW x, NEW v, Define(t, s, x, v) \/ Assign(t, x, v)
  PROVE  Keeps(root')
  BY DEF Define, Assign, RootFits, Keeps

LEMMA UndoneKeeps ==
  ASSUME RootFits, NEW f
  PROVE  Keeps(Undone(f))
  BY DEF Undone, RootFits, Keeps

LEMMA ArgsKeeps ==
  ASSUME RootFits, NEW t, NEW v, ReturnToArgs(t, v)
  PROVE  Keeps(root')
<1>1. root' = root \/ \E s, f, n : Call(t, s, f, n)
  BY Zenon DEF ReturnToArgs
<1>. QED
  BY <1>1, CallKeeps DEF RootFits, Keeps

LEMMA StepKeeps ==
  ASSUME RootFits, given \in Nat, NEW t, ThreadStep(t)
  PROVE  Keeps(root') /\ given' \in Nat
<1>. USE DEF RootFits, Keeps
<1>1. CASE \/ EvalLit(t) \/ EvalVar(t) \/ EvalFn(t) \/ EvalJump(t) \/ EvalFirst(t) \/ EvalOperands(t)
           \/ EvalWhile(t) \/ LoopTop(t) \/ EvalAtHost(t) \/ EvalBind(t) \/ EvalUnbind(t)
           \/ EvalSourceConfig(t) \/ ResetStep(t) \/ CmdStart(t) \/ EvalScreen(t) \/ EvalAttach(t)
           \/ Detach(t) \/ EvalKill(t) \/ EvalWait(t)
  <2>1. root' = root /\ given' \in {given, given + 1}
    BY <1>1 DEF EvalLit, EvalVar, EvalFn, EvalJump, EvalFirst, EvalOperands, EvalWhile, LoopTop, EvalAtHost,
      EvalBind, EvalUnbind, EvalSourceConfig, ResetStep, CmdStart, EvalScreen, EvalAttach, Detach, EvalKill, EvalWait
  <2>. QED
    BY <2>1
<1>2. CASE EvalInNS(t)
  <2>1. \E new \in Spaces : root' = [root EXCEPT ![Home(t)].ns = new]
    BY <1>2, Zenon DEF EvalInNS
  <2>. QED
    BY <1>2, <2>1 DEF EvalInNS
<1>3. CASE EvalUnset(t)
  BY <1>3 DEF EvalUnset
<1>4. CASE EvalCd(t)
  BY <1>4 DEF EvalCd
<1>5. CASE EvalSource(t)
  BY <1>5 DEF EvalSource
<1>6. CASE EvalResetConfig(t)
  BY <1>6 DEF EvalResetConfig
<1>7. CASE CmdHandler(t)
  BY <1>7 DEF CmdHandler
<1>8. CASE CmdEnds(t)
  BY <1>8 DEF CmdEnds
<1>9. CASE EvalBackground(t)
  BY <1>9, EvaluatorAssumption DEF EvalBackground
<1>10. CASE Return(t)
  <2>1. given' = given
    BY <1>10 DEF Return
  <2>2. \/ root' = root \/ root' = Undone(Top(t)) \/ ReturnToArgs(t, Ctl(t).v)
        \/ \E s, x : Define(t, s, x, Ctl(t).v) \/ Assign(t, x, Ctl(t).v)
    BY <1>10 DEF Return, ReturnToScope, ReturnToIf, ReturnToWhile, ReturnToLogic, ReturnToConfig
  <2>. QED
    BY <2>1, <2>2, UndoneKeeps, DefineKeeps, ArgsKeeps
<1>11. CASE Unwind(t)
  BY <1>11 DEF Unwind, Undone
<1>. QED
  BY <1>1, <1>2, <1>3, <1>4, <1>5, <1>6, <1>7, <1>8, <1>9, <1>10, <1>11 DEF ThreadStep

-----------------------------------------------------------------------------
(* One statement at a time.                                                *)

\* Where the goroutine of a statement is before its result is left in the slot.
InFlight == {"parse", "hook", "eval", "release", "post"}

\* The ranges the proof needs.
Typed ==
  /\ RootFits /\ given \in Nat /\ stmt \in Nat /\ busy \in BOOLEAN
  /\ shown \in Seq(Nat \X Nat)
  /\ run = [at |-> run.at, text |-> run.text]
  /\ run.at \in InFlight \cup {"none", "startup", "config"}

\* Who has the statement: the goroutine, the slot, or nobody.
Turn ==
  /\ run.at \in InFlight => Len(shown) + 1 = stmt /\ pending = <<>>
  /\ run.at \in {"startup", "config"} => Len(shown) = stmt /\ pending = <<>>
  /\ run.at = "none" =>
       /\ run = NotRunning
       /\ \/ Len(shown) = stmt /\ pending = <<>>
          \/ Scene.tui /\ Len(shown) + 1 = stmt /\ \E n \in Nat : pending = <<<<stmt, n>>>>
  /\ run.at = "post" => Scene.tui
  /\ Scene.tui => (busy <=> Len(shown) < stmt)

\* The context and the hooks are those of the statement that runs.
Borrowed ==
  /\ root["fg"].ctx \in {NoCtx, <<"fg", stmt>>}
  /\ root["fg"].ctx # NoCtx => run.at \in {"parse", "hook", "eval", "release"}
  /\ root["fg"].hooks => run.at = "eval"

\* The transcript has the results in the order of the statements.
InOrder == \A i \in 1 .. Len(shown) : shown[i][1] = i

Inv == Typed /\ Turn /\ Borrowed /\ InOrder

LEMMA InvImplies == Inv => OneAtATime
<1>. SUFFICES ASSUME Inv PROVE OneAtATime
  OBVIOUS
<1>1. Len(shown) \in Nat /\ Len(shown) \in {stmt, stmt - 1}
  BY DEF Inv, Typed, Turn
<1>2. Context("fg") = root["fg"].ctx
  BY DEF Context
<1>. QED
  BY <1>1, <1>2 DEF Inv, Typed, Turn, Borrowed, InOrder, OneAtATime, Idling, InFlight, NotRunning

LEMMA InvInit == Init => Inv
<1>. SUFFICES ASSUME Init PROVE Inv
  OBVIOUS
<1>1. Typed
  <2>1. RootFits
    BY DEF Init, EvalInit, RootFits, FreshRoot, Roots
  <2>2. run = [at |-> run.at, text |-> run.text] /\ run.at \in {"none", "startup"}
    BY DEF Init, NotRunning
  <2>3. given \in Nat /\ stmt \in Nat /\ shown \in Seq(Nat \X Nat)
    BY DEF Init, EvalInit
  <2>4. busy \in BOOLEAN
    BY Zenon DEF Init
  <2>. QED
    BY <2>1, <2>2, <2>3, <2>4 DEF Typed
<1>2. Turn
  BY DEF Init, Turn, NotRunning, InFlight
<1>3. Borrowed
  BY DEF Init, EvalInit, Borrowed, FreshRoot, Roots
<1>4. InOrder
  BY DEF Init, InOrder
<1>. QED
  BY <1>1, <1>2, <1>3, <1>4 DEF Inv

LEMMA QuietStep ==
  ASSUME Inv, Keeps(root'), given' \in Nat, UNCHANGED <<stmt, shown, pending, run, busy, scene>>
  PROVE  Inv'
<1>1. Typed'
  BY DEF Inv, Typed, Keeps, RootFits
<1>2. Turn'
  BY DEF Inv, Turn, Scene
<1>3. Borrowed'
  BY DEF Inv, Borrowed, Keeps
<1>4. InOrder'
  BY DEF Inv, InOrder
<1>. QED
  BY <1>1, <1>2, <1>3, <1>4 DEF Inv

LEMMA SubmitStep ==
  ASSUME Inv, NEW e, Submit(e), Scene.tui, ~busy, Started, UNCHANGED <<scene, shown, pending>>
  PROVE  Inv'
<1>1. Len(shown) = stmt /\ run.at = "none" /\ pending = <<>> /\ Len(shown) \in Nat
  BY DEF Inv, Typed, Turn, Started, InFlight
<1>2. CASE IsBlank(e.input)
  <2>1. ~busy' /\ busy' \in BOOLEAN /\ UNCHANGED <<stmt, run, root, given>>
    BY <1>2 DEF Submit
  <2>. QED
    BY <1>1, <2>1 DEF Inv, Typed, Turn, Borrowed, InOrder, RootFits, Scene
<1>3. CASE ~IsBlank(e.input)
  <2>1. /\ busy' = TRUE /\ stmt' = stmt + 1 /\ given' = 0
        /\ root' = [root EXCEPT !["fg"].ctx = <<"fg", stmt + 1>>]
        /\ run' = [at |-> "parse", text |-> e.input]
    BY <1>3 DEF Submit
  <2>2. Typed'
    BY <2>1 DEF Inv, Typed, RootFits, InFlight
  <2>3. Turn'
    BY <1>1, <2>1 DEF Inv, Typed, Turn, InFlight, Scene
  <2>4. Borrowed'
    BY <1>1, <2>1 DEF Inv, Typed, RootFits, Borrowed
  <2>5. InOrder'
    BY DEF Inv, InOrder
  <2>. QED
    BY <2>2, <2>3, <2>4, <2>5 DEF Inv
<1>. QED
  BY <1>2, <1>3

LEMMA RunSteps ==
  ASSUME Inv, UNCHANGED scene,
         Parse \/ Hook \/ Evaluated \/ Release \/ Post \/ Bootstrap \/ Booted
  PROVE  Inv'
<1>. USE DEF RunStep, InFlight, NotRunning
<1>1. CASE Parse
  <2>1. Keeps(root') /\ given' \in Nat
    BY <1>1 DEF Inv, Typed, Parse, Keeps, RootFits
  <2>2. Typed' /\ Turn'
    BY <1>1 DEF Inv, Typed, Turn, Parse, RootFits, Scene
  <2>3. Borrowed' /\ InOrder'
    BY <1>1 DEF Inv, Borrowed, InOrder, Parse
  <2>. QED
    BY <2>2, <2>3 DEF Inv
<1>2. CASE Hook
  <2>1. Typed' /\ Turn'
    BY <1>2 DEF Inv, Typed, Turn, Hook, RootFits, Scene
  <2>2. Borrowed' /\ InOrder'
    BY <1>2 DEF Inv, Typed, RootFits, Borrowed, InOrder, Hook
  <2>. QED
    BY <2>1, <2>2 DEF Inv
<1>3. CASE Evaluated
  <2>1. Typed' /\ Turn'
    BY <1>3 DEF Inv, Typed, Turn, Evaluated, RootFits, Scene
  <2>2. Borrowed' /\ InOrder'
    BY <1>3 DEF Inv, Typed, RootFits, Borrowed, InOrder, Evaluated
  <2>. QED
    BY <2>1, <2>2 DEF Inv
<1>4. CASE Release
  <2>1. CASE Scene.tui
    <3>1. Typed' /\ Turn'
      BY <1>4, <2>1 DEF Inv, Typed, Turn, Release, RootFits, Scene
    <3>2. Borrowed' /\ InOrder'
      BY <1>4, <2>1 DEF Inv, Typed, RootFits, Borrowed, InOrder, Release
    <3>. QED
      BY <3>1, <3>2 DEF Inv
  <2>2. CASE ~Scene.tui
    <3>1. shown' = Append(shown, <<stmt, given>>) /\ <<stmt, given>> \in Nat \X Nat /\ shown \in Seq(Nat \X Nat)
          /\ Len(shown) + 1 = stmt
      BY <1>4, <2>2 DEF Release, Inv, Typed, Turn
    <3>2. shown' \in Seq(Nat \X Nat) /\ Len(shown') = stmt
      BY <3>1
    <3>3. Typed' /\ Turn'
      BY <1>4, <2>2, <3>2 DEF Inv, Typed, Turn, Release, RootFits, Scene
    <3>4. Borrowed'
      BY <1>4, <2>2 DEF Inv, Typed, RootFits, Borrowed, Release
    <3>5. InOrder'
      BY <3>1 DEF Inv, InOrder
    <3>. QED
      BY <3>3, <3>4, <3>5 DEF Inv
  <2>. QED
    BY <2>1, <2>2
<1>5. CASE Post
  <2>1. Typed' /\ Turn'
    BY <1>5 DEF Inv, Typed, Turn, Post, RootFits, Scene
  <2>2. Borrowed' /\ InOrder'
    BY <1>5 DEF Inv, Borrowed, InOrder, Post
  <2>. QED
    BY <2>1, <2>2 DEF Inv
<1>6. CASE Bootstrap \/ Booted
  <2>1. Typed' /\ Turn'
    BY <1>6 DEF Inv, Typed, Turn, Bootstrap, Booted, RootFits, Scene
  <2>2. Borrowed' /\ InOrder'
    BY <1>6 DEF Inv, Borrowed, InOrder, Bootstrap, Booted
  <2>. QED
    BY <2>1, <2>2 DEF Inv
<1>. QED
  BY <1>1, <1>2, <1>3, <1>4, <1>5, <1>6

LEMMA ReadStep ==
  ASSUME Inv, UNCHANGED scene, ReadLine
  PROVE  Inv'
<1>1. ~Scene.tui /\ run.at = "none" /\ Len(shown) = stmt /\ pending = <<>>
  BY DEF ReadLine, Idling, NotRunning, Inv, Turn
<1>2. CASE UNCHANGED <<stmt, run, root, given>>
  <2>1. Keeps(root') /\ given' \in Nat
    BY <1>2 DEF Inv, Typed, Keeps, RootFits
  <2>. QED
    BY <1>2, <2>1, QuietStep DEF ReadLine
<1>3. ASSUME NEW buf,
             stmt' = stmt + 1 /\ given' = 0,
             root' = [root EXCEPT !["fg"].ctx = <<"fg", stmt + 1>>],
             run' = [at |-> "parse", text |-> buf]
      PROVE  Inv'
  <2>0. UNCHANGED <<busy, shown, pending>>
    BY DEF ReadLine
  <2>2. Typed'
    BY <1>3, <2>0 DEF Inv, Typed, RootFits, InFlight
  <2>3. Turn'
    BY <1>1, <1>3, <2>0 DEF Inv, Typed, Turn, InFlight, Scene
  <2>4. Borrowed'
    BY <1>1, <1>3 DEF Inv, Typed, RootFits, Borrowed
  <2>5. InOrder'
    BY <2>0 DEF Inv, InOrder
  <2>. QED
    BY <2>2, <2>3, <2>4, <2>5 DEF Inv
<1>. QED
  BY <1>2, <1>3 DEF ReadLine

LEMMA DrainStep ==
  ASSUME Inv, UNCHANGED scene, Drain
  PROVE  Inv'
<1>1. CASE Scene.tui /\ screen = None /\ pending # <<>>
  <2>1. PICK n \in Nat : pending = <<<<stmt, n>>>>
    BY <1>1 DEF Inv, Typed, Turn
  <2>2. /\ pending' = <<>> /\ busy' = FALSE /\ shown' = Append(shown, <<stmt, n>>)
        /\ UNCHANGED <<root, given, stmt, run>>
    BY <1>1, <2>1 DEF Drain, evalVars
  <2>3. /\ Len(shown) + 1 = stmt /\ stmt \in Nat /\ shown \in Seq(Nat \X Nat) /\ run.at = "none"
        /\ <<stmt, n>> \in Nat \X Nat
    BY <2>1 DEF Inv, Typed, Turn
  <2>4. shown' \in Seq(Nat \X Nat) /\ Len(shown') = stmt
    BY <2>2, <2>3
  <2>5. Typed' /\ Turn'
    <3>1. Typed'
      BY <2>2, <2>4 DEF Inv, Typed, RootFits
    <3>2. run' = NotRunning /\ run'.at = "none"
      BY <2>2, <2>3 DEF Inv, Turn
    <3>3. Turn'
      BY <2>2, <2>3, <2>4, <3>2 DEF Turn, InFlight
    <3>. QED
      BY <3>1, <3>3
  <2>6. Borrowed'
    BY <2>2 DEF Inv, Borrowed
  <2>7. InOrder'
    BY <2>2, <2>3, <2>4 DEF Inv, InOrder
  <2>. QED
    BY <2>5, <2>6, <2>7 DEF Inv
<1>2. CASE ~(Scene.tui /\ screen = None /\ pending # <<>>)
  <2>1. UNCHANGED <<stmt, shown, pending, run, busy, root, given>>
    BY <1>2 DEF Drain, evalVars
  <2>2. Keeps(root') /\ given' \in Nat
    BY <2>1 DEF Inv, Typed, Keeps, RootFits
  <2>. QED
    BY <2>1, <2>2, QuietStep
<1>. QED
  BY <1>1, <1>2

LEMMA UserStep ==
  ASSUME Inv, UNCHANGED scene,
         KeyEnter \/ KeySearch \/ KeyEdit \/ KeyHelp \/ KeyQuit \/ KeyInterrupt \/ PasteText \/ MouseWheel
         \/ CancelContext \/ Tick \/ StartScreen \/ ScreenExits \/ EndOfInput \/ Signal
  PROVE  Inv'
<1>1. ASSUME NEW kind, NEW e, Edits(kind, e)
      PROVE  UNCHANGED <<stmt, shown, pending, run, busy, root, given>>
  BY <1>1 DEF Edits, Event, evalVars
<1>2. ASSUME UNCHANGED <<stmt, shown, pending, run, busy, root, given>>
      PROVE  Inv'
  <2>1. Keeps(root') /\ given' \in Nat
    BY <1>2 DEF Inv, Typed, Keeps, RootFits
  <2>. QED
    BY <1>2, <2>1, QuietStep
<1>3. CASE KeyEnter
  <2>1. CASE Edits(EnterIs, NewLine(Entered))
    BY <2>1, <1>1, <1>2
  <2>2. CASE Event(EnterIs) /\ Submit(Entered) /\ UNCHANGED shown
    <3>1. Scene.tui /\ Started /\ ~busy /\ UNCHANGED pending
      BY <1>3, <2>2 DEF KeyEnter, Event
    <3>. QED
      BY <2>2, <3>1, SubmitStep
  <2>. QED
    BY <1>3, <2>1, <2>2 DEF KeyEnter
<1>4. CASE KeySearch \/ KeyEdit \/ PasteText \/ MouseWheel
  <2>1. \E kind, e : Edits(kind, e)
    BY <1>4, Zenon DEF KeySearch, KeyEdit, PasteText, MouseWheel
  <2>. QED
    BY <2>1, <1>1, <1>2
<1>5. CASE KeyHelp \/ KeyQuit \/ KeyInterrupt \/ CancelContext \/ Tick \/ StartScreen \/ ScreenExits
           \/ EndOfInput \/ Signal
  <2>1. UNCHANGED <<stmt, shown, pending, run, busy, root, given>>
    BY <1>5 DEF KeyHelp, KeyQuit, KeyInterrupt, CancelContext, Tick, StartScreen, ScreenExits, EndOfInput,
       Signal, Event, evalVars, uiVars
  <2>. QED
    BY <2>1, <1>2
<1>. QED
  BY <1>3, <1>4, <1>5

LEMMA ThreadKeepsInv ==
  ASSUME Inv, UNCHANGED scene,
         \/ \E t \in Roots : Evaluates(t)
         \/ \E j \in Jobs : JobEnds(j) /\ Stays
  PROVE  Inv'
<1>1. ASSUME NEW t \in Roots, ThreadStep(t), Stays PROVE Inv'
  <2>1. Keeps(root') /\ given' \in Nat
    BY <1>1, StepKeeps DEF Inv, Typed
  <2>2. UNCHANGED <<stmt, shown, pending, run, busy>>
    BY <1>1 DEF Stays, uiVars
  <2>. QED
    BY <2>1, <2>2, QuietStep
<1>2. ASSUME NEW t \in Roots, HistoryCall(t) PROVE Inv'
  <2>1. UNCHANGED <<stmt, shown, pending, run, busy, root, given>>
    BY <1>2 DEF HistoryCall
  <2>2. Keeps(root') /\ given' \in Nat
    BY <2>1 DEF Inv, Typed, Keeps, RootFits
  <2>. QED
    BY <2>1, <2>2, QuietStep
<1>3. ASSUME NEW j \in Jobs, JobEnds(j), Stays PROVE Inv'
  <2>1. Keeps(root') /\ given' \in Nat
    BY <1>3, EvaluatorAssumption DEF JobEnds, Inv, Typed, Keeps, RootFits
  <2>2. UNCHANGED <<stmt, shown, pending, run, busy>>
    BY <1>3 DEF Stays, uiVars
  <2>. QED
    BY <2>1, <2>2, QuietStep
<1>. QED
  BY <1>1, <1>2, <1>3 DEF Evaluates

LEMMA InvNext == Inv /\ [Next]_vars => Inv'
<1>. SUFFICES ASSUME Inv, [Next]_vars PROVE Inv'
  OBVIOUS
<1>1. CASE UNCHANGED vars
  <2>1. UNCHANGED <<stmt, shown, pending, run, busy, scene, root, given>>
    BY <1>1 DEF vars, evalVars, uiVars
  <2>2. Keeps(root') /\ given' \in Nat
    BY <2>1 DEF Inv, Typed, Keeps, RootFits
  <2>. QED
    BY <2>1, <2>2, QuietStep
<1>2. CASE Next
  <2>1. UNCHANGED scene
    BY <1>2 DEF Next, Alive
  <2>. QED
    BY <1>2, <2>1, UserStep, RunSteps, ReadStep, DrainStep, ThreadKeepsInv DEF Next
<1>. QED
  BY <1>1, <1>2

\* Statements are evaluated one at a time and shown once, in order, for any programs,
\* any number of background jobs and any input.
THEOREM ShellOneAtATime == Spec => []OneAtATime
  BY InvInit, InvNext, InvImplies, PTL DEF Spec

-----------------------------------------------------------------------------
(* Screens.                                                                *)

\* s is what a statement that has been shown has handed over.
Handed(s) == \E i \in 1 .. Len(shown) : s = shown[i] /\ s[2] > 0

\* What is handed over is in one place at a time, and was given back once if at all: not
\* once another program has begun in its place.
ScreensApart ==
  /\ \A s \in msgs : Handed(s)
  /\ screen # None => Handed(screen) /\ screen \notin msgs
  /\ done \in Seq(Nat \X Nat)
  /\ \A s \in ToSet(done) : Handed(s) /\ s \notin msgs /\ s # screen
  /\ \A s \in replaced : Handed(s) /\ s \notin msgs /\ s # screen /\ s \notin ToSet(done)
  /\ IsFiniteSet(ToSet(done)) /\ Cardinality(ToSet(done)) = Len(done)

\* No statement's program is lost but to one that began while it had the screen.
Served ==
  \A i \in 1 .. Len(shown) :
    shown[i][2] > 0 /\ Scene.tui => shown[i] \in ToSet(done) \cup msgs \cup {screen} \cup replaced

ScreenInv == ScreensApart /\ Served

LEMMA HandedDiffer ==
  ASSUME Inv, NEW s, NEW r, Handed(s), Handed(r)
  PROVE  s \in Nat \X Nat /\ s # None /\ s[1] <= Len(shown) /\ (s[1] = r[1] => s = r)
<1>1. shown \in Seq(Nat \X Nat) /\ \A i \in 1 .. Len(shown) : shown[i] \in Nat \X Nat /\ shown[i][1] = i
  BY DEF Inv, Typed, InOrder
<1>2. PICK i \in 1 .. Len(shown) : s = shown[i]
  BY DEF Handed
<1>3. PICK j \in 1 .. Len(shown) : r = shown[j]
  BY DEF Handed
<1>4. s \in Nat \X Nat /\ s[1] = i /\ r[1] = j /\ i >= 1
  BY <1>1, <1>2, <1>3
<1>5. s # None
  BY <1>4 DEF None
<1>. QED
  BY <1>1, <1>2, <1>3, <1>4, <1>5

LEMMA ScreenInit == Init => ScreenInv
<1>. SUFFICES ASSUME Init PROVE ScreenInv
  OBVIOUS
<1>1. ToSet(done) = {}
  BY DEF Init, ToSet
<1>2. done = <<>> /\ shown = <<>> /\ msgs = {} /\ screen = None /\ replaced = {}
  BY DEF Init
<1>3. IsFiniteSet(ToSet(done)) /\ Cardinality(ToSet(done)) = 0
  BY <1>1, FS_EmptySet
<1>4. done \in Seq(Nat \X Nat) /\ Len(done) = 0
  BY <1>2
<1>5. ScreensApart
  BY <1>1, <1>2, <1>3, <1>4 DEF ScreensApart
<1>6. Served
  BY <1>2 DEF Served
<1>. QED
  BY <1>5, <1>6 DEF ScreenInv

LEMMA ScreenQuiet ==
  ASSUME ScreenInv, UNCHANGED <<shown, msgs, screen, done, scene>>, replaced' = replaced \cup Ousted
  PROVE  ScreenInv'
<1>1. replaced' = replaced
  BY DEF Ousted
<1>. QED
  BY <1>1 DEF ScreenInv, ScreensApart, Served, Handed, Scene

LEMMA ScreenDrain ==
  ASSUME Inv, ScreenInv, UNCHANGED scene, Drain, replaced' = replaced \cup Ousted
  PROVE  ScreenInv'
<1>1. CASE Scene.tui /\ screen = None /\ pending # <<>>
  <2>1. PICK n \in Nat : pending = <<<<stmt, n>>>>
    BY <1>1 DEF Inv, Typed, Turn
  <2>0. PICK res : res = <<stmt, n>>
    OBVIOUS
  <2>2. /\ shown' = Append(shown, res) /\ UNCHANGED <<screen, done, replaced>>
        /\ msgs' = IF n = 0 THEN msgs ELSE msgs \cup {res}
    BY <1>1, <2>0, <2>1 DEF Drain, Ousted
  <2>3. /\ Len(shown) + 1 = stmt /\ stmt \in Nat /\ shown \in Seq(Nat \X Nat)
    BY <2>1 DEF Inv, Typed, Turn
  <2>4. /\ Len(shown') = Len(shown) + 1 /\ shown'[Len(shown) + 1] = res
        /\ \A i \in 1 .. Len(shown) : shown'[i] = shown[i]
    BY <2>2, <2>3
  <2>5. ASSUME NEW s, Handed(s) PROVE Handed(s)' /\ s # res
    <3>1. PICK i \in 1 .. Len(shown) : s = shown[i] /\ s[2] > 0
      BY <2>5 DEF Handed
    <3>2. i \in 1 .. Len(shown') /\ s = shown'[i]
      <4>1. Len(shown) \in Nat
        BY <2>3
      <4>2. s = shown'[i]
        BY <2>4, <3>1
      <4>3. i \in 1 .. Len(shown) + 1
        BY <3>1, <4>1
      <4>. QED
        BY <2>4, <4>2, <4>3
    <3>3. s[1] <= Len(shown)
      BY <2>5, HandedDiffer
    <3>4. s # res
      BY <2>0, <2>3, <3>3
    <3>. QED
      BY <3>1, <3>2, <3>4 DEF Handed
  <2>6. n # 0 => Handed(res)'
    <3>1. n # 0 => res[2] > 0
      BY <2>0
    <3>2. Len(shown) + 1 \in 1 .. Len(shown') /\ res = shown'[Len(shown) + 1]
      BY <2>3, <2>4
    <3>. QED
      BY <3>1, <3>2 DEF Handed
  <2>7. ScreensApart'
    <3>1. n = 0 => msgs' = msgs
      BY <2>2
    <3>. QED
      BY <1>1, <2>2, <2>5, <2>6, <3>1 DEF ScreenInv, ScreensApart
  <2>8. Served'
    BY <1>1, <2>0, <2>2, <2>3, <2>4 DEF ScreenInv, Served, Scene
  <2>. QED
    BY <2>7, <2>8 DEF ScreenInv
<1>2. CASE ~(Scene.tui /\ screen = None /\ pending # <<>>)
  BY <1>2, ScreenQuiet DEF Drain
<1>. QED
  BY <1>1, <1>2

LEMMA ScreenTaken ==
  ASSUME Inv, ScreenInv, UNCHANGED scene, StartScreen, replaced' = replaced \cup Ousted
  PROVE  ScreenInv'
<1>1. PICK m \in msgs : screen' = m /\ msgs' = msgs \ {m}
  BY DEF StartScreen
<1>2. UNCHANGED <<shown, done>>
  BY DEF StartScreen
<1>3. Handed(m)
  BY DEF ScreenInv, ScreensApart
<1>4. \A s : Handed(s)' <=> Handed(s)
  BY <1>2 DEF Handed
<1>5. m # None /\ m # screen
  <2>1. m # None
    BY <1>3, HandedDiffer
  <2>. QED
    BY <1>1, <2>1 DEF ScreenInv, ScreensApart
<1>6. replaced' = IF screen = None THEN replaced ELSE replaced \cup {screen}
  BY <1>1, <1>5 DEF Ousted
<1>7. \A s \in replaced' : Handed(s)' /\ s \notin msgs' /\ s # m /\ s \notin ToSet(done)
  BY <1>1, <1>4, <1>5, <1>6 DEF ScreenInv, ScreensApart
<1>8. ScreensApart'
  BY <1>1, <1>2, <1>3, <1>4, <1>7 DEF ScreenInv, ScreensApart
<1>9. Served'
  <2>. SUFFICES ASSUME NEW i \in 1 .. Len(shown), shown[i][2] > 0, Scene.tui
       PROVE  shown[i] \in ToSet(done) \cup (msgs \ {m}) \cup {m} \cup replaced'
    BY <1>1, <1>2 DEF Served, Scene
  <2>1. shown[i] # None
    <3>1. Handed(shown[i])
      BY DEF Handed
    <3>. QED
      BY <3>1, HandedDiffer
  <2>. QED
    BY <1>6, <2>1 DEF ScreenInv, Served
<1>. QED
  BY <1>8, <1>9 DEF ScreenInv

LEMMA ScreenGiven ==
  ASSUME Inv, ScreenInv, UNCHANGED scene, ScreenExits, replaced' = replaced \cup Ousted
  PROVE  ScreenInv'
<1>1. /\ screen # None /\ screen' = None /\ done' = Append(done, screen)
      /\ UNCHANGED <<shown, msgs, replaced>>
  BY DEF ScreenExits, Ousted
<1>2. Handed(screen) /\ screen \in Nat \X Nat /\ screen \notin msgs /\ screen \notin ToSet(done)
  BY <1>1, HandedDiffer DEF ScreenInv, ScreensApart
<1>3. ToSet(done') = ToSet(done) \cup {screen}
  <2>1. done \in Seq(Nat \X Nat) /\ Len(done') = Len(done) + 1 /\ done'[Len(done) + 1] = screen
        /\ \A i \in 1 .. Len(done) : done'[i] = done[i]
    BY <1>1, <1>2 DEF ScreenInv, ScreensApart
  <2>2. DOMAIN done = 1 .. Len(done) /\ DOMAIN done' = 1 .. Len(done) + 1 /\ Len(done) \in Nat
    BY <1>1, <1>2, <2>1
  <2>. QED
    BY <2>1, <2>2, SMTT(30) DEF ToSet
<1>4. \A s : Handed(s)' <=> Handed(s)
  BY <1>1 DEF Handed
<1>5. \A s : Handed(s) => s # None
  BY HandedDiffer
<1>6. IsFiniteSet(ToSet(done')) /\ Cardinality(ToSet(done')) = Len(done')
  <2>1. IsFiniteSet(ToSet(done)) /\ Cardinality(ToSet(done)) = Len(done) /\ done \in Seq(Nat \X Nat)
    BY DEF ScreenInv, ScreensApart
  <2>2. Cardinality(ToSet(done) \cup {screen}) = Cardinality(ToSet(done)) + 1
        /\ IsFiniteSet(ToSet(done) \cup {screen})
    BY <1>2, <2>1, FS_AddElement
  <2>3. Len(done') = Len(done) + 1
    BY <1>1, <1>2, <2>1
  <2>. QED
    BY <1>3, <2>1, <2>2, <2>3
<1>7. ScreensApart'
  <2>1. done' \in Seq(Nat \X Nat)
    BY <1>1, <1>2 DEF ScreenInv, ScreensApart
  <2>2. \A s \in ToSet(done') : Handed(s)' /\ s \notin msgs' /\ s # screen'
    BY <1>1, <1>2, <1>3, <1>4, <1>5 DEF ScreenInv, ScreensApart
  <2>3. \A s \in msgs' : Handed(s)'
    BY <1>1, <1>4 DEF ScreenInv, ScreensApart
  <2>4. \A s \in replaced' : Handed(s)' /\ s \notin msgs' /\ s # screen' /\ s \notin ToSet(done')
    BY <1>1, <1>3, <1>4, <1>5 DEF ScreenInv, ScreensApart
  <2>. QED
    BY <1>1, <1>6, <2>1, <2>2, <2>3, <2>4 DEF ScreensApart
<1>8. Served'
  BY <1>1, <1>3 DEF ScreenInv, Served, Scene
<1>. QED
  BY <1>7, <1>8 DEF ScreenInv

LEMMA ScreenRelease ==
  ASSUME Inv, ScreenInv, UNCHANGED scene, Release, replaced' = replaced \cup Ousted
  PROVE  ScreenInv'
<1>1. UNCHANGED <<msgs, screen, done, replaced>>
  BY DEF Release, RunStep, Ousted
<1>2. CASE Scene.tui
  BY <1>1, <1>2, ScreenQuiet DEF Release
<1>3. CASE ~Scene.tui
  <2>1. shown \in Seq(Nat \X Nat) /\ shown' = Append(shown, <<stmt, given>>)
    BY <1>3 DEF Release, Inv, Typed
  <2>2. /\ Len(shown) \in Nat /\ Len(shown') = Len(shown) + 1
        /\ \A i \in 1 .. Len(shown) : i \in 1 .. Len(shown) + 1 /\ shown'[i] = shown[i]
    BY <2>1
  <2>3. ASSUME NEW s, Handed(s) PROVE Handed(s)'
    BY <2>2, <2>3 DEF Handed
  <2>4. screen # None => Handed(screen)'
    <3>1. PICK s : s = screen
      OBVIOUS
    <3>2. screen' = s
      BY <1>1, <3>1
    <3>. QED
      BY <2>3, <3>1, <3>2 DEF ScreenInv, ScreensApart, Handed
  <2>5. ScreensApart'
    BY <1>1, <2>3, <2>4 DEF ScreenInv, ScreensApart
  <2>6. Served'
    BY <1>3 DEF Served, Scene
  <2>. QED
    BY <2>5, <2>6 DEF ScreenInv
<1>. QED
  BY <1>2, <1>3

LEMMA ScreenNext == Inv /\ ScreenInv /\ [Next]_vars => ScreenInv'
<1>. SUFFICES ASSUME Inv, ScreenInv, [Next]_vars PROVE ScreenInv'
  OBVIOUS
<1>1. CASE UNCHANGED vars
  <2>1. UNCHANGED <<shown, msgs, screen, done, scene, replaced>>
    BY <1>1 DEF vars, uiVars
  <2>2. replaced' = replaced \cup Ousted
    BY <2>1 DEF Ousted
  <2>. QED
    BY <2>1, <2>2, ScreenQuiet
<1>2. CASE Next
  <2>. DEFINE Still == UNCHANGED <<shown, msgs, screen, done>>
  <2>0. UNCHANGED scene /\ replaced' = replaced \cup Ousted
    BY <1>2 DEF Next, Alive
  <2>1. CASE Drain \/ StartScreen \/ ScreenExits \/ Release
    BY <2>0, <2>1, ScreenDrain, ScreenTaken, ScreenGiven, ScreenRelease
  <2>2. CASE KeyEnter \/ KeySearch \/ KeyEdit \/ PasteText \/ MouseWheel
    <3>1. ASSUME NEW kind, NEW e, Edits(kind, e) PROVE Still
      BY <3>1 DEF Edits
    <3>2. KeyEnter => Still \/ \E kind, e : Edits(kind, e)
      BY DEF KeyEnter
    <3>3. KeySearch \/ KeyEdit \/ PasteText \/ MouseWheel => \E kind, e : Edits(kind, e)
      BY Zenon DEF KeySearch, KeyEdit, PasteText, MouseWheel
    <3>4. Still
      BY <2>2, <3>1, <3>2, <3>3
    <3>. QED
      BY <2>0, <3>4, ScreenQuiet
  <2>3. CASE KeyHelp \/ KeyQuit \/ KeyInterrupt \/ CancelContext \/ Tick \/ EndOfInput \/ Signal
    <3>1. Still
      BY <2>3 DEF KeyHelp, KeyQuit, KeyInterrupt, CancelContext, Tick, EndOfInput, Signal, uiVars
    <3>. QED
      BY <2>0, <3>1, ScreenQuiet
  <2>4. CASE Parse \/ Hook \/ Evaluated \/ Post \/ Bootstrap \/ Booted \/ ReadLine
    <3>1. Still
      BY <2>4 DEF Parse, Hook, Evaluated, Post, Bootstrap, Booted, ReadLine, RunStep
    <3>. QED
      BY <2>0, <3>1, ScreenQuiet
  <2>5. CASE (\E t \in Roots : Evaluates(t)) \/ (\E j \in Jobs : JobEnds(j) /\ Stays)
    <3>1. Still
      BY <2>5 DEF Evaluates, HistoryCall, Stays, uiVars
    <3>. QED
      BY <2>0, <3>1, ScreenQuiet
  <2>. QED
    BY <1>2, <2>1, <2>2, <2>3, <2>4, <2>5 DEF Next
<1>. QED
  BY <1>1, <1>2

LEMMA ScreenImplies == ScreenInv => WrittenBackOnce
<1>. SUFFICES ASSUME ScreenInv PROVE WrittenBackOnce
  OBVIOUS
<1>1. DOMAIN shown = 1 .. Len(shown) => WrittenBackOnce
  BY DEF ScreenInv, ScreensApart, Served, WrittenBackOnce
<1>. QED
  BY <1>1

\* A full-screen program that was handed over is on its way, has the screen, or was written
\* back once when it ended, unless another program has begun while it had the screen: for
\* any programs, any number of hand-overs and any order of their messages.
THEOREM ShellWritesBackOnce == Spec => []WrittenBackOnce
  BY InvInit, InvNext, ScreenInit, ScreenNext, ScreenImplies, PTL DEF Spec

-----------------------------------------------------------------------------
(* The invariant.                                                          *)

HomeOf(s) == s[BaseOf(s)].home

\* Whoever a root names as its handler is in a process, in an environment of that root.
Handled(x, rt) ==
  \A r \in Roots : rt[r].handler # "none" =>
    LET t == rt[r].handler IN t \in Roots /\ x[t].ctl.do = "running" /\ HomeOf(x[t].stack) = r

JobsOK ==
  /\ DOMAIN jobs = Jobs
  /\ \A j \in Jobs : "state" \in DOMAIN jobs[j] /\ (jobs[j].state = "free" => th[j] = Idle)

PromptOK == run.at \notin {"eval", "config"} => th["fg"] = Idle

Kept ==
  /\ Shapes /\ JobsOK /\ PromptOK
  /\ Balanced(th, root) /\ Handled(th, root)
  /\ ~mixed => NsOK(th, root["fg"].ns)

\* No job becomes free, and none in use again.
SameJobs ==
  /\ DOMAIN jobs' = Jobs
  /\ \A j \in Jobs : "state" \in DOMAIN jobs'[j] /\ (jobs'[j].state = "free" <=> jobs[j].state = "free")

LEMMA KeptBy ==
  ASSUME Kept, NEW t \in Roots, Stepped(t), Handled(th', root'), SameJobs, PromptOK',
         t \in Jobs => jobs[t].state # "free" \/ th' = th, mixed' = (mixed \/ Mixes')
  PROVE  Kept'
<1>1. Live' = Live
  BY DEF Live, SameJobs
<1>2. PICK z : /\ th' = [th EXCEPT ![t] = z] /\ ThreadOK(z, Live)
               /\ Moved(Stack(t), z.stack, root, root') /\ FieldsOK(root', Live)
  BY DEF Stepped
<1>3. DOMAIN th = Roots /\ th'[t] = z /\ \A u \in Roots : u # t => th'[u] = th[u]
  BY <1>2 DEF Kept, Shapes
<1>4. OnlyStack(t, th, th')
  BY <1>3 DEF OnlyStack
<1>5. Shapes'
  <2>1. DOMAIN th' = Roots /\ IsFcn(th') /\ \A u \in Roots : ThreadOK(th'[u], Live)
    BY <1>2, <1>3 DEF Kept, Shapes, IsFcn
  <2>2. QED BY <1>1, <1>2, <2>1 DEF Shapes
<1>6. JobsOK'
  BY <1>3 DEF Kept, JobsOK, SameJobs, Roots
<1>7. Moved(th[t].stack, th'[t].stack, root, root')
  BY <1>2, <1>3 DEF Stack
<1>8. Balanced(th', root')
  BY <1>4, <1>7, Balance DEF Kept
<1>9. ASSUME ~mixed' PROVE NsOK(th', root'["fg"].ns)
  <2>1. ~mixed /\ ~Mixes' /\ NsOK(th, root["fg"].ns)
    BY <1>9 DEF Kept
  <2>2. "fg" \in Roots /\ \A u \in Roots : IsStack(th'[u].stack)
    BY <1>5 DEF Shapes, ThreadOK, StackOK, Roots
  <2>3. ~(Cardinality({u \in Roots : \E f \in ToSet(th'[u].stack) : f.k = "in_ns" /\ f.home = "fg"}) > 1)
    BY <2>1, <2>2, Zenon DEF Mixes, Stack
  <2>4. AtMostOne(th')
    BY <2>2, <2>3, NotMixed
  <2>5. QED BY <1>4, <1>7, <2>1, <2>4, NsMoves
<1>10. QED
  BY <1>5, <1>6, <1>8, <1>9 DEF Kept

\* A step of a thread that is in no process, to which no root has a word to say.
LEMMA HandledBy ==
  ASSUME Kept, NEW t \in Roots, Stepped(t), Ctl(t).do # "running",
         \A r \in Roots : root'[r].handler = root[r].handler
  PROVE  Handled(th', root')
<1>1. \A u \in Roots : u # t => th'[u] = th[u]
  BY DEF Stepped, Kept, Shapes
<1>2. QED BY <1>1 DEF Kept, Handled, Ctl

\* Nothing happens to the threads, and to the roots nothing that counts.
LEMMA KeptStill ==
  ASSUME Kept, th' = th, jobs' = jobs, Alike(root, root'), FieldsOK(root', Live), PromptOK',
         \A r \in Roots : root'[r].handler = root[r].handler, mixed' = (mixed \/ Mixes')
  PROVE  Kept'
<1>1. "fg" \in Roots /\ "fg" \notin Jobs
  BY EvaluatorAssumption DEF Roots
<1>2. th' = [th EXCEPT !["fg"] = th["fg"]]
  BY DEF Kept, Shapes, IsFcn
<1>3. Stepped("fg")
  <2>1. ThreadOK(th["fg"], Live) /\ Moved(Stack("fg"), th["fg"].stack, root, root')
    BY <1>1, SameIsSame DEF Kept, Shapes, Moved, Stack
  <2>2. QED BY <1>2, <2>1 DEF Stepped
<1>4. Handled(th', root')
  BY DEF Kept, Handled
<1>5. SameJobs
  BY DEF Kept, JobsOK, SameJobs
<1>6. QED BY <1>1, <1>3, <1>4, <1>5, KeptBy

LEMMA KeptUntouched ==
  ASSUME Kept, UNCHANGED <<th, jobs, root>>, PromptOK', mixed' = (mixed \/ Mixes')
  PROVE  Kept'
<1>1. Alike(root, root') /\ FieldsOK(root', Live)
  BY RootStays DEF Kept
<1>2. QED BY <1>1, KeptStill

LEMMA KeptContext ==
  ASSUME Kept, UNCHANGED <<th, jobs>>, NEW c, root' = [root EXCEPT !["fg"].ctx = c],
         PromptOK', mixed' = (mixed \/ Mixes')
  PROVE  Kept'
<1>1. "fg" \in Roots
  BY DEF Roots
<1>2. Alike(root, root') /\ FieldsOK(root', Live)
  BY <1>1, FieldSet DEF Kept
<1>3. \A r \in Roots : root'[r].handler = root[r].handler
  BY DEF Kept, Shapes, FieldsOK
<1>4. QED BY <1>2, <1>3, KeptStill

-----------------------------------------------------------------------------
(* A thread's steps keep it.                                               *)

LEMMA CallHandlers ==
  ASSUME Shapes, NEW t, NEW s, NEW f, NEW n, Call(t, s, f, n), NEW r \in Roots
  PROVE  root'[r].handler = root[r].handler
  BY DEF Call, Shapes, FieldsOK

LEMMA ReturnHandlers ==
  ASSUME Shapes, NEW t, Return(t) \/ Unwind(t), NEW r \in Roots
  PROVE  root'[r].handler = root[r].handler
<1>1. ASSUME NEW f, root' = Undone(f) PROVE root'[r].handler = root[r].handler
  BY <1>1 DEF Undone, Shapes, FieldsOK
<1>2. ASSUME NEW s, NEW x, NEW v, Define(t, s, x, v) \/ Assign(t, x, v) PROVE root'[r].handler = root[r].handler
  BY <1>2 DEF Define, Assign, Shapes, FieldsOK
<1>3. ASSUME NEW v, ReturnToArgs(t, v) PROVE root'[r].handler = root[r].handler
  <2>1. root' = root \/ \E s, f, n : Call(t, s, f, n)
    BY <1>3, Zenon DEF ReturnToArgs
  <2>2. QED BY <2>1, CallHandlers
<1>4. \/ root' = root \/ root' = Undone(Top(t)) \/ ReturnToArgs(t, Ctl(t).v)
      \/ \E s, x : Define(t, s, x, Ctl(t).v) \/ Assign(t, x, Ctl(t).v)
  BY DEF Return, ReturnToScope, ReturnToIf, ReturnToWhile, ReturnToLogic, ReturnToConfig, Unwind
<1>5. QED BY <1>1, <1>2, <1>3, <1>4

LEMMA StepHandlers ==
  ASSUME Shapes, NEW t \in Roots, ThreadStep(t), ~EvalBackground(t), ~CmdHandler(t), ~CmdEnds(t), NEW r \in Roots
  PROVE  root'[r].handler = root[r].handler /\ Ctl(t).do # "running"
<1>1. CASE EvalLit(t) \/ EvalVar(t) \/ EvalFn(t) \/ EvalJump(t) \/ EvalFirst(t) \/ EvalOperands(t)
           \/ EvalWhile(t) \/ LoopTop(t) \/ EvalAtHost(t) \/ EvalBind(t) \/ EvalUnbind(t)
           \/ EvalSourceConfig(t) \/ ResetStep(t) \/ CmdStart(t) \/ EvalScreen(t) \/ EvalAttach(t)
           \/ Detach(t) \/ EvalKill(t) \/ EvalWait(t)
  BY <1>1 DEF EvalLit, EvalVar, EvalFn, EvalJump, EvalFirst, EvalOperands, EvalWhile, LoopTop, EvalAtHost,
     EvalBind, EvalUnbind, EvalSourceConfig, ResetStep, CmdStart, EvalScreen, EvalAttach, Detach, EvalKill,
     EvalWait, At, Doing
<1>2. CASE EvalInNS(t)
  <2>1. \E h, new : root' = [root EXCEPT ![h].ns = new]
    BY <1>2, Zenon DEF EvalInNS
  <2>2. QED BY <1>2, <2>1 DEF EvalInNS, At, Doing, Shapes, FieldsOK
<1>3. CASE EvalUnset(t)
  <2>1. \E h, new : root' = [root EXCEPT ![h].vars = new]
    BY <1>3 DEF EvalUnset
  <2>2. QED BY <1>3, <2>1 DEF EvalUnset, At, Doing, Shapes, FieldsOK
<1>4. CASE EvalCd(t)
  BY <1>4 DEF EvalCd, At, Doing, Shapes, FieldsOK
<1>5. CASE EvalSource(t)
  BY <1>5 DEF EvalSource, At, Doing, Shapes, FieldsOK
<1>6. CASE EvalResetConfig(t)
  BY <1>6 DEF EvalResetConfig, At, Doing, Shapes, FieldsOK
<1>7. CASE Return(t) \/ Unwind(t)
  BY <1>7, ReturnHandlers DEF Return, Unwind, Doing
<1>8. QED
  BY <1>1, <1>2, <1>3, <1>4, <1>5, <1>6, <1>7 DEF ThreadStep

\* Only a thread that evaluates something takes a step.
LEMMA StepIsBusy ==
  ASSUME NEW t, ThreadStep(t) \/ HistoryCall(t)
  PROVE  th[t] # Idle
<1>1. Ctl(t).do \in {"eval", "loop", "reset", "started", "running", "attached", "val", "sig"}
  BY DEF ThreadStep, HistoryCall, EvalLit, EvalVar, EvalFn, EvalJump, EvalFirst, EvalOperands, EvalWhile, LoopTop,
     EvalAtHost, EvalBind, EvalUnbind, EvalSourceConfig, ResetStep, CmdStart, EvalScreen, EvalAttach, Detach,
     EvalKill, EvalWait, EvalInNS, EvalUnset, EvalCd, EvalSource, EvalResetConfig, CmdHandler, CmdEnds,
     EvalBackground, Return, Unwind, At, Doing
<1>2. QED BY <1>1 DEF Ctl, Idle

LEMMA StepJobs ==
  ASSUME JobsOK, NEW t, ThreadStep(t), ~EvalBackground(t)
  PROVE  SameJobs
<1>1. CASE jobs' = jobs
  BY <1>1 DEF JobsOK, SameJobs
<1>2. CASE EvalKill(t)
  <2>1. jobs' = jobs \/ \E j : jobs' = [jobs EXCEPT ![j].killed = TRUE]
    BY <1>2, Zenon DEF EvalKill
  <2>2. QED BY <1>1, <2>1 DEF JobsOK, SameJobs
<1>3. jobs' = jobs \/ EvalKill(t)
  BY DEF ThreadStep, EvalLit, EvalVar, EvalFn, EvalJump, EvalFirst, EvalOperands, EvalWhile, LoopTop,
     EvalAtHost, EvalBind, EvalUnbind, EvalSourceConfig, ResetStep, CmdStart, EvalScreen, EvalAttach, Detach,
     EvalWait, EvalInNS, EvalUnset, EvalCd, EvalSource, EvalResetConfig, CmdHandler, CmdEnds,
     Return, Unwind
<1>4. QED BY <1>1, <1>2, <1>3

\* The process of a command begins, or ends.
LEMMA CommandHandled ==
  ASSUME Kept, NEW t \in Roots, CmdHandler(t) \/ CmdEnds(t)
  PROVE  Handled(th', root')
<1>1. Stands(t) /\ Home(t) \in Roots
  BY Standing DEF Kept, CmdHandler, CmdEnds, Doing, Stands
<1>2. Home(t) = HomeOf(th[t].stack)
  BY DEF Home, HomeOf, Base, BaseOf, Stack
<1>3. PICK c : th' = [th EXCEPT ![t] = [stack |-> th[t].stack, ctl |-> c]] /\ (CmdHandler(t) => c.do = "running")
  <2>1. CASE CmdHandler(t)
    <3>1. PICK c : Does(t, c) /\ c.do = "running"
      BY <2>1 DEF CmdHandler
    <3>2. QED BY <3>1 DEF Does, Goes, Stack
  <2>2. CASE CmdEnds(t)
    <3>1. ~CmdHandler(t)
      BY <2>2 DEF CmdHandler, CmdEnds, Doing
    <3>2. PICK c : Does(t, c)
      BY <2>2 DEF CmdEnds
    <3>3. QED BY <3>1, <3>2 DEF Does, Goes, Stack
  <2>3. QED BY <2>1, <2>2
<1>4. /\ \A u \in Roots : u # t => th'[u] = th[u]
      /\ th'[t].stack = th[t].stack /\ th'[t].ctl = c
  BY <1>3 DEF Kept, Shapes
<1>5. CASE CmdHandler(t)
  <2>1. /\ \A r \in Roots : r # Home(t) => root'[r].handler = root[r].handler
        /\ root'[Home(t)].handler = t /\ Ctl(t).do = "started"
    BY <1>1, <1>5 DEF CmdHandler, Kept, Shapes, FieldsOK, Doing
  <2>2. QED BY <1>2, <1>3, <1>4, <1>5, <2>1 DEF Kept, Handled, Ctl
<1>6. CASE CmdEnds(t)
  <2>1. /\ \A r \in Roots : r # Home(t) => root'[r].handler = root[r].handler
        /\ root'[Home(t)].handler = "none"
    <3>1. PICK code : root' = [root EXCEPT ![Home(t)].handler = "none", ![Home(t)].code = code]
      BY <1>1, <1>6 DEF CmdEnds, Kept, Shapes, FieldsOK
    <3>2. QED BY <1>1, <3>1 DEF Kept, Shapes, FieldsOK
  <2>2. QED BY <1>2, <1>4, <2>1 DEF Kept, Handled
<1>7. QED BY <1>5, <1>6

LEMMA ThreadKept ==
  ASSUME Kept, NEW t \in Roots, ThreadStep(t), ~EvalBackground(t), run' = run, mixed' = (mixed \/ Mixes')
  PROVE  Kept'
<1>1. Stepped(t)
  BY StepStepped DEF Kept
<1>2. Handled(th', root')
  BY <1>1, StepHandlers, HandledBy, CommandHandled DEF Kept
<1>3. SameJobs
  BY StepJobs DEF Kept
<1>4. th[t] # Idle
  BY StepIsBusy
<1>5. t \in Jobs => jobs[t].state # "free"
  BY <1>4 DEF Kept, JobsOK
<1>6. PromptOK'
  <2>1. t # "fg" => th'["fg"] = th["fg"]
    BY <1>1 DEF Stepped, Kept, Shapes, Roots
  <2>2. QED BY <1>4, <2>1 DEF Kept, PromptOK
<1>7. QED BY <1>1, <1>2, <1>3, <1>5, <1>6, KeptBy

LEMMA HistoryKept ==
  ASSUME Kept, NEW t \in Roots, HistoryCall(t), mixed' = (mixed \/ Mixes')
  PROVE  Kept'
<1>1. root' = root /\ jobs' = jobs /\ run' = run
  BY DEF HistoryCall
<1>2. \E c \in {Error, Val(Null)} : Does(t, c)
  BY DEF HistoryCall
<1>3. Stepped(t)
  BY <1>1, <1>2, DoesOK, RootStays, EasyCtl, EasyValues DEF Kept
<1>4. Ctl(t).do = "eval" /\ th[t] # Idle
  BY StepIsBusy DEF HistoryCall, At, Doing
<1>5. Handled(th', root')
  BY <1>1, <1>3, <1>4, HandledBy
<1>6. SameJobs /\ (t \in Jobs => jobs[t].state # "free")
  BY <1>1, <1>4 DEF Kept, JobsOK, SameJobs
<1>7. PromptOK'
  <2>1. t # "fg" => th'["fg"] = th["fg"]
    BY <1>3 DEF Stepped, Kept, Shapes, Roots
  <2>2. QED BY <1>1, <1>4, <2>1 DEF Kept, PromptOK
<1>8. QED BY <1>3, <1>5, <1>6, <1>7, KeptBy

LEMMA JobEndKept ==
  ASSUME Kept, NEW j \in Jobs, JobEnds(j), run' = run, mixed' = (mixed \/ Mixes')
  PROVE  Kept'
<1>1. j \in Roots /\ j # "fg"
  BY EvaluatorAssumption DEF Roots
<1>2. ThreadOK(Idle, Live)
  BY EmptyOK DEF ThreadOK, Idle, CtlOK
<1>3. Alike(root, root') /\ FieldsOK(root', Live) /\ \A r \in Roots : root'[r].handler = root[r].handler
  <2>1. root' = [root EXCEPT ![j].ctx = NoCtx]
    BY DEF JobEnds
  <2>2. QED BY <1>1, <2>1, FieldSet DEF Kept, Shapes, FieldsOK
<1>4. Stack(j) = <<>> /\ Idle.stack = <<>> /\ th' = [th EXCEPT ![j] = Idle]
  BY DEF JobEnds, Idle
<1>5. Stepped(j)
  <2>1. Moved(Stack(j), Idle.stack, root, root')
    BY <1>3, <1>4, SameIsSame DEF Moved
  <2>2. QED BY <1>2, <1>3, <1>4, <2>1 DEF Stepped
<1>6. Ctl(j).do # "running"
  <2>1. Ctl(j).do = "running" => HasBase(Stack(j))
    BY <1>1 DEF Kept, Shapes, ThreadOK, CtlOK, Ctl, Stack
  <2>2. ~HasBase(<<>>)
    BY DEF HasBase
  <2>3. QED BY <1>4, <2>1, <2>2
<1>7. Handled(th', root')
  BY <1>1, <1>3, <1>5, <1>6, HandledBy
<1>8. SameJobs /\ jobs[j].state # "free"
  BY DEF JobEnds, Kept, JobsOK, SameJobs
<1>9. PromptOK'
  BY <1>1, <1>4 DEF Kept, PromptOK
<1>10. QED BY <1>1, <1>5, <1>7, <1>8, <1>9, KeptBy

\* The prompt's thread gets something to do, or has done it.
LEMMA PromptKept ==
  ASSUME Inv, Kept, Hook \/ Evaluated \/ Bootstrap \/ Booted, mixed' = (mixed \/ Mixes')
  PROVE  Kept'
<1>1. "fg" \in Roots /\ "fg" \in Live /\ "fg" \notin Jobs
  BY EvaluatorAssumption DEF Roots, Live
<1>2. Stack("fg") = <<>>
  BY DEF Hook, Evaluated, Bootstrap, Booted, RunStep, HasRun, Kept, PromptOK, Stack, Idle
<1>3. Ctl("fg").do # "running"
  <2>1. Ctl("fg").do = "running" => HasBase(Stack("fg"))
    BY <1>1 DEF Kept, Shapes, ThreadOK, CtlOK, Ctl, Stack
  <2>2. ~HasBase(<<>>)
    BY DEF HasBase
  <2>3. QED BY <1>2, <2>1, <2>2
<1>4. Alike(root, root') /\ FieldsOK(root', Live) /\ \A r \in Roots : root'[r].handler = root[r].handler
  <2>1. root' = root \/ \E v : root' = [root EXCEPT !["fg"].hooks = v]
    BY DEF Hook, Evaluated, Bootstrap, Booted
  <2>2. Alike(root, root') /\ FieldsOK(root', Live)
    BY <1>1, <2>1, FieldSet, RootStays DEF Kept
  <2>3. QED BY <2>1, <2>2 DEF Kept, Shapes, FieldsOK
<1>5. SameJobs
  BY DEF Hook, Evaluated, Bootstrap, Booted, RunStep, Kept, JobsOK, SameJobs
<1>6. ASSUME NEW z, th' = [th EXCEPT !["fg"] = z], ThreadOK(z, Live), SameMarks(<<>>, z.stack), PromptOK' PROVE Kept'
  <2>1. Moved(Stack("fg"), z.stack, root, root')
    BY <1>2, <1>4, <1>6 DEF Moved
  <2>2. Stepped("fg")
    BY <1>4, <1>6, <2>1 DEF Stepped
  <2>3. Handled(th', root')
    BY <1>1, <1>3, <1>4, <2>2, HandledBy
  <2>4. QED BY <1>1, <1>5, <1>6, <2>2, <2>3, KeptBy
<1>7. CASE Evaluated \/ Booted
  <2>1. th' = [th EXCEPT !["fg"] = Idle] /\ PromptOK'
    BY <1>7, <1>1 DEF Evaluated, Booted, HasRun, PromptOK, Kept, Shapes
  <2>2. ThreadOK(Idle, Live) /\ Idle.stack = <<>>
    BY EmptyOK DEF ThreadOK, Idle, CtlOK
  <2>3. QED BY <1>6, <2>1, <2>2, SameIsSame
<1>8. ASSUME NEW f, FrameOK(f, Live), ~Inside(f), f.k \notin Marked, Runs(<<f>>), PromptOK' PROVE Kept'
  <2>1. PICK z, u : z = [stack |-> u, ctl |-> Val(Null)] /\ u = <<f>>
    OBVIOUS
  <2>2. u = <<f>> \o <<>>
    BY <2>1, ConcatEmptySeq, OneIsSeq
  <2>3. StackOK(u, Live) /\ SameMarks(<<>>, u)
    BY <1>8, <2>2, EmptyOK, PushOK, PlainAdds
  <2>4. th' = [th EXCEPT !["fg"] = z]
    BY <1>8, <2>1 DEF Runs
  <2>5. z.stack = u /\ ThreadOK(z, Live)
    BY <2>1, <2>3, EasyCtl, EasyValues DEF ThreadOK
  <2>6. QED BY <1>6, <1>8, <2>3, <2>4, <2>5
<1>9. run' .at \in {"eval", "config"} => PromptOK'
  BY DEF PromptOK
<1>10. CASE Hook
  <2>1. run'.at = "eval"
    BY <1>10 DEF Hook, RunStep, Inv, Typed
  <2>2. PICK f, p : f = Scope("root", "fg", p, "local") /\ Runs(<<f>>)
    BY <1>10 DEF Hook
  <2>3. FrameOK(f, Live) /\ ~Inside(f) /\ f.k \notin Marked
    BY <1>1, <2>2, EasyFrames
  <2>4. QED BY <1>8, <1>9, <2>1, <2>2, <2>3
<1>11. CASE Bootstrap
  <2>1. run'.at = "config"
    BY <1>11 DEF Bootstrap, RunStep, Inv, Typed
  <2>2. PICK f : f = [k |-> "config", home |-> "fg", files |-> Config] /\ Runs(<<f>>)
    BY <1>11 DEF Bootstrap
  <2>3. "k" \in DOMAIN f /\ f.k = "config" /\ "home" \in DOMAIN f /\ f.home = "fg"
    BY <2>2
  <2>4. FrameOK(f, Live) /\ ~Inside(f) /\ f.k \notin Marked
    BY <1>1, <2>3 DEF FrameOK, Inside, Marked
  <2>5. QED BY <1>8, <1>9, <2>1, <2>2, <2>4
<1>12. QED BY <1>7, <1>10, <1>11

\* A Ctrl-C reaches whoever is in a process.
LEMMA InterruptKept ==
  ASSUME Kept, th' = Interrupted(th, root["fg"].handler), UNCHANGED <<root, jobs, run>>, mixed' = (mixed \/ Mixes')
  PROVE  Kept'
<1>1. CASE th' = th
  BY <1>1, KeptUntouched DEF Kept, PromptOK
<1>2. CASE th' # th
  <2>1. PICK t : t \in Roots /\ th[t].ctl.do = "running" /\ th' = [th EXCEPT ![t].ctl.int = TRUE]
    BY <1>2 DEF Interrupted
  <2>2. PICK z, c : z = [stack |-> th[t].stack, ctl |-> c] /\ c = [th[t].ctl EXCEPT !.int = TRUE]
    OBVIOUS
  <2>3. th[t] = [stack |-> th[t].stack, ctl |-> th[t].ctl] /\ CtlOK(th[t].ctl, th[t].stack, Live) /\ t \in DOMAIN th
        /\ StackOK(th[t].stack, Live)
    BY <2>1 DEF Kept, Shapes, ThreadOK
  <2>4. th' = [th EXCEPT ![t] = z]
    BY <2>1, <2>2, <2>3
  <2>5. c.do = "running" /\ "do" \in DOMAIN c
    BY <2>1, <2>2, <2>3 DEF CtlOK
  <2>6. z.stack = th[t].stack /\ z.ctl = c /\ ThreadOK(z, Live)
    BY <2>1, <2>2, <2>3, <2>5 DEF ThreadOK, CtlOK
  <2>7. Stepped(t)
    BY <2>4, <2>6, RootStays, SameIsSame DEF Stepped, Moved, Stack, Kept
  <2>8. /\ \A u \in Roots : u # t => th'[u] = th[u]
        /\ th'[t].stack = th[t].stack /\ th'[t].ctl.do = "running"
    BY <2>3, <2>4, <2>5, <2>6
  <2>9. Handled(th', root')
    BY <2>8 DEF Kept, Handled
  <2>10. th[t] # Idle
    BY <2>1 DEF Idle
  <2>11. SameJobs /\ (t \in Jobs => jobs[t].state # "free")
    BY <2>10 DEF Kept, JobsOK, SameJobs
  <2>12. PromptOK'
    <3>1. t # "fg" => th'["fg"] = th["fg"]
      BY <2>8 DEF Roots
    <3>2. QED BY <2>10, <3>1 DEF Kept, PromptOK
  <2>13. QED BY <2>1, <2>7, <2>9, <2>11, <2>12, KeptBy
<1>3. QED BY <1>1, <1>2

-----------------------------------------------------------------------------
(* A job begins: a root and a thread of its own.                           *)

LEMMA VisibleOK ==
  ASSUME Shapes, NEW t \in Roots, Stands(t)
  PROVE  ValuesOK(Visible(t), Live)
<1>1. PICK names : /\ names = DOMAIN root[Home(t)].vars \cup UNION {DOMAIN Stack(t)[i].vars : i \in ScopesOf(t)}
                   /\ Visible(t) = [x \in names |-> Lookup(t, x)]
  BY DEF Visible
<1>2. ASSUME NEW x \in names PROVE Defined(t, x)
  <2>1. CASE x \in DOMAIN root[Home(t)].vars
    BY <2>1 DEF Defined
  <2>2. CASE x \notin DOMAIN root[Home(t)].vars
    <3>1. PICK i \in ScopesOf(t) : x \in DOMAIN Stack(t)[i].vars
      BY <1>1, <2>2, Zenon
    <3>2. i \in Holding(t, x)
      BY <3>1 DEF Holding
    <3>3. QED BY <3>2 DEF Defined
  <2>3. QED BY <2>1, <2>2
<1>3. ASSUME NEW x \in names PROVE ValueOK(Lookup(t, x), Live)
  BY <1>2, LookupOK
<1>4. QED BY <1>1, <1>3 DEF ValuesOK

\* Of a root that is not in use nothing is open.
LEMMA NothingOpen ==
  ASSUME Shapes, NEW j \in Roots, j \notin Live, NEW k \in Marked
  PROVE  Tally(th, k, j, 0)
<1>1. ASSUME NEW t \in Roots PROVE Marks(th[t].stack, k, j) = {}
  <2>1. StackOK(th[t].stack, Live)
    BY DEF Shapes, ThreadOK
  <2>2. \A h \in 1 .. Len(th[t].stack) : FrameAt(th[t].stack, h).k = k => FrameAt(th[t].stack, h).home \in Live
    BY <2>1 DEF StackOK, FrameOK, Marked, Homed
  <2>3. QED BY <2>2 DEF Marks
<1>2. OpensOf(th, k, j) = {}
  BY <1>1 DEF OpensOf
<1>3. QED BY <1>2, FS_EmptySet DEF Tally

LEMMA BackgroundKept ==
  ASSUME Kept, NEW t \in Roots, EvalBackground(t), run' = run, mixed' = (mixed \/ Mixes')
  PROVE  Kept'
<1>1. Stands(t) /\ Ctl(t).do = "eval" /\ th[t] # Idle
  BY Standing, StepIsBusy DEF EvalBackground, At, Doing, Kept, ThreadStep
<1>2. CASE Does(t, Error) /\ root' = root /\ jobs' = jobs
  <2>1. Stepped(t)
    BY <1>1, <1>2, DoesOK, RootStays, EasyCtl DEF Kept
  <2>2. Handled(th', root')
    BY <1>1, <1>2, <2>1, HandledBy
  <2>3. SameJobs /\ (t \in Jobs => jobs[t].state # "free")
    BY <1>1, <1>2 DEF Kept, JobsOK, SameJobs
  <2>4. PromptOK'
    <3>1. t # "fg" => th'["fg"] = th["fg"]
      BY <2>1 DEF Stepped, Kept, Shapes, Roots
    <3>2. QED BY <1>1, <3>1 DEF Kept, PromptOK
  <2>5. QED BY <2>1, <2>2, <2>3, <2>4, KeptBy
<1>3. ASSUME NEW j \in Jobs, jobs[j].state = "free", jobs' = [jobs EXCEPT ![j].state = "running"],
             NEW cwd, NEW ctx,
             root' = [root EXCEPT ![j] = [FreshRoot(root[Home(t)].ns, Visible(t), FALSE, cwd) EXCEPT !.ctx = ctx]],
             NEW n, NEW z, z = [stack |-> <<Scope("root", j, <<>>, "local")>>, ctl |-> Eval(n)],
             NEW c, c \in {Val(JobVal(j)), Error}, th' = [th EXCEPT ![j] = z, ![t].ctl = c]
      PROVE  Kept'
  <2>1. j \in Roots /\ j # t /\ j # "fg" /\ th[j] = Idle /\ j \notin Live /\ "fg" \in Roots
    BY <1>1, <1>3, EvaluatorAssumption DEF Roots, Live, Kept, JobsOK
  <2>2. Live' = Live \cup {j}
    BY <1>3, <2>1 DEF Live, Kept, JobsOK, Roots
  <2>3. PICK L : L = Live \cup {j}
    OBVIOUS
  <2>4. Live \subseteq L /\ j \in L
    BY <2>3
  <2>5. /\ th'[j] = z /\ th'[t] = [th[t] EXCEPT !.ctl = c]
        /\ \A u \in Roots : u # t /\ u # j => th'[u] = th[u]
        /\ DOMAIN th' = Roots /\ IsFcn(th')
    BY <1>3, <2>1 DEF Kept, Shapes, IsFcn
  <2>6. th'[t].stack = th[t].stack /\ th'[t].ctl = c /\ th'[t] = [stack |-> th[t].stack, ctl |-> c]
    <3>1. th[t] = [stack |-> th[t].stack, ctl |-> th[t].ctl]
      BY DEF Kept, Shapes, ThreadOK
    <3>2. QED BY <2>5, <3>1
  <2>7. z.stack = <<Scope("root", j, <<>>, "local")>> /\ z.ctl = Eval(n)
    BY <1>3
  <2>8. StackOK(z.stack, L) /\ SameMarks(<<>>, z.stack) /\ HasBase(z.stack)
    <3>1. PICK f, u : f = Scope("root", j, <<>>, "local") /\ u = <<f>> \o <<>>
      OBVIOUS
    <3>2. FrameOK(f, L) /\ f.k \notin Marked /\ IsBase(f) /\ ~Inside(f)
      BY <2>4, <3>1, EasyFrames
    <3>3. StackOK(u, L) /\ OneMore(u, f, <<>>) /\ HasBase(u)
      BY <3>1, <3>2, EmptyOK, PushOK
    <3>4. z.stack = u
      BY <2>7, <3>1, ConcatEmptySeq, OneIsSeq
    <3>5. QED BY <3>2, <3>3, <3>4, PlainAdds
  <2>9. ThreadOK(th'[t], L) /\ ThreadOK(z, L) /\ \A u \in Roots : ThreadOK(th[u], L)
    <3>1. \A u \in Roots : ThreadOK(th[u], L)
      BY <2>4, MoreInUse DEF Kept, Shapes
    <3>2. CtlOK(c, th[t].stack, L) /\ CtlOK(z.ctl, z.stack, L)
      BY <1>3, <2>7, <2>8, EasyCtl, EasyValues
    <3>3. StackOK(th[t].stack, L)
      BY <3>1 DEF ThreadOK
    <3>4. ThreadOK(z, L)
      BY <1>3, <2>7, <2>8, <3>2 DEF ThreadOK
    <3>5. ThreadOK(th'[t], L)
      BY <2>6, <3>2, <3>3 DEF ThreadOK
    <3>6. QED BY <3>1, <3>4, <3>5
  <2>10. /\ root'[j].depth = 0 /\ root'[j].sdepth = 0 /\ root'[j].ns = root[Home(t)].ns
         /\ root'[j].handler = "none" /\ root'[j].vars = Visible(t)
         /\ {"ns", "vars", "depth", "sdepth", "handler"} \subseteq DOMAIN root'[j]
         /\ DOMAIN root' = Roots
    BY <1>3, <2>1 DEF FreshRoot, Kept, Shapes, FieldsOK
  <2>11. \A r \in Roots : r # j => root'[r] = root[r]
    BY <1>3 DEF Kept, Shapes, FieldsOK
  <2>12. FieldsOK(root', L)
    <3>1. ValuesOK(Visible(t), L)
      BY <1>1, <2>4, VisibleOK, MoreInUse DEF Kept
    <3>2. \A r \in Roots : ValuesOK(root[r].vars, L)
      BY <2>4, MoreInUse DEF Kept, Shapes, FieldsOK
    <3>3. QED BY <2>10, <2>11, <3>1, <3>2 DEF FieldsOK, Kept, Shapes
  <2>13. Shapes'
    <3>1. \A u \in Roots : ThreadOK(th'[u], L)
      BY <2>5, <2>9
    <3>2. QED BY <2>2, <2>3, <2>5, <2>12, <3>1 DEF Shapes
  <2>14. \A u \in Roots : SameMarks(th[u].stack, th'[u].stack)
    <3>1. th[j].stack = <<>>
      BY <2>1 DEF Idle
    <3>2. ASSUME NEW u \in Roots PROVE SameMarks(th[u].stack, th'[u].stack)
      <4>1. CASE u = j
        BY <2>5, <2>8, <3>1, <4>1
      <4>2. CASE u # j
        <5>1. th'[u].stack = th[u].stack
          BY <2>5, <2>6, <4>2
        <5>2. QED BY <5>1, SameIsSame
      <4>3. QED BY <4>1, <4>2
    <3>3. QED BY <3>2
  <2>15. ASSUME NEW k \in Marked, NEW r \in Roots, NEW m, Tally(th, k, r, m) PROVE Tally(th', k, r, m)
    <3>1. \A u \in Roots : Marks(th'[u].stack, k, r) = Marks(th[u].stack, k, r)
      BY <2>14 DEF SameMarks
    <3>2. OpensOf(th', k, r) = OpensOf(th, k, r)
      BY <3>1 DEF OpensOf
    <3>3. QED BY <2>15, <3>2 DEF Tally
  <2>16. Balanced(th', root')
    <3>1. MaxCallDepth \in Nat /\ MaxSourceDepth \in Nat /\ {"call", "source"} \subseteq Marked
      BY EvaluatorAssumption DEF Marked
    <3>2. ASSUME NEW r \in Roots
          PROVE  /\ root'[r].depth \in 0 .. MaxCallDepth /\ Tally(th', "call", r, root'[r].depth)
                 /\ root'[r].sdepth \in 0 .. MaxSourceDepth /\ Tally(th', "source", r, root'[r].sdepth)
                 /\ root'[r].ns \in Spaces
      <4>1. CASE r = j
        <5>1. Tally(th, "call", j, 0) /\ Tally(th, "source", j, 0)
          BY <2>1, <3>1, NothingOpen DEF Kept
        <5>2. root[Home(t)].ns \in Spaces
          BY <1>1 DEF Stands, Kept, Balanced
        <5>3. QED BY <2>1, <2>10, <2>15, <3>1, <4>1, <5>1, <5>2
      <4>2. CASE r # j
        <5>1. /\ root[r].depth \in 0 .. MaxCallDepth /\ Tally(th, "call", r, root[r].depth)
              /\ root[r].sdepth \in 0 .. MaxSourceDepth /\ Tally(th, "source", r, root[r].sdepth)
              /\ root[r].ns \in Spaces
          BY DEF Kept, Balanced
        <5>2. QED BY <2>11, <2>15, <3>1, <4>2, <5>1
      <4>3. QED BY <4>1, <4>2
    <3>3. QED BY <3>2 DEF Balanced
  <2>17. ASSUME ~mixed' PROVE NsOK(th', root'["fg"].ns)
    <3>1. NsOK(th, root["fg"].ns) /\ root'["fg"].ns = root["fg"].ns
      BY <2>1, <2>11, <2>17 DEF Kept
    <3>2. \A u \in Roots : Floor(th'[u].stack) /\ NsMarks(th'[u].stack) = NsMarks(th[u].stack)
      BY <2>14, <3>1, FloorStays DEF NsOK
    <3>3. QED BY <3>1, <3>2 DEF NsOK, AtMostOne
  <2>18. Handled(th', root')
    <3>1. ASSUME NEW r \in Roots, root'[r].handler # "none" PROVE
            LET h == root'[r].handler IN h \in Roots /\ th'[h].ctl.do = "running" /\ HomeOf(th'[h].stack) = r
      <4>1. r # j /\ root'[r].handler = root[r].handler
        BY <2>10, <2>11, <3>1
      <4>2. PICK h \in Roots : h = root[r].handler /\ th[h].ctl.do = "running" /\ HomeOf(th[h].stack) = r
        BY <3>1, <4>1 DEF Kept, Handled
      <4>3. h # t /\ h # j
        BY <1>1, <2>1, <4>2 DEF Ctl, Idle
      <4>4. QED BY <2>5, <4>1, <4>2, <4>3
    <3>2. QED BY <3>1 DEF Handled
  <2>19. JobsOK'
    <3>1. ASSUME NEW i \in Jobs PROVE "state" \in DOMAIN jobs'[i] /\ (jobs'[i].state = "free" => th'[i] = Idle)
      <4>1. CASE i = j
        BY <1>3, <4>1 DEF Kept, JobsOK
      <4>2. CASE i # j
        <5>1. jobs'[i] = jobs[i] /\ "state" \in DOMAIN jobs[i] /\ (jobs[i].state = "free" => th[i] = Idle)
          BY <1>3, <4>2 DEF Kept, JobsOK
        <5>2. i \in Roots /\ (i # t => th'[i] = th[i])
          BY <2>5, <4>2 DEF Roots
        <5>3. QED BY <1>1, <5>1, <5>2
      <4>3. QED BY <4>1, <4>2
    <3>2. DOMAIN jobs' = Jobs
      BY <1>3 DEF Kept, JobsOK
    <3>3. QED BY <3>1, <3>2 DEF JobsOK
  <2>20. PromptOK'
    <3>1. t # "fg" => th'["fg"] = th["fg"]
      BY <2>1, <2>5
    <3>2. QED BY <1>1, <3>1 DEF Kept, PromptOK
  <2>21. QED BY <2>13, <2>16, <2>17, <2>18, <2>19, <2>20 DEF Kept
<1>4. CASE ~(Does(t, Error) /\ root' = root /\ jobs' = jobs)
  <2>0. PICK body : body = (IF N(t).e.op = "fn" THEN [op |-> "call", at |-> 1, es |-> <<N(t).e>>] ELSE N(t).e)
    OBVIOUS
  <2>1. \E j \in Jobs :
          /\ jobs[j].state = "free"
          /\ jobs' = [jobs EXCEPT ![j].state = "running"]
          /\ root' = [root EXCEPT ![j] =
               [FreshRoot(root[Home(t)].ns, Visible(t), FALSE, root[Home(t)].cwd) EXCEPT !.ctx = JobCtx(j)]]
          /\ th' = [th EXCEPT ![j] = [stack |-> <<Scope("root", j, <<>>, "local")>>, ctl |-> Eval(body)],
                              ![t].ctl = IF "jobs" \in Bound(t) THEN Val(JobVal(j)) ELSE Error]
    BY <1>4, <2>0 DEF EvalBackground
  <2>2. PICK j \in Jobs :
          /\ jobs[j].state = "free"
          /\ jobs' = [jobs EXCEPT ![j].state = "running"]
          /\ root' = [root EXCEPT ![j] =
               [FreshRoot(root[Home(t)].ns, Visible(t), FALSE, root[Home(t)].cwd) EXCEPT !.ctx = JobCtx(j)]]
          /\ th' = [th EXCEPT ![j] = [stack |-> <<Scope("root", j, <<>>, "local")>>, ctl |-> Eval(body)],
                              ![t].ctl = IF "jobs" \in Bound(t) THEN Val(JobVal(j)) ELSE Error]
    BY <2>1
  <2>3. PICK n, cwd, ctx : n = body /\ cwd = root[Home(t)].cwd /\ ctx = JobCtx(j)
    OBVIOUS
  <2>4. PICK z, c : /\ z = [stack |-> <<Scope("root", j, <<>>, "local")>>, ctl |-> Eval(n)]
                    /\ c = (IF "jobs" \in Bound(t) THEN Val(JobVal(j)) ELSE Error)
    OBVIOUS
  <2>5. QED BY <1>3, <2>2, <2>3, <2>4
<1>5. QED BY <1>2, <1>4

-----------------------------------------------------------------------------
(* The invariant holds.                                                    *)

LEMMA KeptInit == Init => Kept
<1>. SUFFICES ASSUME Init PROVE Kept
  OBVIOUS
<1>. MaxCallDepth \in Nat /\ MaxSourceDepth \in Nat /\ "fg" \in Roots /\ "fg" \notin Jobs
  BY EvaluatorAssumption DEF Roots
<1>1. th = [r \in Roots |-> Idle] /\ jobs = [j \in Jobs |-> [state |-> "free", killed |-> FALSE, out |-> "none"]]
  BY DEF Init, EvalInit
<1>2. /\ DOMAIN root = Roots
      /\ \A r \in Roots : /\ root[r].depth = 0 /\ root[r].sdepth = 0 /\ root[r].ns = 0
                          /\ root[r].handler = "none" /\ root[r].vars = <<>>
                          /\ {"ns", "vars", "depth", "sdepth", "handler"} \subseteq DOMAIN root[r]
  BY DEF Init, EvalInit, FreshRoot
<1>3. \A r \in Roots : th[r].stack = <<>> /\ th[r] = Idle
  BY <1>1 DEF Idle
<1>4. Shapes
  <2>1. ThreadOK(Idle, Live)
    BY EmptyOK DEF ThreadOK, Idle, CtlOK
  <2>2. FieldsOK(root, Live)
    BY <1>2 DEF FieldsOK, ValuesOK
  <2>3. DOMAIN th = Roots /\ IsFcn(th)
    BY <1>1 DEF IsFcn
  <2>4. QED BY <1>3, <2>1, <2>2, <2>3 DEF Shapes
<1>5. JobsOK /\ PromptOK
  BY <1>1, <1>3 DEF JobsOK, PromptOK, Roots
<1>6. \A k, r : Marks(<<>>, k, r) = {}
  BY DEF Marks
<1>7. Balanced(th, root)
  <2>1. ASSUME NEW k, NEW r PROVE Tally(th, k, r, 0)
    <3>1. OpensOf(th, k, r) = {}
      BY <1>3, <1>6 DEF OpensOf
    <3>2. QED BY <3>1, FS_EmptySet DEF Tally
  <2>2. 0 \in Spaces
    BY DEF Spaces
  <2>3. QED BY <1>2, <2>1, <2>2 DEF Balanced
<1>8. Handled(th, root)
  BY <1>2 DEF Handled
<1>9. NsOK(th, root["fg"].ns)
  BY <1>2, <1>3, <1>6 DEF NsOK, Floor, NsMarks, AtMostOne
<1>10. QED
  BY <1>4, <1>5, <1>7, <1>8, <1>9 DEF Kept

LEMMA StatementKept ==
  ASSUME Inv, Kept, KeyEnter \/ ReadLine \/ Parse \/ Release \/ Post, mixed' = (mixed \/ Mixes')
  PROVE  Kept'
<1>1. ASSUME UNCHANGED <<th, jobs>>, root' = root \/ \E c : root' = [root EXCEPT !["fg"].ctx = c], PromptOK' PROVE Kept'
  BY <1>1, KeptUntouched, KeptContext
<1>2. PromptOK
  BY DEF Kept
<1>3. CASE KeyEnter
  <2>1. UNCHANGED <<th, jobs>>
    BY <1>3 DEF KeyEnter, Edits, evalVars
  <2>2. CASE UNCHANGED <<root, run>>
    BY <1>1, <1>2, <2>1, <2>2 DEF PromptOK
  <2>3. CASE ~UNCHANGED <<root, run>>
    <3>1. ~busy /\ Scene.tui /\ Started /\ Submit(Entered)
      BY <1>3, <2>3 DEF KeyEnter, Edits, Event, evalVars
    <3>2. run.at = "none"
      BY <3>1 DEF Inv, Typed, Turn, Started, InFlight
    <3>3. th["fg"] = Idle
      BY <1>2, <3>2 DEF PromptOK
    <3>4. root' = root \/ root' = [root EXCEPT !["fg"].ctx = <<"fg", stmt + 1>>]
      BY <3>1 DEF Submit
    <3>5. QED BY <1>1, <2>1, <3>3, <3>4 DEF PromptOK
  <2>4. QED BY <2>2, <2>3
<1>4. CASE ReadLine
  <2>1. UNCHANGED <<th, jobs>> /\ th["fg"] = Idle
    BY <1>2, <1>4 DEF ReadLine, Idling, NotRunning, PromptOK
  <2>2. root' = root \/ root' = [root EXCEPT !["fg"].ctx = <<"fg", stmt + 1>>]
    BY <1>4 DEF ReadLine
  <2>3. QED BY <1>1, <2>1, <2>2 DEF PromptOK
<1>5. CASE Parse \/ Release \/ Post
  <2>1. UNCHANGED <<th, jobs>> /\ th["fg"] = Idle
    BY <1>2, <1>5 DEF Parse, Release, Post, RunStep, PromptOK
  <2>2. root' = root \/ root' = [root EXCEPT !["fg"].ctx = NoCtx]
    BY <1>5 DEF Parse, Release, Post
  <2>3. QED BY <1>1, <2>1, <2>2 DEF PromptOK
<1>6. QED BY <1>3, <1>4, <1>5

LEMMA KeptNext == Inv /\ Kept /\ [Next]_vars => Kept'
<1>. SUFFICES ASSUME Inv, Kept, [Next]_vars PROVE Kept'
  OBVIOUS
<1>1. CASE UNCHANGED vars
  <2>1. UNCHANGED <<th, jobs, root, run, mixed>>
    BY <1>1 DEF vars, evalVars
  <2>2. Live' = Live
    BY <2>1 DEF Live
  <2>3. Shapes' /\ JobsOK' /\ PromptOK'
    BY <2>1, <2>2 DEF Kept, Shapes, JobsOK, PromptOK
  <2>4. QED BY <2>1, <2>3 DEF Kept
<1>2. CASE Next
  <2>0. mixed' = (mixed \/ Mixes')
    BY <1>2 DEF Next, Alive
  <2>1. ASSUME UNCHANGED <<th, jobs, root, run>> PROVE Kept'
    BY <2>0, <2>1, KeptUntouched DEF Kept, PromptOK
  <2>2. CASE KeySearch \/ KeyEdit \/ PasteText \/ MouseWheel
    <3>1. \E kind, e : Edits(kind, e)
      BY <2>2, Zenon DEF KeySearch, KeyEdit, PasteText, MouseWheel
    <3>2. QED BY <2>1, <3>1 DEF Edits, evalVars
  <2>3. CASE KeyHelp \/ KeyQuit \/ CancelContext \/ Drain \/ Tick \/ StartScreen \/ ScreenExits \/ EndOfInput
    BY <2>1, <2>3 DEF KeyHelp, KeyQuit, CancelContext, Drain, Tick, StartScreen, ScreenExits, EndOfInput, evalVars
  <2>4. CASE KeyInterrupt \/ Signal
    BY <2>0, <2>4, InterruptKept DEF KeyInterrupt, Signal
  <2>5. CASE KeyEnter \/ ReadLine \/ Parse \/ Release \/ Post
    BY <2>0, <2>5, StatementKept
  <2>6. CASE Hook \/ Evaluated \/ Bootstrap \/ Booted
    BY <2>0, <2>6, PromptKept
  <2>7. ASSUME NEW t \in Roots, Evaluates(t) PROVE Kept'
    <3>1. CASE HistoryCall(t)
      BY <2>0, <3>1, HistoryKept
    <3>2. CASE ThreadStep(t) /\ Stays
      BY <2>0, <3>2, ThreadKept, BackgroundKept DEF Stays
    <3>3. QED BY <2>7, <3>1, <3>2 DEF Evaluates
  <2>8. ASSUME NEW j \in Jobs, JobEnds(j), Stays PROVE Kept'
    BY <2>0, <2>8, JobEndKept DEF Stays
  <2>9. QED BY <1>2, <2>2, <2>3, <2>4, <2>5, <2>6, <2>7, <2>8 DEF Next
<1>3. QED BY <1>1, <1>2

-----------------------------------------------------------------------------
(* What it says of the frames as PutBack counts them.                      *)

\* The frames of kind k for root r, each with its place from the top.
Places(k, r) == UNION {{t} \X {i \in DOMAIN Stack(t) : Stack(t)[i].k = k /\ Stack(t)[i].home = r} : t \in Roots}

LEMMA PlacesAre ==
  ASSUME Shapes, NEW k, NEW r
  PROVE  \A p : p \in Places(k, r) <=>
           /\ p = <<p[1], p[2]>> /\ p[1] \in Roots /\ p[2] \in 1 .. Len(Stack(p[1]))
           /\ Stack(p[1])[p[2]].k = k /\ Stack(p[1])[p[2]].home = r
<1>1. \A t \in Roots : DOMAIN Stack(t) = 1 .. Len(Stack(t))
  BY StackIs DEF Shapes, ThreadOK, StackOK, Stack
<1>2. \A p : p \in Places(k, r) <=>
        \E t \in Roots : p \in {t} \X {i \in DOMAIN Stack(t) : Stack(t)[i].k = k /\ Stack(t)[i].home = r}
  BY Zenon DEF Places
<1>3. QED BY <1>1, <1>2

LEMMA PlacesCount ==
  ASSUME Shapes, NEW k, NEW r, NEW n, Tally(th, k, r, n)
  PROVE  Cardinality(Places(k, r)) = n
<1>. DEFINE O == OpensOf(th, k, r)  P == Places(k, r)
            flip(p) == <<p[1], Len(Stack(p[1])) - p[2] + 1>>
            f == [p \in O |-> flip(p)]
<1>1. \A t \in Roots : Len(Stack(t)) \in Nat
  BY StackIs DEF Shapes, ThreadOK, StackOK, Stack
<1>2. ASSUME NEW p
      PROVE  p \in O <=> /\ p = <<p[1], p[2]>> /\ p[1] \in Roots /\ p[2] \in 1 .. Len(Stack(p[1]))
                         /\ Stack(p[1])[Len(Stack(p[1])) - p[2] + 1].k = k
                         /\ Stack(p[1])[Len(Stack(p[1])) - p[2] + 1].home = r
  <2>1. p \in O <=> p \in Roots \X Nat /\ p[2] \in Marks(Stack(p[1]), k, r)
    BY DEF OpensOf, Stack
  <2>2. p \in Roots \X Nat <=> p = <<p[1], p[2]>> /\ p[1] \in Roots /\ p[2] \in Nat
    OBVIOUS
  <2>3. \A t \in Roots : \A h \in 1 .. Len(Stack(t)) : h \in Nat
    BY <1>1
  <2>4. QED BY <2>1, <2>2, <2>3 DEF Marks, FrameAt
<1>3. ASSUME NEW p \in O PROVE flip(p) \in P
  <2>1. p[1] \in Roots /\ p[2] \in 1 .. Len(Stack(p[1])) /\ Len(Stack(p[1])) \in Nat
    BY <1>1, <1>2
  <2>2. Len(Stack(p[1])) - p[2] + 1 \in 1 .. Len(Stack(p[1]))
    BY <2>1
  <2>3. PICK q : q = flip(p)
    OBVIOUS
  <2>4. q[1] = p[1] /\ q[2] = Len(Stack(p[1])) - p[2] + 1 /\ q = <<q[1], q[2]>>
    BY <2>3
  <2>5. Stack(q[1])[q[2]].k = k /\ Stack(q[1])[q[2]].home = r
    BY <1>2, <2>4
  <2>6. q \in P
    BY <2>1, <2>2, <2>4, <2>5, PlacesAre
  <2>7. QED BY <2>3, <2>6
<1>4. ASSUME NEW p \in O, NEW q \in O, flip(p) = flip(q) PROVE p = q
  <2>1. /\ p[1] \in Roots /\ p[2] \in 1 .. Len(Stack(p[1])) /\ Len(Stack(p[1])) \in Nat /\ p = <<p[1], p[2]>>
        /\ q[1] \in Roots /\ q[2] \in 1 .. Len(Stack(q[1])) /\ q = <<q[1], q[2]>>
    BY <1>1, <1>2
  <2>2. p[1] = q[1] /\ Len(Stack(p[1])) - p[2] + 1 = Len(Stack(q[1])) - q[2] + 1
    BY <1>4
  <2>3. p[2] = q[2]
    BY <2>1, <2>2
  <2>4. QED BY <2>1, <2>2, <2>3
<1>5. ASSUME NEW q \in P PROVE \E p \in O : flip(p) = q
  <2>1. /\ q = <<q[1], q[2]>> /\ q[1] \in Roots /\ q[2] \in 1 .. Len(Stack(q[1])) /\ Len(Stack(q[1])) \in Nat
        /\ Stack(q[1])[q[2]].k = k /\ Stack(q[1])[q[2]].home = r
    BY <1>1, PlacesAre
  <2>2. PICK p : p = <<q[1], Len(Stack(q[1])) - q[2] + 1>>
    OBVIOUS
  <2>3. /\ p[1] = q[1] /\ p[2] = Len(Stack(q[1])) - q[2] + 1 /\ p = <<p[1], p[2]>>
        /\ p[2] \in 1 .. Len(Stack(q[1])) /\ Len(Stack(q[1])) - p[2] + 1 = q[2]
    BY <2>1, <2>2
  <2>4. p \in O
    BY <1>2, <2>1, <2>3
  <2>5. flip(p) = q
    BY <2>1, <2>3
  <2>6. QED BY <2>4, <2>5
<1>6. ExistsBijection(O, P)
  <2>1. f \in [O -> P] /\ \A p \in O : f[p] = flip(p)
    BY <1>3
  <2>. HIDE DEF f, flip, O, P
  <2>2. f \in Injection(O, P)
    BY <1>4, <2>1 DEF Injection, IsInjective
  <2>3. f \in Surjection(O, P)
    BY <1>5, <2>1 DEF Surjection
  <2>4. QED BY <2>2, <2>3 DEF ExistsBijection, Bijection
<1>7. QED BY <1>6, FS_Bijection DEF Tally

LEMMA KeptImplies == Kept => PutBack
<1>. SUFFICES ASSUME Kept PROVE PutBack
  OBVIOUS
<1>1. ASSUME NEW r \in Roots
      PROVE  /\ root[r].depth = Cardinality(Places("call", r))
             /\ root[r].sdepth = Cardinality(Places("source", r))
  BY PlacesCount DEF Kept, Balanced
<1>2. ASSUME ~mixed, Places("in_ns", "fg") = {} PROVE root["fg"].ns = 0
  <2>1. NsOK(th, root["fg"].ns)
    BY <1>2 DEF Kept
  <2>2. ASSUME NEW t \in Roots, NEW h \in NsMarks(th[t].stack) PROVE FALSE
    <3>1. /\ h \in 1 .. Len(Stack(t)) /\ Len(Stack(t)) \in Nat
          /\ Stack(t)[Len(Stack(t)) - h + 1].k = "in_ns" /\ Stack(t)[Len(Stack(t)) - h + 1].home = "fg"
      BY <2>2, StackIs DEF NsMarks, Marks, FrameAt, Stack, Kept, Shapes, ThreadOK, StackOK
    <3>2. PICK i, p : i = Len(Stack(t)) - h + 1 /\ p = <<t, i>>
      OBVIOUS
    <3>3. i \in 1 .. Len(Stack(t)) /\ p[1] = t /\ p[2] = i
      BY <3>1, <3>2
    <3>4. p \in Places("in_ns", "fg")
      BY <3>1, <3>2, <3>3, PlacesAre DEF Kept
    <3>5. QED BY <1>2, <3>4
  <2>3. QED BY <2>1, <2>2 DEF NsOK
<1>3. ASSUME NEW r \in Roots, root[r].handler # "none" PROVE Ctl(root[r].handler).do = "running"
  BY <1>3 DEF Kept, Handled, Ctl
<1>4. QED BY <1>1, <1>2, <1>3, Zenon DEF PutBack, Places

\* However an evaluation ends, what it had opened is undone, for any programs, any number
\* of jobs and any input.
THEOREM ShellPutsBack == Spec => []PutBack
  BY InvInit, InvNext, KeptInit, KeptNext, KeptImplies, PTL DEF Spec

-----------------------------------------------------------------------------
(* The line editor: positions.                                             *)

\* Sequences, each as a function of its positions.
LEMMA Induction ==
  ASSUME NEW S, 0 \in S, \A n \in Nat : n \in S => n + 1 \in S
  PROVE  Nat \subseteq S
<1>1. SUFFICES ASSUME NEW n \in Nat, n \notin S PROVE FALSE
  OBVIOUS
<1>. DEFINE T == Nat \ S
<1>2. T \subseteq Nat /\ T # {}
  BY <1>1
<1>. HIDE DEF T
<1>3. PICK m \in T : \A j \in T : m <= j
  BY <1>2, Least
<1>. USE DEF T
<1>4. m # 0 /\ m \in Nat /\ m - 1 \in Nat
  OBVIOUS
<1>5. m - 1 \notin T
  BY <1>3, <1>4
<1>6. QED BY <1>4, <1>5

\* Going back from i, one is at 0 or at a position of A.
LEMMA Back ==
  ASSUME NEW i \in Nat, NEW A
  PROVE  \E s \in 0 .. i : (\A j \in s + 1 .. i : j \notin A) /\ (s > 0 => s \in A)
<1>. DEFINE T == {i - s : s \in {s \in 0 .. i : s = 0 \/ s \in A}}
<1>1. T \subseteq Nat /\ i \in T
  OBVIOUS
<1>. HIDE DEF T
<1>2. PICK m \in T : \A j \in T : m <= j
  BY <1>1, Least
<1>. USE DEF T
<1>3. PICK s \in 0 .. i : m = i - s /\ (s = 0 \/ s \in A)
  OBVIOUS
<1>4. ASSUME NEW j \in s + 1 .. i, j \in A PROVE FALSE
  <2>1. i - j \in T /\ j > s /\ j \in Nat
    BY <1>4
  <2>2. m <= i - j
    BY <1>2, <2>1
  <2>. HIDE DEF T
  <2>3. QED BY <1>3, <2>1, <2>2
<1>5. QED BY <1>3, <1>4

\* Going on from i, one is at n or next to a position of A.
LEMMA On ==
  ASSUME NEW n \in Nat, NEW i \in 0 .. n, NEW A
  PROVE  \E s \in i .. n : (\A j \in i + 1 .. s : j \notin A) /\ (s < n => s + 1 \in A)
<1>. DEFINE T == {s \in i .. n : s = n \/ s + 1 \in A}
<1>1. T \subseteq Nat /\ n \in T
  OBVIOUS
<1>. HIDE DEF T
<1>2. PICK s \in T : \A j \in T : s <= j
  BY <1>1, Least
<1>. USE DEF T
<1>3. ASSUME NEW j \in i + 1 .. s, j \in A PROVE FALSE
  <2>1. j - 1 \in T
    BY <1>3
  <2>2. QED BY <1>2, <2>1
<1>4. QED BY <1>2, <1>3

LEMMA Greatest ==
  ASSUME NEW n \in Nat, NEW A, A \subseteq 0 .. n - 1, A # {}
  PROVE  \E i \in A : \A j \in A : j <= i
<1>1. PICK s \in 0 .. n : (\A j \in s + 1 .. n : j \notin {a + 1 : a \in A}) /\ (s > 0 => s \in {a + 1 : a \in A})
  BY Back
<1>2. ASSUME s = 0 PROVE FALSE
  <2>1. PICK a \in A : TRUE
    OBVIOUS
  <2>2. a + 1 \in 1 .. n
    BY <2>1
  <2>3. QED BY <1>1, <1>2, <2>2
<1>3. PICK i \in A : s = i + 1
  BY <1>1, <1>2
<1>4. ASSUME NEW j \in A PROVE j <= i
  <2>1. ~(j + 1 \in s + 1 .. n)
    BY <1>1
  <2>2. QED BY <1>3, <2>1
<1>5. QED BY <1>4

-----------------------------------------------------------------------------
(* The line editor: texts.                                                 *)

\* What is selected of a sequence is of what is selected from.
LEMMA SelectedIs ==
  ASSUME NEW R, NEW s \in Seq(R), NEW at, NEW S, \A i \in DOMAIN s : i \in at => s[i] \in S
  PROVE  Selected(s, at) \in Seq(S)
<1>. DEFINE next(g, n) == IF n = 0 THEN <<>> ELSE IF n \in at THEN Append(g[n - 1], s[n]) ELSE g[n - 1]
            Sel(g, m) == g = [n \in 0 .. m |-> next(g, n)]
            A == {m \in Nat : \E g : Sel(g, m)}
<1>1. Len(s) \in Nat /\ DOMAIN s = 1 .. Len(s)
  BY LenProperties
<1>2. Nat \subseteq A
  <2>1. 0 \in A
    <3>1. PICK g : g = [n \in 0 .. 0 |-> <<>>]
      OBVIOUS
    <3>2. [n \in 0 .. 0 |-> next(g, n)] = [n \in 0 .. 0 |-> <<>>]
      OBVIOUS
    <3>3. Sel(g, 0)
      BY <3>1, <3>2
    <3>4. QED BY <3>3
  <2>2. ASSUME NEW m \in Nat, m \in A PROVE m + 1 \in A
    <3>1. PICK g : Sel(g, m)
      BY <2>2
    <3>2. PICK h : h = [n \in 0 .. m + 1 |-> IF n <= m THEN g[n] ELSE next(g, n)]
      OBVIOUS
    <3>3. DOMAIN h = 0 .. m + 1 /\ h[m + 1] = next(g, m + 1) /\ \A n \in 0 .. m : h[n] = g[n]
      BY <3>2
    <3>4. ASSUME NEW n \in 0 .. m PROVE h[n] = next(h, n)
      <4>1. g[n] = next(g, n)
        BY <3>1
      <4>2. n # 0 => n - 1 \in 0 .. m
        OBVIOUS
      <4>3. QED BY <3>3, <4>1, <4>2
    <3>5. h[m + 1] = next(h, m + 1)
      BY <3>3
    <3>6. \A n \in 0 .. m + 1 : n \in 0 .. m \/ n = m + 1
      OBVIOUS
    <3>7. h = [n \in 0 .. m + 1 |-> h[n]]
      BY <3>2
    <3>. HIDE DEF next
    <3>8. Sel(h, m + 1)
      BY <3>4, <3>5, <3>6, <3>7
    <3>9. QED BY <3>8
  <2>. HIDE DEF A
  <2>3. QED BY <2>1, <2>2, Induction
<1>3. PICK f : Sel(f, Len(s)) /\ Selected(s, at) = f[Len(s)]
  <2>1. \E g : Sel(g, Len(s))
    BY <1>1, <1>2
  <2>2. Selected(s, at) = (CHOOSE g : Sel(g, Len(s)))[Len(s)]
    BY DEF Selected
  <2>. HIDE DEF Sel
  <2>3. QED BY <2>1, <2>2
<1>. DEFINE B == {m \in Nat : m <= Len(s) => f[m] \in Seq(S)}
<1>4. Nat \subseteq B
  <2>1. 0 \in B
    <3>1. f[0] = <<>> /\ <<>> \in Seq(S)
      BY <1>1, <1>3, EmptySeq
    <3>2. QED BY <3>1
  <2>2. ASSUME NEW m \in Nat, m \in B PROVE m + 1 \in B
    <3>1. SUFFICES ASSUME m + 1 <= Len(s) PROVE f[m + 1] \in Seq(S)
      OBVIOUS
    <3>2. f[m] \in Seq(S)
      BY <1>1, <2>2, <3>1
    <3>3. m + 1 \in 0 .. Len(s) /\ m + 1 # 0 /\ (m + 1) - 1 = m
      BY <1>1, <3>1
    <3>4. f[m + 1] = IF m + 1 \in at THEN Append(f[m], s[m + 1]) ELSE f[m]
      BY <1>3, <3>3
    <3>5. m + 1 \in at => s[m + 1] \in S
      BY <1>1, <3>1
    <3>6. m + 1 \in at => Append(f[m], s[m + 1]) \in Seq(S)
      BY <3>2, <3>5, AppendProperties
    <3>7. QED BY <3>2, <3>4, <3>6
  <2>. HIDE DEF B
  <2>3. QED BY <2>1, <2>2, Induction
<1>5. QED BY <1>1, <1>3, <1>4

-----------------------------------------------------------------------------
(* The line editor: no index goes astray.                                  *)

Editor ==
  [input : Text, cursor : Nat, history : Seq(Text), hindex : Nat, draft : Text, searching : BOOLEAN,
   query : Text, sindex : Nat, cands : Seq(Text), fragment : Nat, cycle : Nat, scroll : Nat]

Sound(e) == e \in Editor /\ EditorOK(e)

\* e is as sound as it was, and searches or not as d does.
Edited(d, e) == Sound(e) /\ e.searching = d.searching

LEMMA NoText == <<>> \in Text /\ \A c \in Runes : <<c>> \in Text
<1>1. \A S : \A c \in S : <<c>> \in Seq(S)
  OBVIOUS
<1>2. QED BY <1>1, EmptySeq DEF Text

LEMMA TextLen ==
  ASSUME NEW s \in Text
  PROVE  Len(s) \in Nat /\ DOMAIN s = 1 .. Len(s) /\ \A i \in 1 .. Len(s) : s[i] \in Runes
  BY LenProperties, ElementOfSeq DEF Text

\* A part of a text, from its start or to its end.
LEMMA Part ==
  ASSUME NEW s \in Text, NEW a \in Nat, NEW b \in Nat, b <= Len(s)
  PROVE  /\ SubSeq(s, a + 1, b) \in Text
         /\ Len(SubSeq(s, a + 1, b)) = IF a <= b THEN b - a ELSE 0
<1>1. Len(s) \in Nat /\ \A i \in 1 .. Len(s) : s[i] \in Runes
  BY TextLen
<1>2. a + 1 \in Int /\ b \in Int /\ \A i \in a + 1 .. b : s[i] \in Runes
  BY <1>1
<1>3. /\ SubSeq(s, a + 1, b) \in Seq(Runes)
      /\ Len(SubSeq(s, a + 1, b)) = IF a + 1 <= b THEN b - (a + 1) + 1 ELSE 0
  BY <1>2, SubSeqProperties
<1>4. QED BY <1>3 DEF Text

LEMMA Joined ==
  ASSUME NEW s \in Text, NEW u \in Text
  PROVE  s \o u \in Text /\ Len(s \o u) = Len(s) + Len(u)
  BY ConcatProperties DEF Text

\* The text s with text in the place of what follows position a, up to b.
Spliced(s, a, b, text) == SubSeq(s, 1, a) \o text \o SubSeq(s, b + 1, Len(s))

LEMMA SplicedIs ==
  ASSUME NEW s \in Text, NEW a \in 0 .. Len(s), NEW b \in 0 .. Len(s), NEW text \in Text
  PROVE  /\ Spliced(s, a, b, text) \in Text
         /\ Len(Spliced(s, a, b, text)) = a + Len(text) + (Len(s) - b)
<1>1. Len(s) \in Nat /\ Len(text) \in Nat
  BY TextLen
<1>2. PICK lead, trail : lead = SubSeq(s, 1, a) /\ trail = SubSeq(s, b + 1, Len(s))
  OBVIOUS
<1>3. lead \in Text /\ Len(lead) = a
  <2>1. 0 + 1 = 1 /\ a \in Nat /\ a <= Len(s)
    BY <1>1
  <2>2. SubSeq(s, 0 + 1, a) \in Text /\ Len(SubSeq(s, 0 + 1, a)) = IF 0 <= a THEN a - 0 ELSE 0
    BY <1>1, <2>1, Part
  <2>3. QED BY <1>2, <2>1, <2>2
<1>4. trail \in Text /\ Len(trail) = Len(s) - b
  <2>1. b \in Nat /\ b <= Len(s)
    BY <1>1
  <2>2. QED BY <1>1, <1>2, <2>1, Part
<1>5. lead \o text \o trail \in Text /\ Len(lead \o text \o trail) = a + Len(text) + (Len(s) - b)
  <2>1. lead \o text \in Text /\ Len(lead \o text) = a + Len(text)
    BY <1>3, Joined
  <2>2. QED BY <1>4, <2>1, Joined
<1>6. QED BY <1>2, <1>5 DEF Spliced

LEMMA ReplaceSound ==
  ASSUME NEW e, Sound(e), NEW a \in 0 .. Len(e.input), NEW b \in 0 .. Len(e.input), NEW text \in Text
  PROVE  Edited(e, Replace(e, a, b, text)) /\ Replace(e, a, b, text).cands = e.cands
<1>1. e \in Editor /\ e.input \in Text /\ Len(e.input) \in Nat /\ Len(text) \in Nat
  BY TextLen DEF Sound, Editor
<1>2. PICK new : new = Spliced(e.input, a, b, text)
  OBVIOUS
<1>3. new \in Text /\ Len(new) = a + Len(text) + (Len(e.input) - b)
  BY <1>1, <1>2, SplicedIs
<1>4. PICK d : d = [e EXCEPT !.input = new, !.cursor = a + Len(text)]
  OBVIOUS
<1>5. a + Len(text) \in 0 .. Len(new) /\ a + Len(text) \in Nat
  BY <1>1, <1>3
<1>6. d \in Editor
  BY <1>1, <1>4, <1>5, <1>3 DEF Editor
<1>7. /\ d.input = new /\ d.cursor = a + Len(text) /\ d.history = e.history /\ d.hindex = e.hindex
      /\ d.searching = e.searching /\ d.sindex = e.sindex /\ d.cands = e.cands /\ d.cycle = e.cycle
      /\ d.fragment = e.fragment /\ d.scroll = e.scroll
  BY <1>1, <1>4 DEF Editor
<1>8. EditorOK(d)
  BY <1>5, <1>7 DEF Sound, EditorOK
<1>9. Replace(e, a, b, text) = d
  BY <1>2, <1>4 DEF Replace, Spliced
<1>10. QED BY <1>6, <1>7, <1>8, <1>9 DEF Edited, Sound

\* The same editor with other values of the fields that say where one is.
LEMMA SoundBy ==
  ASSUME NEW e, Sound(e), NEW d \in Editor,
         d.input = e.input, d.history = e.history, d.cands = e.cands \/ d.cands = <<>>, d.searching = e.searching,
         d.cursor \in 0 .. Len(e.input), d.hindex \in 0 .. Len(e.history), d.sindex = e.sindex, d.cycle = e.cycle
  PROVE  Edited(e, d)
  BY DEF Edited, Sound, EditorOK, Editor

LEMMA MoveSound ==
  ASSUME NEW e, Sound(e), NEW c \in 0 .. Len(e.input)
  PROVE  Edited(e, [e EXCEPT !.cursor = c]) /\ [e EXCEPT !.cursor = c].cands = e.cands
<1>1. e \in Editor /\ Len(e.input) \in Nat
  BY TextLen DEF Sound, Editor
<1>2. PICK d : d = [e EXCEPT !.cursor = c]
  OBVIOUS
<1>3. /\ d \in Editor /\ d.input = e.input /\ d.history = e.history /\ d.cands = e.cands /\ d.searching = e.searching
      /\ d.cursor = c /\ d.hindex = e.hindex /\ d.sindex = e.sindex /\ d.cycle = e.cycle
  BY <1>1, <1>2 DEF Editor
<1>4. Edited(e, d)
  BY <1>3, SoundBy DEF Sound, EditorOK
<1>5. QED BY <1>2, <1>3, <1>4

-----------------------------------------------------------------------------
(* The line editor: the keys.                                              *)

\* Where the runs of runes that the keys go by begin and end.
LEMMA RunsBack ==
  ASSUME NEW text, NEW i \in Nat
  PROVE  /\ RunBack(text, i, LAMBDA c : c # "nl") \in 0 .. i
         /\ RunBack(text, i, LAMBDA c : ~IsWordRune(c)) \in 0 .. i
         /\ RunBack(text, i, IsWordRune) \in 0 .. i
         /\ RunBack(text, i, IsNameRune) \in 0 .. i
         /\ RunBack(text, i, IsPathRune) \in 0 .. i
         /\ RunBack(text, i, IsIdentRune) \in 0 .. i
<1>1. ASSUME NEW C
      PROVE  /\ \E s \in 0 .. i : (\A j \in s + 1 .. i : text[j] \in C) /\ (s > 0 => text[s] \notin C)
             /\ \E s \in 0 .. i : (\A j \in s + 1 .. i : text[j] \notin C) /\ (s > 0 => text[s] \in C)
  <2>1. \E s \in 0 .. i : (\A j \in s + 1 .. i : j \notin {m \in 1 .. i : text[m] \notin C})
                          /\ (s > 0 => s \in {m \in 1 .. i : text[m] \notin C})
    BY Back
  <2>2. \E s \in 0 .. i : (\A j \in s + 1 .. i : j \notin {m \in 1 .. i : text[m] \in C})
                          /\ (s > 0 => s \in {m \in 1 .. i : text[m] \in C})
    BY Back
  <2>3. QED BY <2>1, <2>2
<1>2. RunBack(text, i, LAMBDA c : c # "nl") \in 0 .. i
  <2>1. \E s \in 0 .. i : (\A j \in s + 1 .. i : text[j] \notin {"nl"}) /\ (s > 0 => text[s] \in {"nl"})
    BY <1>1
  <2>2. QED BY <2>1 DEF RunBack
<1>3. RunBack(text, i, LAMBDA c : ~IsWordRune(c)) \in 0 .. i
  <2>1. \E s \in 0 .. i : (\A j \in s + 1 .. i : text[j] \in Blanks) /\ (s > 0 => text[s] \notin Blanks)
    BY <1>1
  <2>2. QED BY <2>1 DEF RunBack, IsWordRune
<1>4. RunBack(text, i, IsWordRune) \in 0 .. i
  <2>1. \E s \in 0 .. i : (\A j \in s + 1 .. i : text[j] \notin Blanks) /\ (s > 0 => text[s] \in Blanks)
    BY <1>1
  <2>2. QED BY <2>1 DEF RunBack, IsWordRune
<1>5. RunBack(text, i, IsNameRune) \in 0 .. i
  <2>1. \E s \in 0 .. i : /\ \A j \in s + 1 .. i : text[j] \in Letters \cup {"-"}
                          /\ s > 0 => text[s] \notin Letters \cup {"-"}
    BY <1>1
  <2>2. QED BY <2>1 DEF RunBack, IsNameRune, IsIdentRune
<1>6. RunBack(text, i, IsPathRune) \in 0 .. i
  <2>1. \E s \in 0 .. i : /\ \A j \in s + 1 .. i : text[j] \in Letters \cup {"/", ".", "-"}
                          /\ s > 0 => text[s] \notin Letters \cup {"/", ".", "-"}
    BY <1>1
  <2>2. QED BY <2>1 DEF RunBack, IsPathRune, IsIdentRune
<1>7. RunBack(text, i, IsIdentRune) \in 0 .. i
  <2>1. \E s \in 0 .. i : (\A j \in s + 1 .. i : text[j] \in Letters) /\ (s > 0 => text[s] \notin Letters)
    BY <1>1
  <2>2. QED BY <2>1 DEF RunBack, IsIdentRune
<1>8. QED BY <1>2, <1>3, <1>4, <1>5, <1>6, <1>7

LEMMA RunsOn ==
  ASSUME NEW text, NEW i \in 0 .. Len(text), Len(text) \in Nat
  PROVE  /\ RunOn(text, i, LAMBDA c : c # "nl") \in i .. Len(text)
         /\ RunOn(text, i, LAMBDA c : ~IsWordRune(c)) \in i .. Len(text)
         /\ RunOn(text, i, IsWordRune) \in i .. Len(text)
<1>1. ASSUME NEW C
      PROVE  /\ \E n \in i .. Len(text) : /\ \A j \in i + 1 .. n : text[j] \in C
                                          /\ n < Len(text) => text[n + 1] \notin C
             /\ \E n \in i .. Len(text) : /\ \A j \in i + 1 .. n : text[j] \notin C
                                          /\ n < Len(text) => text[n + 1] \in C
  <2>1. PICK k \in Nat : k = Len(text)
    OBVIOUS
  <2>2. i \in 0 .. k
    BY <2>1
  <2>3. \A A : \E n \in i .. k : (\A j \in i + 1 .. n : j \notin A) /\ (n < k => n + 1 \in A)
    BY <2>2, On, Zenon
  <2>4. \A n \in i .. k : (\A j \in i + 1 .. n : j \in i + 1 .. k) /\ (n < k => n + 1 \in i + 1 .. k)
    BY <2>1
  <2>5. PICK n \in i .. k : (\A j \in i + 1 .. n : j \notin {m \in i + 1 .. k : text[m] \notin C})
                          /\ (n < k => n + 1 \in {m \in i + 1 .. k : text[m] \notin C})
    BY <2>3
  <2>6. (\A j \in i + 1 .. n : text[j] \in C) /\ (n < k => text[n + 1] \notin C)
    BY <2>4, <2>5
  <2>7. PICK l \in i .. k : (\A j \in i + 1 .. l : j \notin {m \in i + 1 .. k : text[m] \in C})
                          /\ (l < k => l + 1 \in {m \in i + 1 .. k : text[m] \in C})
    BY <2>3
  <2>8. (\A j \in i + 1 .. l : text[j] \notin C) /\ (l < k => text[l + 1] \in C)
    BY <2>4, <2>7
  <2>9. QED BY <2>1, <2>6, <2>8
<1>2. RunOn(text, i, LAMBDA c : c # "nl") \in i .. Len(text)
  <2>1. \E n \in i .. Len(text) : /\ \A j \in i + 1 .. n : text[j] \notin {"nl"}
                                  /\ n < Len(text) => text[n + 1] \in {"nl"}
    BY <1>1
  <2>2. QED BY <2>1 DEF RunOn
<1>3. RunOn(text, i, LAMBDA c : ~IsWordRune(c)) \in i .. Len(text)
  <2>1. \E n \in i .. Len(text) : /\ \A j \in i + 1 .. n : text[j] \in Blanks
                                  /\ n < Len(text) => text[n + 1] \notin Blanks
    BY <1>1
  <2>2. QED BY <2>1 DEF RunOn, IsWordRune
<1>4. RunOn(text, i, IsWordRune) \in i .. Len(text)
  <2>1. \E n \in i .. Len(text) : /\ \A j \in i + 1 .. n : text[j] \notin Blanks
                                  /\ n < Len(text) => text[n + 1] \in Blanks
    BY <1>1
  <2>2. QED BY <2>1 DEF RunOn, IsWordRune
<1>5. QED BY <1>2, <1>3, <1>4

LEMMA SoundIs ==
  ASSUME NEW e, Sound(e)
  PROVE  /\ e \in Editor /\ e.input \in Text /\ Len(e.input) \in Nat /\ e.cursor \in 0 .. Len(e.input)
         /\ e.history \in Seq(Text) /\ Len(e.history) \in Nat /\ e.hindex \in 0 .. Len(e.history)
         /\ \A i \in 1 .. Len(e.history) : e.history[i] \in Text
         /\ e.cands \in Seq(Text) /\ Len(e.cands) \in Nat /\ \A i \in 1 .. Len(e.cands) : e.cands[i] \in Text
         /\ e.draft \in Text /\ e.query \in Text
         /\ e.sindex \in Nat /\ (e.searching => e.sindex <= Len(e.history))
<1>1. e \in Editor /\ EditorOK(e)
  BY DEF Sound
<1>2. e.input \in Text /\ e.history \in Seq(Text) /\ e.cands \in Seq(Text) /\ e.draft \in Text /\ e.query \in Text
      /\ e.sindex \in Nat
  BY <1>1 DEF Editor
<1>3. Len(e.input) \in Nat
  BY <1>2, TextLen
<1>4. /\ Len(e.history) \in Nat /\ \A i \in 1 .. Len(e.history) : e.history[i] \in Text
      /\ Len(e.cands) \in Nat /\ \A i \in 1 .. Len(e.cands) : e.cands[i] \in Text
  BY <1>2, LenProperties, ElementOfSeq
<1>5. e.cursor \in 0 .. Len(e.input) /\ e.hindex \in 0 .. Len(e.history)
      /\ (e.searching => e.sindex \in 0 .. Len(e.history))
  BY <1>1 DEF EditorOK
<1>6. QED BY <1>1, <1>2, <1>3, <1>4, <1>5

LEMMA PlacesOf ==
  ASSUME NEW e, Sound(e)
  PROVE  /\ LineStart(e) \in 0 .. e.cursor /\ LineEnd(e) \in e.cursor .. Len(e.input)
         /\ NameStart(e) \in 0 .. e.cursor /\ PathStart(e) \in 0 .. e.cursor
         /\ FragmentStart(e) \in 0 .. e.cursor
<1>1. e.cursor \in Nat /\ e.cursor \in 0 .. Len(e.input) /\ Len(e.input) \in Nat
  BY SoundIs
<1>2. LineStart(e) \in 0 .. e.cursor /\ NameStart(e) \in 0 .. e.cursor /\ PathStart(e) \in 0 .. e.cursor
      /\ RunBack(e.input, e.cursor, IsIdentRune) \in 0 .. e.cursor
  BY <1>1, RunsBack DEF LineStart, NameStart, PathStart
<1>3. LineEnd(e) \in e.cursor .. Len(e.input)
  BY <1>1, RunsOn DEF LineEnd
<1>4. FragmentStart(e) \in 0 .. e.cursor
  BY <1>2 DEF FragmentStart
<1>5. QED BY <1>2, <1>3, <1>4

LEMMA WordLeftIs ==
  ASSUME NEW e, Sound(e), NEW floor \in 0 .. e.cursor
  PROVE  WordLeft(e, floor) \in 0 .. e.cursor
<1>1. e.cursor \in Nat
  BY SoundIs
<1>2. PICK gap \in 0 .. e.cursor : gap = RunBack(e.input, e.cursor, LAMBDA c : ~IsWordRune(c))
  BY <1>1, RunsBack
<1>3. PICK from \in 0 .. e.cursor : from = IF gap < floor THEN floor ELSE gap
  BY <1>1, <1>2
<1>4. from \in Nat
  BY <1>1
<1>5. RunBack(e.input, from, IsWordRune) \in 0 .. from
  BY <1>4, RunsBack
<1>6. WordLeft(e, floor) = RunBack(e.input, from, IsWordRune)
  BY <1>2, <1>3 DEF WordLeft
<1>7. QED BY <1>1, <1>4, <1>5, <1>6

LEMMA EditedSelf ==
  ASSUME NEW e, Sound(e)
  PROVE  Edited(e, e)
  BY DEF Edited

LEMMA TypingSound ==
  ASSUME NEW e, Sound(e), NEW text \in Text
  PROVE  /\ Edited(e, Insert(e, text)) /\ Insert(e, text).cands = e.cands
         /\ Edited(e, Backspace(e)) /\ Backspace(e).cands = e.cands
         /\ Edited(e, DeleteForward(e)) /\ DeleteForward(e).cands = e.cands
<1>1. e.cursor \in 0 .. Len(e.input) /\ Len(e.input) \in Nat /\ <<>> \in Text
  BY SoundIs, NoText
<1>2. Edited(e, Insert(e, text)) /\ Insert(e, text).cands = e.cands
  BY <1>1, ReplaceSound DEF Insert
<1>3. Edited(e, Backspace(e)) /\ Backspace(e).cands = e.cands
  <2>1. CASE e.cursor = 0
    BY <2>1 DEF Backspace, Edited
  <2>2. CASE e.cursor # 0
    <3>1. e.cursor - 1 \in 0 .. Len(e.input)
      BY <1>1, <2>2
    <3>2. QED BY <1>1, <2>2, <3>1, ReplaceSound DEF Backspace
  <2>3. QED BY <2>1, <2>2
<1>4. Edited(e, DeleteForward(e)) /\ DeleteForward(e).cands = e.cands
  <2>1. CASE e.cursor = Len(e.input)
    BY <2>1 DEF DeleteForward, Edited
  <2>2. CASE e.cursor # Len(e.input)
    <3>1. e.cursor + 1 \in 0 .. Len(e.input)
      BY <1>1, <2>2
    <3>2. QED BY <1>1, <2>2, <3>1, ReplaceSound DEF DeleteForward
  <2>3. QED BY <2>1, <2>2
<1>5. QED BY <1>2, <1>3, <1>4

LEMMA MovingSound ==
  ASSUME NEW e, Sound(e)
  PROVE  \A d \in {MoveLeft(e), MoveRight(e), MoveWordLeft(e), MoveWordRight(e), MoveHome(e), MoveEnd(e)} :
           Edited(e, d) /\ d.cands = e.cands
<1>1. e \in Editor /\ e.cursor \in 0 .. Len(e.input) /\ Len(e.input) \in Nat
  BY SoundIs
<1>2. ASSUME NEW c \in 0 .. Len(e.input), NEW d, d = [e EXCEPT !.cursor = c] PROVE Edited(e, d) /\ d.cands = e.cands
  BY <1>2, MoveSound
<1>3. Edited(e, MoveLeft(e)) /\ MoveLeft(e).cands = e.cands
  <2>1. CASE e.cursor = 0
    BY <2>1 DEF MoveLeft, Edited
  <2>2. CASE e.cursor # 0
    <3>1. e.cursor - 1 \in 0 .. Len(e.input) /\ MoveLeft(e) = [e EXCEPT !.cursor = e.cursor - 1]
      BY <1>1, <2>2 DEF MoveLeft
    <3>2. QED BY <1>2, <3>1
  <2>3. QED BY <2>1, <2>2
<1>4. Edited(e, MoveRight(e)) /\ MoveRight(e).cands = e.cands
  <2>1. CASE e.cursor = Len(e.input)
    BY <2>1 DEF MoveRight, Edited
  <2>2. CASE e.cursor # Len(e.input)
    <3>1. e.cursor + 1 \in 0 .. Len(e.input) /\ MoveRight(e) = [e EXCEPT !.cursor = e.cursor + 1]
      BY <1>1, <2>2 DEF MoveRight
    <3>2. QED BY <1>2, <3>1
  <2>3. QED BY <2>1, <2>2
<1>5. Edited(e, MoveWordLeft(e)) /\ MoveWordLeft(e).cands = e.cands
  <2>1. 0 \in 0 .. e.cursor
    BY <1>1
  <2>2. WordLeft(e, 0) \in 0 .. e.cursor
    BY <2>1, WordLeftIs
  <2>3. WordLeft(e, 0) \in 0 .. Len(e.input)
    BY <1>1, <2>2
  <2>4. QED BY <1>2, <2>3 DEF MoveWordLeft
<1>6. Edited(e, MoveWordRight(e)) /\ MoveWordRight(e).cands = e.cands
  <2>1. PICK a \in e.cursor .. Len(e.input) : a = RunOn(e.input, e.cursor, LAMBDA c : ~IsWordRune(c))
    BY <1>1, RunsOn
  <2>2. a \in 0 .. Len(e.input)
    BY <1>1, <2>1
  <2>3. PICK b \in a .. Len(e.input) : b = RunOn(e.input, a, IsWordRune)
    BY <1>1, <2>2, RunsOn
  <2>4. b \in 0 .. Len(e.input)
    BY <1>1, <2>2, <2>3
  <2>5. MoveWordRight(e) = [e EXCEPT !.cursor = b]
    BY <2>1, <2>3 DEF MoveWordRight
  <2>6. QED BY <1>2, <2>4, <2>5
<1>7. Edited(e, MoveHome(e)) /\ MoveHome(e).cands = e.cands
  <2>1. LineStart(e) \in 0 .. Len(e.input)
    BY <1>1, PlacesOf
  <2>2. QED BY <1>2, <2>1 DEF MoveHome
<1>8. Edited(e, MoveEnd(e)) /\ MoveEnd(e).cands = e.cands
  <2>1. LineEnd(e) \in 0 .. Len(e.input)
    BY <1>1, PlacesOf
  <2>2. QED BY <1>2, <2>1 DEF MoveEnd
<1>9. QED BY <1>3, <1>4, <1>5, <1>6, <1>7, <1>8

LEMMA KillingSound ==
  ASSUME NEW e, Sound(e)
  PROVE  \A d \in {KillToLineStart(e), KillToLineEnd(e), KillWordBackward(e)} : Edited(e, d) /\ d.cands = e.cands
<1>1. e.cursor \in 0 .. Len(e.input) /\ Len(e.input) \in Nat /\ <<>> \in Text
  BY SoundIs, NoText
<1>2. LineStart(e) \in 0 .. e.cursor /\ LineEnd(e) \in e.cursor .. Len(e.input)
  BY PlacesOf
<1>3. WordLeft(e, LineStart(e)) \in 0 .. e.cursor
  BY <1>2, WordLeftIs
<1>4. LineStart(e) \in 0 .. Len(e.input) /\ LineEnd(e) \in 0 .. Len(e.input) /\ WordLeft(e, LineStart(e)) \in 0 .. Len(e.input)
  BY <1>1, <1>2, <1>3
<1>5. QED BY <1>1, <1>4, ReplaceSound DEF KillToLineStart, KillToLineEnd, KillWordBackward

-----------------------------------------------------------------------------
(* The line editor: the history and the search.                            *)

Line == Text \ {<<>>}

LEMMA LinesAre ==
  ASSUME NEW h, h \in Seq(Line)
  PROVE  h \in Seq(Text) /\ Len(h) \in Nat /\ <<>> \notin ToSet(h)
<1>1. h \in Seq(Text)
  BY SeqMonotonic DEF Line
<1>2. Len(h) \in Nat /\ DOMAIN h = 1 .. Len(h) /\ \A i \in 1 .. Len(h) : h[i] \in Line
  BY LenProperties, ElementOfSeq
<1>3. QED BY <1>1, <1>2 DEF ToSet, Line

LEMMA HistoryIs ==
  ASSUME NEW e, Sound(e)
  PROVE  e.history \in Seq(Line)
<1>1. e.history \in Seq(Text) /\ <<>> \notin ToSet(e.history)
  BY SoundIs DEF Sound, EditorOK
<1>2. DOMAIN e.history = 1 .. Len(e.history) /\ Len(e.history) \in Nat
      /\ \A i \in DOMAIN e.history : e.history[i] \in Line
  <2>1. DOMAIN e.history = 1 .. Len(e.history) /\ Len(e.history) \in Nat
        /\ \A i \in 1 .. Len(e.history) : e.history[i] \in Text
    BY <1>1, LenProperties, ElementOfSeq
  <2>2. \A i \in DOMAIN e.history : e.history[i] # <<>>
    BY <1>1 DEF ToSet
  <2>3. QED BY <2>1, <2>2 DEF Line
<1>3. e.history \in [1 .. Len(e.history) -> Line]
  <2>1. e.history = [i \in 1 .. Len(e.history) |-> e.history[i]]
    BY <1>1, LenProperties
  <2>2. QED BY <1>2, <2>1
<1>4. \A S : \A n \in Nat : \A f \in [1 .. n -> S] : f \in Seq(S)
  OBVIOUS
<1>5. QED BY <1>2, <1>3, <1>4

\* The history is another, and the place in it; no search is on.
LEMMA HistorySound ==
  ASSUME NEW e, Sound(e), ~e.searching, NEW d \in Editor,
         \/ d.input = e.input /\ d.cursor = e.cursor
         \/ d.input = <<>> /\ d.cursor = 0,
         d.history \in Seq(Line), d.hindex \in 0 .. Len(d.history), d.searching = e.searching,
         d.cands = e.cands \/ d.cands = <<>>, d.cycle = e.cycle
  PROVE  Edited(e, d)
<1>1. Len(d.history) \in Nat /\ <<>> \notin ToSet(d.history)
  BY LinesAre
<1>2. d.cursor \in 0 .. Len(d.input)
  BY SoundIs, EmptySeq
<1>3. d.cands # <<>> => d.cycle \in 0 .. Len(d.cands) - 1
  BY DEF Sound, EditorOK
<1>4. d.fragment \in Nat /\ d.scroll \in Nat
  BY DEF Editor
<1>5. QED BY <1>1, <1>2, <1>3, <1>4 DEF Edited, Sound, EditorOK

LEMMA RecallSound ==
  ASSUME NEW e, Sound(e), NEW i \in 0 .. Len(e.history), NEW text \in Text
  PROVE  Edited(e, Recall(e, i, text)) /\ Recall(e, i, text).cands = e.cands
<1>1. e \in Editor /\ EditorOK(e) /\ Len(e.history) \in Nat /\ Len(text) \in Nat
  BY SoundIs, TextLen DEF Sound
<1>2. PICK d : d = Recall(e, i, text)
  OBVIOUS
<1>3. d = [e EXCEPT !.hindex = i, !.input = text, !.cursor = Len(text)]
  BY <1>2 DEF Recall
<1>4. d \in Editor
  <2>1. i \in Nat /\ e \in Editor /\ Len(text) \in Nat
    BY <1>1
  <2>2. QED BY <1>3, <2>1 DEF Editor
<1>5. /\ d.input = text /\ d.cursor = Len(text) /\ d.hindex = i /\ d.history = e.history /\ d.searching = e.searching
      /\ d.sindex = e.sindex /\ d.cands = e.cands /\ d.cycle = e.cycle /\ d.fragment = e.fragment /\ d.scroll = e.scroll
  BY <1>1, <1>3 DEF Editor
<1>6. EditorOK(d)
  BY <1>1, <1>5 DEF EditorOK
<1>7. QED BY <1>2, <1>4, <1>5, <1>6 DEF Edited, Sound

LEMMA BrowsingSound ==
  ASSUME NEW e, Sound(e)
  PROVE  \A d \in {HistoryPrev(e), HistoryNext(e)} : Edited(e, d) /\ d.cands = e.cands
<1>1. /\ e \in Editor /\ e.history \in Seq(Text) /\ Len(e.history) \in Nat /\ e.hindex \in 0 .. Len(e.history)
      /\ e.input \in Text /\ e.draft \in Text
      /\ \A i \in 1 .. Len(e.history) : e.history[i] \in Text
  BY SoundIs
<1>2. Edited(e, HistoryPrev(e)) /\ HistoryPrev(e).cands = e.cands
  <2>1. CASE MultiLine(e) \/ e.history = <<>>
    BY <2>1 DEF HistoryPrev, Edited
  <2>2. CASE ~(MultiLine(e) \/ e.history = <<>>)
    <3>1. Len(e.history) > 0
      BY <1>1, <2>2, EmptySeq
    <3>2. PICK d : d = IF e.hindex = Len(e.history) THEN [e EXCEPT !.draft = e.input] ELSE e
      OBVIOUS
    <3>3. d \in Editor /\ d.history = e.history /\ d.cands = e.cands /\ d.searching = e.searching
          /\ d.input = e.input /\ d.cursor = e.cursor /\ d.hindex = e.hindex /\ d.sindex = e.sindex /\ d.cycle = e.cycle
      BY <1>1, <3>2 DEF Editor
    <3>4. Edited(e, d)
      BY <3>3, SoundBy DEF Sound, EditorOK
    <3>5. PICK i \in 0 .. Len(e.history) : i = (IF e.hindex > 0 THEN e.hindex - 1 ELSE 0) /\ i + 1 \in 1 .. Len(e.history)
      BY <1>1, <3>1
    <3>6. e.history[i + 1] \in Text
      BY <1>1, <3>5
    <3>7. Edited(d, Recall(d, i, e.history[i + 1])) /\ Recall(d, i, e.history[i + 1]).cands = d.cands
      BY <3>3, <3>4, <3>5, <3>6, RecallSound DEF Edited
    <3>8. HistoryPrev(e) = Recall(d, i, e.history[i + 1])
      BY <2>2, <3>2, <3>5 DEF HistoryPrev
    <3>9. QED BY <3>3, <3>7, <3>8 DEF Edited
  <2>3. QED BY <2>1, <2>2
<1>3. Edited(e, HistoryNext(e)) /\ HistoryNext(e).cands = e.cands
  <2>1. CASE MultiLine(e) \/ e.hindex >= Len(e.history)
    BY <2>1 DEF HistoryNext, Edited
  <2>2. CASE ~(MultiLine(e) \/ e.hindex >= Len(e.history))
    <3>1. PICK i \in 0 .. Len(e.history) : i = e.hindex + 1 /\ (i # Len(e.history) => i + 1 \in 1 .. Len(e.history))
      BY <1>1, <2>2
    <3>2. PICK text \in Text : text = IF i = Len(e.history) THEN e.draft ELSE e.history[i + 1]
      BY <1>1, <3>1
    <3>3. HistoryNext(e) = Recall(e, i, text)
      BY <2>2, <3>1, <3>2 DEF HistoryNext
    <3>4. QED BY <3>3, RecallSound
  <2>3. QED BY <2>1, <2>2
<1>4. QED BY <1>2, <1>3

\* An entry is taken out of the history while no search is on: the place in it is brought back.
LEMMA DeletingSound ==
  ASSUME NEW e, Sound(e), ~e.searching
  PROVE  /\ \A i : Edited(e, DeleteHistoryEntry(e, i)) /\ DeleteHistoryEntry(e, i).cands = e.cands
         /\ Edited(e, ClearHistoryEntries(e)) /\ ClearHistoryEntries(e).cands = e.cands
<1>1. e \in Editor /\ e.history \in Seq(Line) /\ Len(e.history) \in Nat /\ e.hindex \in 0 .. Len(e.history)
      /\ \A j \in 1 .. Len(e.history) : e.history[j] \in Line
  BY SoundIs, HistoryIs, ElementOfSeq
<1>2. ASSUME NEW i PROVE Edited(e, DeleteHistoryEntry(e, i)) /\ DeleteHistoryEntry(e, i).cands = e.cands
  <2>1. CASE i \notin 0 .. Len(e.history) - 1
    BY <2>1 DEF DeleteHistoryEntry, Edited
  <2>2. CASE i \in 0 .. Len(e.history) - 1
    <3>1. PICK rest : rest = RemoveAt(e.history, i + 1)
      OBVIOUS
    <3>2. rest \in Seq(Line)
      <4>1. PICK n \in Int : n = Len(e.history) /\ i \in Int /\ i < n /\ 0 <= i
        BY <1>1, <2>2
      <4>2. 1 \in Int /\ i + 1 - 1 \in Int /\ i + 1 + 1 \in Int /\ i + 1 - 1 = i
            /\ (\A j \in 1 .. i + 1 - 1 : j \in 1 .. n) /\ \A j \in i + 1 + 1 .. n : j \in 1 .. n
        BY <4>1
      <4>3. SubSeq(e.history, 1, i + 1 - 1) \in Seq(Line)
        BY <1>1, <4>1, <4>2, SubSeqProperties
      <4>4. SubSeq(e.history, i + 1 + 1, n) \in Seq(Line)
        BY <1>1, <4>1, <4>2, SubSeqProperties
      <4>5. QED BY <3>1, <4>1, <4>3, <4>4, ConcatProperties DEF RemoveAt
    <3>3. rest \in Seq(Text) /\ Len(rest) \in Nat
      BY <3>2, LinesAre
    <3>4. PICK d : d = DeleteHistoryEntry(e, i)
      OBVIOUS
    <3>5. d = [e EXCEPT !.history = rest, !.hindex = IF e.hindex > Len(rest) THEN Len(rest) ELSE e.hindex]
      BY <1>1, <2>2, <3>1, <3>4 DEF DeleteHistoryEntry
    <3>6. PICK k \in 0 .. Len(rest) : k = IF e.hindex > Len(rest) THEN Len(rest) ELSE e.hindex
      BY <1>1, <3>3
    <3>7. d \in Editor
      BY <1>1, <3>3, <3>5, <3>6 DEF Editor
    <3>8. /\ d.input = e.input /\ d.cursor = e.cursor /\ d.history = rest /\ d.hindex = k /\ d.searching = e.searching
          /\ d.cands = e.cands /\ d.cycle = e.cycle
      BY <1>1, <3>5, <3>6 DEF Editor
    <3>9. d.history \in Seq(Line) /\ d.hindex \in 0 .. Len(d.history)
      BY <3>2, <3>8
    <3>10. Edited(e, d)
      BY <3>7, <3>8, <3>9, HistorySound
    <3>11. QED BY <3>4, <3>8, <3>10
  <2>3. QED BY <2>1, <2>2
<1>3. Edited(e, ClearHistoryEntries(e)) /\ ClearHistoryEntries(e).cands = e.cands
  <2>1. PICK d : d = ClearHistoryEntries(e)
    OBVIOUS
  <2>2. <<>> \in Seq(Line) /\ <<>> \in Seq(Text) /\ <<>> \in Text /\ Len(<<>>) = 0
    BY EmptySeq, NoText
  <2>3. d \in Editor
    BY <1>1, <2>1, <2>2 DEF Editor, ClearHistoryEntries
  <2>4. /\ d.input = e.input /\ d.cursor = e.cursor /\ d.history = <<>> /\ d.hindex = 0 /\ d.searching = e.searching
        /\ d.cands = e.cands /\ d.cycle = e.cycle
    BY <1>1, <2>1 DEF Editor, ClearHistoryEntries
  <2>5. d.history \in Seq(Line) /\ d.hindex \in 0 .. Len(d.history)
    BY <2>2, <2>4
  <2>6. Edited(e, d)
    BY <2>3, <2>4, <2>5, HistorySound
  <2>7. QED BY <2>1, <2>4, <2>6
<1>4. QED BY <1>2, <1>3

LEMMA SearchSound ==
  ASSUME NEW e, Sound(e), e.searching, NEW start \in Int, start < Len(e.history)
  PROVE  Edited(e, SearchFrom(e, start)) /\ SearchFrom(e, start).cands = e.cands
<1>1. e \in Editor /\ EditorOK(e) /\ Len(e.history) \in Nat
  BY SoundIs DEF Sound
<1>2. PICK hits : hits = {i \in 0 .. start : Occurs(e.query, e.history[i + 1])}
  OBVIOUS
<1>3. CASE e.query = <<>> \/ hits = {}
  BY <1>2, <1>3 DEF SearchFrom, Edited
<1>4. CASE ~(e.query = <<>> \/ hits = {})
  <2>1. hits \subseteq 0 .. Len(e.history) - 1
    BY <1>1, <1>2
  <2>2. \E i \in hits : \A j \in hits : j <= i
    BY <1>1, <1>4, <2>1, Greatest
  <2>3. PICK i \in hits : i = CHOOSE h \in hits : \A j \in hits : j <= h
    BY <2>2
  <2>4. PICK d : d = [e EXCEPT !.sindex = i]
    OBVIOUS
  <2>5. SearchFrom(e, start) = d
    BY <1>2, <1>4, <2>3, <2>4 DEF SearchFrom
  <2>6. i \in 0 .. Len(e.history) /\ i \in Nat
    BY <1>1, <2>1
  <2>7. d \in Editor
    BY <1>1, <2>4, <2>6 DEF Editor
  <2>8. /\ d.input = e.input /\ d.cursor = e.cursor /\ d.hindex = e.hindex /\ d.history = e.history
        /\ d.searching = e.searching /\ d.sindex = i /\ d.cands = e.cands /\ d.cycle = e.cycle
        /\ d.fragment = e.fragment /\ d.scroll = e.scroll
    BY <1>1, <2>4 DEF Editor
  <2>9. EditorOK(d)
    BY <1>1, <2>6, <2>8 DEF EditorOK
  <2>10. QED BY <2>5, <2>7, <2>8, <2>9 DEF Edited, Sound
<1>5. QED BY <1>3, <1>4

\* A search begins, or goes on to the match before.
LEMMA StepSound ==
  ASSUME NEW e, Sound(e)
  PROVE  Sound(SearchStep(e)) /\ SearchStep(e).cands = e.cands
<1>1. e \in Editor /\ EditorOK(e) /\ Len(e.history) \in Nat /\ e.sindex \in Nat
  BY SoundIs DEF Sound
<1>2. CASE e.searching
  <2>1. e.sindex - 1 \in Int /\ e.sindex - 1 < Len(e.history)
    BY <1>1, <1>2, SoundIs
  <2>2. QED BY <1>2, <2>1, SearchSound DEF SearchStep, Edited
<1>3. CASE ~e.searching
  <2>1. PICK d : d = SearchStep(e)
    OBVIOUS
  <2>2. d = [e EXCEPT !.searching = TRUE, !.query = <<>>, !.sindex = Len(e.history)]
    BY <1>3, <2>1 DEF SearchStep
  <2>3. d \in Editor
    BY <1>1, <2>2, NoText DEF Editor
  <2>4. /\ d.input = e.input /\ d.cursor = e.cursor /\ d.hindex = e.hindex /\ d.history = e.history
        /\ d.sindex = Len(e.history) /\ d.cands = e.cands /\ d.cycle = e.cycle
        /\ d.fragment = e.fragment /\ d.scroll = e.scroll
    BY <1>1, <2>2 DEF Editor
  <2>5. EditorOK(d)
    BY <1>1, <2>4 DEF EditorOK
  <2>6. QED BY <2>1, <2>3, <2>4, <2>5 DEF Sound
<1>4. QED BY <1>2, <1>3

LEMMA LeaveSound ==
  ASSUME NEW e, Sound(e)
  PROVE  Sound(LeaveSearch(e)) /\ ~LeaveSearch(e).searching /\ LeaveSearch(e).cands = e.cands
<1>1. /\ e \in Editor /\ EditorOK(e) /\ Len(e.history) \in Nat /\ e.sindex \in Nat
      /\ \A i \in 1 .. Len(e.history) : e.history[i] \in Text
  BY SoundIs DEF Sound
<1>2. PICK d : d = [e EXCEPT !.searching = FALSE, !.query = <<>>]
  OBVIOUS
<1>3. d \in Editor
  BY <1>1, <1>2, NoText DEF Editor
<1>4. /\ d.input = e.input /\ d.cursor = e.cursor /\ d.hindex = e.hindex /\ d.history = e.history
      /\ d.searching = FALSE /\ d.sindex = e.sindex /\ d.cands = e.cands /\ d.cycle = e.cycle
      /\ d.fragment = e.fragment /\ d.scroll = e.scroll
  BY <1>1, <1>2 DEF Editor
<1>5. EditorOK(d)
  BY <1>1, <1>4 DEF EditorOK
<1>6. CASE e.sindex < Len(e.history)
  <2>1. e.history[e.sindex + 1] \in Text
    BY <1>1, <1>6
  <2>2. PICK found \in Text : found = e.history[e.sindex + 1]
    BY <2>1
  <2>3. d.hindex \in 0 .. Len(d.history)
    BY <1>5 DEF EditorOK
  <2>4. Recall(d, d.hindex, found) = [d EXCEPT !.input = found, !.cursor = Len(found)]
    BY <1>3 DEF Recall, Editor
  <2>5. Edited(d, Recall(d, d.hindex, found)) /\ Recall(d, d.hindex, found).cands = d.cands
    BY <1>3, <1>5, <2>3, RecallSound DEF Sound
  <2>6. LeaveSearch(e) = [d EXCEPT !.input = found, !.cursor = Len(found)]
    BY <1>2, <1>6, <2>2 DEF LeaveSearch
  <2>7. QED BY <1>4, <2>4, <2>5, <2>6 DEF Edited
<1>7. CASE ~(e.sindex < Len(e.history))
  <2>1. LeaveSearch(e) = d
    BY <1>2, <1>7 DEF LeaveSearch
  <2>2. QED BY <1>3, <1>4, <1>5, <2>1 DEF Sound
<1>8. QED BY <1>6, <1>7

LEMMA SearchKeySound ==
  ASSUME NEW e, Sound(e), e.searching, NEW k, k.key = "rune" => k.rune \in Runes
  PROVE  Sound(SearchKey(e, k)) /\ SearchKey(e, k).cands = e.cands
<1>1. e \in Editor /\ Len(e.history) \in Nat /\ e.query \in Text
  BY SoundIs
<1>2. ASSUME NEW query \in Text
      PROVE  /\ Sound(SearchFrom([e EXCEPT !.query = query], Len(e.history) - 1))
             /\ SearchFrom([e EXCEPT !.query = query], Len(e.history) - 1).cands = e.cands
  <2>1. PICK d : d = [e EXCEPT !.query = query]
    OBVIOUS
  <2>2. /\ d \in Editor /\ d.input = e.input /\ d.history = e.history /\ d.cands = e.cands /\ d.searching = e.searching
        /\ d.cursor = e.cursor /\ d.hindex = e.hindex /\ d.sindex = e.sindex /\ d.cycle = e.cycle
    BY <1>1, <2>1 DEF Editor
  <2>3. Sound(d) /\ d.searching
    BY <2>2, SoundBy DEF Sound, EditorOK, Edited
  <2>4. Len(e.history) - 1 \in Int /\ Len(e.history) - 1 < Len(d.history)
    BY <1>1, <2>2
  <2>5. QED BY <2>1, <2>2, <2>3, <2>4, SearchSound DEF Edited
<1>3. CASE k.key = "Esc"
  BY <1>3, LeaveSound DEF SearchKey
<1>4. CASE k.key = "Backspace"
  <2>1. CASE e.query # <<>>
    <3>1. Front(e.query) \in Text
      <4>1. Len(e.query) \in Nat /\ Len(e.query) > 0
        BY <1>1, <2>1, TextLen, EmptySeq DEF Text
      <4>2. 0 + 1 = 1 /\ Len(e.query) - 1 \in Nat /\ Len(e.query) - 1 <= Len(e.query)
        BY <4>1
      <4>3. SubSeq(e.query, 0 + 1, Len(e.query) - 1) \in Text
        BY <1>1, <4>2, Part
      <4>4. QED BY <4>2, <4>3 DEF Front
    <3>2. SearchKey(e, k) = SearchFrom([e EXCEPT !.query = Front(e.query)], Len(e.history) - 1)
      BY <1>1, <1>4, <2>1 DEF SearchKey, Editor
    <3>3. PICK query \in Text : query = Front(e.query)
      BY <3>1
    <3>4. QED BY <1>2, <3>2, <3>3
  <2>2. CASE e.query = <<>>
    <3>1. SearchKey(e, k) = e
      BY <1>4, <2>2 DEF SearchKey
    <3>2. QED BY <3>1
  <2>3. QED BY <2>1, <2>2
<1>5. CASE k.key = "rune"
  <2>1. PICK query \in Text : query = Append(e.query, k.rune)
    BY <1>1, <1>5, AppendProperties DEF Text
  <2>2. SearchKey(e, k) = SearchFrom([e EXCEPT !.query = query], Len(e.history) - 1)
    BY <1>1, <1>5, <2>1 DEF SearchKey, Editor
  <2>3. /\ Sound(SearchFrom([e EXCEPT !.query = query], Len(e.history) - 1))
        /\ SearchFrom([e EXCEPT !.query = query], Len(e.history) - 1).cands = e.cands
    BY <1>2
  <2>4. QED BY <2>2, <2>3
<1>6. CASE k.key \notin {"Esc", "Backspace", "rune"}
  <2>1. SearchKey(e, k) = e
    BY <1>6 DEF SearchKey
  <2>2. QED BY <2>1
<1>7. QED BY <1>3, <1>4, <1>5, <1>6

-----------------------------------------------------------------------------
(* The line editor: completion.                                            *)

LEMMA PrefixIs ==
  ASSUME NEW s \in Text, NEW u \in Text
  PROVE  IsPrefix(s, u) <=> Len(s) <= Len(u) /\ \A i \in 1 .. Len(s) : s[i] = u[i]
<1>1. Len(s) \in Nat /\ Len(u) \in Nat
  BY TextLen
<1>2. SubSeq(s, 1, Len(s)) = s
  BY SubSeqFull DEF Text
<1>3. ASSUME Len(s) <= Len(u)
      PROVE  SubSeq(u, 1, Len(s)) = s <=> \A i \in 1 .. Len(s) : s[i] = u[i]
  <2>1. PICK p : p = SubSeq(u, 1, Len(s))
    OBVIOUS
  <2>2. p \in Seq(Runes) /\ Len(p) = Len(s) /\ \A i \in 1 .. Len(s) : p[i] = u[i]
    <3>1. \A i \in 1 .. Len(s) : u[i] \in Runes
      BY <1>1, <1>3, TextLen
    <3>2. 1 \in Int /\ Len(s) \in Int
      BY <1>1
    <3>3. /\ SubSeq(u, 1, Len(s)) \in Seq(Runes)
          /\ Len(SubSeq(u, 1, Len(s))) = IF 1 <= Len(s) THEN Len(s) - 1 + 1 ELSE 0
          /\ \A i \in 1 .. Len(s) - 1 + 1 : SubSeq(u, 1, Len(s))[i] = u[1 + i - 1]
      BY <3>1, <3>2, SubSeqProperties
    <3>4. \A i \in 1 .. Len(s) : 1 + i - 1 = i
      BY <1>1
    <3>5. QED BY <1>1, <2>1, <3>3, <3>4
  <2>3. s \in Seq(Runes)
    BY DEF Text
  <2>4. p = s <=> \A i \in 1 .. Len(s) : s[i] = p[i]
    BY <2>2, <2>3, SeqEqual
  <2>5. QED BY <2>1, <2>2, <2>4
<1>4. QED BY <1>1, <1>2, <1>3 DEF IsPrefix

\* The first n runes of a text.
LEMMA StartIs ==
  ASSUME NEW s \in Text, NEW n \in 0 .. Len(s)
  PROVE  SubSeq(s, 1, n) \in Text /\ Len(SubSeq(s, 1, n)) = n /\ \A i \in 1 .. n : SubSeq(s, 1, n)[i] = s[i]
<1>1. Len(s) \in Nat /\ \A i \in 1 .. Len(s) : s[i] \in Runes
  BY TextLen
<1>2. 1 \in Int /\ n \in Int /\ \A i \in 1 .. n : s[i] \in Runes
  BY <1>1
<1>3. /\ SubSeq(s, 1, n) \in Seq(Runes)
      /\ Len(SubSeq(s, 1, n)) = IF 1 <= n THEN n - 1 + 1 ELSE 0
      /\ \A i \in 1 .. n - 1 + 1 : SubSeq(s, 1, n)[i] = s[1 + i - 1]
  BY <1>2, SubSeqProperties
<1>4. n - 1 + 1 = n /\ \A i \in 1 .. n : 1 + i - 1 = i
  BY <1>1
<1>5. QED BY <1>1, <1>3, <1>4 DEF Text

\* What texts have in common begins with whatever each of them begins with.
LEMMA CommonPrefixIs ==
  ASSUME NEW texts \in Seq(Text), texts # <<>>
  PROVE  /\ CommonPrefix(texts) \in Text
         /\ \A s \in Text : (\A i \in DOMAIN texts : IsPrefix(s, texts[i])) => IsPrefix(s, CommonPrefix(texts))
<1>1. /\ DOMAIN texts = 1 .. Len(texts) /\ Len(texts) \in Nat /\ Len(texts) > 0
      /\ \A i \in DOMAIN texts : texts[i] \in Text
  BY LenProperties, ElementOfSeq, EmptySeq
<1>2. PICK first \in Text : first = texts[1]
  BY <1>1
<1>3. Len(first) \in Nat
  BY TextLen
<1>. DEFINE Shared(n) == \A i \in DOMAIN texts : IsPrefix(SubSeq(first, 1, n), texts[i])
            A == {n \in 0 .. Len(first) : Shared(n)}
<1>4. 0 \in A
  <2>1. SubSeq(first, 1, 0) \in Text /\ Len(SubSeq(first, 1, 0)) = 0
    BY <1>3, StartIs
  <2>2. ASSUME NEW i \in DOMAIN texts PROVE IsPrefix(SubSeq(first, 1, 0), texts[i])
    <3>1. PICK u \in Text : u = SubSeq(first, 1, 0) /\ Len(u) = 0
      BY <2>1
    <3>2. PICK t \in Text : t = texts[i]
      BY <1>1
    <3>3. Len(t) \in Nat
      BY TextLen
    <3>4. Len(u) <= Len(t) /\ \A j \in 1 .. Len(u) : u[j] = t[j]
      BY <3>1, <3>3
    <3>5. IsPrefix(u, t)
      BY <3>4, PrefixIs
    <3>6. QED BY <3>1, <3>2, <3>5
  <2>3. QED BY <1>3, <2>2
<1>5. PICK m \in A : \A j \in A : j <= m
  <2>1. A \subseteq 0 .. (Len(first) + 1) - 1 /\ Len(first) + 1 \in Nat
    BY <1>3
  <2>. HIDE DEF A
  <2>2. QED BY <1>4, <2>1, Greatest
<1>6. Shared(m) /\ (m < Len(first) => ~Shared(m + 1))
  BY <1>3, <1>5
<1>7. PICK n \in 0 .. Len(first) : Shared(n) /\ (n < Len(first) => ~Shared(n + 1)) /\ CommonPrefix(texts) = SubSeq(first, 1, n)
  <2>1. \E n \in 0 .. Len(first) :
           /\ \A i \in DOMAIN texts : IsPrefix(SubSeq(first, 1, n), texts[i])
           /\ n < Len(first) => \E i \in DOMAIN texts : ~IsPrefix(SubSeq(first, 1, n + 1), texts[i])
    BY <1>6
  <2>2. QED BY <1>2, <2>1 DEF CommonPrefix
<1>8. CommonPrefix(texts) \in Text /\ Len(CommonPrefix(texts)) = n /\ \A i \in 1 .. n : CommonPrefix(texts)[i] = first[i]
  BY <1>7, StartIs
<1>9. ASSUME NEW s \in Text, \A i \in DOMAIN texts : IsPrefix(s, texts[i]) PROVE IsPrefix(s, CommonPrefix(texts))
  <2>1. Len(s) \in Nat /\ Len(s) <= Len(first) /\ \A i \in 1 .. Len(s) : s[i] = first[i]
    <3>1. 1 \in DOMAIN texts
      BY <1>1
    <3>2. IsPrefix(s, first)
      BY <1>2, <1>9, <3>1
    <3>3. QED BY <3>2, PrefixIs, TextLen
  <2>2. Len(s) <= n
    <3>1. SUFFICES ASSUME n < Len(s) PROVE Shared(n + 1)
      BY <1>3, <1>7, <2>1
    <3>2. n + 1 \in 0 .. Len(first) /\ n + 1 <= Len(s)
      BY <1>3, <2>1, <3>1
    <3>3. PICK u \in Text : u = SubSeq(first, 1, n + 1) /\ Len(u) = n + 1 /\ \A i \in 1 .. n + 1 : u[i] = first[i]
      BY <3>2, StartIs
    <3>4. ASSUME NEW i \in DOMAIN texts PROVE IsPrefix(u, texts[i])
      <4>1. texts[i] \in Text /\ Len(texts[i]) \in Nat /\ Len(s) <= Len(texts[i]) /\ \A j \in 1 .. Len(s) : s[j] = texts[i][j]
        BY <1>1, <1>9, PrefixIs, TextLen
      <4>2. Len(u) <= Len(texts[i])
        BY <2>1, <3>2, <3>3, <4>1
      <4>3. ASSUME NEW j \in 1 .. Len(u) PROVE u[j] = texts[i][j]
        <5>1. j \in 1 .. n + 1 /\ j \in 1 .. Len(s)
          BY <2>1, <3>2, <3>3
        <5>2. QED BY <2>1, <3>3, <4>1, <5>1
      <4>4. QED BY <4>1, <4>2, <4>3, PrefixIs
    <3>5. QED BY <3>3, <3>4
  <2>3. \A i \in 1 .. Len(s) : i \in 1 .. n
    BY <2>1, <2>2
  <2>4. QED BY <1>8, <2>1, <2>2, <2>3, PrefixIs
<1>10. QED BY <1>8, <1>9

\* What is offered for a fragment begins with it.
LEMMA CandidatesAre ==
  ASSUME NEW e, Sound(e)
  PROVE  /\ Fragment(e) \in Text
         /\ Candidates(e) \in Seq({w \in Text : IsPrefix(Fragment(e), w)})
         /\ Candidates(e) \in Seq(Text)
<1>1. Fragment(e) \in Text
  <2>1. /\ e.input \in Text /\ FragmentStart(e) \in Nat /\ e.cursor \in Nat /\ e.cursor <= Len(e.input)
    BY SoundIs, PlacesOf
  <2>2. QED BY <2>1, Part DEF Fragment
<1>2. PICK all : all = IF IsCommand(e) THEN Executables ELSE IF IsPathAt(e) THEN PathNames ELSE Words
  OBVIOUS
<1>3. all \in Seq(Text)
  BY <1>2, LineEditorAssumption
<1>4. PICK at : at = {i \in DOMAIN all : IsPrefix(Fragment(e), all[i])}
  OBVIOUS
<1>5. Candidates(e) = Selected(all, at)
  BY <1>2, <1>4 DEF Candidates
<1>6. \A i \in DOMAIN all : i \in at => all[i] \in {w \in Text : IsPrefix(Fragment(e), w)}
  <2>1. \A i \in DOMAIN all : all[i] \in Text
    BY <1>3, ElementOfSeq, LenProperties
  <2>2. QED BY <1>4, <2>1
<1>7. \A i \in DOMAIN all : i \in at => all[i] \in Text
  BY <1>6
<1>8. Selected(all, at) \in Seq({w \in Text : IsPrefix(Fragment(e), w)})
  BY <1>3, <1>6, SelectedIs
<1>9. Selected(all, at) \in Seq(Text)
  BY <1>3, <1>7, SelectedIs
<1>10. QED BY <1>1, <1>5, <1>8, <1>9

\* What a Tab puts in the place of the fragment, and that it begins with it if no cycle is on.
LEMMA TabIs ==
  ASSUME NEW e, Sound(e)
  PROVE  \/ CompleteTab(e) = e
         \/ \E new \in Text : \E d :
              /\ Edited(e, d) /\ d.input = e.input /\ d.cursor = e.cursor
              /\ CompleteTab(e) = Replace(d, FragmentStart(e), e.cursor, new)
              /\ e.cands = <<>> => IsPrefix(Fragment(e), new)
<1>1. /\ e \in Editor /\ EditorOK(e) /\ e.cands \in Seq(Text) /\ Len(e.cands) \in Nat
      /\ \A i \in 1 .. Len(e.cands) : e.cands[i] \in Text
  BY SoundIs DEF Sound
<1>2. PICK start \in Nat : start = FragmentStart(e)
  BY PlacesOf, SoundIs
<1>3. PICK fresh \in Seq(Text) : fresh = Candidates(e)
  BY CandidatesAre
<1>4. CASE e.cands # <<>> /\ e.fragment = start
  <2>1. Len(e.cands) > 0
    BY <1>1, <1>4, EmptySeq
  <2>2. e.cycle \in Nat
    BY <1>1 DEF Editor
  <2>3. PICK turn : turn = (e.cycle + 1) % Len(e.cands)
    OBVIOUS
  <2>4. turn \in 0 .. Len(e.cands) - 1
    <3>1. \A a \in Nat : \A b \in Nat \ {0} : a % b \in 0 .. b - 1
      OBVIOUS
    <3>2. PICK a \in Nat, b \in Nat \ {0} : a = e.cycle + 1 /\ b = Len(e.cands)
      BY <1>1, <2>1, <2>2
    <3>3. a % b \in 0 .. b - 1
      BY <3>1
    <3>4. QED BY <2>3, <3>2, <3>3
  <2>5. PICK new \in Text : new = e.cands[turn + 1]
    BY <1>1, <2>4
  <2>6. PICK d : d = [e EXCEPT !.cycle = turn]
    OBVIOUS
  <2>7. turn \in Nat
    BY <1>1, <2>4
  <2>8. d \in Editor
    BY <1>1, <2>6, <2>7 DEF Editor
  <2>9. /\ d.input = e.input /\ d.cursor = e.cursor /\ d.hindex = e.hindex /\ d.history = e.history
        /\ d.searching = e.searching /\ d.sindex = e.sindex /\ d.cands = e.cands /\ d.cycle = turn
        /\ d.fragment = e.fragment /\ d.scroll = e.scroll
    BY <1>1, <2>6 DEF Editor
  <2>10. EditorOK(d)
    BY <1>1, <2>4, <2>9 DEF EditorOK
  <2>11. CompleteTab(e) = Replace(d, start, e.cursor, new)
    BY <1>2, <1>4, <2>3, <2>5, <2>6 DEF CompleteTab
  <2>12. QED BY <1>2, <1>4, <2>8, <2>9, <2>10, <2>11 DEF Edited, Sound
<1>5. CASE ~(e.cands # <<>> /\ e.fragment = start) /\ fresh = <<>>
  BY <1>2, <1>3, <1>5 DEF CompleteTab
<1>6. CASE ~(e.cands # <<>> /\ e.fragment = start) /\ fresh # <<>>
  <2>1. PICK new \in Text : new = CommonPrefix(fresh)
    BY <1>6, CommonPrefixIs
  <2>2. IsPrefix(Fragment(e), new)
    <3>1. \A i \in DOMAIN fresh : IsPrefix(Fragment(e), fresh[i])
      <4>1. PICK S : S = {w \in Text : IsPrefix(Fragment(e), w)}
        OBVIOUS
      <4>2. fresh \in Seq(S)
        BY <1>3, <4>1, CandidatesAre
      <4>3. \A i \in DOMAIN fresh : fresh[i] \in S
        BY <4>2, ElementOfSeq, LenProperties
      <4>4. QED BY <4>1, <4>3
    <3>2. QED BY <1>6, <2>1, <3>1, CandidatesAre, CommonPrefixIs
  <2>3. PICK d : d = [e EXCEPT !.cands = fresh, !.fragment = start, !.cycle = 0]
    OBVIOUS
  <2>4. d \in Editor
    BY <1>1, <2>3 DEF Editor
  <2>5. /\ d.input = e.input /\ d.cursor = e.cursor /\ d.hindex = e.hindex /\ d.history = e.history
        /\ d.searching = e.searching /\ d.sindex = e.sindex /\ d.cands = fresh /\ d.cycle = 0
        /\ d.fragment = start /\ d.scroll = e.scroll
    BY <1>1, <2>3 DEF Editor
  <2>6. Len(fresh) \in Nat /\ Len(fresh) > 0
    BY <1>6, LenProperties, EmptySeq
  <2>7. EditorOK(d)
    BY <1>1, <2>5, <2>6 DEF EditorOK
  <2>8. CompleteTab(e) = Replace(d, start, e.cursor, new)
    BY <1>2, <1>3, <1>6, <2>1, <2>3 DEF CompleteTab
  <2>9. QED BY <1>2, <2>2, <2>4, <2>5, <2>7, <2>8 DEF Edited, Sound
<1>7. QED BY <1>4, <1>5, <1>6

LEMMA TabSound ==
  ASSUME NEW e, Sound(e)
  PROVE  Edited(e, CompleteTab(e))
<1>1. CASE CompleteTab(e) = e
  BY <1>1, EditedSelf
<1>2. ASSUME NEW d, NEW new \in Text, Edited(e, d), d.input = e.input, d.cursor = e.cursor,
             CompleteTab(e) = Replace(d, FragmentStart(e), e.cursor, new)
      PROVE  Edited(e, CompleteTab(e))
  <2>1. FragmentStart(e) \in 0 .. Len(d.input) /\ e.cursor \in 0 .. Len(d.input)
    BY <1>2, PlacesOf, SoundIs
  <2>2. Edited(d, Replace(d, FragmentStart(e), e.cursor, new))
    BY <1>2, <2>1, ReplaceSound DEF Edited
  <2>3. QED BY <1>2, <2>2 DEF Edited
<1>3. QED BY <1>1, <1>2, TabIs

LEMMA DropSound ==
  ASSUME NEW e, Sound(e)
  PROVE  /\ Edited(e, [e EXCEPT !.cands = <<>>]) /\ [e EXCEPT !.cands = <<>>].cands = <<>>
         /\ [e EXCEPT !.cands = <<>>].input = e.input
<1>1. e \in Editor
  BY SoundIs
<1>2. PICK d : d = [e EXCEPT !.cands = <<>>]
  OBVIOUS
<1>3. /\ d \in Editor /\ d.input = e.input /\ d.history = e.history /\ d.cands = <<>> /\ d.searching = e.searching
      /\ d.cursor = e.cursor /\ d.hindex = e.hindex /\ d.sindex = e.sindex /\ d.cycle = e.cycle
  BY <1>1, <1>2, EmptySeq DEF Editor
<1>4. Edited(e, d)
  BY <1>3, SoundBy, SoundIs
<1>5. QED BY <1>2, <1>3, <1>4

LEMMA ScrollSound ==
  ASSUME NEW e, Sound(e), NEW n \in Nat
  PROVE  Edited(e, [e EXCEPT !.scroll = n]) /\ [e EXCEPT !.scroll = n].cands = e.cands
<1>1. e \in Editor
  BY SoundIs
<1>2. PICK d : d = [e EXCEPT !.scroll = n]
  OBVIOUS
<1>3. /\ d \in Editor /\ d.input = e.input /\ d.history = e.history /\ d.cands = e.cands /\ d.searching = e.searching
      /\ d.cursor = e.cursor /\ d.hindex = e.hindex /\ d.sindex = e.sindex /\ d.cycle = e.cycle
  BY <1>1, <1>2 DEF Editor
<1>4. Edited(e, d)
  BY <1>3, SoundBy, SoundIs
<1>5. QED BY <1>2, <1>3, <1>4

LEMMA WheelSound ==
  ASSUME NEW e, Sound(e), NEW up
  PROVE  Edited(e, Wheel(e, up)) /\ Wheel(e, up).cands = e.cands
<1>1. e.scroll \in Nat /\ e \in Editor
  BY SoundIs DEF Editor
<1>2. PICK n \in Nat : n = IF up THEN e.scroll + 1 ELSE IF e.scroll = 0 THEN 0 ELSE e.scroll - 1
  BY <1>1
<1>3. Wheel(e, up) = [e EXCEPT !.scroll = n]
  BY <1>1, <1>2 DEF Wheel, Editor
<1>4. QED BY <1>3, ScrollSound

\* Every key but Tab leaves no candidates behind.
LEMMA EditKeySound ==
  ASSUME NEW e, Sound(e), NEW k, k.key = "rune" => k.rune \in Runes
  PROVE  Edited(e, EditKey(e, k)) /\ (k.key # "Tab" => EditKey(e, k).cands = <<>>)
<1>1. CASE k.key = "Tab"
  <2>1. EditKey(e, k) = CompleteTab(e)
    BY <1>1 DEF EditKey
  <2>2. QED BY <1>1, <2>1, TabSound
<1>2. CASE k.key # "Tab"
  <2>1. PICK d : d = [e EXCEPT !.cands = <<>>]
    OBVIOUS
  <2>2. Sound(d) /\ Edited(e, d) /\ d.cands = <<>> /\ d.searching = e.searching
    BY <2>1, DropSound DEF Edited
  <2>3. SUFFICES Edited(d, EditKey(e, k)) /\ EditKey(e, k).cands = d.cands
    BY <1>2, <2>2 DEF Edited
  <2>4. CASE k.key = "rune"
    <3>1. PICK text \in Text : text = <<k.rune>>
      BY <2>4, NoText
    <3>2. EditKey(e, k) = Insert(d, text)
      BY <2>1, <2>4, <3>1 DEF EditKey
    <3>3. QED BY <2>2, <3>2, TypingSound
  <2>5. CASE k.key \in {"Backspace", "Delete"}
    <3>1. EditKey(e, k) = Backspace(d) \/ EditKey(e, k) = DeleteForward(d)
      BY <2>1, <2>5 DEF EditKey
    <3>2. QED BY <2>2, <3>1, NoText, TypingSound
  <2>6. CASE k.key \in {"Left", "Right", "C-Left", "C-Right", "Home", "End"}
    <3>1. EditKey(e, k) \in {MoveLeft(d), MoveRight(d), MoveWordLeft(d), MoveWordRight(d), MoveHome(d), MoveEnd(d)}
      BY <2>1, <2>6 DEF EditKey
    <3>2. QED BY <2>2, <3>1, MovingSound
  <2>7. CASE k.key \in {"Up", "Down"}
    <3>1. EditKey(e, k) \in {HistoryPrev(d), HistoryNext(d)}
      BY <2>1, <2>7 DEF EditKey
    <3>2. QED BY <2>2, <3>1, BrowsingSound
  <2>8. CASE k.key \in {"C-u", "C-k", "C-w"}
    <3>1. EditKey(e, k) \in {KillToLineStart(d), KillToLineEnd(d), KillWordBackward(d)}
      BY <2>1, <2>8 DEF EditKey
    <3>2. QED BY <2>2, <3>1, KillingSound
  <2>9. CASE k.key \in {"PgUp", "PgDn", "C-l"}
    <3>1. d \in Editor /\ d.scroll \in Nat
      BY <2>2, SoundIs DEF Editor
    <3>2. \E n \in Nat : EditKey(e, k) = [d EXCEPT !.scroll = n]
      <4>1. CASE k.key = "PgUp"
        <5>1. EditKey(e, k) = [d EXCEPT !.scroll = d.scroll + 1]
          BY <2>1, <3>1, <4>1 DEF EditKey, Editor
        <5>2. QED BY <3>1, <5>1
      <4>2. CASE k.key = "PgDn"
        <5>1. PICK n \in Nat : n = IF d.scroll = 0 THEN 0 ELSE d.scroll - 1
          BY <3>1
        <5>2. EditKey(e, k) = [d EXCEPT !.scroll = n]
          BY <2>1, <3>1, <4>2, <5>1 DEF EditKey, Editor
        <5>3. QED BY <5>2
      <4>3. CASE k.key = "C-l"
        <5>1. EditKey(e, k) = [d EXCEPT !.scroll = 0]
          BY <2>1, <4>3 DEF EditKey
        <5>2. QED BY <5>1
      <4>4. QED BY <2>9, <4>1, <4>2, <4>3
    <3>3. QED BY <2>2, <3>2, ScrollSound
  <2>10. CASE k.key \notin {"rune", "Tab", "Backspace", "Delete", "Left", "Right", "C-Left", "C-Right", "Home", "End",
                           "Up", "Down", "PgUp", "PgDn", "C-u", "C-k", "C-w", "C-l"}
    <3>1. EditKey(e, k) = d
      BY <2>1, <2>10 DEF EditKey
    <3>2. QED BY <2>2, <3>1, EditedSelf
  <2>11. QED BY <1>2, <2>4, <2>5, <2>6, <2>7, <2>8, <2>9, <2>10
<1>3. QED BY <1>1, <1>2

\* A text that is submitted is not blank, so that it is a line of the history.
LEMMA SubmittedSound ==
  ASSUME NEW e, Sound(e), ~e.searching, NEW unique
  PROVE  Sound(Submitted(e, unique)) /\ ~Submitted(e, unique).searching /\ Submitted(e, unique).cands = e.cands
<1>1. e \in Editor /\ e.history \in Seq(Line) /\ e.input \in Text
  BY SoundIs, HistoryIs
<1>2. PICK kept : kept = IF unique THEN RemoveOccurrences(e.history, e.input) ELSE e.history
  OBVIOUS
<1>3. kept \in Seq(Line)
  <2>1. \A at : Selected(e.history, at) \in Seq(Line)
    <3>1. \A i \in DOMAIN e.history : e.history[i] \in Line
      BY <1>1, ElementOfSeq, LenProperties
    <3>2. QED BY <1>1, <3>1, SelectedIs
  <2>2. QED BY <1>1, <1>2, <2>1 DEF RemoveOccurrences
<1>4. ~IsBlank(e.input) => e.input \in Line
  BY <1>1 DEF IsBlank, ToSet, Line
<1>5. PICK new : new = IF IsBlank(e.input) THEN e.history ELSE Append(kept, e.input)
  OBVIOUS
<1>6. new \in Seq(Line)
  BY <1>1, <1>3, <1>4, <1>5, AppendProperties
<1>7. new \in Seq(Text) /\ Len(new) \in Nat
  BY <1>6, LinesAre
<1>8. PICK d : d = Submitted(e, unique)
  OBVIOUS
<1>9. d = [e EXCEPT !.history = new, !.hindex = Len(new), !.draft = <<>>, !.input = <<>>, !.cursor = 0, !.scroll = 0]
  BY <1>2, <1>5, <1>8 DEF Submitted
<1>10. d \in Editor
  BY <1>1, <1>7, <1>9, NoText DEF Editor
<1>11. /\ d.input = <<>> /\ d.cursor = 0 /\ d.history = new /\ d.hindex = Len(new) /\ d.searching = e.searching
       /\ d.cands = e.cands /\ d.cycle = e.cycle
  BY <1>1, <1>9 DEF Editor
<1>12. d.hindex \in 0 .. Len(d.history) /\ d.history \in Seq(Line)
  BY <1>6, <1>7, <1>11
<1>13. Edited(e, d)
  BY <1>10, <1>11, <1>12, HistorySound
<1>14. QED BY <1>8, <1>11, <1>13 DEF Edited

LEMMA NewSound ==
  ASSUME NEW history \in Seq(Text), <<>> \notin ToSet(history)
  PROVE  Sound(NewEditor(history)) /\ ~NewEditor(history).searching /\ NewEditor(history).cands = <<>>
<1>1. Len(history) \in Nat /\ <<>> \in Text /\ <<>> \in Seq(Text) /\ Len(<<>>) = 0
  BY LenProperties, NoText, EmptySeq
<1>2. NewEditor(history) \in Editor
  BY <1>1 DEF NewEditor, Editor
<1>3. EditorOK(NewEditor(history))
  BY <1>1 DEF NewEditor, EditorOK
<1>4. QED BY <1>2, <1>3 DEF Sound, NewEditor

\* In line mode what has been read is the input, with nothing but a blank cursor.
LEMMA ReadSound ==
  ASSUME NEW e, Sound(e), e.cursor = 0, NEW text \in Text
  PROVE  LET d == [e EXCEPT !.input = text] IN Edited(e, d) /\ d.cursor = 0 /\ d.cands = e.cands
<1>1. e \in Editor /\ EditorOK(e) /\ Len(text) \in Nat
  BY SoundIs, TextLen DEF Sound
<1>2. PICK d : d = [e EXCEPT !.input = text]
  OBVIOUS
<1>3. d \in Editor
  BY <1>1, <1>2 DEF Editor
<1>4. /\ d.input = text /\ d.cursor = 0 /\ d.hindex = e.hindex /\ d.history = e.history
      /\ d.searching = e.searching /\ d.sindex = e.sindex /\ d.cands = e.cands /\ d.cycle = e.cycle
      /\ d.fragment = e.fragment /\ d.scroll = e.scroll
  BY <1>1, <1>2 DEF Editor
<1>5. EditorOK(d)
  BY <1>1, <1>4 DEF EditorOK
<1>6. QED BY <1>2, <1>3, <1>4, <1>5 DEF Edited, Sound

-----------------------------------------------------------------------------
(* The editor in the shell.                                                *)

\* Only the prompt's root has the hooks of the editor.
Off(new) == \A j \in Jobs : j \in DOMAIN new /\ "hooks" \in DOMAIN new[j] /\ new[j].hooks = FALSE

LEMMA CallOff ==
  ASSUME Off(root), NEW t, NEW s, NEW f, NEW n, Call(t, s, f, n)
  PROVE  Off(root')
  BY DEF Call, Off

LEMMA SetOff ==
  ASSUME Off(root), NEW t, NEW s, NEW x, NEW v, Define(t, s, x, v) \/ Assign(t, x, v)
  PROVE  Off(root')
  BY DEF Define, Assign, Off

LEMMA UndoneOff ==
  ASSUME Off(root), NEW f
  PROVE  Off(Undone(f))
  BY DEF Undone, Off

LEMMA ArgsOff ==
  ASSUME Off(root), NEW t, NEW v, ReturnToArgs(t, v)
  PROVE  Off(root')
<1>1. root' = root \/ \E s, f, n : Call(t, s, f, n)
  BY Zenon DEF ReturnToArgs
<1>. QED
  BY <1>1, CallOff DEF Off

LEMMA StepOff ==
  ASSUME Off(root), NEW t, ThreadStep(t)
  PROVE  Off(root')
<1>. USE DEF Off
<1>1. CASE \/ EvalLit(t) \/ EvalVar(t) \/ EvalFn(t) \/ EvalJump(t) \/ EvalFirst(t) \/ EvalOperands(t)
           \/ EvalWhile(t) \/ LoopTop(t) \/ EvalAtHost(t) \/ EvalBind(t) \/ EvalUnbind(t)
           \/ EvalSourceConfig(t) \/ ResetStep(t) \/ CmdStart(t) \/ EvalScreen(t) \/ EvalAttach(t)
           \/ Detach(t) \/ EvalKill(t) \/ EvalWait(t)
  <2>1. root' = root
    BY <1>1 DEF EvalLit, EvalVar, EvalFn, EvalJump, EvalFirst, EvalOperands, EvalWhile, LoopTop, EvalAtHost,
      EvalBind, EvalUnbind, EvalSourceConfig, ResetStep, CmdStart, EvalScreen, EvalAttach, Detach, EvalKill, EvalWait
  <2>. QED
    BY <2>1
<1>2. CASE EvalInNS(t)
  <2>1. \E new \in Spaces : root' = [root EXCEPT ![Home(t)].ns = new]
    BY <1>2, Zenon DEF EvalInNS
  <2>. QED
    BY <2>1
<1>3. CASE EvalUnset(t) \/ EvalCd(t) \/ EvalResetConfig(t) \/ CmdHandler(t)
  BY <1>3 DEF EvalUnset, EvalCd, EvalResetConfig, CmdHandler
<1>4. CASE EvalSource(t)
  BY <1>4 DEF EvalSource
<1>5. CASE CmdEnds(t)
  BY <1>5 DEF CmdEnds
<1>6. CASE EvalBackground(t)
  <2>1. PICK ns, vs, cwd : ns = root[Home(t)].ns /\ vs = Visible(t) /\ cwd = root[Home(t)].cwd
    OBVIOUS
  <2>2. ASSUME NEW j \in Jobs, root' = [root EXCEPT ![j] = [FreshRoot(ns, vs, FALSE, cwd) EXCEPT !.ctx = JobCtx(j)]]
        PROVE  Off(root')
    <3>1. PICK r : r = [FreshRoot(ns, vs, FALSE, cwd) EXCEPT !.ctx = JobCtx(j)]
      OBVIOUS
    <3>2. "hooks" \in DOMAIN r /\ r.hooks = FALSE
      BY <3>1 DEF FreshRoot
    <3>3. root' = [root EXCEPT ![j] = r]
      BY <2>2, <3>1
    <3>4. QED BY <3>2, <3>3
  <2>3. root' = root \/ \E j \in Jobs :
          root' = [root EXCEPT ![j] = [FreshRoot(ns, vs, FALSE, cwd) EXCEPT !.ctx = JobCtx(j)]]
    BY <1>6, <2>1 DEF EvalBackground
  <2>4. QED BY <2>2, <2>3
<1>7. CASE Return(t)
  <2>1. \/ root' = root \/ root' = Undone(Top(t)) \/ ReturnToArgs(t, Ctl(t).v)
        \/ \E s, x : Define(t, s, x, Ctl(t).v) \/ Assign(t, x, Ctl(t).v)
    BY <1>7 DEF Return, ReturnToScope, ReturnToIf, ReturnToWhile, ReturnToLogic, ReturnToConfig
  <2>. QED
    BY <2>1, UndoneOff, SetOff, ArgsOff
<1>8. CASE Unwind(t)
  BY <1>8 DEF Unwind, Undone
<1>. QED
  BY <1>1, <1>2, <1>3, <1>4, <1>5, <1>6, <1>7, <1>8 DEF ThreadStep

HooksOK == Off(root) /\ (root["fg"].hooks => Scene.tui)

\* What the editor and the inputs rest on: the place of every index, that no search is on
\* while a statement runs, and that candidates are there only for the next Tab.
Editing ==
  /\ Sound(ed)
  /\ busy => ~ed.searching
  /\ ~Scene.tui => ed.cursor = 0 /\ ed.cands = <<>>
  /\ ed.cands # <<>> /\ ~quit => last \in {"tab", "paste", "search"}

Slots ==
  /\ scene \in DOMAIN Scenes /\ left \in 0 .. Scene.inputs
  /\ ui \in {"idle", "drain", "cancel"}

LEMMA HooksNext == Inv /\ HooksOK /\ [Next]_vars => HooksOK'
<1>. SUFFICES ASSUME Inv, HooksOK, [Next]_vars PROVE HooksOK'
  OBVIOUS
<1>1. RootFits /\ given \in Nat /\ Off(root)
  BY DEF Inv, Typed, HooksOK
<1>2. UNCHANGED scene
  BY DEF Next, Alive, vars
<1>3. ASSUME Off(root'), root'["fg"].hooks \in {FALSE, root["fg"].hooks} PROVE HooksOK'
  BY <1>2, <1>3 DEF HooksOK, Scene
<1>4. CASE UNCHANGED root
  BY <1>1, <1>3, <1>4 DEF Off
<1>5. ASSUME NEW c, root' = [root EXCEPT !["fg"].ctx = c] PROVE HooksOK'
  BY <1>1, <1>3, <1>5 DEF Off, RootFits
<1>6. CASE UNCHANGED vars
  BY <1>4, <1>6 DEF vars, evalVars
<1>7. ASSUME NEW kind, NEW e, Edits(kind, e) PROVE HooksOK'
  BY <1>4, <1>7 DEF Edits, evalVars
<1>8. CASE KeyEnter
  <2>1. ASSUME Submit(Entered) PROVE HooksOK'
    BY <1>4, <1>5, <2>1, Zenon DEF Submit
  <2>2. QED BY <1>7, <1>8, <2>1, Zenon DEF KeyEnter
<1>9. CASE KeySearch \/ KeyEdit \/ PasteText \/ MouseWheel
  BY <1>7, <1>9, Zenon DEF KeySearch, KeyEdit, PasteText, MouseWheel
<1>10. CASE KeyHelp \/ KeyQuit \/ KeyInterrupt \/ CancelContext \/ Drain \/ Tick \/ StartScreen \/ ScreenExits
            \/ EndOfInput \/ Signal
  BY <1>4, <1>10 DEF KeyHelp, KeyQuit, KeyInterrupt, CancelContext, Drain, Tick, StartScreen, ScreenExits,
     EndOfInput, Signal, evalVars
<1>11. CASE Parse \/ Post \/ Bootstrap \/ Booted
  BY <1>4, <1>11 DEF Parse, Post, Bootstrap, Booted
<1>12. CASE Hook
  <2>1. root' = [root EXCEPT !["fg"].hooks = Scene.tui]
    BY <1>12 DEF Hook
  <2>2. root'["fg"].hooks = Scene.tui
    BY <1>1, <2>1 DEF RootFits
  <2>3. Off(root')
    BY <1>1, <2>1, EvaluatorAssumption DEF Off, RootFits
  <2>4. QED BY <1>2, <2>2, <2>3 DEF HooksOK, Scene
<1>13. CASE Evaluated
  <2>1. root' = [root EXCEPT !["fg"].hooks = FALSE]
    BY <1>13 DEF Evaluated
  <2>2. QED BY <1>1, <1>3, <2>1 DEF Off, RootFits
<1>14. CASE Release
  BY <1>5, <1>14 DEF Release
<1>15. CASE ReadLine
  BY <1>4, <1>5, <1>15, Zenon DEF ReadLine
<1>16. ASSUME NEW t \in Roots, Evaluates(t) PROVE HooksOK'
  <2>1. CASE ThreadStep(t)
    <3>1. Off(root') /\ Keeps(root')
      BY <1>1, <2>1, StepOff, StepKeeps
    <3>2. QED BY <1>3, <3>1 DEF Keeps
  <2>2. CASE HistoryCall(t)
    BY <1>4, <2>2 DEF HistoryCall
  <2>3. QED BY <1>16, <2>1, <2>2 DEF Evaluates
<1>17. ASSUME NEW j \in Jobs, JobEnds(j) PROVE HooksOK'
  <2>1. root' = [root EXCEPT ![j].ctx = NoCtx]
    BY <1>17 DEF JobEnds
  <2>2. QED BY <1>1, <1>3, <2>1, EvaluatorAssumption DEF Off, RootFits
<1>18. QED
  BY <1>6, <1>8, <1>9, <1>10, <1>11, <1>12, <1>13, <1>14, <1>15, <1>16, <1>17 DEF Next

LEMMA SlotsNext == Slots /\ [Next]_vars => Slots'
<1>. SUFFICES ASSUME Slots, [Next]_vars PROVE Slots'
  OBVIOUS
<1>1. UNCHANGED scene
  BY DEF Next, Alive, vars
<1>2. Scene.inputs \in Nat
  BY ShellAssumption DEF Slots, Scene
<1>3. left' \in {left, left - 1} /\ (left' # left => left > 0) /\ ui' \in {ui, "idle", "drain", "cancel"}
      => Slots'
  BY <1>1, <1>2 DEF Slots, Scene
<1>4. ASSUME NEW kind, Event(kind) PROVE left' = left - 1 /\ left > 0
  BY <1>4 DEF Event
<1>5. ASSUME NEW kind, NEW e, Edits(kind, e) PROVE Slots'
  BY <1>3, <1>4, <1>5 DEF Edits, Rendered
<1>6. CASE UNCHANGED vars
  BY <1>3, <1>6 DEF vars
<1>7. CASE KeyEnter
  <2>1. ASSUME Event(EnterIs), Rendered PROVE Slots'
    BY <1>3, <1>4, <2>1 DEF Rendered
  <2>2. QED BY <1>5, <1>7, <2>1, Zenon DEF KeyEnter
<1>8. CASE KeySearch \/ KeyEdit \/ PasteText \/ MouseWheel
  BY <1>5, <1>8, Zenon DEF KeySearch, KeyEdit, PasteText, MouseWheel
<1>9. CASE KeyHelp \/ KeyQuit \/ KeyInterrupt
  BY <1>3, <1>4, <1>9 DEF KeyHelp, KeyQuit, KeyInterrupt, Rendered
<1>10. CASE CancelContext \/ Drain \/ Tick \/ StartScreen \/ ScreenExits \/ EndOfInput
  BY <1>3, <1>10 DEF CancelContext, Drain, Tick, StartScreen, ScreenExits, EndOfInput, Rendered
<1>11. CASE Signal \/ ReadLine
  BY <1>3, <1>11 DEF Signal, ReadLine
<1>12. CASE Parse \/ Hook \/ Evaluated \/ Release \/ Post \/ Bootstrap \/ Booted
  BY <1>3, <1>12 DEF Parse, Hook, Evaluated, Release, Post, Bootstrap, Booted, RunStep
<1>13. CASE Stays
  BY <1>3, <1>13 DEF Stays
<1>14. ASSUME NEW t, HistoryCall(t) PROVE Slots'
  BY <1>3, <1>14 DEF HistoryCall
<1>15. QED
  BY <1>6, <1>7, <1>8, <1>9, <1>10, <1>11, <1>12, <1>13, <1>14 DEF Next, Evaluates

\* What the editor holds by is not touched, or is let go.
LEMMA EditingQuiet ==
  ASSUME Editing, UNCHANGED <<ed, scene>>, busy' => busy, quit' \/ UNCHANGED <<last, quit>> \/ ~Scene.tui
  PROVE  Editing'
  BY DEF Editing, Scene

LEMMA EditingEdits ==
  ASSUME Editing, UNCHANGED scene, NEW kind, NEW e, Edits(kind, e), Sound(e), busy => ~e.searching,
         e.cands # <<>> /\ ~quit => kind \in {"tab", "paste", "search"}
  PROVE  Editing'
<1>1. Scene.tui /\ Scene'.tui /\ ed' = e /\ busy' = busy /\ quit' = quit /\ last' = kind
  BY DEF Edits, Event, Scene
<1>2. QED BY <1>1 DEF Editing

\* Enter has only left the search, or dropped the candidates.
LEMMA EnteredSound ==
  ASSUME Editing
  PROVE  /\ Sound(Entered) /\ ~Entered.searching
         /\ Entered.cands # <<>> => EnterIs = "search"
<1>1. CASE ed.searching
  BY <1>1, LeaveSound DEF Editing, Entered, EnterIs
<1>2. CASE ~ed.searching
  BY <1>2, DropSound DEF Editing, Entered, EnterIs, Edited
<1>3. QED BY <1>1, <1>2

LEMMA EditingKeys ==
  ASSUME Editing, Slots, UNCHANGED scene,
         KeyEnter \/ KeySearch \/ KeyEdit \/ KeyHelp \/ KeyQuit \/ KeyInterrupt \/ PasteText \/ MouseWheel
  PROVE  Editing'
<1>1. Sound(ed) /\ (busy => ~ed.searching) /\ (ed.cands # <<>> /\ ~quit => last \in {"tab", "paste", "search"})
  BY DEF Editing
<1>2. /\ \A k \in Scene.keys : k.key = "rune" => k.rune \in Runes
      /\ Scene.pastes \subseteq Text
  BY ShellAssumption DEF Slots, Scene
<1>3. CASE KeyEnter
  <2>1. Sound(Entered) /\ ~Entered.searching /\ (Entered.cands # <<>> => EnterIs = "search")
    BY EnteredSound
  <2>2. CASE Edits(EnterIs, NewLine(Entered))
    <3>1. "nl" \in Runes
      BY LineEditorAssumption
    <3>2. PICK text \in Text : text = <<"nl">>
      BY <3>1, NoText
    <3>3. Edited(Entered, NewLine(Entered)) /\ NewLine(Entered).cands = Entered.cands
      BY <2>1, <3>2, TypingSound DEF NewLine
    <3>4. QED BY <2>1, <2>2, <3>3, EditingEdits DEF Edited
  <2>3. CASE Event(EnterIs) /\ Submit(Entered) /\ UNCHANGED quit
    <3>1. PICK e : e = Submitted(Entered, Scene.unique)
      OBVIOUS
    <3>2. Sound(e) /\ ~e.searching /\ e.cands = Entered.cands
      BY <2>1, <3>1, SubmittedSound
    <3>3. ed' = e /\ Scene'.tui /\ last' = EnterIs
      BY <2>3, <3>1 DEF Submit, Event, Scene
    <3>4. QED BY <2>1, <3>2, <3>3 DEF Editing
  <2>4. QED BY <1>3, <2>2, <2>3, Zenon DEF KeyEnter
<1>4. CASE KeySearch
  <2>1. CASE ~busy /\ Edits("search", SearchStep(ed))
    BY <1>1, <2>1, StepSound, EditingEdits
  <2>2. ASSUME NEW k \in Scene.keys, ~busy, ed.searching, Edits("search", SearchKey(ed, k)) PROVE Editing'
    <3>1. Sound(SearchKey(ed, k))
      BY <1>1, <1>2, <2>2, SearchKeySound
    <3>2. QED BY <2>2, <3>1, EditingEdits
  <2>3. QED BY <1>4, <2>1, <2>2 DEF KeySearch
<1>5. CASE KeyEdit
  <2>1. ASSUME NEW k \in Scene.keys, ~busy, Edits(IF k.key = "Tab" THEN "tab" ELSE "key", EditKey(ed, k))
        PROVE  Editing'
    <3>1. Sound(EditKey(ed, k)) /\ (k.key # "Tab" => EditKey(ed, k).cands = <<>>)
      BY <1>1, <1>2, EditKeySound DEF Edited
    <3>2. PICK kind : kind = IF k.key = "Tab" THEN "tab" ELSE "key"
      OBVIOUS
    <3>3. QED BY <2>1, <3>1, <3>2, EditingEdits
  <2>2. QED BY <1>5, <2>1 DEF KeyEdit
<1>6. CASE KeyHelp
  <2>1. PICK e : e = [ed EXCEPT !.cands = <<>>]
    OBVIOUS
  <2>2. Sound(e) /\ e.searching = ed.searching /\ e.cands = <<>>
    BY <1>1, <2>1, DropSound DEF Edited
  <2>3. ed' = e /\ Scene'.tui /\ busy' = busy
    BY <1>6, <2>1 DEF KeyHelp, Event, Scene
  <2>4. QED BY <1>1, <2>2, <2>3 DEF Editing
<1>7. CASE KeyQuit
  BY <1>7, EditingQuiet DEF KeyQuit, uiVars
<1>8. CASE KeyInterrupt
  BY <1>8, EditingQuiet DEF KeyInterrupt, Event, uiVars
<1>9. CASE PasteText
  <2>1. ASSUME NEW text \in Text, Edits("paste", Paste(ed, text)) PROVE Editing'
    <3>1. Edited(ed, Paste(ed, text))
      BY <1>1, TypingSound DEF Paste
    <3>2. QED BY <1>1, <2>1, <3>1, EditingEdits DEF Edited
  <2>2. QED BY <1>2, <1>9, <2>1 DEF PasteText
<1>10. CASE MouseWheel
  <2>1. ASSUME NEW up \in BOOLEAN, Edits(last, Wheel(ed, up)) PROVE Editing'
    <3>1. Edited(ed, Wheel(ed, up)) /\ Wheel(ed, up).cands = ed.cands
      BY <1>1, WheelSound
    <3>2. QED BY <1>1, <2>1, <3>1, EditingEdits DEF Edited
  <2>2. QED BY <1>10, <2>1 DEF MouseWheel
<1>11. QED
  BY <1>3, <1>4, <1>5, <1>6, <1>7, <1>8, <1>9, <1>10

\* history_delete comes while a statement runs, when no search is on.
LEMMA EditingHistory ==
  ASSUME Inv, Kept, HooksOK, Editing, UNCHANGED scene, NEW t \in Roots, HistoryCall(t)
  PROVE  Editing'
<1>1. UNCHANGED <<busy, quit, last>>
  BY DEF HistoryCall
<1>2. CASE UNCHANGED ed
  BY <1>1, <1>2, EditingQuiet
<1>3. CASE root[Home(t)].hooks
  <2>1. Home(t) \in Roots
    BY Standing DEF HistoryCall, At, Doing, Kept, Stands
  <2>2. Home(t) = "fg"
    BY <1>3, <2>1 DEF HooksOK, Off, Roots
  <2>3. Scene.tui /\ busy
    BY <1>3, <2>2 DEF HooksOK, Inv, Typed, Turn, Borrowed, InFlight
  <2>4. Sound(ed) /\ ~ed.searching
    BY <2>3 DEF Editing
  <2>5. ed' = DeleteHistoryEntry(ed, N(t).i) \/ ed' = ClearHistoryEntries(ed)
    BY <1>3 DEF HistoryCall
  <2>6. Edited(ed, ed') /\ ed'.cands = ed.cands
    BY <2>4, <2>5, DeletingSound
  <2>7. QED BY <1>1, <2>3, <2>6 DEF Editing, Edited, Scene
<1>4. QED BY <1>2, <1>3 DEF HistoryCall

LEMMA EditingReads ==
  ASSUME Editing, Slots, UNCHANGED scene, ReadLine
  PROVE  Editing'
<1>1. ~Scene.tui /\ UNCHANGED busy /\ Sound(ed) /\ ed.cursor = 0 /\ ed.cands = <<>> /\ ed.input \in Text
  BY SoundIs DEF ReadLine, Editing
<1>2. ASSUME NEW text \in Text, ed' = [ed EXCEPT !.input = text] PROVE Editing'
  <2>1. Edited(ed, ed') /\ ed'.cursor = 0 /\ ed'.cands = ed.cands
    BY <1>1, <1>2, ReadSound
  <2>2. QED BY <1>1, <2>1 DEF Editing, Edited, Scene
<1>3. ASSUME NEW text \in Scene.pastes, NEW buf, buf = ed.input \o text,
             ed' = [ed EXCEPT !.input = Append(buf, "nl")] \/ ed' = [ed EXCEPT !.input = <<>>]
      PROVE  Editing'
  <2>1. text \in Text
    BY ShellAssumption DEF Slots, Scene
  <2>2. buf \in Text
    BY <1>1, <1>3, <2>1, Joined
  <2>3. Append(buf, "nl") \in Text
    <3>1. "nl" \in Runes
      BY LineEditorAssumption
    <3>2. QED BY <2>2, <3>1, AppendProperties DEF Text
  <2>4. QED BY <1>2, <1>3, <2>3, NoText
<1>4. PICK text \in Scene.pastes :
        LET buf == ed.input \o text IN
        ed' = [ed EXCEPT !.input = Append(buf, "nl")] \/ ed' = [ed EXCEPT !.input = <<>>]
  BY DEF ReadLine
<1>5. QED BY <1>3, <1>4

LEMMA EditingNext == Inv /\ Kept /\ HooksOK /\ Slots /\ Editing /\ [Next]_vars => Editing'
<1>. SUFFICES ASSUME Inv, Kept, HooksOK, Slots, Editing, [Next]_vars PROVE Editing'
  OBVIOUS
<1>1. UNCHANGED scene
  BY DEF Next, Alive, vars
<1>2. CASE UNCHANGED vars
  BY <1>1, <1>2, EditingQuiet DEF vars, uiVars
<1>3. CASE CancelContext \/ Drain \/ Tick \/ StartScreen \/ ScreenExits
  BY <1>1, <1>3, EditingQuiet DEF CancelContext, Drain, Tick, StartScreen, ScreenExits, uiVars
<1>4. CASE Parse \/ Hook \/ Evaluated \/ Release \/ Post \/ Bootstrap \/ Booted
  BY <1>1, <1>4, EditingQuiet DEF Parse, Hook, Evaluated, Release, Post, Bootstrap, Booted, RunStep
<1>5. CASE EndOfInput \/ Signal
  BY <1>1, <1>5, EditingQuiet DEF EndOfInput, Signal, uiVars
<1>6. CASE Stays
  BY <1>1, <1>6, EditingQuiet DEF Stays, uiVars
<1>7. QED
  BY <1>1, <1>2, <1>3, <1>4, <1>5, <1>6, EditingKeys, EditingReads, EditingHistory DEF Next, Evaluates

EditInv == HooksOK /\ Slots /\ Editing

LEMMA EditInit == Init => EditInv
<1>. SUFFICES ASSUME Init PROVE EditInv
  OBVIOUS
<1>1. Slots
  <2>1. scene \in DOMAIN Scenes /\ left = Scene.inputs /\ ui = "idle"
    BY DEF Init
  <2>2. Scene.inputs \in Nat
    BY <2>1, ShellAssumption DEF Scene
  <2>3. QED BY <2>1, <2>2 DEF Slots
<1>2. HooksOK
  <2>1. PICK tui : root = [r \in Roots |-> [FreshRoot(0, <<>>, tui /\ r = "fg", "start") EXCEPT !.prompt = (r = "fg")]]
    BY DEF Init, EvalInit
  <2>2. \A r \in Roots : "hooks" \in DOMAIN root[r] /\ root[r].hooks = FALSE
    BY <2>1 DEF FreshRoot
  <2>3. DOMAIN root = Roots /\ "fg" \in Roots /\ Jobs \subseteq Roots
    BY <2>1 DEF Roots
  <2>4. QED BY <2>2, <2>3 DEF HooksOK, Off
<1>3. Editing
  <2>1. PICK history \in Seq(Text) : history = Scene.history /\ <<>> \notin ToSet(history)
    BY <1>1, ShellAssumption DEF Slots, Scene
  <2>2. ed = NewEditor(history) /\ busy = FALSE
    BY <2>1 DEF Init
  <2>3. Sound(ed) /\ ~ed.searching /\ ed.cands = <<>> /\ ed.cursor = 0
    BY <2>1, <2>2, NewSound DEF NewEditor
  <2>4. QED BY <2>2, <2>3 DEF Editing
<1>4. QED BY <1>1, <1>2, <1>3 DEF EditInv

LEMMA EditNext == Inv /\ Kept /\ EditInv /\ [Next]_vars => EditInv'
  BY HooksNext, SlotsNext, EditingNext DEF EditInv

LEMMA EditImplies == Inv /\ Kept /\ EditInv => TypeOK
<1>. SUFFICES ASSUME Inv, Kept, EditInv PROVE TypeOK
  OBVIOUS
<1>1. EditorOK(ed)
  BY DEF EditInv, Editing, Sound
<1>2. Len(pending) <= 1
  <2>1. pending = <<>> \/ \E n \in Nat : pending = <<<<stmt, n>>>>
    BY DEF Inv, Typed, Turn
  <2>2. QED BY <2>1
<1>3. ASSUME NEW r \in Roots
      PROVE  /\ root[r].depth \in 0 .. MaxCallDepth /\ root[r].sdepth \in 0 .. MaxSourceDepth
             /\ root[r].ns \in Spaces /\ root[r].handler \in Roots \cup {"none"}
  BY DEF Kept, Balanced, Handled
<1>4. QED BY <1>1, <1>2, <1>3 DEF TypeOK, EditInv, Slots

\* No index of the editor goes astray, whatever keys, pastes and history_delete calls come, in
\* whatever order, for any texts, histories and programs.
THEOREM ShellTypeCorrect == Spec => []TypeOK
<1>1. Init => Inv /\ Kept /\ EditInv
  BY InvInit, KeptInit, EditInit
<1>2. Inv /\ Kept /\ EditInv /\ [Next]_vars => (Inv /\ Kept /\ EditInv)'
  BY InvNext, KeptNext, EditNext
<1>3. QED
  BY <1>1, <1>2, EditImplies, PTL DEF Spec

-----------------------------------------------------------------------------
(* A Tab keeps the text.                                                   *)

\* What was put in the place of a part of s is found there.
LEMMA SplicedPart ==
  ASSUME NEW s \in Text, NEW a \in 0 .. Len(s), NEW b \in 0 .. Len(s), NEW text \in Text
  PROVE  SubSeq(Spliced(s, a, b, text), a + 1, a + Len(text)) = text
<1>1. Len(s) \in Nat /\ Len(text) \in Nat /\ a \in Nat /\ b \in Nat
  BY TextLen
<1>2. PICK lead \in Text : lead = SubSeq(s, 1, a) /\ Len(lead) = a
  BY StartIs
<1>3. PICK trail \in Text : trail = SubSeq(s, b + 1, Len(s))
  <2>1. Len(s) <= Len(s)
    BY <1>1
  <2>2. SubSeq(s, b + 1, Len(s)) \in Text
    BY <1>1, <2>1, Part
  <2>3. QED BY <2>2
<1>4. PICK u : u = Spliced(s, a, b, text)
  OBVIOUS
<1>5. u \in Text /\ Len(u) = a + Len(text) + (Len(s) - b) /\ Len(u) \in Nat
  BY <1>4, SplicedIs, TextLen
<1>6. ASSUME NEW i \in 1 .. Len(text) PROVE u[a + i] = text[i]
  <2>1. u = (lead \o text) \o trail
    BY <1>2, <1>3, <1>4 DEF Spliced
  <2>2. lead \o text \in Text /\ Len(lead \o text) = a + Len(text) /\ Len(trail) \in Nat
    BY <1>2, Joined, TextLen
  <2>3. a + i \in 1 .. Len(lead \o text) /\ a + i \in 1 .. Len(lead \o text) + Len(trail)
    BY <1>1, <2>2
  <2>4. u[a + i] = (lead \o text)[a + i]
    BY <2>1, <2>2, <2>3, ConcatProperties DEF Text
  <2>5. a + i \in 1 .. Len(lead) + Len(text) /\ ~(a + i <= Len(lead)) /\ a + i - Len(lead) = i
    BY <1>1, <1>2
  <2>6. (lead \o text)[a + i] = text[i]
    BY <2>5, ConcatProperties DEF Text
  <2>7. QED BY <2>4, <2>6
<1>7. a + Len(text) \in Nat /\ a + Len(text) <= Len(u)
  BY <1>1, <1>5
<1>8. PICK p : p = SubSeq(u, a + 1, a + Len(text))
  OBVIOUS
<1>9. p \in Text /\ Len(p) = Len(text) /\ \A i \in 1 .. Len(text) : p[i] = u[a + i]
  <2>1. \A i \in 1 .. Len(u) : u[i] \in Runes
    BY <1>5, TextLen
  <2>2. a + 1 \in Int /\ a + Len(text) \in Int /\ \A i \in a + 1 .. a + Len(text) : u[i] \in Runes
    BY <1>1, <1>7, <2>1
  <2>3. /\ p \in Seq(Runes)
        /\ Len(p) = IF a + 1 <= a + Len(text) THEN a + Len(text) - (a + 1) + 1 ELSE 0
        /\ \A i \in 1 .. a + Len(text) - (a + 1) + 1 : p[i] = u[a + 1 + i - 1]
    BY <1>8, <2>2, SubSeqProperties
  <2>4. a + Len(text) - (a + 1) + 1 = Len(text) /\ \A i \in 1 .. Len(text) : a + 1 + i - 1 = a + i
    BY <1>1
  <2>5. QED BY <1>1, <2>3, <2>4 DEF Text
<1>10. \A i \in 1 .. Len(text) : p[i] = text[i]
  BY <1>6, <1>9
<1>11. p = text
  BY <1>9, <1>10, SeqEqual DEF Text
<1>12. QED BY <1>4, <1>8, <1>11

\* A part of s in its own place.
LEMMA SplicedSame ==
  ASSUME NEW s \in Text, NEW a \in 0 .. Len(s), NEW b \in a .. Len(s)
  PROVE  Spliced(s, a, b, SubSeq(s, a + 1, b)) = s
<1>1. Len(s) \in Nat /\ s \in Seq(Runes)
  BY TextLen DEF Text
<1>2. 1 \in 1 .. Len(s) + 1 /\ a \in 1 - 1 .. Len(s) /\ a \in Int /\ b \in a .. Len(s) /\ b \in 1 - 1 .. Len(s) /\ Len(s) \in b .. Len(s)
  BY <1>1
<1>3. SubSeq(s, 1, a) \o SubSeq(s, a + 1, b) = SubSeq(s, 1, b)
  BY <1>1, <1>2, ConcatAdjacentSubSeq
<1>4. SubSeq(s, 1, b) \o SubSeq(s, b + 1, Len(s)) = SubSeq(s, 1, Len(s))
  BY <1>1, <1>2, ConcatAdjacentSubSeq
<1>5. SubSeq(s, 1, Len(s)) = s
  BY <1>1, SubSeqFull
<1>6. QED BY <1>3, <1>4, <1>5 DEF Spliced

LEMMA ReplacedInput ==
  ASSUME NEW e \in Editor, NEW a, NEW b, NEW text
  PROVE  /\ Replace(e, a, b, text).input = Spliced(e.input, a, b, text)
         /\ Replace(e, a, b, text).cursor = a + Len(text)
  BY DEF Editor, Replace, Spliced

\* A Tab that follows no Tab, paste or search finds no candidates: it completes the fragment,
\* or leaves the line alone.
LEMMA TabCompletes ==
  ASSUME Sound(ed), ed.cands = <<>>, ed' = CompleteTab(ed)
  PROVE  CompletesFragment
<1>1. /\ ed \in Editor /\ ed.input \in Text /\ Len(ed.input) \in Nat
      /\ FragmentStart(ed) \in 0 .. ed.cursor /\ ed.cursor \in 0 .. Len(ed.input)
      /\ Fragment(ed) \in Text
  BY SoundIs, PlacesOf, CandidatesAre
<1>2. PICK start : start = FragmentStart(ed)
  OBVIOUS
<1>3. start \in 0 .. Len(ed.input) /\ start \in Nat /\ ed.cursor \in start .. Len(ed.input)
  BY <1>1, <1>2
<1>4. ASSUME NEW new \in Text, IsPrefix(Fragment(ed), new), ed'.input = Spliced(ed.input, start, ed.cursor, new),
             SubSeq(ed'.input, start + 1, ed'.cursor) = new
      PROVE  CompletesFragment
  <2>1. ed'.input = Replace(ed, start, ed.cursor, new).input
    BY <1>1, <1>4, ReplacedInput
  <2>2. QED BY <1>2, <1>4, <2>1 DEF CompletesFragment
<1>5. CASE CompleteTab(ed) = ed
  <2>1. Fragment(ed) = SubSeq(ed.input, start + 1, ed.cursor)
    BY <1>2 DEF Fragment
  <2>2. Spliced(ed.input, start, ed.cursor, Fragment(ed)) = ed.input
    BY <1>1, <1>3, <2>1, SplicedSame
  <2>3. IsPrefix(Fragment(ed), Fragment(ed))
    <3>1. Len(Fragment(ed)) \in Nat
      BY <1>1, TextLen
    <3>2. Len(Fragment(ed)) <= Len(Fragment(ed))
      BY <3>1
    <3>3. QED BY <1>1, <3>2, PrefixIs
  <2>4. ed' = ed
    BY <1>5
  <2>5. QED BY <1>1, <1>4, <2>1, <2>2, <2>3, <2>4
<1>6. ASSUME NEW new \in Text, NEW d, Edited(ed, d), d.input = ed.input, d.cursor = ed.cursor,
             CompleteTab(ed) = Replace(d, FragmentStart(ed), ed.cursor, new), IsPrefix(Fragment(ed), new)
      PROVE  CompletesFragment
  <2>1. d \in Editor
    BY <1>6, SoundIs DEF Edited
  <2>2. ed' = Replace(d, start, ed.cursor, new)
    BY <1>2, <1>6
  <2>3. ed'.input = Spliced(ed.input, start, ed.cursor, new) /\ ed'.cursor = start + Len(new)
    BY <1>6, <2>1, <2>2, ReplacedInput
  <2>4. SubSeq(ed'.input, start + 1, ed'.cursor) = new
    BY <1>1, <1>3, <2>3, SplicedPart
  <2>5. QED BY <1>4, <1>6, <2>3, <2>4
<1>7. QED BY <1>5, <1>6, TabIs

TabStep == last' = "tab" /\ left' # left => last \in {"tab", "paste", "search"} \/ CompletesFragment

LEMMA TabSteps == EditInv /\ [Next]_vars => [TabStep]_vars
<1>. SUFFICES ASSUME EditInv, [Next]_vars, last' = "tab", left' # left, last \notin {"tab", "paste", "search"}
              PROVE  CompletesFragment
  BY Zenon DEF TabStep
<1>1. Sound(ed) /\ (quit \/ ed.cands = <<>>)
  BY DEF EditInv, Editing
<1>2. ASSUME NEW kind, Event(kind) PROVE kind = "tab"
  BY <1>2 DEF Event
<1>3. ASSUME NEW kind, NEW e, Edits(kind, e) PROVE kind = "tab" /\ ed' = e
  BY <1>2, <1>3 DEF Edits
<1>4. EnterIs # "tab"
  BY DEF EnterIs
<1>5. CASE KeyEdit /\ Alive
  <2>1. PICK k : Edits(IF k.key = "Tab" THEN "tab" ELSE "key", EditKey(ed, k))
    BY <1>5, Zenon DEF KeyEdit
  <2>2. PICK kind : kind = IF k.key = "Tab" THEN "tab" ELSE "key"
    OBVIOUS
  <2>3. kind = "tab" /\ ed' = EditKey(ed, k)
    BY <1>3, <2>1, <2>2
  <2>4. k.key = "Tab"
    BY <2>2, <2>3
  <2>5. ed' = CompleteTab(ed)
    BY <2>3, <2>4 DEF EditKey
  <2>6. ed.cands = <<>>
    BY <1>1, <1>5 DEF Alive
  <2>7. QED BY <1>1, <2>5, <2>6, TabCompletes
<1>6. ~KeyEnter
  BY <1>2, <1>3, <1>4, Zenon DEF KeyEnter
<1>7. ~KeySearch /\ ~PasteText /\ ~MouseWheel
  <2>1. "search" # "tab" /\ "paste" # "tab" /\ last # "tab"
    OBVIOUS
  <2>2. QED BY <1>3, <2>1, Zenon DEF KeySearch, PasteText, MouseWheel
<1>8. ~KeyHelp /\ ~KeyQuit /\ ~KeyInterrupt
  <2>1. "key" # "tab" /\ last # "tab"
    OBVIOUS
  <2>2. QED BY <1>2, <2>1, Zenon DEF KeyHelp, KeyQuit, KeyInterrupt
<1>9. ~CancelContext /\ ~Drain /\ ~Tick /\ ~StartScreen /\ ~ScreenExits /\ ~EndOfInput
  BY DEF CancelContext, Drain, Tick, StartScreen, ScreenExits, EndOfInput
<1>10. ~Parse /\ ~Hook /\ ~Evaluated /\ ~Release /\ ~Post /\ ~Bootstrap /\ ~Booted
  BY DEF Parse, Hook, Evaluated, Release, Post, Bootstrap, Booted, RunStep
<1>11. ~ReadLine /\ ~Signal
  BY DEF ReadLine, Signal
<1>12. ~Stays /\ \A t : ~HistoryCall(t)
  BY DEF Stays, HistoryCall
<1>13. ~UNCHANGED vars
  BY DEF vars
<1>14. Next
  BY <1>13
<1>15. QED BY <1>5, <1>6, <1>7, <1>8, <1>9, <1>10, <1>11, <1>12, <1>14, Zenon DEF Next, Evaluates

\* A Tab changes the line only at the fragment before the cursor, and only to complete it, if
\* the editor has last heard a key: the candidates it would go through are gone by then,
\* whatever a statement that ran meanwhile, Ctrl-C or the wheel has done.
THEOREM ShellTabKeepsText == Spec => TabKeepsText
<1>1. Init => Inv /\ Kept /\ EditInv
  BY InvInit, KeptInit, EditInit
<1>2. Inv /\ Kept /\ EditInv /\ [Next]_vars => (Inv /\ Kept /\ EditInv)'
  BY InvNext, KeptNext, EditNext
<1>3. EditInv /\ [Next]_vars => [last' = "tab" /\ left' # left => last \in {"tab", "paste", "search"} \/ CompletesFragment]_vars
  BY TabSteps DEF TabStep
<1>4. QED
  BY <1>1, <1>2, <1>3, PTL DEF Spec, TabKeepsText

=============================================================================
