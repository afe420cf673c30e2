-------------------------------- MODULE Shell --------------------------------
(***************************************************************************)
(* The interactive shell: the line editor on the event loop, the goroutine *)
(* that evaluates what is submitted, the hooks and the context it installs *)
(* for that time, the redraw tick that brings its result in, the screen it *)
(* may hand over, and the line mode with its own goroutine for Ctrl-C.     *)
(*                                                                         *)
(* A scene says how 9sh was started and what the user may do, so that one  *)
(* model can be run with keys in one scene and programs in another.        *)
(***************************************************************************)
EXTENDS LineEditor, Evaluator

CONSTANTS
  Scenes,      (* name -> [tui, startup, history, unique, keys, pastes, inputs]:  *)
               (* inputs bounds the events of the user                             *)
  Programs     (* text -> program; any other text does not parse                   *)

ASSUME ShellAssumption ==
  \A name \in DOMAIN Scenes :
    LET s == Scenes[name] IN
    /\ s.inputs \in Nat /\ s.pastes \subseteq Text
    /\ s.history \in Seq(Text) /\ <<>> \notin ToSet(s.history)
    /\ \A k \in s.keys : k.key = "rune" => k.rune \in Runes

None == <<0, 0>>          (* no full-screen program; else <<statement, which>>  *)

VARIABLES
  scene,
  ed,         (* the editor; in line mode its input is the lines read so far  *)
  busy,       (* an evaluation is in flight, as the widget knows              *)
  stmt,       (* statements submitted                                         *)
  run,        (* what the evaluating goroutine does next, and on which text   *)
  pending,    (* pendingEval: at most one result                              *)
  tick,       (* tickRunning                                                  *)
  ui,         (* the event loop, or the signal goroutine: between events, in  *)
              (* the middle of a Ctrl-C, or about to take what is pending     *)
  screen,     (* Model.fullscreen                                             *)
  msgs,       (* startFullscreenMsg on their way                              *)
  help,       (* Model.helpOpen                                               *)
  shown,      (* statements whose result is in the transcript                 *)
  done,       (* full-screen programs whose onDone has been called            *)
  quit,
  left,       (* bound: input events to come                                  *)
  last,       (* the kind of the last input the editor has heard              *)
  mixed,      (* in_ns blocks of two threads have been open on one root       *)
  replaced    (* full-screen programs that had the screen when another began  *)

uiVars == <<ed, busy, stmt, tick, screen, msgs, help, shown, done>>
vars   == <<evalVars, uiVars, ui, run, pending, scene, quit, left, last, mixed, replaced>>

Scene == Scenes[scene]
NotRunning == [at |-> "none", text |-> <<>>]
Idling     == run = NotRunning

Init ==
  /\ scene \in DOMAIN Scenes
  /\ EvalInit(Scene.tui)
  /\ ed = NewEditor(Scene.history)
  /\ busy = FALSE /\ stmt = 0 /\ pending = <<>> /\ tick = FALSE /\ ui = "idle"
  /\ run = IF Scene.startup THEN [at |-> "startup", text |-> <<>>] ELSE NotRunning
  /\ screen = None /\ msgs = {} /\ help = FALSE /\ shown = <<>> /\ done = <<>>
  /\ quit = FALSE /\ left = Scene.inputs /\ last = "none" /\ mixed = FALSE /\ replaced = {}

Started == run.at \notin {"startup", "config"}

-----------------------------------------------------------------------------
(* The event loop.                                                         *)

\* An input of the user, for the widget: not while a full-screen program has the screen.
Event(kind) ==
  /\ Scene.tui /\ Started /\ ui = "idle" /\ left > 0 /\ screen = None
  /\ left' = left - 1 /\ last' = kind
  /\ UNCHANGED pending

Rendered == ui' = "drain"

\* An input that touches the editor alone.
Edits(kind, e) ==
  /\ Event(kind) /\ ed' = e /\ Rendered
  /\ UNCHANGED <<evalVars, busy, stmt, tick, screen, msgs, help, shown, done, run, quit>>

Has(key) == [key |-> key] \in Scene.keys

\* Mutant: nobody starts the tick for a statement.
SubmitNoTick(e) ==
  /\ ed' = Submitted(e, Scene.unique)
  /\ busy' = ~IsBlank(e.input)
  /\ IF IsBlank(e.input) THEN UNCHANGED <<stmt, run, root, given, tick>>
     ELSE /\ stmt' = stmt + 1 /\ given' = 0 /\ UNCHANGED tick
          /\ root' = [root EXCEPT !["fg"].ctx = <<"fg", stmt + 1>>]
          /\ run' = [at |-> "parse", text |-> e.input]

\* What is submitted becomes the statement that is evaluated: the context of Ctrl-C is
\* installed, the goroutine started, and the tick, unless it runs.
Submit(e) ==
  /\ ed' = Submitted(e, Scene.unique)
  /\ busy' = ~IsBlank(e.input)
  /\ IF IsBlank(e.input) THEN UNCHANGED <<stmt, run, root, given, tick>>
     ELSE /\ stmt' = stmt + 1 /\ given' = 0 /\ tick' = TRUE
          /\ root' = [root EXCEPT !["fg"].ctx = <<"fg", stmt + 1>>]
          /\ run' = [at |-> "parse", text |-> e.input]

\* Enter submits, of a search what it has found; an open bracket asks for more.
Entered == IF ed.searching THEN LeaveSearch(ed) ELSE [ed EXCEPT !.cands = <<>>]
EnterIs == IF ed.searching THEN "search" ELSE "key"

\* Mutant: Enter passes while a statement runs.
KeyEnterUngated ==
  /\ Has("Enter") /\ ~help
  /\ \/ Unfinished(Entered) /\ Edits(EnterIs, NewLine(Entered))
     \/ /\ ~Unfinished(Entered) /\ Event(EnterIs) /\ Submit(Entered) /\ Rendered
        /\ UNCHANGED <<screen, msgs, help, shown, done, quit, th, spaces, jobs, cancelled>>

KeyEnter ==
  /\ Has("Enter") /\ ~busy /\ ~help
  /\ \/ Unfinished(Entered) /\ Edits(EnterIs, NewLine(Entered))
     \/ /\ ~Unfinished(Entered) /\ Event(EnterIs) /\ Submit(Entered) /\ Rendered
        /\ UNCHANGED <<screen, msgs, help, shown, done, quit, th, spaces, jobs, cancelled>>

KeySearch ==
  /\ ~busy /\ ~help
  /\ \/ Has("C-r") /\ Edits("search", SearchStep(ed))
     \/ \E k \in Scene.keys \ {[key |-> "C-r"], [key |-> "Enter"]} :
          ed.searching /\ Edits("search", SearchKey(ed, k))

\* "?" and Ctrl-D mean something else on an empty line.
KeyEdit ==
  /\ ~busy /\ ~help /\ ~ed.searching
  /\ \E k \in Scene.keys \ {[key |-> "C-r"], [key |-> "Enter"], [key |-> "wheel"]} :
       /\ ~(ed.input = <<>> /\ k.key \in {"?", "C-d"})
       /\ Edits(IF k.key = "Tab" THEN "tab" ELSE "key", EditKey(ed, k))

\* The help is a modal: it has the keys while it is open, and the same key closes it.
KeyHelp ==
  /\ Has("?") /\ ed.input = <<>> /\ ~busy /\ ~ed.searching
  /\ Event("key") /\ Rendered
  /\ help' = ~help /\ ed' = [ed EXCEPT !.cands = <<>>]
  /\ UNCHANGED <<evalVars, busy, stmt, tick, screen, msgs, shown, done, run, quit>>

KeyQuit ==
  /\ Has("C-d") /\ ed.input = <<>> /\ ~busy /\ ~help /\ ~ed.searching
  /\ Event("key") /\ quit' = TRUE
  /\ UNCHANGED <<evalVars, uiVars, ui, run>>

\* Of the keys only Ctrl-C passes while a statement runs; the others do nothing.
KeyInterrupt ==
  /\ Has("C-c") /\ busy /\ Event(last)
  /\ th' = Interrupted(th, root["fg"].handler) /\ ui' = "cancel"
  /\ UNCHANGED <<root, spaces, jobs, cancelled, given, uiVars, run, quit>>

\* A paste and the wheel pass, statement or not.
PasteText ==
  /\ ~help /\ \E text \in Scene.pastes : Edits("paste", Paste(ed, text))

MouseWheel ==
  /\ ~help /\ Has("wheel") /\ \E up \in BOOLEAN : Edits(last, Wheel(ed, up))

\* The second half of a Ctrl-C: the context of that moment.
CancelContext ==
  /\ ui = "cancel" /\ ui' = "drain"
  /\ cancelled' = cancelled \cup ({Context("fg")} \ {NoCtx})
  /\ UNCHANGED <<root, th, spaces, jobs, given, uiVars, run, pending, quit, left, last>>

\* Every dispatch ends with a look at what the widgets have pending; under a full-screen
\* program there is no such widget.  A hand-over starts as a message of its own.
Drain ==
  /\ ui = "drain" /\ ui' = "idle"
  /\ IF Scene.tui /\ screen = None /\ pending # <<>>
     THEN LET res == pending[1] IN
          /\ pending' = <<>> /\ busy' = FALSE /\ shown' = Append(shown, res)
          /\ msgs' = IF res[2] = 0 THEN msgs ELSE msgs \cup {res}
     ELSE UNCHANGED <<pending, busy, shown, msgs>>
  /\ UNCHANGED <<evalVars, ed, stmt, tick, screen, help, done, run, quit, left, last>>

Tick ==
  /\ tick /\ ui = "idle" /\ Rendered
  /\ tick' = (screen # None \/ busy)
  /\ UNCHANGED <<evalVars, ed, busy, stmt, screen, msgs, help, shown, done, run, pending, quit, left, last>>

StartScreen ==
  /\ ui = "idle" /\ Rendered
  /\ \E s \in msgs : screen' = s /\ msgs' = msgs \ {s}
  /\ tick' = TRUE
  /\ UNCHANGED <<evalVars, ed, busy, stmt, help, shown, done, run, pending, quit, left, last>>

\* Mutant: the screen is taken back without a word to the evaluator.
ScreenExitsSilently ==
  /\ screen # None /\ ui = "idle" /\ Rendered
  /\ screen' = None
  /\ UNCHANGED <<evalVars, ed, busy, stmt, tick, msgs, help, shown, done, run, pending, quit, left, last>>

\* The program ends, and onDone writes back what was checked out for it.
ScreenExits ==
  /\ screen # None /\ ui = "idle" /\ Rendered
  /\ screen' = None /\ done' = Append(done, screen)
  /\ UNCHANGED <<evalVars, ed, busy, stmt, tick, msgs, help, shown, run, pending, quit, left, last>>

-----------------------------------------------------------------------------
(* The goroutine of a statement.                                           *)

RunStep(from, to) ==
  /\ run.at = from
  /\ run' = IF to = "none" THEN NotRunning ELSE [run EXCEPT !.at = to]
  /\ UNCHANGED <<ed, busy, stmt, tick, ui, screen, msgs, help, done, quit, left, last, spaces, jobs,
                 cancelled, given>>

Runs(program) == th' = [th EXCEPT !["fg"] = [stack |-> program, ctl |-> Val(Null)]]
HasRun == Stack("fg") = <<>> /\ Ctl("fg").do \in {"val", "sig"} /\ th' = [th EXCEPT !["fg"] = Idle]

\* A text with errors is not evaluated, and the hooks stay off.
Parse ==
  /\ RunStep("parse", IF run.text \in DOMAIN Programs THEN "hook" ELSE "release")
  /\ UNCHANGED <<root, th, pending, shown>>

Hook ==
  /\ RunStep("hook", "eval")
  /\ root' = [root EXCEPT !["fg"].hooks = Scene.tui]
  /\ Runs(<<Scope("root", "fg", Programs[run.text], "local")>>)
  /\ UNCHANGED <<pending, shown>>

Evaluated ==
  /\ RunStep("eval", "release") /\ HasRun
  /\ root' = [root EXCEPT !["fg"].hooks = FALSE]
  /\ UNCHANGED <<pending, shown>>

\* The context is taken away before the result is left for the event loop; the line mode
\* has printed it by then.
Release ==
  /\ RunStep("release", IF Scene.tui THEN "post" ELSE "none")
  /\ root' = [root EXCEPT !["fg"].ctx = NoCtx]
  /\ shown' = IF Scene.tui THEN shown ELSE Append(shown, <<stmt, given>>)
  /\ UNCHANGED <<th, pending>>

Post ==
  /\ RunStep("post", "none")
  /\ pending' = <<<<stmt, given>>>>
  /\ UNCHANGED <<root, th, shown>>

\* history_delete and history_clear change the widget's history from that goroutine.
HistoryCall(t) ==
  /\ At(t, "hdel") \/ At(t, "hclear")
  /\ IF ~root[Home(t)].hooks THEN Does(t, Error) /\ UNCHANGED ed
     ELSE /\ ed' = IF N(t).op = "hdel" THEN DeleteHistoryEntry(ed, N(t).i) ELSE ClearHistoryEntries(ed)
          /\ Does(t, Val(Null))
  /\ UNCHANGED <<root, spaces, jobs, cancelled, given, busy, stmt, tick, ui, screen, msgs, help, shown,
                 done, run, pending, quit, left, last>>

-----------------------------------------------------------------------------
(* The startup files, and the line mode.                                   *)

\* bootstrap ends with the startup files, whatever they do.
Bootstrap ==
  /\ RunStep("startup", "config")
  /\ Runs(<<[k |-> "config", home |-> "fg", files |-> Config]>>)
  /\ UNCHANGED <<root, pending, shown>>

Booted == RunStep("config", "none") /\ HasRun /\ UNCHANGED <<root, pending, shown>>

\* Lines are read until no bracket is open, and what is not blank is evaluated.
ReadLine ==
  /\ ~Scene.tui /\ Idling /\ left > 0 /\ left' = left - 1 /\ last' = "line"
  /\ \E text \in Scene.pastes :
       LET buf == ed.input \o text IN
       \/ /\ BracketDepth(buf) > 0
          /\ ed' = [ed EXCEPT !.input = Append(buf, "nl")]
          /\ UNCHANGED <<stmt, run, root, given>>
       \/ /\ BracketDepth(buf) <= 0 /\ IsBlank(buf)
          /\ ed' = [ed EXCEPT !.input = <<>>]
          /\ UNCHANGED <<stmt, run, root, given>>
       \/ /\ BracketDepth(buf) <= 0 /\ ~IsBlank(buf)
          /\ ed' = [ed EXCEPT !.input = <<>>]
          /\ stmt' = stmt + 1 /\ given' = 0
          /\ root' = [root EXCEPT !["fg"].ctx = <<"fg", stmt + 1>>]
          /\ run' = [at |-> "parse", text |-> buf]
  /\ UNCHANGED <<th, spaces, jobs, cancelled, busy, tick, ui, screen, msgs, help, shown, done, pending, quit>>

EndOfInput ==
  /\ ~Scene.tui /\ Idling /\ Has("C-d") /\ quit' = TRUE
  /\ UNCHANGED <<evalVars, uiVars, ui, run, pending, left, last>>

\* SIGINT comes at any time, to a goroutine of its own.
Signal ==
  /\ ~Scene.tui /\ Started /\ Has("C-c") /\ ui = "idle" /\ left > 0
  /\ left' = left - 1 /\ last' = "key"
  /\ th' = Interrupted(th, root["fg"].handler) /\ ui' = "cancel"
  /\ UNCHANGED <<root, spaces, jobs, cancelled, given, uiVars, run, pending, quit>>

-----------------------------------------------------------------------------

Stays == UNCHANGED <<uiVars, ui, run, pending, quit, left, last>>

\* In every step: 9sh still runs, and two histories are kept: that on one root the in_ns
\* blocks of two threads have been open at a time, and which programs have lost the screen
\* to one that began.
Mixes ==
  \E r \in Roots : Cardinality({t \in Roots : \E f \in ToSet(Stack(t)) : f.k = "in_ns" /\ f.home = r}) > 1
Ousted == IF None \in {screen, screen'} \/ screen' = screen THEN {} ELSE {screen}
Alive ==
  /\ ~quit /\ UNCHANGED scene
  /\ mixed' = (mixed \/ Mixes') /\ replaced' = replaced \cup Ousted

Evaluates(t) == (ThreadStep(t) /\ Stays) \/ HistoryCall(t)

Next ==
  \/ KeyEnter /\ Alive
  \/ KeySearch /\ Alive
  \/ KeyEdit /\ Alive
  \/ KeyHelp /\ Alive
  \/ KeyQuit /\ Alive
  \/ KeyInterrupt /\ Alive
  \/ PasteText /\ Alive
  \/ MouseWheel /\ Alive
  \/ CancelContext /\ Alive
  \/ Drain /\ Alive
  \/ Tick /\ Alive
  \/ StartScreen /\ Alive
  \/ ScreenExits /\ Alive
  \/ Parse /\ Alive
  \/ Hook /\ Alive
  \/ Evaluated /\ Alive
  \/ Release /\ Alive
  \/ Post /\ Alive
  \/ Bootstrap /\ Alive
  \/ Booted /\ Alive
  \/ ReadLine /\ Alive
  \/ EndOfInput /\ Alive
  \/ Signal /\ Alive
  \/ \E t \in Roots : Evaluates(t) /\ Alive
  \/ \E j \in Jobs : JobEnds(j) /\ Stays /\ Alive

\* The goroutines go on and the event loop turns.  Nothing is said of the user, and
\* nothing of when a process ends or the user lets go of a terminal.
Blocked(t) ==
  \/ Ctl(t).do \in {"running", "attached"} \/ At(t, "wait")
  \/ At(t, "bg") /\ \A j \in Jobs : jobs[j].state # "free"       \* the bound on jobs
Thread(t)  ==
  \/ ~(Ctl(t).do \in {"running", "attached"}) /\ Evaluates(t)
  \/ t \in Jobs /\ JobEnds(t) /\ Stays
  \/ t = "fg" /\ (Parse \/ Hook \/ Evaluated \/ Release \/ Post \/ Bootstrap \/ Booted)

Fairness ==
  /\ WF_vars((CancelContext \/ Drain \/ Tick) /\ Alive)
  /\ \A t \in Roots : WF_vars(Thread(t) /\ Alive)

Spec == Init /\ [][Next]_vars /\ Fairness

-----------------------------------------------------------------------------
(* What the shell promises.                                                *)

\* Every index of the editor points into what it indexes, whatever keys, pastes and
\* history_delete calls have come, and the slots of the shell hold what they are for.
TypeOK ==
  /\ EditorOK(ed)
  /\ scene \in DOMAIN Scenes /\ left \in 0 .. Scene.inputs
  /\ ui \in {"idle", "drain", "cancel"} /\ Len(pending) <= 1
  /\ \A r \in Roots : /\ root[r].depth \in 0 .. MaxCallDepth
                      /\ root[r].sdepth \in 0 .. MaxSourceDepth
                      /\ root[r].ns \in Spaces /\ root[r].handler \in Roots \cup {"none"}

\* Statements are evaluated one at a time and their results are shown in order, none
\* twice: the widget is busy exactly while one is missing, and the single-slot hooks and
\* the context belong to that one.
OneAtATime ==
  LET k == Len(shown) IN
  /\ \A i \in 1 .. k : shown[i][1] = i
  /\ k \in {stmt, stmt - 1}
  /\ Scene.tui => (busy <=> k < stmt)
  /\ root["fg"].hooks => run.at = "eval" /\ k < stmt
  /\ Context("fg") \in {NoCtx, <<"fg", stmt>>} /\ (Context("fg") # NoCtx => k < stmt)
  /\ pending # <<>> => Idling /\ k < stmt

\* A full-screen program that a statement has handed over gets the screen, and what it
\* leaves is written back once, when it ends; it loses the screen before that only to a
\* program that begins while it has it, and is then never written back.  (Of the programs
\* of one statement only the last is handed over.)
WrittenBackOnce ==
  /\ Cardinality(ToSet(done)) = Len(done) /\ replaced \cap ToSet(done) = {}
  /\ \A i \in DOMAIN shown :
       shown[i][2] > 0 /\ Scene.tui =>
         shown[i] \in ToSet(done) \cup msgs \cup {screen} \cup replaced

\* However the evaluation of a statement, a file or a job ends, by a value, an error, a
\* break, a cancellation: the depths count the calls and the files that are still open,
\* the namespace in_ns has put aside is back, and no handler is left for a Ctrl-C to call.
\* Excepted are the namespace, once in_ns blocks of two threads have been open on a root,
\* and the handler, of which a command in the background may take the foreground's away.
PutBack ==
  LET at(t, k, r) == {i \in DOMAIN Stack(t) : Stack(t)[i].k = k /\ Stack(t)[i].home = r}
      open(k, r) == UNION {{t} \X at(t, k, r) : t \in Roots}
  IN \A r \in Roots :
       /\ root[r].depth = Cardinality(open("call", r))
       /\ root[r].sdepth = Cardinality(open("source", r))
       /\ ~mixed /\ open("in_ns", "fg") = {} => root["fg"].ns = 0
       /\ root[r].handler # "none" => Ctl(root[r].handler).do = "running"

\* A Tab changes the line only at the fragment before the cursor, and only to complete it
\* or, when it follows a Tab, to put the next candidate in its place.  (A paste or a search
\* since the last Tab leaves its candidates, so that the next Tab may replace other text;
\* the wheel, and the Ctrl-C of a running statement, are nothing to the editor.)
CompletesFragment ==
  LET start == FragmentStart(ed)  new == SubSeq(ed'.input, start + 1, ed'.cursor) IN
  /\ IsPrefix(Fragment(ed), new)
  /\ ed'.input = Replace(ed, start, ed.cursor, new).input

TabKeepsText ==
  [][last' = "tab" /\ left' # left => last \in {"tab", "paste", "search"} \/ CompletesFragment]_vars

\* A result comes into the transcript without another key, unless a full-screen program
\* has the screen for good.
ResultShown == pending # <<>> ~> (pending = <<>> \/ screen # None \/ quit)

\* Once the context of a statement or of a job is cancelled, by Ctrl-C or by a kill, its
\* evaluation comes to an end, unless it is in a process, a terminal or a wait, which
\* cancelling does not reach, or in a closure that was made elsewhere.
CancelledEnds ==
  \A r \in Roots :
    (th[r] # Idle /\ IsCancelled(r)) ~> (th[r] = Idle \/ Blocked(r) \/ Alien(r) \/ quit)
=============================================================================
