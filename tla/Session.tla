------------------------------- MODULE Session -------------------------------
(***************************************************************************)
(* The session recorder of package session: shells append history and bind *)
(* lines to the files of one repository, and each shell's checkpoint loop  *)
(* records the working tree into 9vcs when it is due and once more at exit.*)
(*                                                                         *)
(* Two shells on one machine share the repository; each has its own        *)
(* Recorder, so its own dirty flag, clocks and loop.  Lines are numbered   *)
(* in the order they reach the working tree.  Recorder.mu makes a critical *)
(* section atomic; the file append, and the 9vcs process, run outside it.  *)
(* Time is counted in ticks of the loop's ticker.  Left out: what a line   *)
(* says, the day shards, and the creation of the repository.               *)
(***************************************************************************)
EXTENDS Integers, FiniteSets

CONSTANTS
  Shells,      (* shells that share the repository                          *)
  IdleTicks,   (* idleThreshold, in ticks                                   *)
  MaxTicks,    (* maxThreshold, in ticks; clocks stop counting there        *)
  MaxLines,    (* bound: lines appended                                     *)
  MaxFails,    (* bound: runs of 9vcs record that fail                      *)
  MaxStarts    (* bound: shells started, restarts included                  *)

ASSUME SessionAssumption ==
  /\ IdleTicks \in Nat /\ MaxTicks \in Nat /\ IdleTicks <= MaxTicks
  /\ MaxLines \in Nat /\ MaxFails \in Nat /\ MaxStarts \in Nat

VARIABLES
  \* the repository, which outlives every shell
  lines,       (* lines in the working tree                                 *)
  recorded,    (* lines in the last patch                                   *)
  \* each shell
  up,          (* "off", "up", or "closing": Close has closed stopCh        *)
  dirty, lastAppend, lastCheckpoint,   (* the clocks count ticks since      *)
  ticked,      (* the ticker's channel holds a tick                         *)
  loop,        (* the next step of checkpointLoop                           *)
  final,       (* the loop has taken stopCh: this checkpoint is the last    *)
  inFlight,    (* lines written whose appendLine has not marked dirty       *)
  \* histories: the last line marked dirty by each shell, and at its Close;
  \* whether a checkpoint cleared dirty over a newer line; the final flush failed
  marked, markedAtClose, overtaken, flushFailed,
  \* counters
  fails, starts

repoVars  == <<lines, recorded>>
clockVars == <<lastAppend, lastCheckpoint, ticked>>
histVars  == <<marked, markedAtClose, overtaken, flushFailed>>
boundVars == <<fails, starts>>
vars == <<repoVars, up, dirty, clockVars, loop, final, inFlight, histVars, boundVars>>

Init ==
  /\ lines = 0 /\ recorded = 0
  /\ up = [s \in Shells |-> "off"]
  /\ dirty = [s \in Shells |-> FALSE]
  /\ lastAppend = [s \in Shells |-> MaxTicks]
  /\ lastCheckpoint = [s \in Shells |-> MaxTicks]
  /\ ticked = [s \in Shells |-> FALSE]
  /\ loop = [s \in Shells |-> "done"]
  /\ final = [s \in Shells |-> FALSE]
  /\ inFlight = [s \in Shells |-> {}]
  /\ marked = [s \in Shells |-> 0]
  /\ markedAtClose = [s \in Shells |-> 0]
  /\ overtaken = [s \in Shells |-> FALSE]
  /\ flushFailed = [s \in Shells |-> FALSE]
  /\ fails = 0 /\ starts = 0

-----------------------------------------------------------------------------

\* New: a Recorder with zero times (long ago, for time.Since) starts its loop.
New(s) ==
  /\ up[s] = "off"
  /\ starts < MaxStarts /\ starts' = starts + 1
  /\ up' = [up EXCEPT ![s] = "up"]
  /\ dirty' = [dirty EXCEPT ![s] = FALSE]
  /\ lastAppend' = [lastAppend EXCEPT ![s] = MaxTicks]
  /\ lastCheckpoint' = [lastCheckpoint EXCEPT ![s] = MaxTicks]
  /\ ticked' = [ticked EXCEPT ![s] = FALSE]
  /\ loop' = [loop EXCEPT ![s] = "select"]
  /\ final' = [final EXCEPT ![s] = FALSE]
  /\ inFlight' = [inFlight EXCEPT ![s] = {}]
  /\ marked' = [marked EXCEPT ![s] = 0]
  /\ markedAtClose' = [markedAtClose EXCEPT ![s] = 0]
  /\ overtaken' = [overtaken EXCEPT ![s] = FALSE]
  /\ flushFailed' = [flushFailed EXCEPT ![s] = FALSE]
  /\ UNCHANGED <<repoVars, fails>>

\* appendLine, on the goroutine of a finished job or of a bind: the line is
\* written first (a failed write returns before dirty is touched)...
AppendLine(s) ==
  /\ up[s] # "off"
  /\ lines < MaxLines /\ lines' = lines + 1
  /\ inFlight' = [inFlight EXCEPT ![s] = @ \cup {lines + 1}]
  /\ UNCHANGED <<recorded, up, dirty, clockVars, loop, final, histVars, boundVars>>

\* ...and then, under r.mu, the repository is marked dirty.
MarkDirty(s, n) ==
  /\ n \in inFlight[s]
  /\ inFlight' = [inFlight EXCEPT ![s] = @ \ {n}]
  /\ dirty' = [dirty EXCEPT ![s] = TRUE]
  /\ lastAppend' = [lastAppend EXCEPT ![s] = 0]
  /\ marked' = [marked EXCEPT ![s] = IF n > @ THEN n ELSE @]
  /\ UNCHANGED <<repoVars, up, lastCheckpoint, ticked, loop, final>>
  /\ UNCHANGED <<markedAtClose, overtaken, flushFailed, boundVars>>

-----------------------------------------------------------------------------
(* checkpointLoop                                                          *)

Later(t) == IF t < MaxTicks THEN t + 1 ELSE t

\* A tick of time passes: the ticker's channel holds at most one.
Tick ==
  /\ \E s \in Shells : up[s] # "off"
  /\ lastAppend' = [s \in Shells |-> Later(lastAppend[s])]
  /\ lastCheckpoint' = [s \in Shells |-> Later(lastCheckpoint[s])]
  /\ ticked' = [s \in Shells |-> up[s] # "off"]
  /\ UNCHANGED <<repoVars, up, dirty, loop, final, inFlight, histVars, boundVars>>

Due(s) ==
  /\ dirty[s]
  /\ lastAppend[s] >= IdleTicks \/ lastCheckpoint[s] >= MaxTicks

\* select takes the tick: maybeCheckpoint decides under r.mu.
MaybeCheckpoint(s) ==
  /\ up[s] # "off" /\ loop[s] = "select" /\ ticked[s]
  /\ ticked' = [ticked EXCEPT ![s] = FALSE]
  /\ loop' = [loop EXCEPT ![s] = IF Due(s) THEN "check" ELSE "select"]
  /\ UNCHANGED <<repoVars, up, dirty, lastAppend, lastCheckpoint, final, inFlight, histVars, boundVars>>

\* Mutant: the loop leaves without a last checkpoint.
StopAtOnce(s) ==
  /\ up[s] = "closing" /\ loop[s] = "select"
  /\ loop' = [loop EXCEPT ![s] = "done"]
  /\ final' = [final EXCEPT ![s] = TRUE]
  /\ UNCHANGED <<repoVars, up, dirty, clockVars, inFlight, histVars, boundVars>>

\* select takes the closed stopCh: the last checkpoint follows, due or not.
StopTaken(s) ==
  /\ up[s] = "closing" /\ loop[s] = "select"
  /\ loop' = [loop EXCEPT ![s] = "check"]
  /\ final' = [final EXCEPT ![s] = TRUE]
  /\ UNCHANGED <<repoVars, up, dirty, clockVars, inFlight, histVars, boundVars>>

\* Where checkpoint() returns to.
Return(s) == IF final[s] THEN "done" ELSE "select"

\* dirty is read under r.mu, which is then given up.
ReadDirty(s) ==
  /\ loop[s] = "check"
  /\ loop' = [loop EXCEPT ![s] = IF dirty[s] THEN "record" ELSE Return(s)]
  /\ UNCHANGED <<repoVars, up, dirty, clockVars, final, inFlight, histVars, boundVars>>

\* Mutant: a line that is still being appended counts as recorded.
RecordOneMore(s) ==
  /\ loop[s] = "record"
  /\ recorded' = lines + 1
  /\ loop' = [loop EXCEPT ![s] = "clear"]
  /\ UNCHANGED <<lines, up, dirty, clockVars, final, inFlight, histVars, boundVars>>

\* 9vcs record (external): at some moment of its run it takes the working tree.
Record(s) ==
  /\ loop[s] = "record"
  /\ recorded' = lines
  /\ loop' = [loop EXCEPT ![s] = "clear"]
  /\ UNCHANGED <<lines, up, dirty, clockVars, final, inFlight, histVars, boundVars>>

\* Mutant: a failed record counts as done.
RecordFailsClean(s) ==
  /\ loop[s] = "record"
  /\ fails < MaxFails /\ fails' = fails + 1
  /\ dirty' = [dirty EXCEPT ![s] = FALSE]
  /\ loop' = [loop EXCEPT ![s] = Return(s)]
  /\ flushFailed' = [flushFailed EXCEPT ![s] = final[s]]
  /\ UNCHANGED <<repoVars, up, clockVars, final, inFlight>>
  /\ UNCHANGED <<marked, markedAtClose, overtaken, starts>>

\* Mutant: the loop ends at the first failure.
RecordFailsForGood(s) ==
  /\ loop[s] = "record"
  /\ fails < MaxFails /\ fails' = fails + 1
  /\ loop' = [loop EXCEPT ![s] = "done"]
  /\ flushFailed' = [flushFailed EXCEPT ![s] = final[s]]
  /\ UNCHANGED <<repoVars, up, dirty, clockVars, final, inFlight>>
  /\ UNCHANGED <<marked, markedAtClose, overtaken, starts>>

\* ...or fails: dirty stays, for the next tick to try again.
RecordFails(s) ==
  /\ loop[s] = "record"
  /\ fails < MaxFails /\ fails' = fails + 1
  /\ loop' = [loop EXCEPT ![s] = Return(s)]
  /\ flushFailed' = [flushFailed EXCEPT ![s] = final[s]]
  /\ UNCHANGED <<repoVars, up, dirty, clockVars, final, inFlight>>
  /\ UNCHANGED <<marked, markedAtClose, overtaken, starts>>

\* Under r.mu again dirty is cleared, whatever was marked meanwhile.
ClearDirty(s) ==
  /\ loop[s] = "clear"
  /\ dirty' = [dirty EXCEPT ![s] = FALSE]
  /\ lastCheckpoint' = [lastCheckpoint EXCEPT ![s] = 0]
  /\ loop' = [loop EXCEPT ![s] = Return(s)]
  /\ overtaken' = [overtaken EXCEPT ![s] = @ \/ marked[s] > recorded]
  /\ UNCHANGED <<repoVars, up, lastAppend, ticked, final, inFlight>>
  /\ UNCHANGED <<marked, markedAtClose, flushFailed, boundVars>>

-----------------------------------------------------------------------------
(* The end of a shell.                                                     *)

\* Close closes stopCh (once) and waits for the loop.
Close(s) ==
  /\ up[s] = "up"
  /\ up' = [up EXCEPT ![s] = "closing"]
  /\ markedAtClose' = [markedAtClose EXCEPT ![s] = marked[s]]
  /\ UNCHANGED <<repoVars, dirty, clockVars, loop, final, inFlight>>
  /\ UNCHANGED <<marked, overtaken, flushFailed, boundVars>>

\* The process is gone, with what it had in memory.
Gone(s) ==
  /\ up' = [up EXCEPT ![s] = "off"]
  /\ dirty' = [dirty EXCEPT ![s] = FALSE]
  /\ loop' = [loop EXCEPT ![s] = "done"]
  /\ final' = [final EXCEPT ![s] = FALSE]
  /\ inFlight' = [inFlight EXCEPT ![s] = {}]
  /\ UNCHANGED <<repoVars, clockVars, histVars, boundVars>>

\* The loop has closed doneCh: Close returns, and the shell exits.
Exit(s) == up[s] = "closing" /\ loop[s] = "done" /\ Gone(s)

\* The shell is killed at any moment.
Crash(s) == up[s] # "off" /\ Gone(s)

-----------------------------------------------------------------------------

LoopStep(s) ==
  \/ MaybeCheckpoint(s) \/ StopTaken(s) \/ ReadDirty(s)
  \/ Record(s) \/ RecordFails(s) \/ ClearDirty(s)

Next ==
  \/ Tick
  \/ \E s \in Shells :
       \/ New(s) \/ AppendLine(s) \/ LoopStep(s)
       \/ \E n \in inFlight[s] : MarkDirty(s, n)
       \/ Close(s) \/ Exit(s) \/ Crash(s)

Spec == Init /\ [][Next]_vars

\* Time passes, and a shell's goroutines are scheduled; 9vcs record fails finitely
\* often.  No shell need ever append, exit or crash.
Fairness ==
  /\ WF_vars(Tick)
  /\ \A s \in Shells : WF_vars(LoopStep(s)) /\ WF_vars(\E n \in inFlight[s] : MarkDirty(s, n))

FairSpec == Spec /\ Fairness

-----------------------------------------------------------------------------

\* Every variable stays in its range.
TypeOK ==
  /\ lines \in Nat /\ recorded \in Nat /\ recorded <= lines
  /\ up \in [Shells -> {"off", "up", "closing"}]
  /\ dirty \in [Shells -> BOOLEAN] /\ ticked \in [Shells -> BOOLEAN]
  /\ lastAppend \in [Shells -> 0 .. MaxTicks]
  /\ lastCheckpoint \in [Shells -> 0 .. MaxTicks]
  /\ loop \in [Shells -> {"select", "check", "record", "clear", "done"}]
  /\ final \in [Shells -> BOOLEAN]
  /\ inFlight \in [Shells -> SUBSET Nat]
  /\ marked \in [Shells -> Nat] /\ markedAtClose \in [Shells -> Nat]
  /\ overtaken \in [Shells -> BOOLEAN] /\ flushFailed \in [Shells -> BOOLEAN]
  /\ fails \in Nat /\ starts \in Nat

\* A line a running shell has marked is recorded, or the shell still knows that
\* something is to be: dirty is lost over a line only where a checkpoint clears
\* it after the line overtook its 9vcs record.
MarkedIsDirty ==
  \A s \in Shells :
    up[s] # "off" /\ marked[s] > recorded => dirty[s] \/ overtaken[s]

\* Close returns after a flush: when the loop is done, every line marked before
\* Close was called is in a patch - unless 9vcs failed, or the line was overtaken.
FlushAtExit ==
  \A s \in Shells :
    up[s] = "closing" /\ loop[s] = "done" =>
      markedAtClose[s] <= recorded \/ flushFailed[s] \/ overtaken[s]

\* A line marked by a shell that lives is recorded in the end - unless overtaken.
\* However often the shell goes on appending, and whichever shell records it.
EventuallyRecorded ==
  \A n \in 1 .. MaxLines : \A s \in Shells :
    (up[s] = "up" /\ marked[s] >= n)
      ~> (recorded >= n \/ up[s] = "off" \/ overtaken[s] \/ flushFailed[s])

\* The final flush misses nothing that was appended before it: Close "performs one
\* final flush" and a checkpoint batches "every append since the last".
FinalFlushComplete ==
  \A s \in Shells :
    up[s] = "closing" /\ loop[s] = "done" /\ ~flushFailed[s] => markedAtClose[s] <= recorded

=============================================================================
