--------------------------------- MODULE Job ---------------------------------
(***************************************************************************)
(* One job of package job: the struct Job behind one /jobs/<id> directory, *)
(* the goroutines that act on it, and the operating-system process it may  *)
(* own.                                                                    *)
(*                                                                         *)
(* Clients are the 9P request goroutines (and Go callers) that write ctl   *)
(* commands, write or clunk stdin, and read wait.  Runner is the one       *)
(* goroutine that start() leaves behind: the body of an inproc job, or the *)
(* cmd.Wait() goroutine of a subprocess.  j.mu makes a critical section    *)
(* atomic, so every label below is one critical section, or one call made  *)
(* between two of them; pc[t] is the next one thread t executes.           *)
(*                                                                         *)
(* Left out: the text of argv, env and cwd (argv is only empty or not),    *)
(* exit codes, time stamps, the detached flag (only status shows it), and  *)
(* the two ctl commands that touch nothing of the job (priority, resize).  *)
(* stdout and stderr are one stream, out; an event is the state it shows.  *)
(* A command that is refused changes nothing and is a stuttering step.     *)
(***************************************************************************)
EXTENDS Integers, Sequences, FiniteSets

CONSTANTS
  Clients,   (* the goroutines that issue commands                          *)
  Runner,    (* the goroutine start() leaves behind                         *)
  Kinds,     (* the kinds of job considered                                 *)
  MaxCtl,    (* bound: stop, resume, signal and detach commands that act    *)
  MaxOut     (* bound: chunks of output the job writes                      *)

ASSUME JobAssumption ==
  /\ Runner \notin Clients
  /\ Kinds \subseteq {"subprocess", "inproc"}
  /\ MaxCtl \in Nat
  /\ MaxOut \in Nat

VARIABLES
  \* the struct Job
  state, kind, usePty, argv, killed, proc, ptyMaster, stdin,
  waitCh, outClosed, events, eventsClosed, cancelled,
  \* the process, and os/exec's goroutines around it
  process, exit, written, out, watch, stdinCopy, outCopy,
  \* the threads: next step, what finish() was asked for, snapshot, ctl argument
  pc, outcome, snap, want,
  \* counters and histories
  ctls, waited, recorded, overwritten

jobVars  == <<state, kind, usePty, argv, killed, proc, ptyMaster, stdin>>
doneVars == <<waitCh, outClosed, events, eventsClosed, recorded>>
execVars == <<process, exit, written, out, watch, stdinCopy, outCopy>>
auxVars  == <<ctls, waited, overwritten>>
vars     == <<jobVars, doneVars, cancelled, execVars, pc, outcome, snap, want, auxVars>>

Threads  == Clients \cup {Runner}
States   == {"pending", "running", "stopped", "done", "failed", "killed"}

\* State.Terminal
Terminal(s) == s \in {"done", "failed", "killed"}

Labels ==
  {"idle", "runSnap", "runAppend", "launch", "setProc", "procSnap",
   "procAppend", "cancel", "deliver", "setWant", "evSnap", "evAppend", "waitStatus",
   "writing", "body", "reap", "collect", "drain", "classify", "finish",
   "closeWait", "endSnap", "endAppend", "closeOut", "closeEvents", "notify"}

At(t, l)      == pc[t] = l
Goto(t, l)    == pc' = [pc EXCEPT ![t] = l]
Step(t, l, m) == At(t, l) /\ Goto(t, m)

-----------------------------------------------------------------------------
(* Manager.allocLocked leaves a pending job whose first event is written.  *)

Init ==
  /\ state = "pending" /\ kind \in Kinds
  /\ usePty = FALSE /\ argv = FALSE /\ killed = FALSE
  /\ proc = FALSE /\ ptyMaster = "none" /\ stdin = "open"
  /\ waitCh = 0 /\ outClosed = FALSE /\ eventsClosed = FALSE
  /\ events = <<"pending">>
  /\ cancelled = FALSE
  /\ process = "none" /\ exit = "none" /\ written = 0 /\ out = 0
  /\ watch = "off" /\ stdinCopy = "off" /\ outCopy = "off"
  /\ pc = [t \in Threads |-> "idle"]
  /\ outcome = "none"
  /\ snap = [t \in Threads |-> "pending"]
  /\ want = [t \in Threads |-> "none"]
  /\ ctls = 0 /\ waited = {} /\ recorded = <<>> /\ overwritten = FALSE

-----------------------------------------------------------------------------
(* Configuration, allowed only while pending.                              *)

SetArgv(c) ==
  /\ At(c, "idle") /\ state = "pending"
  /\ argv' = TRUE
  /\ UNCHANGED <<state, kind, usePty, killed, proc, ptyMaster, stdin>>
  /\ UNCHANGED <<doneVars, cancelled, execVars, pc, outcome, snap, want, auxVars>>

SetPty(c) ==
  /\ At(c, "idle") /\ state = "pending" /\ kind = "subprocess"
  /\ usePty' = TRUE
  /\ UNCHANGED <<state, kind, argv, killed, proc, ptyMaster, stdin>>
  /\ UNCHANGED <<doneVars, cancelled, execVars, pc, outcome, snap, want, auxVars>>

-----------------------------------------------------------------------------
(* appendEvent: Status() under j.mu, then events.Write under the buffer's  *)
(* own lock.  It is called from four places.  snap[t] is its local, reset  *)
(* when it goes out of scope, like want[c] below.                          *)

AfterSnap == [runSnap |-> "runAppend", procSnap |-> "procAppend",
              evSnap |-> "evAppend", endSnap |-> "endAppend"]

SnapEvent(t) ==
  /\ pc[t] \in DOMAIN AfterSnap
  /\ snap' = [snap EXCEPT ![t] = state]
  /\ Goto(t, AfterSnap[pc[t]])
  /\ UNCHANGED <<jobVars, doneVars, cancelled, execVars, outcome, want, auxVars>>

\* growBuf.Write: refused once closed, and appendEvent drops the error.
WriteEvent(t) ==
  /\ events' = IF eventsClosed THEN events ELSE Append(events, snap[t])
  /\ snap' = [snap EXCEPT ![t] = "pending"]
  /\ UNCHANGED <<jobVars, waitCh, outClosed, eventsClosed, recorded>>
  /\ UNCHANGED <<cancelled, written, out, outcome, want, auxVars>>

\* The event of stop, resume and detach: the command then returns.
AppendEvent(c) ==
  /\ Step(c, "evAppend", "idle")
  /\ WriteEvent(c)
  /\ UNCHANGED <<process, exit, watch, stdinCopy, outCopy>>

-----------------------------------------------------------------------------
(* ctl start.                                                              *)

\* Mutant: the pending check is lost, so a second start goes through.
StartCmdUnchecked(c) ==
  /\ Step(c, "idle", "runSnap")
  /\ kind = "subprocess" => argv
  /\ state' = "running"
  /\ UNCHANGED <<kind, usePty, argv, killed, proc, ptyMaster, stdin>>
  /\ UNCHANGED <<doneVars, cancelled, execVars, outcome, snap, want, auxVars>>

StartCmd(c) ==
  /\ Step(c, "idle", "runSnap")
  /\ state = "pending"
  /\ kind = "subprocess" => argv
  /\ state' = "running"
  /\ UNCHANGED <<kind, usePty, argv, killed, proc, ptyMaster, stdin>>
  /\ UNCHANGED <<doneVars, cancelled, execVars, outcome, snap, want, auxVars>>

\* An inproc job's goroutine starts here; a subprocess goes on to cmd.Start.
StartEvent(c) ==
  /\ At(c, "runAppend")
  /\ WriteEvent(c)
  /\ pc' = IF kind = "inproc"
           THEN [pc EXCEPT ![c] = "idle", ![Runner] = "body"]
           ELSE [pc EXCEPT ![c] = "launch"]
  /\ UNCHANGED <<process, exit, watch, stdinCopy, outCopy>>

\* LookPath, cmd.Start or pty.Start fails; cmd.Start always does once ctx is
\* cancelled.
LaunchFails(c) ==
  /\ Step(c, "launch", "finish")
  /\ outcome' = "failed"
  /\ UNCHANGED <<jobVars, doneVars, cancelled, execVars, snap, want, auxVars>>

\* cmd.Start forks, and leaves os/exec's goroutines running: the one that
\* watches ctx and, without a pty, those that copy stdin and stdout.
Launch(c) ==
  /\ Step(c, "launch", "setProc")
  /\ ~cancelled
  /\ process' = "running"
  /\ watch' = "armed"
  /\ stdinCopy' = IF usePty THEN "off" ELSE "copying"
  /\ outCopy' = IF usePty THEN "off" ELSE "copying"
  /\ UNCHANGED <<exit, written, out>>
  /\ UNCHANGED <<jobVars, doneVars, cancelled, outcome, snap, want, auxVars>>

SetProc(c) ==
  /\ Step(c, "setProc", "procSnap")
  /\ proc' = TRUE
  /\ ptyMaster' = IF usePty THEN "open" ELSE "none"
  /\ UNCHANGED <<state, kind, usePty, argv, killed, stdin>>
  /\ UNCHANGED <<doneVars, cancelled, execVars, outcome, snap, want, auxVars>>

\* The pid event; then the wait goroutine (and a pty's copier) are spawned.
Spawn(c) ==
  /\ At(c, "procAppend")
  /\ WriteEvent(c)
  /\ pc' = [pc EXCEPT ![c] = "idle", ![Runner] = "reap"]
  /\ outCopy' = IF usePty THEN "copying" ELSE outCopy
  /\ UNCHANGED <<process, exit, watch, stdinCopy>>

-----------------------------------------------------------------------------
(* The process and os/exec (external): how startSubprocess uses them.      *)

Alive == process \in {"running", "stopped"}

\* The process writes a chunk, or exits by itself with a status.
ProcWrites ==
  /\ process = "running" /\ written < MaxOut
  /\ written' = written + 1
  /\ UNCHANGED <<process, exit, out, watch, stdinCopy, outCopy>>
  /\ UNCHANGED <<jobVars, doneVars, cancelled, pc, outcome, snap, want, auxVars>>

ProcExits ==
  /\ process = "running"
  /\ process' = "zombie" /\ exit' \in {"ok", "code"}
  /\ UNCHANGED <<written, out, watch, stdinCopy, outCopy>>
  /\ UNCHANGED <<jobVars, doneVars, cancelled, pc, outcome, snap, want, auxVars>>

\* The goroutine that watches ctx: it kills the process (its group, for a
\* pty).  Killing a zombie succeeds; killing a reaped process reports
\* os.ErrProcessDone, which is no error, but kill(-pid) reports ESRCH, which is.
WatchCancels ==
  /\ cancelled /\ watch = "armed"
  /\ watch' = IF process = "reaped" /\ ~usePty THEN "released" ELSE "error"
  /\ process' = IF Alive THEN "zombie" ELSE process
  /\ exit' = IF Alive THEN "signal" ELSE exit
  /\ UNCHANGED <<written, out, stdinCopy, outCopy>>
  /\ UNCHANGED <<jobVars, doneVars, cancelled, pc, outcome, snap, want, auxVars>>

\* One chunk reaches the stdout buffer (which takes no more once closed).
CopyOut ==
  /\ outCopy = "copying" /\ out < written
  /\ out' = IF outClosed THEN out ELSE out + 1
  /\ UNCHANGED <<process, exit, written, watch, stdinCopy, outCopy>>
  /\ UNCHANGED <<jobVars, doneVars, cancelled, pc, outcome, snap, want, auxVars>>

\* End of file on the pipe, or EIO on the pty: the process is gone and all it
\* wrote has been read.
CopyOutEnds ==
  /\ outCopy = "copying" /\ process \in {"zombie", "reaped"} /\ out = written
  /\ outCopy' = "done"
  /\ UNCHANGED <<process, exit, written, out, watch, stdinCopy>>
  /\ UNCHANGED <<jobVars, doneVars, cancelled, pc, outcome, snap, want, auxVars>>

CopyStdinEnds ==
  /\ stdinCopy = "copying" /\ stdin = "closed"
  /\ stdinCopy' = "done"
  /\ UNCHANGED <<process, exit, written, out, watch, outCopy>>
  /\ UNCHANGED <<jobVars, doneVars, cancelled, pc, outcome, snap, want, auxVars>>

-----------------------------------------------------------------------------
(* The goroutine start() leaves behind.                                    *)

\* An inproc body writes its output straight to the buffers...
BodyWrites ==
  /\ At(Runner, "body") /\ written < MaxOut
  /\ written' = written + 1
  /\ out' = IF outClosed THEN out ELSE out + 1
  /\ UNCHANGED <<process, exit, watch, stdinCopy, outCopy>>
  /\ UNCHANGED <<jobVars, doneVars, cancelled, pc, outcome, snap, want, auxVars>>

\* ...and returns nil or an error.
BodyReturns ==
  /\ Step(Runner, "body", "finish")
  /\ outcome' \in {"done", "failed"}
  /\ UNCHANGED <<jobVars, doneVars, cancelled, execVars, snap, want, auxVars>>

\* cmd.Wait, first half: Process.Wait reaps.
Reap ==
  /\ Step(Runner, "reap", "collect")
  /\ process = "zombie"
  /\ process' = "reaped"
  /\ UNCHANGED <<exit, written, out, watch, stdinCopy, outCopy>>
  /\ UNCHANGED <<jobVars, doneVars, cancelled, outcome, snap, want, auxVars>>

\* cmd.Wait, second half: the watcher's result, then the copiers.
Collect ==
  /\ Step(Runner, "collect", "drain")
  /\ watch' = IF watch = "armed" THEN "released" ELSE watch
  /\ UNCHANGED <<process, exit, written, out, stdinCopy, outCopy>>
  /\ UNCHANGED <<jobVars, doneVars, cancelled, outcome, snap, want, auxVars>>

\* Mutant: nobody waits for the output copier.
DrainNotCopied ==
  /\ Step(Runner, "drain", "classify")
  /\ stdinCopy \in {"off", "done"}
  /\ ptyMaster' = IF usePty THEN "closed" ELSE ptyMaster
  /\ UNCHANGED <<state, kind, usePty, argv, killed, proc, stdin>>
  /\ UNCHANGED <<doneVars, cancelled, execVars, outcome, snap, want, auxVars>>

\* Without a pty cmd.Wait waits for both copiers; with one the wait goroutine
\* waits on copyDone and then closes the master.
Drain ==
  /\ Step(Runner, "drain", "classify")
  /\ outCopy = "done"
  /\ stdinCopy \in {"off", "done"}
  /\ ptyMaster' = IF usePty THEN "closed" ELSE ptyMaster
  /\ UNCHANGED <<state, kind, usePty, argv, killed, proc, stdin>>
  /\ UNCHANGED <<doneVars, cancelled, execVars, outcome, snap, want, auxVars>>

\* Mutant: a nonzero exit status is a failure of the job.
ClassifyByStatus ==
  /\ Step(Runner, "classify", "finish")
  /\ outcome' = IF exit = "ok" THEN "done" ELSE IF killed THEN "killed" ELSE "failed"
  /\ UNCHANGED <<jobVars, doneVars, cancelled, execVars, snap, want, auxVars>>

\* finishFromExec: what cmd.Wait's error means, with killed read under j.mu.
Classify ==
  /\ Step(Runner, "classify", "finish")
  /\ outcome' = IF exit = "ok"
                THEN IF watch = "error" THEN "failed" ELSE "done"
                ELSE IF killed THEN "killed" ELSE "done"
  /\ UNCHANGED <<jobVars, doneVars, cancelled, execVars, snap, want, auxVars>>

-----------------------------------------------------------------------------
(* finish, and the same tail in kill of a pending job.                     *)

Finish(t) ==
  /\ At(t, "finish")
  /\ IF Terminal(state)
     THEN Goto(t, "idle") /\ UNCHANGED state
     ELSE Goto(t, "closeWait") /\ state' = outcome
  /\ UNCHANGED <<kind, usePty, argv, killed, proc, ptyMaster, stdin>>
  /\ UNCHANGED <<doneVars, cancelled, execVars, outcome, snap, want, auxVars>>

\* Mutant: the last event is left out.
CloseWaitSilently(t) ==
  /\ Step(t, "closeWait", "closeOut")
  /\ waitCh' = waitCh + 1
  /\ UNCHANGED <<outClosed, events, eventsClosed, recorded>>
  /\ UNCHANGED <<jobVars, cancelled, execVars, outcome, snap, want, auxVars>>

\* close(j.waitCh): the number of closes, the second of which panics.
CloseWait(t) ==
  /\ Step(t, "closeWait", "endSnap")
  /\ waitCh' = waitCh + 1
  /\ UNCHANGED <<outClosed, events, eventsClosed, recorded>>
  /\ UNCHANGED <<jobVars, cancelled, execVars, outcome, snap, want, auxVars>>

EndEvent(t) ==
  /\ Step(t, "endAppend", "closeOut")
  /\ WriteEvent(t)
  /\ UNCHANGED <<process, exit, watch, stdinCopy, outCopy>>

\* Mutant: the stdout buffer is left open.
CloseOutForgotten(t) ==
  /\ Step(t, "closeOut", "closeEvents")
  /\ UNCHANGED <<jobVars, doneVars, cancelled, execVars, outcome, snap, want, auxVars>>

CloseOut(t) ==
  /\ Step(t, "closeOut", "closeEvents")
  /\ outClosed' = TRUE
  /\ UNCHANGED <<waitCh, events, eventsClosed, recorded>>
  /\ UNCHANGED <<jobVars, cancelled, execVars, outcome, snap, want, auxVars>>

CloseEvents(t) ==
  /\ Step(t, "closeEvents", "notify")
  /\ eventsClosed' = TRUE
  /\ UNCHANGED <<waitCh, outClosed, events, recorded>>
  /\ UNCHANGED <<jobVars, cancelled, execVars, outcome, snap, want, auxVars>>

\* notifyFinished: the recorder is handed the status as it is now.
Notify(t) ==
  /\ Step(t, "notify", "idle")
  /\ recorded' = Append(recorded, state)
  /\ UNCHANGED <<waitCh, outClosed, events, eventsClosed>>
  /\ UNCHANGED <<jobVars, cancelled, execVars, outcome, snap, want, auxVars>>

-----------------------------------------------------------------------------
(* ctl kill.                                                               *)

\* Mutant: a running job is declared killed at once, like a pending one.
KillAtOnce(c) ==
  /\ Step(c, "idle", "closeWait")
  /\ ~Terminal(state)
  /\ state' = "killed"
  /\ UNCHANGED <<kind, usePty, argv, killed, proc, ptyMaster, stdin>>
  /\ UNCHANGED <<doneVars, cancelled, execVars, outcome, snap, want, auxVars>>

\* Mutant: a job that is not running is taken for one that is pending.
KillNotRunning(c) ==
  /\ Step(c, "idle", "closeWait")
  /\ state # "running"
  /\ state' = "killed"
  /\ UNCHANGED <<kind, usePty, argv, killed, proc, ptyMaster, stdin>>
  /\ UNCHANGED <<doneVars, cancelled, execVars, outcome, snap, want, auxVars>>

KillPending(c) ==
  /\ Step(c, "idle", "closeWait")
  /\ state = "pending"
  /\ state' = "killed"
  /\ UNCHANGED <<kind, usePty, argv, killed, proc, ptyMaster, stdin>>
  /\ UNCHANGED <<doneVars, cancelled, execVars, outcome, snap, want, auxVars>>

KillRunning(c) ==
  /\ Step(c, "idle", "cancel")
  /\ state # "pending" /\ ~Terminal(state)
  /\ killed' = TRUE
  /\ UNCHANGED <<state, kind, usePty, argv, proc, ptyMaster, stdin>>
  /\ UNCHANGED <<doneVars, cancelled, execVars, outcome, snap, want, auxVars>>

Kill(c) == KillPending(c) \/ KillRunning(c)

\* Mutant: kill marks the job and forgets to cancel it.
CancelForgotten(c) ==
  /\ Step(c, "cancel", "idle")
  /\ UNCHANGED <<jobVars, doneVars, cancelled, execVars, outcome, snap, want, auxVars>>

Cancel(c) ==
  /\ Step(c, "cancel", "idle")
  /\ cancelled' = TRUE
  /\ UNCHANGED <<jobVars, doneVars, execVars, outcome, snap, want, auxVars>>

-----------------------------------------------------------------------------
(* ctl stop, resume and signal: check under j.mu, deliver, set the state   *)
(* under j.mu again.                                                       *)

Wanted == {"stopped", "running", "none"}

SignalCmd(c, w) ==
  /\ Step(c, "idle", "deliver")
  /\ kind = "subprocess" /\ state \in {"running", "stopped"}
  /\ proc
  /\ ctls < MaxCtl /\ ctls' = ctls + 1
  /\ want' = [want EXCEPT ![c] = w]
  /\ UNCHANGED <<jobVars, doneVars, cancelled, execVars, outcome, snap, waited, overwritten>>

\* Mutant: the state is set even when the command wants none.
DeliverAlwaysSets(c) ==
  /\ At(c, "deliver")
  /\ process # "reaped"
  /\ Goto(c, "setWant")
  /\ process' = IF Alive /\ want[c] # "none" THEN want[c] ELSE process
  /\ UNCHANGED <<exit, written, out, watch, stdinCopy, outCopy, want>>
  /\ UNCHANGED <<jobVars, doneVars, cancelled, outcome, snap, auxVars>>

\* stop and resume act on the process; signal may stop it, continue it, kill it or
\* do nothing.  A zombie takes a signal without effect; a reaped process refuses it.
Deliver(c) ==
  /\ At(c, "deliver")
  /\ \/ /\ process = "reaped"
        /\ Goto(c, "idle")
        /\ want' = [want EXCEPT ![c] = "none"]
        /\ UNCHANGED <<process, exit>>
     \/ /\ process # "reaped"
        /\ Goto(c, IF want[c] = "none" THEN "idle" ELSE "setWant")
        /\ UNCHANGED want
        /\ IF Alive /\ want[c] # "none"
           THEN process' = want[c] /\ UNCHANGED exit
           ELSE \/ UNCHANGED <<process, exit>>
                \/ Alive /\ process' \in {"running", "stopped"} /\ UNCHANGED exit
                \/ Alive /\ process' = "zombie" /\ exit' = "signal"
  /\ UNCHANGED <<written, out, watch, stdinCopy, outCopy>>
  /\ UNCHANGED <<jobVars, doneVars, cancelled, outcome, snap, auxVars>>

\* j.state = wantState, whatever the state has become meanwhile.
SetWant(c) ==
  /\ Step(c, "setWant", "evSnap")
  /\ state' = want[c]
  /\ want' = [want EXCEPT ![c] = "none"]
  /\ overwritten' = (overwritten \/ Terminal(state))
  /\ UNCHANGED <<kind, usePty, argv, killed, proc, ptyMaster, stdin>>
  /\ UNCHANGED <<doneVars, cancelled, execVars, outcome, snap, ctls, waited>>

Detach(c) ==
  /\ Step(c, "idle", "evSnap")
  /\ ctls < MaxCtl /\ ctls' = ctls + 1
  /\ UNCHANGED <<state, kind, usePty, argv, killed, proc, ptyMaster, stdin>>
  /\ UNCHANGED <<doneVars, cancelled, execVars, outcome, snap, want, waited, overwritten>>

-----------------------------------------------------------------------------
(* stdin: an io.Pipe, so a write waits for os/exec's copier to take it.  A *)
(* pty job's writes go to the master and wait for nobody.                  *)

WriteStdin(c) ==
  /\ Step(c, "idle", "writing")
  /\ ptyMaster = "none" /\ stdin = "open"
  /\ UNCHANGED <<jobVars, doneVars, cancelled, execVars, outcome, snap, want, auxVars>>

\* The copier takes the write, and stops if the process is gone (EPIPE).
WriteTaken(c) ==
  /\ Step(c, "writing", "idle")
  /\ stdinCopy = "copying"
  /\ stdinCopy' = IF Alive THEN "copying" ELSE "done"
  /\ UNCHANGED <<process, exit, written, out, watch, outCopy>>
  /\ UNCHANGED <<jobVars, doneVars, cancelled, outcome, snap, want, auxVars>>

\* io.ErrClosedPipe
WriteRefused(c) ==
  /\ Step(c, "writing", "idle")
  /\ stdin = "closed"
  /\ UNCHANGED <<jobVars, doneVars, cancelled, execVars, outcome, snap, want, auxVars>>

\* A clunk of the stdin file, by whichever client holds it open.
CloseStdin ==
  /\ ptyMaster = "none" /\ stdin = "open"
  /\ stdin' = "closed"
  /\ UNCHANGED <<state, kind, usePty, argv, killed, proc, ptyMaster>>
  /\ UNCHANGED <<doneVars, cancelled, execVars, pc, outcome, snap, want, auxVars>>

-----------------------------------------------------------------------------
(* wait: released by waitCh, then a Status() of its own.                   *)

\* Mutant: wait is released by the death of the process.
WaitForReaped(c) ==
  /\ Step(c, "idle", "waitStatus")
  /\ waitCh > 0 \/ process = "reaped"
  /\ UNCHANGED <<jobVars, doneVars, cancelled, execVars, outcome, snap, want, auxVars>>

WaitFor(c) ==
  /\ Step(c, "idle", "waitStatus")
  /\ waitCh > 0
  /\ UNCHANGED <<jobVars, doneVars, cancelled, execVars, outcome, snap, want, auxVars>>

WaitStatus(c) ==
  /\ Step(c, "waitStatus", "idle")
  /\ waited' = waited \cup {state}
  /\ UNCHANGED <<jobVars, doneVars, cancelled, execVars, outcome, snap, want, ctls, overwritten>>

-----------------------------------------------------------------------------

\* What a client may choose to begin.
Command(c) ==
  \/ SetArgv(c) \/ SetPty(c) \/ StartCmd(c) \/ Kill(c) \/ Detach(c)
  \/ \E w \in Wanted : SignalCmd(c, w)
  \/ WriteStdin(c) \/ WaitFor(c)

\* What a goroutine does next by itself, once scheduled.
Starting(c) ==
  \/ StartEvent(c) \/ LaunchFails(c) \/ Launch(c) \/ SetProc(c) \/ Spawn(c)
Ending(t) ==
  \/ Finish(t) \/ CloseWait(t) \/ EndEvent(t) \/ CloseOut(t) \/ CloseEvents(t) \/ Notify(t)
Serving(c) ==
  \/ AppendEvent(c) \/ Cancel(c) \/ Deliver(c) \/ SetWant(c)
  \/ WriteTaken(c) \/ WriteRefused(c) \/ WaitStatus(c)
Waiting == BodyReturns \/ Reap \/ Collect \/ Drain \/ Classify
Copying == CopyOut \/ CopyOutEnds \/ CopyStdinEnds \/ WatchCancels

Next ==
  \/ \E c \in Clients : Command(c) \/ Starting(c) \/ Serving(c)
  \/ \E t \in Threads : SnapEvent(t) \/ Ending(t)
  \/ BodyWrites \/ Waiting
  \/ ProcWrites \/ ProcExits \/ Copying \/ CloseStdin

Spec == Init /\ [][Next]_vars

\* Goroutines are scheduled.  Nothing is assumed of the process, of what clients ask for,
\* nor of an inproc body: it may never look at the context that a kill cancels.
Fairness ==
  /\ \A c \in Clients : WF_vars(Starting(c)) /\ WF_vars(Serving(c))
  /\ \A t \in Threads : WF_vars(SnapEvent(t)) /\ WF_vars(Ending(t))
  /\ WF_vars(Reap \/ Collect \/ Drain \/ Classify)
  /\ WF_vars(CopyOut) /\ WF_vars(CopyOutEnds) /\ WF_vars(CopyStdinEnds) /\ WF_vars(WatchCancels)

-----------------------------------------------------------------------------
(* What the job promises.                                                  *)

\* Every variable stays in its range.
TypeOK ==
  /\ state \in States /\ kind \in {"subprocess", "inproc"}
  /\ usePty \in BOOLEAN /\ argv \in BOOLEAN /\ killed \in BOOLEAN
  /\ proc \in BOOLEAN
  /\ ptyMaster \in {"none", "open", "closed"} /\ stdin \in {"open", "closed"}
  /\ waitCh \in Nat /\ outClosed \in BOOLEAN /\ eventsClosed \in BOOLEAN
  /\ events \in Seq(States) /\ cancelled \in BOOLEAN
  /\ process \in {"none", "running", "stopped", "zombie", "reaped"}
  /\ exit \in {"none", "ok", "code", "signal"}
  /\ written \in Nat /\ out \in Nat
  /\ watch \in {"off", "armed", "error", "released"}
  /\ stdinCopy \in {"off", "copying", "done"} /\ outCopy \in {"off", "copying", "done"}
  /\ pc \in [Threads -> Labels]
  /\ outcome \in {"none", "done", "failed", "killed"}
  /\ snap \in [Threads -> States] /\ want \in [Threads -> Wanted]
  /\ ctls \in Nat /\ waited \in SUBSET States
  /\ recorded \in Seq(States) /\ overwritten \in BOOLEAN

\* waitCh is closed at most once (a second close panics the whole shell), and
\* OnFinish hears of the job at most once, after every stream is closed: a kill
\* of a pending job, a failing start and the wait goroutine never both finish it.
EndsOnce ==
  /\ waitCh <= 1 /\ Len(recorded) <= 1
  /\ recorded # <<>> => waitCh = 1 /\ outClosed /\ eventsClosed

\* Whoever is released by wait, or handed the record, finds no process of the
\* job left: the job is not reported over while it still runs.
NoLiveProcess ==
  waitCh > 0 \/ recorded # <<>> => process \in {"none", "reaped"}

\* A status read through wait, or recorded, is a final one - unless a stop or a
\* resume, checked while the job ran, stored its state over the final one.
FinalUnlessOverwritten ==
  \A s \in waited \cup {recorded[i] : i \in DOMAIN recorded} : Terminal(s) \/ overwritten

\* A reader that follows events to the end has been shown a final state.
EventsTellTheEnd ==
  eventsClosed /\ ~overwritten => \E i \in DOMAIN events : Terminal(events[i])

\* stdout ends only after all the process (or the body) wrote is in it, though
\* a goroutine of its own copies it.
OutputComplete == outClosed => out = written

\* A job whose process ran is done whatever its exit status; only one that ctl
\* kill was asked to kill can be killed or failed (finishFromExec's comment).
EndStateExplained ==
  state \in {"killed", "failed"} /\ process # "none" => killed

\* The status wait returns is a final one: what WaitFor and the wait file say.
WaitReturnsFinal == \A s \in waited : Terminal(s)

-----------------------------------------------------------------------------
(* The abstract life of the job.                                           *)

EndLabels == {"closeWait", "endSnap", "endAppend", "closeOut", "closeEvents", "notify"}

Phase ==
  IF state = "pending" THEN "pending"
  ELSE IF Terminal(state) \/ waitCh > 0 \/ \E t \in Threads : pc[t] \in EndLabels
       THEN "ended" ELSE "running"

Life == INSTANCE JobLife
          WITH phase <- Phase, released <- waitCh, records <- Len(recorded)

\* The steps of the job are those of the abstract life: started at most once,
\* ended once, released after that and recorded after that, whichever of start,
\* kill and the wait goroutine takes it there.
ImplementsLife == Life!LifeSpec

=============================================================================
