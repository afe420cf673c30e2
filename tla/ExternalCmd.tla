----------------------------- MODULE ExternalCmd -----------------------------
(***************************************************************************)
(* The shell running one command through /jobs: the 9P calls kyu makes, in *)
(* order, composed with the Job they act on.                               *)
(*                                                                         *)
(* A foreground %cmd configures the job, starts it, writes its input,      *)
(* closes stdin, waits, and reads stdout; `&` and `&pty` configure, start  *)
(* and return a live record; `&` on kyu code starts an inproc job.  Each   *)
(* call is served by the job's code (thread Shell of Job) before the next  *)
(* is made.  The other clients are the rest of the shell and its peers: a  *)
(* Ctrl-C (signal INT), the ctl field of a live record, an @host session.  *)
(*                                                                         *)
(* Left out: cwd and env (written like argv), the proxy record, stderr     *)
(* (read like stdout), and failures of the 9P transport.                   *)
(***************************************************************************)
EXTENDS Job

CONSTANTS
  Shell,     (* the client that is the evaluator                            *)
  MaxIn      (* bound: chunks of input (io.Copy moves 32 kB at a time)      *)

ASSUME ExternalAssumption == Shell \in Clients /\ MaxIn \in Nat

VARIABLES
  mode,      (* how the command was written                                 *)
  todo,      (* the calls still to make                                     *)
  input,     (* chunks of input still to write                              *)
  status,    (* the state the first read of wait showed                     *)
  result,    (* what the command evaluated to                               *)
  got        (* how much output came with it                                *)

shellVars == <<mode, todo, input, status, result, got>>
allVars   == <<vars, shellVars>>

Others == Clients \ {Shell}

\* Mutant: stdin is left open, as nothing will be written to it.
ScriptNoEof ==
  [foreground |-> <<"argv", "start", "input", "wait", "wait", "stdout">>,
   background |-> <<"argv", "start", "record">>,
   pty        |-> <<"argv", "pty", "start", "record">>,
   inproc     |-> <<"start", "record">>]

\* The calls of runExternalViaJob, evalBackgroundSubprocess (plain and pty) and
\* evalBackgroundInproc.  readAllFile reads wait until it is told of the end,
\* so twice.
Script ==
  [foreground |-> <<"argv", "start", "input", "eof", "wait", "wait", "stdout">>,
   background |-> <<"eof", "argv", "start", "record">>,
   pty        |-> <<"argv", "pty", "start", "record">>,
   inproc     |-> <<"start", "record">>]

ShellInit ==
  /\ Init
  /\ mode \in DOMAIN Script
  /\ kind = (IF mode = "inproc" THEN "inproc" ELSE "subprocess")
  /\ todo = Script[mode]
  /\ input \in IF mode = "foreground" THEN 0 .. MaxIn ELSE {0}
  /\ status = "none" /\ result = "none" /\ got = 0

-----------------------------------------------------------------------------
(* The calls.                                                              *)

\* The next call is op, and the call before it has been served.
Calls(op) == At(Shell, "idle") /\ todo # <<>> /\ Head(todo) = op

Advance == todo' = Tail(todo)

\* An error from a call is the error of the command.
Fail ==
  /\ todo' = <<>> /\ result' = "error"
  /\ UNCHANGED <<mode, input, status, got>>

\* SetArgv, SetPty and start refuse a job that somebody has killed meanwhile.
Refused == state # "pending" /\ Fail /\ UNCHANGED vars

WriteArgv ==
  /\ Calls("argv")
  /\ \/ SetArgv(Shell) /\ Advance /\ UNCHANGED <<mode, input, status, result, got>>
     \/ Refused

WritePty ==
  /\ Calls("pty")
  /\ \/ SetPty(Shell) /\ Advance /\ UNCHANGED <<mode, input, status, result, got>>
     \/ Refused

\* The write of start returns nil also when the process cannot be started.
WriteStart ==
  /\ Calls("start")
  /\ \/ StartCmd(Shell) /\ Advance /\ UNCHANGED <<mode, input, status, result, got>>
     \/ Refused

\* Mutant: no input at all is written like an input.
WriteInputNil ==
  /\ Calls("input")
  /\ \/ WriteStdin(Shell) /\ input' = input - 1 /\ UNCHANGED <<mode, todo, status, result, got>>
     \/ stdin = "closed" /\ Fail /\ UNCHANGED vars

WriteInput ==
  /\ Calls("input") /\ input > 0
  /\ \/ WriteStdin(Shell) /\ input' = input - 1 /\ UNCHANGED <<mode, todo, status, result, got>>
     \/ stdin = "closed" /\ Fail /\ UNCHANGED vars

\* Somebody else's clunk of stdin ends the write with an error.
InputRefused == WriteRefused(Shell) /\ Fail

NoInputLeft ==
  /\ Calls("input") /\ input = 0
  /\ Advance
  /\ UNCHANGED <<vars, mode, input, status, result, got>>

CloseInput ==
  /\ Calls("eof") /\ Advance
  /\ IF stdin = "open" /\ ptyMaster = "none" THEN CloseStdin ELSE UNCHANGED vars
  /\ UNCHANGED <<mode, input, status, result, got>>

ReadWait ==
  /\ Calls("wait")
  /\ WaitFor(Shell) /\ Advance
  /\ UNCHANGED <<mode, input, status, result, got>>

\* The second read, past the end of what the first returned, finds more text if
\* the state has changed since: the status does not decode.
WaitRead ==
  /\ WaitStatus(Shell)
  /\ IF status \in {"none", state}
     THEN status' = state /\ UNCHANGED <<mode, todo, input, result, got>>
     ELSE Fail

\* A failed job is an ErrorVal, and its output is not read.
ReturnError ==
  /\ Calls("stdout") /\ status = "failed"
  /\ result' = "ErrorVal" /\ Advance
  /\ UNCHANGED <<vars, mode, input, status, got>>

\* Mutant: the state of the job is not looked at.
ReturnOutputUnchecked ==
  /\ Calls("stdout")
  /\ outClosed
  /\ result' = "bytes" /\ got' = out /\ Advance
  /\ UNCHANGED <<vars, mode, input, status>>

\* stdout is read to its end.
ReturnOutput ==
  /\ Calls("stdout") /\ status # "failed"
  /\ outClosed
  /\ result' = "bytes" /\ got' = out /\ Advance
  /\ UNCHANGED <<vars, mode, input, status>>

ReturnRecord ==
  /\ Calls("record")
  /\ result' = "record" /\ Advance
  /\ UNCHANGED <<vars, mode, input, status, got>>

Program ==
  \/ WriteArgv \/ WritePty \/ WriteStart \/ WriteInput \/ InputRefused \/ NoInputLeft
  \/ CloseInput \/ ReadWait \/ WaitRead \/ ReturnError \/ ReturnOutput \/ ReturnRecord

-----------------------------------------------------------------------------
(* The rest of the system.                                                 *)

\* What the job does by itself, on any thread.
JobSteps ==
  \/ \E c \in Clients : Starting(c) \/ AppendEvent(c) \/ Cancel(c) \/ Deliver(c) \/ SetWant(c)
  \/ WriteTaken(Shell)
  \/ \E t \in Threads : SnapEvent(t) \/ Ending(t)
  \/ BodyWrites \/ Waiting
  \/ ProcWrites \/ ProcExits \/ Copying

\* What another client may ask for, at any moment.
Interfere ==
  \/ \E c \in Others : Kill(c) \/ \E w \in Wanted : SignalCmd(c, w)
  \/ CloseStdin

ShellNext ==
  \/ Program
  \/ (JobSteps \/ Interfere) /\ UNCHANGED shellVars

ShellSpec == ShellInit /\ [][ShellNext]_allVars

\* The evaluator goes on as soon as a call returns.  That others close stdin is not
\* assumed: whether a job ends rests on the shell's own calls.
ShellFairSpec == ShellSpec /\ Fairness /\ WF_allVars(Program)

-----------------------------------------------------------------------------

\* Every variable of the shell stays in its range.
ShellTypeOK ==
  /\ mode \in DOMAIN Script
  /\ todo \in Seq({"argv", "pty", "start", "input", "eof", "wait", "stdout", "record"})
  /\ input \in 0 .. MaxIn
  /\ status \in States \cup {"none"}
  /\ result \in {"none", "error", "ErrorVal", "bytes", "record"}
  /\ got \in 0 .. MaxOut

\* The value of a foreground command is all the output of a process that ran and is
\* gone, however the commands of other clients fell between the shell's calls.
BytesAreTheOutput ==
  result = "bytes" => process = "reaped" /\ got = written

\* A command that evaluates to an ErrorVal never ran, or was killed on request: kyu
\* code may retry it on that account.
ErrorValExplained ==
  result = "ErrorVal" => process = "none" \/ killed

\* Once the process is gone its job ends, in every mode: no copier of os/exec waits
\* for a stdin that nobody will close.
ExitEnds == exit # "none" ~> waitCh > 0

\* A kill ends the job and the end is recorded, whatever moment of start, exit or of
\* another command it meets: once the process is gone, or the body has returned, which the
\* kill makes no body do.
KillEnds == killed ~> recorded # <<>> \/ At(Runner, "body")

\* The shell's write waits for a copier that will not come: it was never started, or
\* has stopped.
Unread == At(Shell, "writing") /\ stdin = "open" /\ stdinCopy # "copying"

\* A command whose job is over returns, unless it is left writing input that nothing
\* will read.
ReturnsUnlessUnread == waitCh > 0 ~> result # "none" \/ Unread

\* A command whose process cannot be started returns, as exec.Start's failure does.
FailedStartReturns == outcome = "failed" ~> result # "none"

=============================================================================
