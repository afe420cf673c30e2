# A TLA+ verification of 9sh

9sh is a login shell in which everything is a file of a per-process 9P namespace.
Running a command is a conversation with files: the evaluator of its language,
kyu, reads `/jobs/clone`, writes `argv` and `ctl`, reads `wait` and `stdout`. The
package `job` serves those files, package `session` records what was run in a
9vcs repository, package `remote` lets other hosts attach to the namespace. This
directory holds models of that code in TLA+, the TLC configurations that check
them, and TLAPS proofs of their most important properties.

Every definition names, in `PROJECT.json` under `map`, the lines it models. The
models keep the control of the code (guards, early returns, critical sections,
the order of effects) and drop its data (texts, numbers of exit codes, times).

## The system

| Component | State | Operations | What makes it correct |
|---|---|---|---|
| **Job** (`job/job.go`, `job/fs.go`) | `state`, configuration, `killed`, process, pty master, stdin pipe, `waitCh`, three streams | `SetArgv/SetEnv/SetCwd/SetPty`, `start`, `stop/resume/signal`, `kill`, `detach`, stdin, `WaitFor`; the wait goroutine; os/exec's own | ends exactly once; nobody is told so while a process is left; streams complete; the final state is explained and is final |
| **growBuf** (`job/growbuf.go`) | text, closed, mutex and condition variable | `Write`, `Close`, blocking `Read`, cancellation | no missed wake-up; end only after all text; a cancelled Read returns |
| **Session recorder** (`session/session.go`) | working tree and patches; `dirty`, two clocks, the loop | `appendLine`, tick, checkpoint, `Close`, crash | every line is recorded in the end, also over failures and restarts |
| **Running commands** (`kyu/eval/external.go`, `namespace.go`) | the position in the sequence of calls | `%cmd`, `&`, `&pty`, `&` on kyu code, the interrupt handler | the value is the whole output of a finished process; the shell does not hang |
| **Evaluator** (`kyu/eval/eval.go`, `callable.go`, `env.go`, `source.go`, `inns.go`, `athost.go`, `namespace.go` ...) | per root environment: namespace, context, interrupt handler, call and source depth, hooks, variables; per thread: what it still has to do | statements and expressions, closures called from other threads, loops, `in_ns`, `@host`, `source`, `reset_config`, bind, `&`, `%cmd`, full-screen programs, `attach`, `kill`, `wait` | whatever way an evaluation ends, what it took is put back; cancelled code ends |
| **Interactive shell** (`replui`, `cmd/9sh/main.go`) | input line, history, search, completion; `busy`, the result slot, the tick, the screen | keys, paste, wheel, Ctrl-C in two halves, submit, drain, hand-over of the screen, line mode, start-up files | one statement at a time; its result shown once and without another key; a handed-over screen is given back once; no index goes astray |
| **File operations** (`mv.go`, `cp.go`, `rm.go`, `mkdir.go`, `write.go`, `tree.go` ...; `checkout.go`) | files of the namespace; scratch copies and a snapshot | each builtin as its 9P calls, any of which may fail | no content is lost half-way; a success is the whole effect; only what was edited is written back |
| **kyu front end** (`kyu/lexer`, `kyu/parser`, `kyu/ast`) | none: text to tree | lexer decisions, recursive descent | a tree written down is read back as that tree |
| **Pipelines** (`kyu/eval/builtins.go`, `collections.go`, `kyu/value`) | lists whose elements may be live job records | sorting, grouping, filtering, folding, arithmetic, JSON | the result is what the definition says of the values that were read |
| **Attach** (`kyu/eval/attach.go`) | the chunk being forwarded, the window's size and the job's | read, forward, detach; the goroutine of the sizes | the job is given what is typed for it; Ctrl-] gives the prompt back unless the job leaves a full terminal unread; the job's window follows |
| Job table (`Manager`, `jobsFile`) | `jobs`, `nextID` | clone, walk, list | ids unique: one critical section |
| Remote (`remote`) | known peers, socket | connect, listen | rests on the libraries 9p and 9auth |
| Host files (`nsfs`) | a host directory | one system call per 9P call | |
| Text, time, process builtins, help, drawing | none | sequential | unit tests reach them |

How they interact: the evaluator calls the job files (in process, or over 9P for
`@host`), each call on a goroutine of the server; a job calls the recorder
through `OnFinish` on a goroutine of its own; job files read `growBuf`s; closures
given to `&` run on the job's goroutine with the environment of the shell; the
REPL runs each statement on a goroutine and polls its result on a tick.

What is hard: the many goroutines that share one job (ctl requests, the wait
goroutine, os/exec's copiers and its context watcher, the pty copier); state
checked before an unlock and used after it; `9vcs` running while lines arrive; a
blocked Read that must be both woken and cancelled; and process-wide fields that
background closures reach. `PROJECT.json` lists each under `hazards` at its line,
with the properties that watch it, or the reason why none does.

## The modules

| Module | Role |
|---|---|
| `Job` | one job: its operations, its goroutines, its process |
| `JobLife` | what a job promises to those that watch it; `Job` implements it |
| `GrowBuf` | the blocking buffer |
| `Tail` | what a stream promises a reader that follows it; `GrowBuf` implements it |
| `Session` | the recorder, for several shells on one repository |
| `ExternalCmd` | the evaluator's calls composed with `Job` |
| `FileOps` | the builtins on files, as 9P calls of several actors on one tree |
| `LineEditor` | the input line: editing, history, search, completion (pure operators on a record) |
| `Evaluator` | threads that evaluate kyu code over the shared fields of their roots |
| `Shell` | the event loop and the line mode, composed of `LineEditor` and `Evaluator` |
| `Ast`, `Parser` | syntax trees; the lexer's decisions and the parser |
| `Syntax` | reference: a writer that builds trees node by node and spells them |
| `Pipeline` | collection builtins, arithmetic and comparison over live records |
| `Attach` | `attach(job)` in the line mode: keys, chunks, Ctrl-], window sizes |
| `Language` | `Syntax` and `Pipeline` side by side, for one run |
| `MCJob`, `MCGrowBuf`, `MCSession`, `MCExternalCmd`, `MCFileOps`, `MCShell`, `MCLanguage` | instances for TLC |
| `JobProofs`, `GrowBufProofs`, `SessionProofs`, `EvaluatorProofs`, `ShellProofs`, `FileProofs`, `FileCallProofs`, `AttachProofs` | theorems |

A definition whose comment begins with "Mutant:" is a plausible bug in the
definition that follows it. No specification uses it: it exists to show that a
property notices the bug (`mutants` in `PROJECT.json`).

### Job

Threads are `Clients` (each a request goroutine, serving one ctl command, stdin
write or wait at a time) and `Runner`, the goroutine `start()` leaves behind.
`pc[t]` is the next critical section of thread t, or the call it makes between
two. So `kill` of a running job is `KillRunning` (under `j.mu`) and `Cancel`
(after it); `signal` is `SignalCmd`, `Deliver` and `SetWant`; `finish` is `Finish`,
`CloseWait`, `EndEvent`, `CloseOut`, `CloseEvents`, `Notify`; and `appendEvent`, which
takes its snapshot and appends it under two different locks, is `SnapEvent`
followed by an append, wherever it is called.

The process is `none`, `running`, `stopped`, `zombie` or `reaped`. What os/exec does
around it is modelled from how it is used: a goroutine that kills on
cancellation, and whose error is the result of `Wait` only if the process
succeeded (`watch`, `Classify`); copiers of stdin and stdout that `Wait` waits
for; for a pty, a copier of the job's own and `kill` of the whole group. stdout and
stderr are one stream.

`waitCh` counts the closes of the channel (a second close panics), `recorded` is
what `OnFinish` was given, `waited` what `wait` returned, `overwritten` whether
`SetWant` replaced a final state.

### GrowBuf

Every method holds the mutex throughout, except inside `cond.Wait`; but the
watcher goroutine of a `Read` broadcasts without it. `Read` is therefore split at
the two points where that matters: `StartWatcher` keeps the mutex (`mu`) to
`Wait`, which enlists the reader and frees it. Watchers that outlive their turn
(both channels ready) are counted in `strays`. A reader calls `Read` again at its
new offset, as `readAllFile` does.

### Session

`lines` and `recorded` are the working tree and the last patch, numbered by
arrival; they survive a crash, everything else is a shell's own. A checkpoint is
`ReadDirty`, `Record` (some moment of `9vcs record`), `ClearDirty`: the code holds
`r.mu` in the first and the last only. An append is the write of the line and then
`MarkDirty`. Time is the ticker's.

### ExternalCmd

`Script[mode]` is the sequence of calls of `runExternalViaJob` (`%cmd`), of
`evalBackgroundSubprocess` (`&`, `&pty`) and of `evalBackgroundInproc`. The thread
`Shell` makes the next call when the last has been served; each call is the action
of `Job` that serves it, or the refusal of a job somebody else killed. `wait` is
read until it says it has ended, so twice. Other clients may kill, stop, resume
or signal the job, or close its stdin, at any moment.

### FileOps

An actor's call becomes a `Script` of tasks, chosen by what its checks find at that
moment; each task is one 9P call (`Create`, `Trunc`, `Put`, `RemoveEntry`, `Rename` ...) or
one that lists a directory and pushes a task per entry (`CopyDir`, `RemoveTree`, `Find`,
`MatDir`). Between two tasks the other actor may do anything; `Breaks` is a call that
fails for a reason of its own. `Walk` maps a name to its place in the tree through the
one bind, so a file has two names; the code compares spellings. A checkout keeps the
`scratch` copy and the `snap`shot it was made from, and `Back` compares the two.

What the file servers refuse is modelled from how the builtins use them: an entry is made only in
a directory that exists (`CanCreate`, also where the bind's target has gone), only an empty
directory is removed or replaced (`EmptyAt`), and a rename replaces like by like (`CanReplace`).

`before`, `meddled` and `calls` are the model's own: what the call found, whether another
actor has changed what it is about, how many were made.

### LineEditor, Evaluator, Shell

`LineEditor` has one operator per method of `kyuReplWidget` that changes its record; a
position is found by the run of runes around it (`RunBack`, `RunOn`).

In `Evaluator` a thread is a stack of frames and a `ctl`: a node to evaluate, a value for
the top frame, or a signal (error, break, continue, cancelled) that unwinds. Each Go
`defer` is what a frame undoes when it is left (`Undone`). A closure keeps the *root* it was
made in: `callClosure` counts its depth and polls its context there, on whatever thread
it runs. Fields of a root are shared by all threads, as they are under `root().mu`.

In `Shell` the statement's goroutine goes through `Parse`, `Hook`, the evaluation,
`Evaluated`, `Release`, `Post`; the event loop is `ui`: after each input or tick it drains the
result slot (`Drain`). A Ctrl-C is two steps in either mode, the handler of the running
command and then the cancel of the context (`KeyInterrupt`/`Signal`, `CancelContext`), and
the statement may end between them. A *scene* says how the shell was started and what
the user may do. Delivered with the key that causes them: the event loop's own
`evalStarted` and help messages.

### Ast, Parser, Syntax, Pipeline, Language

`Parser` is the recursive descent, one operator per production, from token to token
(`ParsePrefix`, `ParseRest` with the precedences). The lexer's decisions that depend on the
token before ("/" as path or division, "%", newline) are in `LexFrom`. `Syntax` grows a tree
node by node and spells it in a *style*: with the fewest brackets the levels of the operators
ask for or with brackets around every operand, argument and condition; and on one line, or
over many, with a line feed after every opening bracket, comma and operator and before a
closing brace, "]" or the ")" of a call, and a comma behind the last of a list. Other liberties
of the language (no comma between elements, no space between marks, a line feed before the ")"
of a group, comments) are not spelled. It is the reference and knows only the levels.

Where the levels do not tell that the parser goes wrong, the printer does not write around it but sets
a *trap*: a record on one line whose last field ends in a brace, "/" behind "?", `break` or a path,
a condition whose command or piped function takes the block for its argument, a path as an
argument behind a value, `{ || }`, a native program with a braced argument behind a pipe, and a
statement that ends in no value (in `?`, `&`, `break`) with a line feed and a text that continues it behind. `RoundTrip`
says that a program without a trap is read back as it was written, and one with a trap is not, so
that the list of traps is exact for the trees and styles of the run.

`Pipeline` reads one key of one element per step, while live job records move
(`JobMoves`), and remembers what it read; `Explained` is the definition of each builtin over
what was read. Integers wrap at `MaxInt`, and are exact as floats up to `Exact`.

### Attach

`loop` is where `biAttach` is: it reads the size, sets it, makes the watcher, then copies.
`Read` takes what has been typed since the last one, up to the buffer; `forwardChunk` is
`ForwardText`, `ForwardEscape` and `Detach` on what is left of the `chunk`, byte by byte, because
the kernel takes a write byte by byte and blocks when the job has `Room` unread. The
goroutine of the sizes is `resizer`: `ResizerWakes` reads the size and `ResizerSets` sets it. A size is
the number of changes so far. `Meant` decodes all that was typed without regard to chunks, and is
what the properties compare with. `Evaluator` has the whole session as one call that ends when
the user lets go; the job's output goes its way through `GrowBuf`.

## The runs

| Run | Bounds | What it shows |
|---|---|---|
| `job` | 2 clients (symmetric), both kinds, 2 signals or detaches, 1 chunk of output | the seven invariants of `Job`, and that it implements `JobLife` |
| `job_wait` | 2 clients, 1 signal | `wait` may return a status that is not final (finding 1) |
| `growbuf` | 2 readers, text of length 2, 3 Reads each | no missed wake-up; `Tail` is implemented; Reads return |
| `growbuf_cancel` | 2 readers, length 1 | a cancelled Read may sleep for ever (finding 2) |
| `session` | 2 shells, 3 starts, 2 lines, 1 failure, `MaxTicks` 2 | marked lines are kept and recorded |
| `session_flush` | 1 shell, 2 lines, no failure | the final flush may miss a line (finding 3) |
| `external` | the shell and 1 other client, 2 chunks of input, 1 of output | values, errors and termination of commands |
| `external_start` | the shell alone, a chunk of input | a command that cannot start may hang (finding 4) |
| `files` | 2 actors, 2 calls of 31, 1 failing 9P call, a tree of 5 entries with one directory under two names, depth 3, files of 3 chunks | `NothingLost`, `WholeEffect`, `OnlyEditsWrittenBack` |
| `shell` | eleven scenes of 2 to 6 inputs, 30 programs, 1 background job, call and source depth 2, 3 namespaces | one statement at a time, results and screens, everything put back, cancelled code ends, Tab keeps text |
| `language` | trees of 4 nodes in 3 styles; pipelines of 2 stages on lists of 3 out of 7 elements, 2 live jobs with 2 moves, `MaxInt` 7, `Exact` 4 | `RoundTrip`, `Explained` |
| `attach` | 4 keys, a buffer of 3, `Room` 3, 2 changes of size | what is typed arrives, and nothing after the detach; sessions end; sizes follow |

Why the bounds are enough. Two clients and the runner are three threads on one
job, so every pair of commands meets each other and the end of the job at every
point; `MaxCtl` bounds only the commands that could go on for ever, and 2 lets a
stop and a resume be in flight together. One chunk is enough to tell a complete
output from a truncated one. With two readers at different offsets a Signal in
place of a Broadcast is noticed, and three Reads let a watcher of an earlier
turn meet a later one. Two lines, one before and one during a checkpoint, and
three starts over two shells, let a shell restart while the other records.
Where no bound is wanted, the proofs have none. Two calls of `files` are enough for one
to fall between any two 9P calls of the other, and a directory inside a directory makes
the recursion of a copy and a removal happen. Depth 2 is enough for the limit of calls
and of sources to be reached and for a closure to be open when another is. The scenes
of `shell` separate what does not interact: keys with an idle shell, programs with few
keys; the scenes `again`, `screens`, `history` and `tabs` mix them where they do. Trees of four nodes
hold every pair of nested productions, which is where a token can be taken for
another; three elements are the fewest on which stability and a comparison that is
not transitive show. Four keys in a buffer of three let a pair of Ctrl-] be whole in a chunk,
with a key before or after it, or cut by its end; two changes of size let one come while
the other is being set. `MCLanguage` also has TLC check the law of quotient and remainder.

`CHECK_DEADLOCK FALSE`: a job that is over, a session of attach that has ended, a buffer read to its end, a session at its
bounds, actors that have made their calls, a shell that was left, a tree of full size
and a pipeline that has its result have nothing left to do.

### Fairness

- `Job!Fairness`: goroutines that can run, do (weak fairness of the steps after
  the first of each command, of the runner, and of os/exec's goroutines). Nothing is
  assumed of the process, of clients that have yet to ask, of stdin being closed by
  anybody, or of an inproc body: a closure of the prompt looks at the context of the
  root it was made in (`eval.go:454`), and a body in `%cmd` or `wait` at none, so a kill need not
  end it. `KillEnds` excepts a job whose body has not returned.
- `GrowBuf!Fairness`: strong fairness of a Read's steps, since it competes for the
  mutex and Go's mutex hands itself to a waiter that starves; weak fairness of
  its watcher.
- `Session!Fairness`: time passes, and goroutines of a shell run; 9vcs fails at most
  `MaxFails` times.
- `Shell!Fairness`: the event loop turns (a Ctrl-C's second half, the drain, the tick), and
  each thread that can go on does. Nothing is assumed of the user, of a process that
  runs, or of an attached terminal; a thread in `wait` waits.
- `Attach!Fairness`: the loop and the goroutine of the sizes go on when they can (weak fairness of
  each). Nothing is assumed of the user, nor that the job ends or reads: `SessionEnds` excepts
  a job that never again reads a full terminal.
- `ExternalCmd!ShellFairSpec` adds that the evaluator goes on when a call has returned.

### Findings

1. `signal()` stores the state it wanted over a final one (`job/job.go:666`): a
   stop or resume accepted while the job ran, stored after it ended, leaves the
   job stopped or running for good, and `wait` returns that.
2. The watcher of `growBuf.Read` broadcasts without the mutex (`job/growbuf.go:77`), so
   a Tflush just before `cond.Wait` is lost and the Read sleeps on.
3. `checkpoint` clears `dirty` over a line that was appended while `9vcs record` ran
   (`session/session.go:308`); the final flush of `Close` then skips it. The next
   append would record both.
4. `%cmd` with input whose process cannot be started hangs (`kyu/eval/external.go:266`):
   its stdin is a pipe nobody reads. The same happens when the process exits
   before it has read more than the copier holds; `ReturnsUnlessUnread` says that
   this is the only way a foreground command whose job is over does not return.

`FinalUnlessOverwritten`, `MarkedIsDirty`, `FlushAtExit`, `EventuallyRecorded` and
`ReturnsUnlessUnread` name those cases as exceptions, so that they say exactly how
much holds: outside them, nothing goes wrong.

### What the models show besides

Behaviour met while modelling; the properties name each as an exception or the model
has it as it is. The documents of the repository say otherwise of the first five.

- A background job that calls a closure of the prompt cannot be killed (`eval.go:454`,
  `callable.go:90`): loops and calls look at the context of the root the closure was made in, and
  the job's context is on the job's root (`Alien` in `CancelledEnds`). The README of 9sh says that a
  kill stops the job at its next loop iteration or function call.
- Ctrl-] typed twice detaches when the two keys come in two reads (`attach.go:211`), as two
  presses of a key in raw mode do. The comment of `detachByte` and the README say that it
  reaches the job; `SentIsMeant` lets a session end early for that reason.
- `attach` reads the window's size before it makes the watcher (`attach.go:270`): a change in
  between reaches the job only with the next one, so `ChangeArrives` is about changes while the
  loop runs. The README says that the job's window follows the terminal's.
- `writeBackDir` (`checkout.go:242`) stops at the first file in a directory that the closure
  has made, and the scratch directory is removed on the way out: later edits are lost. The
  comment of `biCheckout` (`checkout.go:31`) says that skipping a new directory is no silent data loss,
  since nothing is removed or corrupted by it.
- Two full-screen programs handed over in one statement: the second request takes the
  slot of the first, which is never run nor written back (`kyurepl.go:1188`); and a program that
  begins while another has the screen takes it, and that one is never written back (`replaced`).
  The comment of `fullscreenAttach` (`model.go:109`) says that `onDone` must be called exactly once.
- `getenv` returns "" when the open or the read of a variable fails, and `unsetenv` and the environment
  of a command take any failing walk for a variable (or an /env) that is not there
  (`envvars.go:84`, `:163`, `:38`): a failure is then a success with the wrong effect, the exception
  `Unnoticed` of `WholeEffect`.
- `mv` of a file onto its own other name under a bind: the copy truncates the file, the
  removal takes the only name. A bind grafted beneath the source or the destination, and a
  rename of the bind's own mount point, go wrong in similar ways, because the check against
  moving a directory into itself is lexical: these are the exceptions of `NothingLost` and
  `WholeEffect` (`Aliased`). The last two were met while proving `NothingLost`: the one bind of
  the `files` run does not show them, other binds do.
- `break` inside `@host { }`, a sourced file or a key closure of `sort_by` is wrapped and no
  longer a break.
- `in_ns` blocks of two threads on one root that end out of order restore the wrong
  namespace (`mixed` in `PutBack`); a command in the background clears the foreground's
  interrupt handler.
- A line of the history with a newline, once recalled, keeps Up and Down from leaving it.
- A record as the last field of a record does not parse (`{a: {b: 1}}`, `parser.go:526`), unless a
  comma follows it, and an unclosed one does; nor does a record whose closing brace is on a new line
  without a comma before it; `f()? / 2` reads "/" as a path, `%cp a /b` divides; a condition that is a `%cmd`
  swallows the block; `{ || 1 }` reads "||" as an operator. The first and the last three are traps of `Syntax`.
- `Compare` (`value.go:405`) is not transitive between Ints beyond 2^53 and Floats, so a
  sorted list depends on the order before; `range` near the largest Int wraps and goes on.

## The proofs

They hold for any sets of clients, readers, shells, names and keys and any bounds; they use
only the assumptions named in the modules (`JobAssumption`, `FreeAssumption`,
`SessionAssumption`, `GrowBufAssumption`, `ExternalAssumption`, `FileOpsAssumption`,
`AttachAssumption`, `EvaluatorAssumption`, `LineEditorAssumption`, `ShellAssumption`), which say
what kind of thing a constant is.

Three arguments need induction over numbers: the length of what was typed, the depth of a path,
and the length of a history of which some lines are kept. It is done on sets: the set of lengths
for which the fact holds contains 0 and with each number the next (`NatInd`, `Induction`, from the
well-foundedness of the naturals).

**JobProofs.** Neither `EndsOnce` nor `NoLiveProcess` is inductive: nothing in them
says that the thread about to close `waitCh` is alone. The strengthening `Inv` is
about *owning* the job's end. From `start` on, the right to end the job passes
from the client that starts it to `Runner` (or stays with the client whose
launch failed), and a kill of a pending job takes it; `OneOwner` says at most one
thread is at an owning label, `PendingIsFresh` that none is while the job is pending;
`Progress` ties the owner's label to `waitCh`, the closed streams and `recorded`;
`ProcessFits` ties it to the process, so that an owner past `Reap` has reaped it;
`UnownedIsOver` says a job without an owner is pending or over. `EndedIsFinal` adds
that the state is then final unless overwritten. From `Inv` follow `EndsOnce`,
`NoLiveProcess`, `FinalUnlessOverwritten`, and that every step is a step of `JobLife`.

Three more invariants are relative to `Inv`. `OutputInv`: a copier that
is done has copied all of a process that is gone, stdout is open up to the owner's
`closeOut`, and an owner past `Drain` has such a copier; so what is closed is complete.
`CauseInv`: a cancelled context, an error of the watcher and a killed or failed outcome
of a job whose process ran each imply `killed`. `EventInv`: an owner between its end's
snapshot and its append holds a final state, and past the append the events have one
(unless overwritten).

**GrowBufProofs.** A reader on the condition variable has nothing to be woken for,
because between its check and its enlistment it holds the mutex (`HolderWaits`); so
`NothingToRead` says the same of a reader at `watched`. `ImplementsTail` follows step by
step from `OffsetsFit` and `EndIsTheEnd`.

**SessionProofs.** `MarkedIsDirty` and `FlushAtExit` are inductive together with
`LoopFits`: the loop of a shell that is not closing has neither ended nor seen the stop,
so it can end only through the checkpoint that follows the stop, and each way out of
that one leaves the lines of `Close` recorded, failed or overtaken.

**JobProofs**, of `ExternalCmd`. Every step the shell and the others take on the job is a step of
`Job`, or leaves it alone: `ShellSpec => Spec`. So each theorem about `Job` holds of
a job run by the shell. For `BytesAreTheOutput` that is not enough: the state `killed`
that `wait` shows may be that of a process killed, or of a job killed before it
started. `Launched` rules the second out: once `start` has been accepted, a job
without a process is running or failed, because nothing signals it (`RunFits`) and
only a pending job is killed without a process. `ShellKnows` carries what the first
read of `wait` showed to the read of stdout, where `waitCh` is closed, so that
`NoLiveProcess` and `OutputComplete` apply; `TodoFits` says which calls can be left.

**ShellProofs.** The programs, scenes, keys and jobs are any. For `OneAtATime`, `Turn` says who
has the statement (the goroutine by `run.at`, the slot, or nobody) and that `busy` says the
same; `Borrowed` that the context and the hooks of the prompt are those of a statement
that runs. It needs of the evaluator only `StepKeeps`: no step of any thread, whatever
closures it is in, touches the context or the hooks of the prompt's root. For
`WrittenBackOnce`, `ScreensApart` says that what a statement has handed over is in one place
at a time (on its way, on the screen, given back), named by the statement's number,
which `InOrder` makes unique; `Served` that it leaves the screen only to be given back, or into `replaced`,
where one is only if another program began while it had the screen.

`TypeOK` says of the line editor that no index goes astray, which the code asserts nowhere and
relies on everywhere, since every one of them indexes a slice. Each operation of the editor has a
lemma that it keeps a `Sound` editor sound, for any text and history; the places it goes to come
from runs of runes, which end by `Back` and `On`. In the shell, the invariant is `EditInv`. The
hard step is `history_delete`, which changes the history from the goroutine of a statement: it
brings `hindex` back, but not the place of a reverse search, and is safe only because no search is
on while a statement runs, and because no root but the prompt's has the hooks of the editor,
which only a running statement turns on (`HooksOK`, with `Turn`).

`TabKeepsText` rests on when the candidates of a Tab are gone: `Editing` says they are there only
if the last thing the editor heard is a Tab, a paste or a search; with none left, a Tab either does
nothing or puts the common prefix of what begins with the fragment in its place (`TabCompletes`).
The attempt at this proof failed at first, at two steps: `exitSearch` does not drop the candidates, so an Enter that leaves a
search keeps them, and a Ctrl-C of a running statement reaches the evaluator and not the editor.
The property had counted both as keys the editor hears; TLC shows in six inputs (the scene `tabs`)
that it would not hold so. The inputs are now told apart by what the editor hears.

**EvaluatorProofs** and, for `Shell`, **ShellProofs** prove `PutBack`, for any programs, files, depths and jobs (of which
there are finitely many at a time, since they are counted). `PutBack` compares fields of the roots
with the frames on all the stacks, and a step changes both; the invariant `Kept` says why they stay together.
`Balanced`: the depth and the source depth of every root are the numbers of `call` and `source` frames for it,
counted in all threads, by their heights from the bottom, which nothing above them changes. `NsOK`: the lowest open `in_ns` block
has put aside the shell's own namespace, and one thread at most has such blocks; so what closes the last of them, or unwinds
past several, top first, ends with the shell's own namespace, which is false once the blocks of two threads
have been open together (`mixed`). `Handled`: whoever is the handler of a root is waiting for a process, at home in that root, so that
the step that ends the wait is the one that clears it. `Shapes` is
what a step needs to know of the frames beneath it: below a block's frame is the scope of a program or of a call, every function and every frame
names a root in use, and a frame that unwinding passes undoes its own root. `Stepped` is what a step of one thread does, and has a lemma for each
kind of node and of frame: it opens one frame, closes the one on top, or unwinds. A job begins on an empty stack, since
a root that is free has none (`JobsOK`); the prompt's thread has one only while the goroutine evaluates (`PromptOK`, from `Turn`).

**FileProofs.** `OnlyEditsWrittenBack`, for any tree, calls, binds and failures. The calls a
checkout has still to make first only read (`Reads`), with `run` last; `Run` says once which
files are changed, and from then on each call writes one of those, or is a `back`, which
passes over a file that is in the snapshot as it is in the scratch copy (`Writes`). Nothing is
asked of the tree, so the other actors may do anything to it. It needs that the names are
finitely many, because a directory is listed as a sequence.

`TypeOK` says, of the tree, that every entry lies in a directory. Three operations change the
tree, with a lemma each: an entry is put where there is a directory (`PutKeeps`), one is cut
that has nothing beneath it (`CutKeeps`), and a rename moves all that lies beneath (`MoveKeeps`),
which is the hard one: an entry of the moved part must find its directory moved along, and no
other entry may have had it as its directory. All of it goes through `Walk`: what the bind makes of a
path one entry longer is the same place one entry longer, or the bind's target (`WalkEntry`).

**FileCallProofs.** `NothingLost` and `WholeEffect`, for any tree, bind, failures and other actors, outside
`Aliased`, and for `WholeEffect` also outside `Unnoticed`. Both are far from inductive, since they say nothing of the tasks that are left; what those
say of the tree has to be found for each kind of call. All of it is about the actors whose paths no other has `meddled` with.

`Moves` says that every `mv` or `cp` is in one of seven phases, told by its tasks: refusing, renaming, filing
(one file), copying (a directory, entry by entry), holding one file in hand between its read and its put, removing the
source, or over. In all but removing the source is as it was found, wholly (`Intact`); in removing, everything
has arrived (`Brought`). Between them `Copying` carries, for every node of the source, that
it has arrived, or that some task left waits for it: a listing hands what waits for the directory on
to its entries, in whatever order. The copy writes neither to the source nor to what has arrived,
because source and destination are `Apart`, which is what the lexical check and the exception of
`Aliased` amount to. That gives `NothingLost`; and a call that is over without an error has `Transferred` everything,
which is the part of `WholeEffect` about `mv` and `cp`.

`Stages` says as much of every other call. A removal or a `mkdir` ends with the task about the
path it was given, whatever comes before it (`Closing`): so when none is left, that one has been done. A write, an
append and the calls that only look have scripts of at most three calls (`Filling`, `Appending`, `Looking`). `find` has
found each descendant, or still has to list a directory above it (`Finding`). A checkout
has copied only what is there (`CheckingOut`); once the closure has run, each file is as the closure left it if it
is edited and no longer waits, the one in hand apart, and otherwise as it was (`WritingBack`). With no task left
each of these is the call's promise (`Done`), and `PromiseOf` says so in the words of `FileOps`. Only the
last own step of a call can make it return, because a step that says "ok" has no task left (`Becomes`).

**AttachProofs.** What was typed is in three parts: handled, in the chunk, and still in the terminal.
While the session goes on, decoding the handled part gives what was sent and leaves no half of a
Ctrl-] (`Handled`): so a chunk is never left between the halves of a pair, and the two halves of
one that is cut are what detaches. That decoding longer input begins with the decoding of the
shorter (`SentBeginsMeant`) gives `SentIsMeant`; `NothingHeldBack` is `Handled` with an empty chunk.

Only model-checked: everything with `~>` (`ReadReturns`, `EventuallyRecorded`, `ExitEnds`,
`KillEnds`, `ReturnsUnlessUnread`, `ResultShown`, `CancelledEnds`, `SessionEnds`, `ChangeArrives`), because liveness under
fairness is out of the prover's reach; and `RoundTrip` and `Explained`, because the parser, the writer and the
comparison of values are RECURSIVE operators, of which the prover can say nothing.

## Not modelled

- `remote`: TLS, trust on first use and permissions live in libraries outside the
  repository; what is here is file formats, flags and system calls.
- `nsfs`, `hostpath.go`, `pathresolve`: one system call per operation.
- The job table (`Manager`), priorities; the record of a job proxied
  from another host; `runExternalDirect`, used when nothing serves `/jobs`.
- The bind log, unions and `which_bind`, which only report; the queries of recorded history.
- The terminal emulator that shows an attached job inside the interactive shell (package tui), and the
  output of a job that goes on being copied after its session has ended.
- Text, time, path and process builtins, `avg`, `round`, `join`; string interpolation; comparing or
  printing a job record (it reads `wait`, and blocks).
- Drawing, scrolling and selection; the formats of configuration files and history.

What would come next, in order: the job table with pid reuse, the bind log against the mount table.

The libraries 9p, 9auth, tui and the program 9vcs are modelled only as their callers use
them, marked `external`.
