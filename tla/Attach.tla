-------------------------------- MODULE Attach --------------------------------
(***************************************************************************)
(* attach(job) in the line mode: the terminal in raw mode, the loop that   *)
(* forwards what is typed to the pty of the job until Ctrl-] is typed, and *)
(* the goroutine that makes the size of the job's terminal follow.         *)
(*                                                                         *)
(* A read of the terminal returns what has been typed since the last one,  *)
(* so how the keys fall into chunks is a matter of time; forwardChunk sees *)
(* one chunk at a time.  The job's output goes its own way (GrowBuf).      *)
(*                                                                         *)
(* The kernel's pty (package tui) is modelled by what is relied on here:   *)
(* a write to the master blocks while Room bytes are unread, fails once    *)
(* the master is closed, and may do either between the exit of the process *)
(* and that; a watcher tells of the changes of size since it was made.     *)
(***************************************************************************)
EXTENDS Naturals, SequencesExt

CONSTANTS
  MaxTyped,   (* bound: keys typed                                          *)
  BufSize,    (* of the loop's buffer                                       *)
  Room,       (* of the line discipline                                     *)
  MaxSize     (* bound: changes of the window's size                        *)

ASSUME AttachAssumption ==
  /\ MaxTyped \in Nat /\ MaxSize \in Nat
  /\ BufSize \in Nat \ {0} /\ Room \in Nat \ {0}

DetachByte == "^]"
Keys == {"x", DetachByte}

VARIABLES
  typed,      (* every key typed while attached                             *)
  tty,        (* those not read yet                                         *)
  eof,        (* the terminal is gone                                       *)
  loop,       (* biAttach: "size", "resize", "watch", the loop's "read", or *)
              (* how it ended: "detached", "gone", "closed"                 *)
  chunk,      (* what forwardChunk has left to forward                      *)
  sent,       (* what the job's terminal was given                          *)
  unread,     (* how much of it the job has not read                        *)
  job,        (* "running", "exited" (its master still open), "closed"      *)
  size,       (* of the window: how often it has changed                    *)
  got,        (* the size biAttach has read                                 *)
  changed,    (* the watcher has a change to tell                           *)
  resizer,    (* the size its goroutine is about to set, or NoSize          *)
  jobSize     (* of the job's terminal                                      *)

keyVars  == <<typed, tty, eof, chunk, sent, unread>>
sizeVars == <<size, got, changed, resizer, jobSize>>
vars     == <<keyVars, loop, job, sizeVars>>

NoSize == MaxSize + 1

Ended == loop \in {"detached", "gone", "closed"}

Init ==
  /\ typed = <<>> /\ tty = <<>> /\ eof = FALSE
  /\ loop = "size" /\ chunk = <<>> /\ sent = <<>> /\ unread = 0 /\ job = "running"
  /\ size = 0 /\ got = 0 /\ changed = FALSE /\ resizer = NoSize /\ jobSize = NoSize

-----------------------------------------------------------------------------
(* The user, the window and the job.                                       *)

Type ==
  /\ ~Ended /\ ~eof /\ Len(typed) < MaxTyped
  /\ \E k \in Keys : typed' = Append(typed, k) /\ tty' = Append(tty, k)
  /\ UNCHANGED <<eof, chunk, sent, unread, loop, job, sizeVars>>

HangUp ==
  /\ ~Ended /\ ~eof /\ eof' = TRUE
  /\ UNCHANGED <<typed, tty, chunk, sent, unread, loop, job, sizeVars>>

WindowChanges ==
  /\ size < MaxSize /\ size' = size + 1
  /\ changed' = (changed \/ loop = "read")
  /\ UNCHANGED <<keyVars, loop, job, got, resizer, jobSize>>

JobReads ==
  /\ job = "running" /\ unread > 0 /\ unread' \in 0 .. unread - 1
  /\ UNCHANGED <<typed, tty, eof, chunk, sent, loop, job, sizeVars>>

JobEnds ==
  /\ \/ job = "running" /\ job' = "exited"
     \/ job = "exited" /\ job' = "closed"
  /\ UNCHANGED <<keyVars, loop, sizeVars>>

-----------------------------------------------------------------------------
(* biAttach sets the size, then makes the watcher, then runs the loop.     *)

ReadSize ==
  /\ loop = "size" /\ loop' = "resize" /\ got' = size
  /\ UNCHANGED <<keyVars, job, size, changed, resizer, jobSize>>

\* `resize` of a job whose master is closed fails, and nobody minds.
SetsSize(s) == jobSize' = IF job = "closed" THEN jobSize ELSE s

SetSize ==
  /\ loop = "resize" /\ loop' = "watch" /\ SetsSize(got)
  /\ UNCHANGED <<keyVars, job, size, got, changed, resizer>>

Watch ==
  /\ loop = "watch" /\ loop' = "read"
  /\ UNCHANGED <<keyVars, job, sizeVars>>

\* Mutant: the goroutine sets the size it was attached with.
ResizerWakesStale ==
  /\ resizer = NoSize /\ changed /\ ~Ended
  /\ changed' = FALSE /\ resizer' = got
  /\ UNCHANGED <<keyVars, loop, job, size, got, jobSize>>

\* The goroutine of the watcher, until biAttach returns.
ResizerWakes ==
  /\ resizer = NoSize /\ changed /\ ~Ended
  /\ changed' = FALSE /\ resizer' = size
  /\ UNCHANGED <<keyVars, loop, job, size, got, jobSize>>

ResizerSets ==
  /\ resizer # NoSize /\ resizer' = NoSize /\ SetsSize(resizer)
  /\ UNCHANGED <<keyVars, loop, job, size, got, changed>>

-----------------------------------------------------------------------------
(* attachCopyLoop and forwardChunk.                                        *)

Reading == loop = "read" /\ chunk = <<>>

Read ==
  /\ Reading /\ tty # <<>>
  /\ LET n == IF Len(tty) < BufSize THEN Len(tty) ELSE BufSize IN
     chunk' = SubSeq(tty, 1, n) /\ tty' = SubSeq(tty, n + 1, Len(tty))
  /\ UNCHANGED <<typed, eof, sent, unread, loop, job, sizeVars>>

InputEnds ==
  /\ Reading /\ tty = <<>> /\ eof /\ loop' = "closed"
  /\ UNCHANGED <<keyVars, job, sizeVars>>

\* Mutant: a write that fails is passed over.
WritesOn(k, rest) ==
  /\ chunk' = rest
  /\ \/ job # "closed" /\ unread < Room /\ sent' = Append(sent, k) /\ unread' = unread + 1
     \/ job # "running" /\ UNCHANGED <<sent, unread>>
  /\ UNCHANGED loop

\* The job gets k, or is gone, and with it the session.
Writes(k, rest) ==
  \/ /\ job # "closed" /\ unread < Room
     /\ sent' = Append(sent, k) /\ unread' = unread + 1 /\ chunk' = rest /\ UNCHANGED loop
  \/ job # "running" /\ loop' = "gone" /\ chunk' = <<>> /\ UNCHANGED <<sent, unread>>

\* Text up to the next Ctrl-] is one write of the code; the kernel takes it byte by byte.
ForwardText ==
  /\ loop = "read" /\ chunk # <<>> /\ Head(chunk) # DetachByte
  /\ Writes(Head(chunk), Tail(chunk))
  /\ UNCHANGED <<typed, tty, eof, job, sizeVars>>

Doubled == Len(chunk) > 1 /\ chunk[2] = DetachByte

\* Mutant: what follows a doubled Ctrl-] in the chunk is left out.
ForwardEscapeOnly ==
  /\ loop = "read" /\ chunk # <<>> /\ Head(chunk) = DetachByte /\ Doubled
  /\ Writes(DetachByte, <<>>)
  /\ UNCHANGED <<typed, tty, eof, job, sizeVars>>

ForwardEscape ==
  /\ loop = "read" /\ chunk # <<>> /\ Head(chunk) = DetachByte /\ Doubled
  /\ Writes(DetachByte, Tail(Tail(chunk)))
  /\ UNCHANGED <<typed, tty, eof, job, sizeVars>>

\* Mutant: the rest of the chunk is forwarded before the session ends.
DetachLate ==
  /\ loop = "read" /\ chunk # <<>> /\ Head(chunk) = DetachByte /\ ~Doubled
  /\ loop' = "detached" /\ chunk' = <<>> /\ sent' = sent \o Tail(chunk)
  /\ UNCHANGED <<typed, tty, eof, unread, job, sizeVars>>

\* Mutant: a Ctrl-] at the end of a chunk waits there for what comes next.
DetachWaits ==
  /\ loop = "read" /\ Len(chunk) > 1 /\ Head(chunk) = DetachByte /\ ~Doubled
  /\ loop' = "detached" /\ chunk' = <<>>
  /\ UNCHANGED <<typed, tty, eof, sent, unread, job, sizeVars>>

\* A lone Ctrl-]: what was typed after it is dropped.
Detach ==
  /\ loop = "read" /\ chunk # <<>> /\ Head(chunk) = DetachByte /\ ~Doubled
  /\ loop' = "detached" /\ chunk' = <<>>
  /\ UNCHANGED <<typed, tty, eof, sent, unread, job, sizeVars>>

Forward == ForwardText \/ ForwardEscape \/ Detach

Next ==
  \/ Type \/ HangUp \/ WindowChanges \/ JobReads \/ JobEnds
  \/ ReadSize \/ SetSize \/ Watch \/ ResizerWakes \/ ResizerSets
  \/ Read \/ InputEnds \/ ForwardText \/ ForwardEscape \/ Detach

\* The two goroutines go on.  Nothing is said of the user, nor of the job.
Fairness ==
  /\ WF_vars(ReadSize \/ SetSize \/ Watch \/ Read \/ InputEnds \/ Forward)
  /\ WF_vars(ResizerWakes \/ ResizerSets)

Spec == Init /\ [][Next]_vars /\ Fairness

-----------------------------------------------------------------------------
(* What is typed means, however it falls into chunks: a doubled Ctrl-] is  *)
(* the byte itself, a lone one the end.                                    *)

Decode(d, k) ==
  IF d.end THEN d
  ELSE IF d.half /\ k = DetachByte THEN [d EXCEPT !.half = FALSE, !.out = Append(@, k)]
  ELSE IF d.half THEN [d EXCEPT !.end = TRUE]
  ELSE IF k = DetachByte THEN [d EXCEPT !.half = TRUE]
  ELSE [d EXCEPT !.out = Append(@, k)]

Undecoded == [out |-> <<>>, half |-> FALSE, end |-> FALSE]

\* After each number of keys of s, from none to all.
Decoded(s) ==
  LET after[i \in 0 .. Len(s)] == IF i = 0 THEN Undecoded ELSE Decode(after[i - 1], s[i])
  IN after

Meant == Decoded(typed)[Len(typed)]

\* The job is given nothing but what is typed for it, in order, and nothing that was
\* typed after the Ctrl-] that ends the session.
SentIsMeant == IsPrefix(sent, Meant.out)

\* When the loop waits for a key, all that was typed has come to the job, and there is no
\* Ctrl-] the user still waits for.
NothingHeldBack ==
  Reading /\ tty = <<>> => sent = Meant.out /\ ~Meant.half /\ ~Meant.end

\* The job's terminal is full, and it does not read.
Full == unread = Room /\ job # "closed"

\* A Ctrl-] has been typed and nothing behind it, or something that does not double it.
Lone == Meant.half \/ Meant.end

\* attach returns once Ctrl-] has been typed (and no second one, which makes it a key like
\* others), the terminal is gone, or something is typed for a job that is gone, unless the
\* job never again reads what it was given.
SessionEnds ==
  \/ /\ Lone ~> Ended \/ ~Lone
     /\ (eof \/ (job = "closed" /\ tty # <<>>)) ~> Ended
  \/ <>[]Full

\* A change of the window while the loop runs reaches the job, however many come at once.
ChangeArrives == (loop = "read" /\ changed) ~> (jobSize = size \/ Ended \/ job # "running")
=============================================================================
