------------------------------- MODULE GrowBuf -------------------------------
(***************************************************************************)
(* The growBuf of package job: an append-only buffer that writers extend   *)
(* and close, and that readers follow, each at its own offset, blocking on *)
(* a condition variable.  A Read may be cancelled through its context,     *)
(* which a watcher goroutine of its own turns into a Broadcast.            *)
(*                                                                         *)
(* Write and Close hold the mutex for their whole body and are one action. *)
(* Read holds it too, except inside cond.Wait; its body is split where the *)
(* watcher, which takes no lock, can come in: after the check of ctx.Err   *)
(* and before cond.Wait enlists the reader.  A reader repeats Read at its  *)
(* new offset, as readAllFile does, until it is told of the end or chooses *)
(* to stop.  The text itself is left out: only its length is kept.         *)
(***************************************************************************)
EXTENDS Integers, FiniteSets

CONSTANTS
  Readers,      (* goroutines that read                                     *)
  MaxLen,       (* bound: how long the text grows                           *)
  MaxReads      (* bound: Read calls each reader makes                      *)

ASSUME GrowBufAssumption == MaxLen \in Nat /\ MaxReads \in Nat

Free == "free"

ASSUME FreeAssumption == Free \notin Readers

VARIABLES
  len, closed,  (* the buffer: len(data), closed                            *)
  mu,           (* who holds the mutex across a step: a reader, or Free     *)
  waiting,      (* the readers cond has enlisted                            *)
  pc,           (* the next step of each reader                             *)
  offset,       (* the offset each reader reads from                        *)
  ended,        (* the readers told io.EOF                                  *)
  ctxDone,      (* whether the context of a reader's Read is cancelled      *)
  watcher,      (* the watcher goroutine of a reader's present loop turn    *)
  strays,       (* watchers of earlier turns that saw both channels ready   *)
  reads         (* Read calls made                                          *)

vars == <<len, closed, mu, waiting, pc, offset, ended, ctxDone, watcher, strays, reads>>
bufVars  == <<len, closed>>
callVars == <<offset, ended, ctxDone, reads>>

\* Every enlisted reader is woken.
Broadcast == waiting' = {}

Init ==
  /\ len = 0 /\ closed = FALSE
  /\ mu = Free /\ waiting = {}
  /\ pc = [r \in Readers |-> "idle"]
  /\ offset = [r \in Readers |-> 0]
  /\ ended = [r \in Readers |-> FALSE]
  /\ ctxDone = [r \in Readers |-> FALSE]
  /\ watcher = [r \in Readers |-> "off"]
  /\ strays = 0
  /\ reads = [r \in Readers |-> 0]

-----------------------------------------------------------------------------
(* Writers: whoever holds the buffer's other end, any number of them.      *)

\* Mutant: the write does not look at closed.
WriteUnchecked ==
  /\ mu = Free
  /\ len < MaxLen
  /\ len' = len + 1
  /\ Broadcast
  /\ UNCHANGED <<closed, mu, pc, watcher, strays, callVars>>

\* Mutant: Signal where Broadcast is needed.
WriteSignals ==
  /\ mu = Free /\ ~closed
  /\ len < MaxLen
  /\ len' = len + 1
  /\ IF waiting = {} THEN UNCHANGED waiting ELSE \E r \in waiting : waiting' = waiting \ {r}
  /\ UNCHANGED <<closed, mu, pc, watcher, strays, callVars>>

\* A write to a closed buffer is refused, and changes nothing.
Write ==
  /\ mu = Free /\ ~closed
  /\ len < MaxLen
  /\ len' = len + 1
  /\ Broadcast
  /\ UNCHANGED <<closed, mu, pc, watcher, strays, callVars>>

\* Mutant: the close wakes nobody.
CloseQuietly ==
  /\ mu = Free /\ ~closed
  /\ closed' = TRUE
  /\ UNCHANGED <<len, mu, waiting, pc, watcher, strays, callVars>>

Close ==
  /\ mu = Free /\ ~closed
  /\ closed' = TRUE
  /\ Broadcast
  /\ UNCHANGED <<len, mu, pc, watcher, strays, callVars>>

-----------------------------------------------------------------------------
(* Read                                                                    *)

\* A new call, with a context of its own, waits for the mutex.
Call(r) ==
  /\ pc[r] = "idle" /\ ~ended[r]
  /\ reads[r] < MaxReads /\ reads' = [reads EXCEPT ![r] = @ + 1]
  /\ pc' = [pc EXCEPT ![r] = "lock"]
  /\ ctxDone' = [ctxDone EXCEPT ![r] = FALSE]
  /\ UNCHANGED <<bufVars, mu, waiting, offset, ended, watcher, strays>>

\* The call returns, and with it the mutex is free.
Return(r) ==
  /\ pc' = [pc EXCEPT ![r] = "idle"]
  /\ UNCHANGED <<bufVars, mu, waiting, ctxDone, watcher, strays, reads>>

\* There is text past the offset: some of it is returned.
ReadText(r) ==
  /\ pc[r] = "lock" /\ mu = Free
  /\ offset[r] < len
  /\ \E n \in offset[r] + 1 .. len : offset' = [offset EXCEPT ![r] = n]
  /\ Return(r)
  /\ UNCHANGED ended

\* Mutant: the end is told before the text is.
ReadEndAtOnce(r) ==
  /\ pc[r] = "lock" /\ mu = Free
  /\ closed
  /\ ended' = [ended EXCEPT ![r] = TRUE]
  /\ Return(r)
  /\ UNCHANGED offset

\* Mutant: a reader at the end is handed the offset -1.
ReadEndMinusOne(r) ==
  /\ pc[r] = "lock" /\ mu = Free
  /\ offset[r] >= len /\ closed
  /\ ended' = [ended EXCEPT ![r] = TRUE]
  /\ Return(r)
  /\ offset' = [offset EXCEPT ![r] = -1]

ReadEnd(r) ==
  /\ pc[r] = "lock" /\ mu = Free
  /\ offset[r] >= len /\ closed
  /\ ended' = [ended EXCEPT ![r] = TRUE]
  /\ Return(r)
  /\ UNCHANGED offset

ReadCancelled(r) ==
  /\ pc[r] = "lock" /\ mu = Free
  /\ offset[r] >= len /\ ~closed /\ ctxDone[r]
  /\ Return(r)
  /\ UNCHANGED <<offset, ended>>

\* Nothing yet: the watcher is started, with the mutex still held.
StartWatcher(r) ==
  /\ pc[r] = "lock" /\ mu = Free
  /\ offset[r] >= len /\ ~closed /\ ~ctxDone[r]
  /\ pc' = [pc EXCEPT ![r] = "watched"]
  /\ mu' = r
  /\ watcher' = [watcher EXCEPT ![r] = "select"]
  /\ UNCHANGED <<bufVars, waiting, strays, callVars>>

\* cond.Wait enlists the reader and gives the mutex up.
Wait(r) ==
  /\ pc[r] = "watched"
  /\ pc' = [pc EXCEPT ![r] = "wait"]
  /\ waiting' = waiting \cup {r}
  /\ mu' = Free
  /\ UNCHANGED <<bufVars, watcher, strays, callVars>>

\* Woken, it takes the mutex, closes woken (the watcher leaves, or is one that
\* has seen both channels ready) and goes round the loop.
Woken(r) ==
  /\ pc[r] = "wait" /\ r \notin waiting /\ mu = Free
  /\ pc' = [pc EXCEPT ![r] = "lock"]
  /\ watcher' = [watcher EXCEPT ![r] = "off"]
  /\ strays' = IF watcher[r] = "select" /\ ctxDone[r] THEN strays + 1 ELSE strays
  /\ UNCHANGED <<bufVars, mu, waiting, callVars>>

-----------------------------------------------------------------------------
(* Cancellation: a Tflush cancels the context of a Read in progress, and   *)
(* its watcher broadcasts without taking the mutex.                        *)

Flush(r) ==
  /\ pc[r] # "idle" /\ ~ctxDone[r]
  /\ ctxDone' = [ctxDone EXCEPT ![r] = TRUE]
  /\ UNCHANGED <<bufVars, mu, waiting, pc, offset, ended, watcher, strays, reads>>

WatcherBroadcasts(r) ==
  /\ watcher[r] = "select" /\ ctxDone[r]
  /\ watcher' = [watcher EXCEPT ![r] = "off"]
  /\ Broadcast
  /\ UNCHANGED <<bufVars, mu, pc, strays, callVars>>

\* A watcher of an earlier turn picks either channel.
StrayLeaves ==
  /\ strays > 0 /\ strays' = strays - 1
  /\ \/ Broadcast
     \/ UNCHANGED waiting
  /\ UNCHANGED <<bufVars, mu, pc, watcher, callVars>>

-----------------------------------------------------------------------------

ReadStep(r) ==
  \/ ReadText(r) \/ ReadEnd(r) \/ ReadCancelled(r) \/ StartWatcher(r) \/ Wait(r) \/ Woken(r)

Next ==
  \/ Write \/ Close
  \/ \E r \in Readers : Call(r) \/ ReadStep(r) \/ Flush(r) \/ WatcherBroadcasts(r)
  \/ StrayLeaves

Spec == Init /\ [][Next]_vars

\* A Read in progress is scheduled, and so is its watcher.  The mutex is taken in
\* turn (strong fairness): Go's mutex hands it to a starving goroutine.
Fairness ==
  /\ \A r \in Readers : SF_vars(ReadStep(r)) /\ WF_vars(WatcherBroadcasts(r))

FairSpec == Spec /\ Fairness

-----------------------------------------------------------------------------

\* Every variable stays in its range.
TypeOK ==
  /\ len \in Nat /\ closed \in BOOLEAN
  /\ mu \in Readers \cup {Free} /\ waiting \subseteq Readers
  /\ pc \in [Readers -> {"idle", "lock", "watched", "wait"}]
  /\ offset \in [Readers -> Nat] /\ ended \in [Readers -> BOOLEAN]
  /\ ctxDone \in [Readers -> BOOLEAN]
  /\ watcher \in [Readers -> {"off", "select"}]
  /\ strays \in Nat /\ reads \in [Readers -> Nat]

\* A reader asleep on the condition variable has nothing to be woken for: no
\* write and no close is ever missed.
NoMissedWakeup ==
  \A r \in Readers :
    pc[r] = "wait" /\ r \in waiting => offset[r] >= len /\ ~closed

\* A reader told of the end has read everything, and nothing comes after it.
EndIsTheEnd ==
  \A r \in Readers : ended[r] => closed /\ offset[r] = len

\* Readers see one growing text, each to its end: the buffer is a Tail.
Promise == INSTANCE Tail WITH length <- len, shut <- closed, seen <- offset, over <- ended
ImplementsTail == Promise!TailSpec

\* A Read with text ahead of it, or on a closed buffer, returns.
ReadReturns ==
  \A r \in Readers :
    pc[r] # "idle" /\ (closed \/ offset[r] < len) ~> pc[r] = "idle"

\* A Read whose context is cancelled returns: "it honors ctx cancellation".
CancelledReadReturns ==
  \A r \in Readers : pc[r] # "idle" /\ ctxDone[r] ~> pc[r] = "idle"

=============================================================================
