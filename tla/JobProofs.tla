------------------------------ MODULE JobProofs ------------------------------
(***************************************************************************)
(* Theorems about Job: its type invariant, that a job ends once, that its  *)
(* end is reported only when no process of it is left, that what wait and  *)
(* the record show is final unless overwritten, that its steps are those   *)
(* of JobLife, and what it leaves to be read: its stdout, its events and   *)
(* its state.                                                              *)
(*                                                                         *)
(* The argument is that a job has at most one owner: the thread between    *)
(* ctl start (or a kill of a pending job) and OnFinish, first a client and *)
(* then, when Spawn or StartEvent hands the job over, Runner.  The label   *)
(* of the owner says how far the job has come, and when a job that is not  *)
(* pending has no owner any more it has ended for good.                    *)
(*                                                                         *)
(* Then theorems about ExternalCmd: whatever the shell and the other       *)
(* clients do to the job is what Job allows, so that its theorems carry    *)
(* over; and the value of a foreground command is what its documentation   *)
(* promises.  Once the shell's start has been accepted, a job without a    *)
(* process can only have failed (Launched, RunFits); so a status that is   *)
(* not failed, read when waitCh is closed, is that of a process which ran  *)
(* and has been reaped, and stdout is closed with all of it in.            *)
(***************************************************************************)
EXTENDS ExternalCmd, TLAPS

StartLabels  == {"runSnap", "runAppend", "launch", "setProc", "procSnap", "procAppend"}
RunnerLabels == {"body", "reap", "collect", "drain", "classify"}
OwnerLabels  == StartLabels \cup RunnerLabels \cup {"finish"} \cup EndLabels

Owns(t) == pc[t] \in OwnerLabels

\* What stop, resume and finish are about to store in state.
ValuesFit ==
  /\ \A c \in Clients : pc[c] = "setWant" => want[c] # "none"
  /\ \A t \in Threads : pc[t] = "finish" => outcome # "none"

TypeInv == TypeOK /\ ValuesFit

\* Runner runs only what start() left it; a client never does.
LabelsFit ==
  /\ pc[Runner] \in RunnerLabels \cup {"finish"} \cup EndLabels \cup {"idle"}
  /\ \A c \in Clients : pc[c] \notin RunnerLabels

OneOwner == \A t, u \in Threads : Owns(t) /\ Owns(u) => t = u

\* A pending job has never been started: nobody owns it or signals it.
PendingIsFresh ==
  state = "pending" =>
    /\ \A t \in Threads : ~Owns(t) /\ pc[t] \notin {"deliver", "setWant"}
    /\ waitCh = 0 /\ recorded = <<>> /\ process = "none"

\* What the label of the owner says of the job.
Progress(t) ==
  /\ pc[t] \in StartLabels \cup RunnerLabels \cup {"finish", "closeWait"} => waitCh = 0
  /\ pc[t] \in EndLabels \ {"closeWait"} => waitCh = 1
  /\ Owns(t) => recorded = <<>>
  /\ pc[t] \in StartLabels \cup RunnerLabels \cup {"finish"} => ~Terminal(state)
  /\ pc[t] \in {"closeEvents", "notify"} => outClosed
  /\ pc[t] = "notify" => eventsClosed

\* ...and of its process.
ProcessFits(t) ==
  /\ pc[t] \in {"runSnap", "runAppend", "launch", "body"} => process = "none"
  /\ pc[t] \in {"setProc", "procSnap", "procAppend", "reap"} => process \in {"running", "stopped", "zombie"}
  /\ pc[t] \in {"collect", "drain", "classify"} => process = "reaped"
  /\ pc[t] \in {"finish"} \cup EndLabels => process \in {"none", "reaped"}

\* A job that was started, or killed, and has no owner has ended.
UnownedIsOver ==
  state # "pending" /\ (\A t \in Threads : ~Owns(t)) =>
    /\ waitCh = 1 /\ Len(recorded) = 1 /\ outClosed /\ eventsClosed
    /\ process \in {"none", "reaped"}

\* The state of a job that is over is final, and so is what was seen of it, unless
\* stop or resume stored over it.
EndedIsFinal ==
  /\ waitCh > 0 \/ (\E t \in Threads : pc[t] = "closeWait") => Terminal(state) \/ overwritten
  /\ \A t \in Threads : pc[t] = "waitStatus" => waitCh > 0
  /\ \A s \in waited : Terminal(s) \/ overwritten
  /\ \A i \in DOMAIN recorded : Terminal(recorded[i]) \/ overwritten

OwnerInv ==
  /\ LabelsFit /\ OneOwner /\ PendingIsFresh
  /\ \A t \in Threads : Progress(t) /\ ProcessFits(t)
  /\ UnownedIsOver

Inv == TypeInv /\ OwnerInv /\ EndedIsFinal

-----------------------------------------------------------------------------

LEMMA TypeInvInductive ==
  /\ Init => TypeInv
  /\ TypeInv /\ [Next]_vars => TypeInv'
<1>1. Init => TypeInv
  <2>. SUFFICES ASSUME Init PROVE TypeInv
    OBVIOUS
  <2>1. /\ usePty \in BOOLEAN /\ argv \in BOOLEAN /\ killed \in BOOLEAN /\ proc \in BOOLEAN
        /\ outClosed \in BOOLEAN /\ eventsClosed \in BOOLEAN /\ cancelled \in BOOLEAN
        /\ overwritten \in BOOLEAN
    BY Zenon DEF Init
  <2>. QED
    BY <2>1, JobAssumption DEF Init, TypeInv, TypeOK, ValuesFit, States, Labels, Wanted, Threads
<1>2. TypeInv /\ [Next]_vars => TypeInv'
  <2>. SUFFICES ASSUME TypeInv, [Next]_vars PROVE TypeInv'
    OBVIOUS
  <2>. USE DEF TypeInv, TypeOK, ValuesFit, States, Labels, Wanted, Threads, Step, At, Goto, Terminal,
            jobVars, doneVars, execVars, auxVars
  <2>1. ASSUME NEW c \in Clients, SetArgv(c) PROVE TypeInv'
    BY <2>1 DEF SetArgv
  <2>2. ASSUME NEW c \in Clients, SetPty(c) PROVE TypeInv'
    BY <2>2 DEF SetPty
  <2>3. ASSUME NEW c \in Clients, StartCmd(c) PROVE TypeInv'
    BY <2>3 DEF StartCmd
  <2>4. ASSUME NEW c \in Clients, KillPending(c) PROVE TypeInv'
    BY <2>4 DEF KillPending
  <2>5. ASSUME NEW c \in Clients, KillRunning(c) PROVE TypeInv'
    BY <2>5 DEF KillRunning
  <2>6. ASSUME NEW c \in Clients, Detach(c) PROVE TypeInv'
    BY <2>6 DEF Detach
  <2>7. ASSUME NEW c \in Clients, NEW w \in Wanted, SignalCmd(c, w) PROVE TypeInv'
    BY <2>7 DEF SignalCmd
  <2>8. ASSUME NEW c \in Clients, WriteStdin(c) PROVE TypeInv'
    BY <2>8 DEF WriteStdin
  <2>9. ASSUME NEW c \in Clients, WaitFor(c) PROVE TypeInv'
    BY <2>9 DEF WaitFor
  <2>10. ASSUME NEW c \in Clients, StartEvent(c) PROVE TypeInv'
    BY <2>10 DEF StartEvent, WriteEvent
  <2>11. ASSUME NEW c \in Clients, LaunchFails(c) PROVE TypeInv'
    BY <2>11 DEF LaunchFails
  <2>12. ASSUME NEW c \in Clients, Launch(c) PROVE TypeInv'
    BY <2>12 DEF Launch
  <2>13. ASSUME NEW c \in Clients, SetProc(c) PROVE TypeInv'
    BY <2>13 DEF SetProc
  <2>14. ASSUME NEW c \in Clients, Spawn(c) PROVE TypeInv'
    BY <2>14 DEF Spawn, WriteEvent
  <2>15. ASSUME NEW c \in Clients, AppendEvent(c) PROVE TypeInv'
    BY <2>15 DEF AppendEvent, WriteEvent
  <2>16. ASSUME NEW c \in Clients, Cancel(c) PROVE TypeInv'
    BY <2>16 DEF Cancel
  <2>17. ASSUME NEW c \in Clients, Deliver(c) PROVE TypeInv'
    BY <2>17 DEF Deliver, Alive
  <2>18. ASSUME NEW c \in Clients, SetWant(c) PROVE TypeInv'
    <3>1. overwritten' \in BOOLEAN
      BY <2>18, Zenon DEF SetWant
    <3>. QED
      BY <2>18, <3>1 DEF SetWant
  <2>19. ASSUME NEW c \in Clients, WriteTaken(c) PROVE TypeInv'
    BY <2>19 DEF WriteTaken, Alive
  <2>20. ASSUME NEW c \in Clients, WriteRefused(c) PROVE TypeInv'
    BY <2>20 DEF WriteRefused
  <2>21. ASSUME NEW c \in Clients, WaitStatus(c) PROVE TypeInv'
    BY <2>21 DEF WaitStatus
  <2>22. ASSUME NEW t \in Threads, SnapEvent(t) PROVE TypeInv'
    BY <2>22 DEF SnapEvent, AfterSnap
  <2>23. ASSUME NEW t \in Threads, Finish(t) PROVE TypeInv'
    BY <2>23 DEF Finish
  <2>24. ASSUME NEW t \in Threads, CloseWait(t) PROVE TypeInv'
    BY <2>24 DEF CloseWait
  <2>25. ASSUME NEW t \in Threads, EndEvent(t) PROVE TypeInv'
    BY <2>25 DEF EndEvent, WriteEvent
  <2>26. ASSUME NEW t \in Threads, CloseOut(t) PROVE TypeInv'
    BY <2>26 DEF CloseOut
  <2>27. ASSUME NEW t \in Threads, CloseEvents(t) PROVE TypeInv'
    BY <2>27 DEF CloseEvents
  <2>28. ASSUME NEW t \in Threads, Notify(t) PROVE TypeInv'
    BY <2>28 DEF Notify
  <2>29. CASE BodyWrites
    BY <2>29 DEF BodyWrites
  <2>30. CASE BodyReturns
    BY <2>30 DEF BodyReturns
  <2>31. CASE Reap
    BY <2>31 DEF Reap
  <2>32. CASE Collect
    BY <2>32 DEF Collect
  <2>33. CASE Drain
    BY <2>33 DEF Drain
  <2>34. CASE Classify
    BY <2>34 DEF Classify
  <2>35. CASE ProcWrites
    BY <2>35 DEF ProcWrites
  <2>36. CASE ProcExits
    BY <2>36 DEF ProcExits
  <2>37. CASE CopyOut
    BY <2>37 DEF CopyOut
  <2>38. CASE CopyOutEnds
    BY <2>38 DEF CopyOutEnds
  <2>39. CASE CopyStdinEnds
    BY <2>39 DEF CopyStdinEnds
  <2>40. CASE WatchCancels
    BY <2>40 DEF WatchCancels, Alive
  <2>41. CASE CloseStdin
    BY <2>41 DEF CloseStdin
  <2>42. CASE UNCHANGED vars
    BY <2>42 DEF vars
  <2>. QED
    BY <2>1, <2>2, <2>3, <2>4, <2>5, <2>6, <2>7, <2>8, <2>9, <2>10, <2>11, <2>12,
       <2>13, <2>14, <2>15, <2>16, <2>17, <2>18, <2>19, <2>20, <2>21, <2>22, <2>23, <2>24,
       <2>25, <2>26, <2>27, <2>28, <2>29, <2>30, <2>31, <2>32, <2>33, <2>34, <2>35, <2>36,
       <2>37, <2>38, <2>39, <2>40, <2>41, <2>42
    DEF Next, Command, Kill, Starting, Serving, Ending, Waiting, Copying
<1>. QED
  BY <1>1, <1>2

\* Every variable of the job stays in its range: no command stores a state that the
\* job does not have (the empty wantState of signal, an outcome nobody computed).
THEOREM TypeCorrect == Spec => []TypeOK
<1>1. TypeInv => TypeOK
  BY DEF TypeInv
<1>. QED
  BY <1>1, TypeInvInductive, PTL DEF Spec


-----------------------------------------------------------------------------

LEMMA OwnerInvInductive ==
  /\ Init => OwnerInv
  /\ TypeInv /\ OwnerInv /\ [Next]_vars => OwnerInv'
<1>. USE DEF OwnerInv, LabelsFit, OneOwner, PendingIsFresh, Progress, ProcessFits, UnownedIsOver, Owns,
            StartLabels, RunnerLabels, OwnerLabels, EndLabels, Terminal, Threads
<1>1. Init => OwnerInv
  BY JobAssumption DEF Init
<1>2. TypeInv /\ OwnerInv /\ [Next]_vars => OwnerInv'
  <2>. SUFFICES ASSUME TypeInv, OwnerInv, [Next]_vars PROVE OwnerInv'
    OBVIOUS
  <2>. USE JobAssumption DEF TypeInv, TypeOK, ValuesFit, States, Labels, Wanted, Step, At, Goto,
            jobVars, doneVars, execVars, auxVars
  <2>1. ASSUME NEW c \in Clients, SetArgv(c) PROVE OwnerInv'
    BY <2>1 DEF SetArgv
  <2>2. ASSUME NEW c \in Clients, SetPty(c) PROVE OwnerInv'
    BY <2>2 DEF SetPty
  <2>3. ASSUME NEW c \in Clients, StartCmd(c) PROVE OwnerInv'
    BY <2>3 DEF StartCmd
  <2>4. ASSUME NEW c \in Clients, KillPending(c) PROVE OwnerInv'
    BY <2>4 DEF KillPending
  <2>5. ASSUME NEW c \in Clients, KillRunning(c) PROVE OwnerInv'
    BY <2>5 DEF KillRunning
  <2>6. ASSUME NEW c \in Clients, Detach(c) PROVE OwnerInv'
    BY <2>6 DEF Detach
  <2>7. ASSUME NEW c \in Clients, NEW w \in Wanted, SignalCmd(c, w) PROVE OwnerInv'
    BY <2>7 DEF SignalCmd
  <2>8. ASSUME NEW c \in Clients, WriteStdin(c) PROVE OwnerInv'
    BY <2>8 DEF WriteStdin
  <2>9. ASSUME NEW c \in Clients, WaitFor(c) PROVE OwnerInv'
    BY <2>9 DEF WaitFor
  <2>10. ASSUME NEW c \in Clients, StartEvent(c) PROVE OwnerInv'
    BY <2>10 DEF StartEvent, WriteEvent
  <2>11. ASSUME NEW c \in Clients, LaunchFails(c) PROVE OwnerInv'
    BY <2>11 DEF LaunchFails
  <2>12. ASSUME NEW c \in Clients, Launch(c) PROVE OwnerInv'
    BY <2>12 DEF Launch
  <2>13. ASSUME NEW c \in Clients, SetProc(c) PROVE OwnerInv'
    BY <2>13 DEF SetProc
  <2>14. ASSUME NEW c \in Clients, Spawn(c) PROVE OwnerInv'
    BY <2>14 DEF Spawn, WriteEvent
  <2>15. ASSUME NEW c \in Clients, AppendEvent(c) PROVE OwnerInv'
    BY <2>15 DEF AppendEvent, WriteEvent
  <2>16. ASSUME NEW c \in Clients, Cancel(c) PROVE OwnerInv'
    BY <2>16 DEF Cancel
  <2>17. ASSUME NEW c \in Clients, Deliver(c) PROVE OwnerInv'
    BY <2>17 DEF Deliver, Alive
  <2>18. ASSUME NEW c \in Clients, SetWant(c) PROVE OwnerInv'
    BY <2>18 DEF SetWant
  <2>19. ASSUME NEW c \in Clients, WriteTaken(c) PROVE OwnerInv'
    BY <2>19 DEF WriteTaken, Alive
  <2>20. ASSUME NEW c \in Clients, WriteRefused(c) PROVE OwnerInv'
    BY <2>20 DEF WriteRefused
  <2>21. ASSUME NEW c \in Clients, WaitStatus(c) PROVE OwnerInv'
    BY <2>21 DEF WaitStatus
  <2>22. ASSUME NEW t \in Threads, SnapEvent(t) PROVE OwnerInv'
    BY <2>22, SMTT(30) DEF SnapEvent, AfterSnap
  <2>23. ASSUME NEW t \in Threads, Finish(t) PROVE OwnerInv'
    BY <2>23 DEF Finish
  <2>24. ASSUME NEW t \in Threads, CloseWait(t) PROVE OwnerInv'
    BY <2>24 DEF CloseWait
  <2>25. ASSUME NEW t \in Threads, EndEvent(t) PROVE OwnerInv'
    BY <2>25 DEF EndEvent, WriteEvent
  <2>26. ASSUME NEW t \in Threads, CloseOut(t) PROVE OwnerInv'
    BY <2>26 DEF CloseOut
  <2>27. ASSUME NEW t \in Threads, CloseEvents(t) PROVE OwnerInv'
    BY <2>27 DEF CloseEvents
  <2>28. ASSUME NEW t \in Threads, Notify(t) PROVE OwnerInv'
    BY <2>28 DEF Notify
  <2>29. CASE BodyWrites
    BY <2>29 DEF BodyWrites
  <2>30. CASE BodyReturns
    BY <2>30 DEF BodyReturns
  <2>31. CASE Reap
    BY <2>31 DEF Reap
  <2>32. CASE Collect
    BY <2>32 DEF Collect
  <2>33. CASE Drain
    BY <2>33 DEF Drain
  <2>34. CASE Classify
    BY <2>34 DEF Classify
  <2>35. CASE ProcWrites
    BY <2>35 DEF ProcWrites
  <2>36. CASE ProcExits
    BY <2>36 DEF ProcExits
  <2>37. CASE CopyOut
    BY <2>37 DEF CopyOut
  <2>38. CASE CopyOutEnds
    BY <2>38 DEF CopyOutEnds
  <2>39. CASE CopyStdinEnds
    BY <2>39 DEF CopyStdinEnds
  <2>40. CASE WatchCancels
    BY <2>40 DEF WatchCancels, Alive
  <2>41. CASE CloseStdin
    BY <2>41 DEF CloseStdin
  <2>42. CASE UNCHANGED vars
    BY <2>42 DEF vars
  <2>. HIDE DEF OwnerInv, TypeInv, Step, At, Goto
  <2>. QED
    BY <2>1, <2>2, <2>3, <2>4, <2>5, <2>6, <2>7, <2>8, <2>9, <2>10, <2>11, <2>12,
       <2>13, <2>14, <2>15, <2>16, <2>17, <2>18, <2>19, <2>20, <2>21, <2>22, <2>23, <2>24,
       <2>25, <2>26, <2>27, <2>28, <2>29, <2>30, <2>31, <2>32, <2>33, <2>34, <2>35, <2>36,
       <2>37, <2>38, <2>39, <2>40, <2>41, <2>42
    DEF Next, Command, Kill, Starting, Serving, Ending, Waiting, Copying
<1>. QED
  BY <1>1, <1>2

-----------------------------------------------------------------------------

LEMMA InvInductive ==
  /\ Init => Inv
  /\ Inv /\ [Next]_vars => Inv'
<1>1. Init => Inv
  BY TypeInvInductive, OwnerInvInductive, JobAssumption DEF Inv, EndedIsFinal, Init, Threads
<1>2. Inv /\ [Next]_vars => Inv'
  <2>. SUFFICES ASSUME Inv, [Next]_vars PROVE EndedIsFinal'
    BY TypeInvInductive, OwnerInvInductive DEF Inv
  <2>. USE JobAssumption DEF Inv, TypeInv, TypeOK, ValuesFit, OwnerInv, PendingIsFresh, Progress, Owns, OwnerLabels,
            StartLabels, RunnerLabels, EndLabels, EndedIsFinal, Terminal, Threads,
            States, Labels, Wanted, Step, At, Goto,
            jobVars, doneVars, execVars, auxVars
  <2>1. ASSUME NEW c \in Clients, SetArgv(c) PROVE EndedIsFinal'
    BY <2>1 DEF SetArgv
  <2>2. ASSUME NEW c \in Clients, SetPty(c) PROVE EndedIsFinal'
    BY <2>2 DEF SetPty
  <2>3. ASSUME NEW c \in Clients, StartCmd(c) PROVE EndedIsFinal'
    BY <2>3 DEF StartCmd
  <2>4. ASSUME NEW c \in Clients, KillPending(c) PROVE EndedIsFinal'
    BY <2>4 DEF KillPending
  <2>5. ASSUME NEW c \in Clients, KillRunning(c) PROVE EndedIsFinal'
    BY <2>5 DEF KillRunning
  <2>6. ASSUME NEW c \in Clients, Detach(c) PROVE EndedIsFinal'
    BY <2>6 DEF Detach
  <2>7. ASSUME NEW c \in Clients, NEW w \in Wanted, SignalCmd(c, w) PROVE EndedIsFinal'
    BY <2>7 DEF SignalCmd
  <2>8. ASSUME NEW c \in Clients, WriteStdin(c) PROVE EndedIsFinal'
    BY <2>8 DEF WriteStdin
  <2>9. ASSUME NEW c \in Clients, WaitFor(c) PROVE EndedIsFinal'
    BY <2>9 DEF WaitFor
  <2>10. ASSUME NEW c \in Clients, StartEvent(c) PROVE EndedIsFinal'
    BY <2>10 DEF StartEvent, WriteEvent
  <2>11. ASSUME NEW c \in Clients, LaunchFails(c) PROVE EndedIsFinal'
    BY <2>11 DEF LaunchFails
  <2>12. ASSUME NEW c \in Clients, Launch(c) PROVE EndedIsFinal'
    BY <2>12 DEF Launch
  <2>13. ASSUME NEW c \in Clients, SetProc(c) PROVE EndedIsFinal'
    BY <2>13 DEF SetProc
  <2>14. ASSUME NEW c \in Clients, Spawn(c) PROVE EndedIsFinal'
    BY <2>14 DEF Spawn, WriteEvent
  <2>15. ASSUME NEW c \in Clients, AppendEvent(c) PROVE EndedIsFinal'
    BY <2>15 DEF AppendEvent, WriteEvent
  <2>16. ASSUME NEW c \in Clients, Cancel(c) PROVE EndedIsFinal'
    BY <2>16 DEF Cancel
  <2>17. ASSUME NEW c \in Clients, Deliver(c) PROVE EndedIsFinal'
    BY <2>17 DEF Deliver, Alive
  <2>18. ASSUME NEW c \in Clients, SetWant(c) PROVE EndedIsFinal'
    BY <2>18 DEF SetWant
  <2>19. ASSUME NEW c \in Clients, WriteTaken(c) PROVE EndedIsFinal'
    BY <2>19 DEF WriteTaken, Alive
  <2>20. ASSUME NEW c \in Clients, WriteRefused(c) PROVE EndedIsFinal'
    BY <2>20 DEF WriteRefused
  <2>21. ASSUME NEW c \in Clients, WaitStatus(c) PROVE EndedIsFinal'
    BY <2>21 DEF WaitStatus
  <2>22. ASSUME NEW t \in Threads, SnapEvent(t) PROVE EndedIsFinal'
    BY <2>22 DEF SnapEvent, AfterSnap
  <2>23. ASSUME NEW t \in Threads, Finish(t) PROVE EndedIsFinal'
    BY <2>23 DEF Finish
  <2>24. ASSUME NEW t \in Threads, CloseWait(t) PROVE EndedIsFinal'
    BY <2>24 DEF CloseWait
  <2>25. ASSUME NEW t \in Threads, EndEvent(t) PROVE EndedIsFinal'
    BY <2>25 DEF EndEvent, WriteEvent
  <2>26. ASSUME NEW t \in Threads, CloseOut(t) PROVE EndedIsFinal'
    BY <2>26 DEF CloseOut
  <2>27. ASSUME NEW t \in Threads, CloseEvents(t) PROVE EndedIsFinal'
    BY <2>27 DEF CloseEvents
  <2>28. ASSUME NEW t \in Threads, Notify(t) PROVE EndedIsFinal'
    BY <2>28 DEF Notify
  <2>29. CASE BodyWrites
    BY <2>29 DEF BodyWrites
  <2>30. CASE BodyReturns
    BY <2>30 DEF BodyReturns
  <2>31. CASE Reap
    BY <2>31 DEF Reap
  <2>32. CASE Collect
    BY <2>32 DEF Collect
  <2>33. CASE Drain
    BY <2>33 DEF Drain
  <2>34. CASE Classify
    BY <2>34 DEF Classify
  <2>35. CASE ProcWrites
    BY <2>35 DEF ProcWrites
  <2>36. CASE ProcExits
    BY <2>36 DEF ProcExits
  <2>37. CASE CopyOut
    BY <2>37 DEF CopyOut
  <2>38. CASE CopyOutEnds
    BY <2>38 DEF CopyOutEnds
  <2>39. CASE CopyStdinEnds
    BY <2>39 DEF CopyStdinEnds
  <2>40. CASE WatchCancels
    BY <2>40 DEF WatchCancels, Alive
  <2>41. CASE CloseStdin
    BY <2>41 DEF CloseStdin
  <2>42. CASE UNCHANGED vars
    BY <2>42 DEF vars
  <2>. HIDE DEF Inv, EndedIsFinal, OwnerInv, TypeInv, Step, At, Goto
  <2>. QED
    BY <2>1, <2>2, <2>3, <2>4, <2>5, <2>6, <2>7, <2>8, <2>9, <2>10, <2>11, <2>12,
       <2>13, <2>14, <2>15, <2>16, <2>17, <2>18, <2>19, <2>20, <2>21, <2>22, <2>23, <2>24,
       <2>25, <2>26, <2>27, <2>28, <2>29, <2>30, <2>31, <2>32, <2>33, <2>34, <2>35, <2>36,
       <2>37, <2>38, <2>39, <2>40, <2>41, <2>42
    DEF Next, Command, Kill, Starting, Serving, Ending, Waiting, Copying
<1>. QED
  BY <1>1, <1>2

LEMMA InvAlways == Spec => []Inv
  BY InvInductive, PTL DEF Spec

\* waitCh is closed at most once, so no second close panics, and OnFinish is called at
\* most once and last: start, kill and the wait goroutine never both finish the job.
THEOREM JobEndsOnce == Spec => []EndsOnce
<1>1. Inv => EndsOnce
  <2>. SUFFICES ASSUME Inv PROVE EndsOnce
    OBVIOUS
  <2>1. CASE state = "pending"
    BY <2>1 DEF Inv, OwnerInv, PendingIsFresh, EndsOnce
  <2>2. CASE \E t \in Threads : Owns(t)
    BY <2>2 DEF Inv, OwnerInv, TypeInv, TypeOK, Progress, Owns, OwnerLabels, StartLabels,
                RunnerLabels, EndLabels, EndsOnce
  <2>3. CASE state # "pending" /\ \A t \in Threads : ~Owns(t)
    BY <2>3 DEF Inv, OwnerInv, UnownedIsOver, EndsOnce
  <2>. QED
    BY <2>1, <2>2, <2>3
<1>. QED
  BY <1>1, InvAlways, PTL

LEMMA InvLeavesNoProcess == Inv => NoLiveProcess
<1>. SUFFICES ASSUME Inv PROVE NoLiveProcess
  OBVIOUS
<1>1. CASE state = "pending"
  BY <1>1 DEF Inv, OwnerInv, PendingIsFresh, NoLiveProcess
<1>2. CASE \E t \in Threads : Owns(t)
  BY <1>2 DEF Inv, OwnerInv, TypeInv, TypeOK, Progress, ProcessFits, Owns, OwnerLabels,
              StartLabels, RunnerLabels, EndLabels, NoLiveProcess
<1>3. CASE state # "pending" /\ \A t \in Threads : ~Owns(t)
  BY <1>3 DEF Inv, OwnerInv, UnownedIsOver, NoLiveProcess
<1>. QED
  BY <1>1, <1>2, <1>3

\* Whoever is released by wait, or is handed the record, finds no process of the job
\* left alive or unreaped.
THEOREM JobLeavesNoProcess == Spec => []NoLiveProcess
  BY InvLeavesNoProcess, InvAlways, PTL

\* A status read through wait, or recorded, is final, except where a stop or a resume
\* that was checked while the job ran stored its state over the final one.
THEOREM JobStatusIsFinal == Spec => []FinalUnlessOverwritten
<1>1. Inv => FinalUnlessOverwritten
  BY DEF Inv, EndedIsFinal, FinalUnlessOverwritten
<1>. QED
  BY <1>1, InvAlways, PTL

-----------------------------------------------------------------------------

\* What a step that is no step of the abstract life leaves alone.
Quiet ==
  /\ state' = state /\ waitCh' = waitCh /\ recorded' = recorded
  /\ \A t \in Threads : pc'[t] \in EndLabels <=> pc[t] \in EndLabels

LEMMA QuietStutters == ASSUME Quiet PROVE UNCHANGED Life!lifeVars
  BY DEF Quiet, Phase, Terminal, Life!lifeVars

LEMMA StepIsLifeStep == Inv /\ [Next]_vars => [Life!LifeNext]_(Life!lifeVars)
<1>. SUFFICES ASSUME Inv, [Next]_vars PROVE [Life!LifeNext]_(Life!lifeVars)
  OBVIOUS
<1>. USE JobAssumption DEF Step, At, Goto, Threads, EndLabels, jobVars, doneVars, execVars, auxVars
<1>t. TypeInv /\ OwnerInv
  BY DEF Inv
<1>p. pc \in [Threads -> Labels]
  BY <1>t DEF TypeInv, TypeOK
<1>1. ASSUME NEW c \in Clients, SetArgv(c) PROVE Quiet
  BY <1>1, <1>p DEF SetArgv, Quiet
<1>2. ASSUME NEW c \in Clients, SetPty(c) PROVE Quiet
  BY <1>2, <1>p DEF SetPty, Quiet
<1>3. ASSUME NEW c \in Clients, StartCmd(c) PROVE Life!Begin
  BY <1>3, <1>t, <1>p DEF StartCmd, OwnerInv, PendingIsFresh, Owns, OwnerLabels, Terminal, Phase, Life!Begin
<1>4. ASSUME NEW c \in Clients, KillPending(c) PROVE Life!End
  BY <1>4, <1>t, <1>p DEF KillPending, OwnerInv, PendingIsFresh, Owns, OwnerLabels, Terminal, Phase, Life!End
<1>5. ASSUME NEW c \in Clients, KillRunning(c) PROVE Quiet
  BY <1>5, <1>p DEF KillRunning, Quiet
<1>6. ASSUME NEW c \in Clients, Detach(c) PROVE Quiet
  BY <1>6, <1>p DEF Detach, Quiet
<1>7. ASSUME NEW c \in Clients, NEW w \in Wanted, SignalCmd(c, w) PROVE Quiet
  BY <1>7, <1>p DEF SignalCmd, Quiet
<1>8. ASSUME NEW c \in Clients, WriteStdin(c) PROVE Quiet
  BY <1>8, <1>p DEF WriteStdin, Quiet
<1>9. ASSUME NEW c \in Clients, WaitFor(c) PROVE Quiet
  BY <1>9, <1>p DEF WaitFor, Quiet
<1>10. ASSUME NEW c \in Clients, StartEvent(c) PROVE Quiet
  BY <1>10, <1>t, <1>p DEF StartEvent, WriteEvent, OwnerInv, OneOwner, Owns, OwnerLabels, StartLabels, Quiet
<1>11. ASSUME NEW c \in Clients, LaunchFails(c) PROVE Quiet
  BY <1>11, <1>p DEF LaunchFails, Quiet
<1>12. ASSUME NEW c \in Clients, Launch(c) PROVE Quiet
  BY <1>12, <1>p DEF Launch, Quiet
<1>13. ASSUME NEW c \in Clients, SetProc(c) PROVE Quiet
  BY <1>13, <1>p DEF SetProc, Quiet
<1>14. ASSUME NEW c \in Clients, Spawn(c) PROVE Quiet
  BY <1>14, <1>t, <1>p DEF Spawn, WriteEvent, OwnerInv, OneOwner, Owns, OwnerLabels, StartLabels, Quiet
<1>15. ASSUME NEW c \in Clients, AppendEvent(c) PROVE Quiet
  BY <1>15, <1>p DEF AppendEvent, WriteEvent, Quiet
<1>16. ASSUME NEW c \in Clients, Cancel(c) PROVE Quiet
  BY <1>16, <1>p DEF Cancel, Quiet
<1>17. ASSUME NEW c \in Clients, Deliver(c) PROVE Quiet
  BY <1>17, <1>p DEF Deliver, Alive, Quiet
<1>18. ASSUME NEW c \in Clients, SetWant(c) PROVE UNCHANGED Life!lifeVars
  BY <1>18, <1>t, <1>p DEF SetWant, OwnerInv, PendingIsFresh, UnownedIsOver, Progress, Owns, OwnerLabels, TypeInv, TypeOK, ValuesFit, Wanted, Terminal, Phase, Life!lifeVars
<1>19. ASSUME NEW c \in Clients, WriteTaken(c) PROVE Quiet
  BY <1>19, <1>p DEF WriteTaken, Alive, Quiet
<1>20. ASSUME NEW c \in Clients, WriteRefused(c) PROVE Quiet
  BY <1>20, <1>p DEF WriteRefused, Quiet
<1>21. ASSUME NEW c \in Clients, WaitStatus(c) PROVE Quiet
  BY <1>21, <1>p DEF WaitStatus, Quiet
<1>22. ASSUME NEW t \in Threads, SnapEvent(t) PROVE Quiet
  BY <1>22, <1>p DEF SnapEvent, AfterSnap, Quiet
<1>23. ASSUME NEW t \in Threads, Finish(t) PROVE Life!End
  BY <1>23, <1>t, <1>p DEF Finish, OwnerInv, Progress, StartLabels, RunnerLabels, Owns, OwnerLabels, OneOwner, PendingIsFresh, Terminal, TypeInv, TypeOK, ValuesFit, States, Phase, Life!End
<1>24. ASSUME NEW t \in Threads, CloseWait(t) PROVE Life!Release
  BY <1>24, <1>t, <1>p DEF CloseWait, OwnerInv, Progress, StartLabels, RunnerLabels, Terminal, PendingIsFresh, Owns, OwnerLabels, Phase, Life!Release
<1>25. ASSUME NEW t \in Threads, EndEvent(t) PROVE Quiet
  BY <1>25, <1>p DEF EndEvent, WriteEvent, Quiet
<1>26. ASSUME NEW t \in Threads, CloseOut(t) PROVE Quiet
  BY <1>26, <1>p DEF CloseOut, Quiet
<1>27. ASSUME NEW t \in Threads, CloseEvents(t) PROVE Quiet
  BY <1>27, <1>p DEF CloseEvents, Quiet
<1>28. ASSUME NEW t \in Threads, Notify(t) PROVE Life!Record
  BY <1>28, <1>t, <1>p DEF Notify, OwnerInv, Progress, Owns, OwnerLabels, Terminal, PendingIsFresh, TypeInv, TypeOK, Phase, Life!Record
<1>29. ASSUME BodyWrites PROVE Quiet
  BY <1>29, <1>p DEF BodyWrites, Quiet
<1>30. ASSUME BodyReturns PROVE Quiet
  BY <1>30, <1>p DEF BodyReturns, Quiet
<1>31. ASSUME Reap PROVE Quiet
  BY <1>31, <1>p DEF Reap, Quiet
<1>32. ASSUME Collect PROVE Quiet
  BY <1>32, <1>p DEF Collect, Quiet
<1>33. ASSUME Drain PROVE Quiet
  BY <1>33, <1>p DEF Drain, Quiet
<1>34. ASSUME Classify PROVE Quiet
  BY <1>34, <1>p DEF Classify, Quiet
<1>35. ASSUME ProcWrites PROVE Quiet
  BY <1>35, <1>p DEF ProcWrites, Quiet
<1>36. ASSUME ProcExits PROVE Quiet
  BY <1>36, <1>p DEF ProcExits, Quiet
<1>37. ASSUME CopyOut PROVE Quiet
  BY <1>37, <1>p DEF CopyOut, Quiet
<1>38. ASSUME CopyOutEnds PROVE Quiet
  BY <1>38, <1>p DEF CopyOutEnds, Quiet
<1>39. ASSUME CopyStdinEnds PROVE Quiet
  BY <1>39, <1>p DEF CopyStdinEnds, Quiet
<1>40. ASSUME WatchCancels PROVE Quiet
  BY <1>40, <1>p DEF WatchCancels, Alive, Quiet
<1>41. ASSUME CloseStdin PROVE Quiet
  BY <1>41, <1>p DEF CloseStdin, Quiet
<1>42. ASSUME UNCHANGED vars PROVE Quiet
  BY <1>42 DEF vars, Quiet
<1>. HIDE DEF Step, At, Goto
<1>. QED
  BY <1>1, <1>2, <1>3, <1>4, <1>5, <1>6, <1>7, <1>8, <1>9, <1>10, <1>11, <1>12,
     <1>13, <1>14, <1>15, <1>16, <1>17, <1>18, <1>19, <1>20, <1>21, <1>22, <1>23, <1>24,
     <1>25, <1>26, <1>27, <1>28, <1>29, <1>30, <1>31, <1>32, <1>33, <1>34, <1>35, <1>36,
     <1>37, <1>38, <1>39, <1>40, <1>41, <1>42, QuietStutters
  DEF Next, Command, Kill, Starting, Serving, Ending, Waiting, Copying, Life!LifeNext

\* Whatever the interleaving, the job lives the abstract life: it begins at most once,
\* ends once, releases those who wait after that, and is recorded after that.
THEOREM JobImplementsLife == Spec => ImplementsLife
<1>1. Init => Life!LifeInit
  BY JobAssumption DEF Init, Life!LifeInit, Phase
<1>. QED
  BY <1>1, StepIsLifeStep, InvAlways, PTL DEF Spec, ImplementsLife, Life!LifeSpec

-----------------------------------------------------------------------------
(* What a finished job leaves to be read: its stdout, its events and its  *)
(* state.                                                                 *)

SubprocessLabels == {"launch", "setProc", "procSnap", "procAppend"} \cup (RunnerLabels \ {"body"})

OpenLabels ==
  StartLabels \cup RunnerLabels \cup {"finish", "closeWait", "endSnap", "endAppend", "closeOut"}

\* The owner's label and the kind of job agree, and stdout is open until closeOut.
OwnerKnowsKind(t) ==
  /\ pc[t] \in SubprocessLabels => kind = "subprocess"
  /\ pc[t] = "body" => kind = "inproc"
  /\ pc[t] \in OpenLabels => ~outClosed
  /\ pc[t] \in OpenLabels \cup {"closeEvents"} => ~eventsClosed
  /\ pc[t] \in {"classify"} => outCopy = "done"
  /\ pc[t] \in {"finish"} \cup EndLabels /\ process = "reaped" => outCopy = "done"

\* How the output moves: written by the process or the body, copied by os/exec.
OutputInv ==
  /\ state = "pending" => ~outClosed /\ ~eventsClosed
  /\ \A t \in Threads : OwnerKnowsKind(t)
  /\ out <= written
  /\ outCopy = "done" => out = written /\ process \in {"zombie", "reaped"}
  /\ process = "none" => outCopy = "off" /\ watch = "off"
  /\ kind = "subprocess" /\ process = "none" => written = 0
  /\ kind = "inproc" => process = "none" /\ out = written
  /\ outClosed => out = written

\* Why a job whose process ran would be killed or failed.
CauseInv ==
  /\ \A c \in Clients : pc[c] = "cancel" => killed
  /\ cancelled => killed
  /\ watch = "error" => cancelled
  /\ \A t \in Threads :
       pc[t] = "finish" /\ process # "none" /\ outcome \in {"killed", "failed"} => killed
  /\ EndStateExplained

\* The last event is the one of the final state.
EventInv ==
  /\ \A t \in Threads : pc[t] = "endAppend" => Terminal(snap[t]) \/ overwritten
  /\ \A t \in Threads :
       pc[t] \in {"closeOut", "closeEvents"} =>
         (\E i \in DOMAIN events : Terminal(events[i])) \/ overwritten
  /\ EventsTellTheEnd

-----------------------------------------------------------------------------

LEMMA OutputInvInductive ==
  /\ Init => OutputInv
  /\ Inv /\ OutputInv /\ [Next]_vars => OutputInv'
<1>1. Init => OutputInv
  BY JobAssumption DEF Init, OutputInv, OwnerKnowsKind, SubprocessLabels, OpenLabels, StartLabels, RunnerLabels, EndLabels, Threads
<1>2. Inv /\ OutputInv /\ [Next]_vars => OutputInv'
  <2>. SUFFICES ASSUME Inv, OutputInv, [Next]_vars PROVE OutputInv'
    OBVIOUS
  <2>. USE JobAssumption DEF Inv, TypeInv, TypeOK, ValuesFit, OwnerInv, LabelsFit, OneOwner, PendingIsFresh,
            Progress, ProcessFits, UnownedIsOver, EndedIsFinal, Owns, OwnerLabels, StartLabels, RunnerLabels,
            EndLabels, Terminal, Threads, States, Labels, Wanted, Step, At, Goto,
            jobVars, doneVars, execVars, auxVars, OutputInv, OwnerKnowsKind, SubprocessLabels, OpenLabels
  <2>1. ASSUME NEW c \in Clients, SetArgv(c) PROVE OutputInv'
    BY <2>1 DEF SetArgv
  <2>2. ASSUME NEW c \in Clients, SetPty(c) PROVE OutputInv'
    BY <2>2 DEF SetPty
  <2>3. ASSUME NEW c \in Clients, StartCmd(c) PROVE OutputInv'
    BY <2>3 DEF StartCmd
  <2>4. ASSUME NEW c \in Clients, KillPending(c) PROVE OutputInv'
    BY <2>4 DEF KillPending
  <2>5. ASSUME NEW c \in Clients, KillRunning(c) PROVE OutputInv'
    BY <2>5 DEF KillRunning
  <2>6. ASSUME NEW c \in Clients, Detach(c) PROVE OutputInv'
    BY <2>6 DEF Detach
  <2>7. ASSUME NEW c \in Clients, NEW w \in Wanted, SignalCmd(c, w) PROVE OutputInv'
    BY <2>7 DEF SignalCmd
  <2>8. ASSUME NEW c \in Clients, WriteStdin(c) PROVE OutputInv'
    BY <2>8 DEF WriteStdin
  <2>9. ASSUME NEW c \in Clients, WaitFor(c) PROVE OutputInv'
    BY <2>9 DEF WaitFor
  <2>10. ASSUME NEW c \in Clients, StartEvent(c) PROVE OutputInv'
    BY <2>10 DEF StartEvent, WriteEvent
  <2>11. ASSUME NEW c \in Clients, LaunchFails(c) PROVE OutputInv'
    BY <2>11 DEF LaunchFails
  <2>12. ASSUME NEW c \in Clients, Launch(c) PROVE OutputInv'
    BY <2>12 DEF Launch
  <2>13. ASSUME NEW c \in Clients, SetProc(c) PROVE OutputInv'
    BY <2>13 DEF SetProc
  <2>14. ASSUME NEW c \in Clients, Spawn(c) PROVE OutputInv'
    BY <2>14 DEF Spawn, WriteEvent
  <2>15. ASSUME NEW c \in Clients, AppendEvent(c) PROVE OutputInv'
    BY <2>15 DEF AppendEvent, WriteEvent
  <2>16. ASSUME NEW c \in Clients, Cancel(c) PROVE OutputInv'
    BY <2>16 DEF Cancel
  <2>17. ASSUME NEW c \in Clients, Deliver(c) PROVE OutputInv'
    BY <2>17 DEF Deliver, Alive
  <2>18. ASSUME NEW c \in Clients, SetWant(c) PROVE OutputInv'
    BY <2>18 DEF SetWant
  <2>19. ASSUME NEW c \in Clients, WriteTaken(c) PROVE OutputInv'
    BY <2>19 DEF WriteTaken, Alive
  <2>20. ASSUME NEW c \in Clients, WriteRefused(c) PROVE OutputInv'
    BY <2>20 DEF WriteRefused
  <2>21. ASSUME NEW c \in Clients, WaitStatus(c) PROVE OutputInv'
    BY <2>21 DEF WaitStatus
  <2>22. ASSUME NEW t \in Threads, SnapEvent(t) PROVE OutputInv'
    BY <2>22 DEF SnapEvent, AfterSnap
  <2>23. ASSUME NEW t \in Threads, Finish(t) PROVE OutputInv'
    BY <2>23 DEF Finish
  <2>24. ASSUME NEW t \in Threads, CloseWait(t) PROVE OutputInv'
    BY <2>24 DEF CloseWait
  <2>25. ASSUME NEW t \in Threads, EndEvent(t) PROVE OutputInv'
    BY <2>25 DEF EndEvent, WriteEvent
  <2>26. ASSUME NEW t \in Threads, CloseOut(t) PROVE OutputInv'
    BY <2>26 DEF CloseOut
  <2>27. ASSUME NEW t \in Threads, CloseEvents(t) PROVE OutputInv'
    BY <2>27 DEF CloseEvents
  <2>28. ASSUME NEW t \in Threads, Notify(t) PROVE OutputInv'
    BY <2>28 DEF Notify
  <2>29. CASE BodyWrites
    BY <2>29 DEF BodyWrites
  <2>30. CASE BodyReturns
    BY <2>30 DEF BodyReturns
  <2>31. CASE Reap
    BY <2>31 DEF Reap
  <2>32. CASE Collect
    BY <2>32 DEF Collect
  <2>33. CASE Drain
    BY <2>33 DEF Drain
  <2>34. CASE Classify
    BY <2>34 DEF Classify
  <2>35. CASE ProcWrites
    BY <2>35 DEF ProcWrites
  <2>36. CASE ProcExits
    BY <2>36 DEF ProcExits
  <2>37. CASE CopyOut
    BY <2>37 DEF CopyOut
  <2>38. CASE CopyOutEnds
    BY <2>38 DEF CopyOutEnds
  <2>39. CASE CopyStdinEnds
    BY <2>39 DEF CopyStdinEnds
  <2>40. CASE WatchCancels
    BY <2>40 DEF WatchCancels, Alive
  <2>41. CASE CloseStdin
    BY <2>41 DEF CloseStdin
  <2>42. CASE UNCHANGED vars
    BY <2>42 DEF vars
  <2>. HIDE DEF Inv, OutputInv, EndedIsFinal, OwnerInv, TypeInv, Step, At, Goto
  <2>. QED
    BY <2>1, <2>2, <2>3, <2>4, <2>5, <2>6, <2>7, <2>8, <2>9, <2>10, <2>11, <2>12,
       <2>13, <2>14, <2>15, <2>16, <2>17, <2>18, <2>19, <2>20, <2>21, <2>22, <2>23, <2>24,
       <2>25, <2>26, <2>27, <2>28, <2>29, <2>30, <2>31, <2>32, <2>33, <2>34, <2>35, <2>36,
       <2>37, <2>38, <2>39, <2>40, <2>41, <2>42
    DEF Next, Command, Kill, Starting, Serving, Ending, Waiting, Copying
<1>. QED
  BY <1>1, <1>2

-----------------------------------------------------------------------------

LEMMA CauseInvInductive ==
  /\ Init => CauseInv
  /\ Inv /\ OutputInv /\ CauseInv /\ [Next]_vars => CauseInv'
<1>1. Init => CauseInv
  BY JobAssumption DEF Init, CauseInv, EndStateExplained, Threads
<1>2. Inv /\ OutputInv /\ CauseInv /\ [Next]_vars => CauseInv'
  <2>. SUFFICES ASSUME Inv, OutputInv, CauseInv, [Next]_vars PROVE CauseInv'
    OBVIOUS
  <2>. USE JobAssumption DEF Inv, TypeInv, TypeOK, ValuesFit, OwnerInv, LabelsFit, OneOwner, PendingIsFresh,
            Progress, ProcessFits, UnownedIsOver, EndedIsFinal, Owns, OwnerLabels, StartLabels, RunnerLabels,
            EndLabels, Terminal, Threads, States, Labels, Wanted, Step, At, Goto,
            jobVars, doneVars, execVars, auxVars, CauseInv, EndStateExplained, OutputInv
  <2>1. ASSUME NEW c \in Clients, SetArgv(c) PROVE CauseInv'
    BY <2>1 DEF SetArgv
  <2>2. ASSUME NEW c \in Clients, SetPty(c) PROVE CauseInv'
    BY <2>2 DEF SetPty
  <2>3. ASSUME NEW c \in Clients, StartCmd(c) PROVE CauseInv'
    BY <2>3 DEF StartCmd
  <2>4. ASSUME NEW c \in Clients, KillPending(c) PROVE CauseInv'
    BY <2>4 DEF KillPending
  <2>5. ASSUME NEW c \in Clients, KillRunning(c) PROVE CauseInv'
    BY <2>5 DEF KillRunning
  <2>6. ASSUME NEW c \in Clients, Detach(c) PROVE CauseInv'
    BY <2>6 DEF Detach
  <2>7. ASSUME NEW c \in Clients, NEW w \in Wanted, SignalCmd(c, w) PROVE CauseInv'
    BY <2>7 DEF SignalCmd
  <2>8. ASSUME NEW c \in Clients, WriteStdin(c) PROVE CauseInv'
    BY <2>8 DEF WriteStdin
  <2>9. ASSUME NEW c \in Clients, WaitFor(c) PROVE CauseInv'
    BY <2>9 DEF WaitFor
  <2>10. ASSUME NEW c \in Clients, StartEvent(c) PROVE CauseInv'
    BY <2>10 DEF StartEvent, WriteEvent
  <2>11. ASSUME NEW c \in Clients, LaunchFails(c) PROVE CauseInv'
    BY <2>11 DEF LaunchFails
  <2>12. ASSUME NEW c \in Clients, Launch(c) PROVE CauseInv'
    BY <2>12 DEF Launch
  <2>13. ASSUME NEW c \in Clients, SetProc(c) PROVE CauseInv'
    BY <2>13 DEF SetProc
  <2>14. ASSUME NEW c \in Clients, Spawn(c) PROVE CauseInv'
    BY <2>14 DEF Spawn, WriteEvent
  <2>15. ASSUME NEW c \in Clients, AppendEvent(c) PROVE CauseInv'
    BY <2>15 DEF AppendEvent, WriteEvent
  <2>16. ASSUME NEW c \in Clients, Cancel(c) PROVE CauseInv'
    BY <2>16 DEF Cancel
  <2>17. ASSUME NEW c \in Clients, Deliver(c) PROVE CauseInv'
    BY <2>17 DEF Deliver, Alive
  <2>18. ASSUME NEW c \in Clients, SetWant(c) PROVE CauseInv'
    BY <2>18 DEF SetWant
  <2>19. ASSUME NEW c \in Clients, WriteTaken(c) PROVE CauseInv'
    BY <2>19 DEF WriteTaken, Alive
  <2>20. ASSUME NEW c \in Clients, WriteRefused(c) PROVE CauseInv'
    BY <2>20 DEF WriteRefused
  <2>21. ASSUME NEW c \in Clients, WaitStatus(c) PROVE CauseInv'
    BY <2>21 DEF WaitStatus
  <2>22. ASSUME NEW t \in Threads, SnapEvent(t) PROVE CauseInv'
    BY <2>22 DEF SnapEvent, AfterSnap
  <2>23. ASSUME NEW t \in Threads, Finish(t) PROVE CauseInv'
    BY <2>23 DEF Finish
  <2>24. ASSUME NEW t \in Threads, CloseWait(t) PROVE CauseInv'
    BY <2>24 DEF CloseWait
  <2>25. ASSUME NEW t \in Threads, EndEvent(t) PROVE CauseInv'
    BY <2>25 DEF EndEvent, WriteEvent
  <2>26. ASSUME NEW t \in Threads, CloseOut(t) PROVE CauseInv'
    BY <2>26 DEF CloseOut
  <2>27. ASSUME NEW t \in Threads, CloseEvents(t) PROVE CauseInv'
    BY <2>27 DEF CloseEvents
  <2>28. ASSUME NEW t \in Threads, Notify(t) PROVE CauseInv'
    BY <2>28 DEF Notify
  <2>29. CASE BodyWrites
    BY <2>29 DEF BodyWrites
  <2>30. CASE BodyReturns
    BY <2>30 DEF BodyReturns
  <2>31. CASE Reap
    BY <2>31 DEF Reap
  <2>32. CASE Collect
    BY <2>32 DEF Collect
  <2>33. CASE Drain
    BY <2>33 DEF Drain
  <2>34. CASE Classify
    BY <2>34 DEF Classify
  <2>35. CASE ProcWrites
    BY <2>35 DEF ProcWrites
  <2>36. CASE ProcExits
    BY <2>36 DEF ProcExits
  <2>37. CASE CopyOut
    BY <2>37 DEF CopyOut
  <2>38. CASE CopyOutEnds
    BY <2>38 DEF CopyOutEnds
  <2>39. CASE CopyStdinEnds
    BY <2>39 DEF CopyStdinEnds
  <2>40. CASE WatchCancels
    BY <2>40 DEF WatchCancels, Alive
  <2>41. CASE CloseStdin
    BY <2>41 DEF CloseStdin
  <2>42. CASE UNCHANGED vars
    BY <2>42 DEF vars
  <2>. HIDE DEF Inv, CauseInv, EndedIsFinal, OwnerInv, TypeInv, Step, At, Goto
  <2>. QED
    BY <2>1, <2>2, <2>3, <2>4, <2>5, <2>6, <2>7, <2>8, <2>9, <2>10, <2>11, <2>12,
       <2>13, <2>14, <2>15, <2>16, <2>17, <2>18, <2>19, <2>20, <2>21, <2>22, <2>23, <2>24,
       <2>25, <2>26, <2>27, <2>28, <2>29, <2>30, <2>31, <2>32, <2>33, <2>34, <2>35, <2>36,
       <2>37, <2>38, <2>39, <2>40, <2>41, <2>42
    DEF Next, Command, Kill, Starting, Serving, Ending, Waiting, Copying
<1>. QED
  BY <1>1, <1>2

-----------------------------------------------------------------------------

LEMMA EventInvInductive ==
  /\ Init => EventInv
  /\ Inv /\ OutputInv /\ EventInv /\ [Next]_vars => EventInv'
<1>1. Init => EventInv
  BY JobAssumption DEF Init, EventInv, EventsTellTheEnd, Threads
<1>2. Inv /\ OutputInv /\ EventInv /\ [Next]_vars => EventInv'
  <2>. SUFFICES ASSUME Inv, OutputInv, EventInv, [Next]_vars PROVE EventInv'
    OBVIOUS
  <2>. USE JobAssumption DEF Inv, TypeInv, TypeOK, ValuesFit, OwnerInv, LabelsFit, OneOwner, PendingIsFresh,
            Progress, ProcessFits, UnownedIsOver, EndedIsFinal, Owns, OwnerLabels, StartLabels, RunnerLabels,
            EndLabels, Terminal, Threads, States, Labels, Wanted, Step, At, Goto,
            jobVars, doneVars, execVars, auxVars, EventInv, EventsTellTheEnd, OutputInv, OwnerKnowsKind, OpenLabels
  <2>1. ASSUME NEW c \in Clients, SetArgv(c) PROVE EventInv'
    BY <2>1 DEF SetArgv
  <2>2. ASSUME NEW c \in Clients, SetPty(c) PROVE EventInv'
    BY <2>2 DEF SetPty
  <2>3. ASSUME NEW c \in Clients, StartCmd(c) PROVE EventInv'
    BY <2>3 DEF StartCmd
  <2>4. ASSUME NEW c \in Clients, KillPending(c) PROVE EventInv'
    BY <2>4 DEF KillPending
  <2>5. ASSUME NEW c \in Clients, KillRunning(c) PROVE EventInv'
    BY <2>5 DEF KillRunning
  <2>6. ASSUME NEW c \in Clients, Detach(c) PROVE EventInv'
    BY <2>6 DEF Detach
  <2>7. ASSUME NEW c \in Clients, NEW w \in Wanted, SignalCmd(c, w) PROVE EventInv'
    BY <2>7 DEF SignalCmd
  <2>8. ASSUME NEW c \in Clients, WriteStdin(c) PROVE EventInv'
    BY <2>8 DEF WriteStdin
  <2>9. ASSUME NEW c \in Clients, WaitFor(c) PROVE EventInv'
    BY <2>9 DEF WaitFor
  <2>10. ASSUME NEW c \in Clients, StartEvent(c) PROVE EventInv'
    BY <2>10 DEF StartEvent, WriteEvent
  <2>11. ASSUME NEW c \in Clients, LaunchFails(c) PROVE EventInv'
    BY <2>11 DEF LaunchFails
  <2>12. ASSUME NEW c \in Clients, Launch(c) PROVE EventInv'
    BY <2>12 DEF Launch
  <2>13. ASSUME NEW c \in Clients, SetProc(c) PROVE EventInv'
    BY <2>13 DEF SetProc
  <2>14. ASSUME NEW c \in Clients, Spawn(c) PROVE EventInv'
    BY <2>14 DEF Spawn, WriteEvent
  <2>15. ASSUME NEW c \in Clients, AppendEvent(c) PROVE EventInv'
    BY <2>15, SMTT(30) DEF AppendEvent, WriteEvent
  <2>16. ASSUME NEW c \in Clients, Cancel(c) PROVE EventInv'
    BY <2>16 DEF Cancel
  <2>17. ASSUME NEW c \in Clients, Deliver(c) PROVE EventInv'
    BY <2>17 DEF Deliver, Alive
  <2>18. ASSUME NEW c \in Clients, SetWant(c) PROVE EventInv'
    BY <2>18 DEF SetWant
  <2>19. ASSUME NEW c \in Clients, WriteTaken(c) PROVE EventInv'
    BY <2>19 DEF WriteTaken, Alive
  <2>20. ASSUME NEW c \in Clients, WriteRefused(c) PROVE EventInv'
    BY <2>20 DEF WriteRefused
  <2>21. ASSUME NEW c \in Clients, WaitStatus(c) PROVE EventInv'
    BY <2>21 DEF WaitStatus
  <2>22. ASSUME NEW t \in Threads, SnapEvent(t) PROVE EventInv'
    BY <2>22 DEF SnapEvent, AfterSnap
  <2>23. ASSUME NEW t \in Threads, Finish(t) PROVE EventInv'
    BY <2>23 DEF Finish
  <2>24. ASSUME NEW t \in Threads, CloseWait(t) PROVE EventInv'
    BY <2>24 DEF CloseWait
  <2>25. ASSUME NEW t \in Threads, EndEvent(t) PROVE EventInv'
    BY <2>25 DEF EndEvent, WriteEvent
  <2>26. ASSUME NEW t \in Threads, CloseOut(t) PROVE EventInv'
    BY <2>26 DEF CloseOut
  <2>27. ASSUME NEW t \in Threads, CloseEvents(t) PROVE EventInv'
    BY <2>27 DEF CloseEvents
  <2>28. ASSUME NEW t \in Threads, Notify(t) PROVE EventInv'
    BY <2>28 DEF Notify
  <2>29. CASE BodyWrites
    BY <2>29 DEF BodyWrites
  <2>30. CASE BodyReturns
    BY <2>30 DEF BodyReturns
  <2>31. CASE Reap
    BY <2>31 DEF Reap
  <2>32. CASE Collect
    BY <2>32 DEF Collect
  <2>33. CASE Drain
    BY <2>33 DEF Drain
  <2>34. CASE Classify
    BY <2>34 DEF Classify
  <2>35. CASE ProcWrites
    BY <2>35 DEF ProcWrites
  <2>36. CASE ProcExits
    BY <2>36 DEF ProcExits
  <2>37. CASE CopyOut
    BY <2>37 DEF CopyOut
  <2>38. CASE CopyOutEnds
    BY <2>38 DEF CopyOutEnds
  <2>39. CASE CopyStdinEnds
    BY <2>39 DEF CopyStdinEnds
  <2>40. CASE WatchCancels
    BY <2>40 DEF WatchCancels, Alive
  <2>41. CASE CloseStdin
    BY <2>41 DEF CloseStdin
  <2>42. CASE UNCHANGED vars
    BY <2>42 DEF vars
  <2>. HIDE DEF Inv, EventInv, EndedIsFinal, OwnerInv, TypeInv, Step, At, Goto
  <2>. QED
    BY <2>1, <2>2, <2>3, <2>4, <2>5, <2>6, <2>7, <2>8, <2>9, <2>10, <2>11, <2>12,
       <2>13, <2>14, <2>15, <2>16, <2>17, <2>18, <2>19, <2>20, <2>21, <2>22, <2>23, <2>24,
       <2>25, <2>26, <2>27, <2>28, <2>29, <2>30, <2>31, <2>32, <2>33, <2>34, <2>35, <2>36,
       <2>37, <2>38, <2>39, <2>40, <2>41, <2>42
    DEF Next, Command, Kill, Starting, Serving, Ending, Waiting, Copying
<1>. QED
  BY <1>1, <1>2

-----------------------------------------------------------------------------

\* stdout ends only when all that the process (or the body) wrote is in it, though a
\* goroutine of its own copies it and kill, exit and EOF may come in any order.
THEOREM JobOutputIsComplete == Spec => []OutputComplete
<1>1. OutputInv => OutputComplete
  BY DEF OutputInv, OutputComplete
<1>. QED
  BY <1>1, InvAlways, OutputInvInductive, PTL DEF Spec

\* A job whose process ran is killed or failed only if ctl kill asked for it.
THEOREM JobEndIsExplained == Spec => []EndStateExplained
<1>1. CauseInv => EndStateExplained
  BY DEF CauseInv
<1>. QED
  BY <1>1, InvAlways, OutputInvInductive, CauseInvInductive, PTL DEF Spec

\* A reader that follows events to their end has been shown a final state.
THEOREM JobEventsTellTheEnd == Spec => []EventsTellTheEnd
<1>1. EventInv => EventsTellTheEnd
  BY DEF EventInv
<1>. QED
  BY <1>1, InvAlways, OutputInvInductive, EventInvInductive, PTL DEF Spec

-----------------------------------------------------------------------------
(* The foreground command (ExternalCmd).                                   *)

\* A subprocess job that has no process: no signal reaches it, and it ends only as
\* failed, or by a kill while pending.
RunFits ==
  /\ written <= MaxOut
  /\ process = "none" /\ kind = "subprocess" =>
       /\ ~proc /\ ~overwritten
       /\ state \in {"pending", "running", "failed", "killed"}
       /\ \A c \in Clients : pc[c] \notin {"deliver", "setWant"}
       /\ \A t \in Threads : pc[t] = "finish" => outcome = "failed"

\* start was accepted: without a process the job runs no more than to fail.
Launched ==
  /\ kind = "subprocess" /\ state # "pending"
  /\ process = "none" => state \in {"running", "failed"}

JobInv == Inv /\ OutputInv /\ CauseInv /\ RunFits

\* What no step of the job undoes.
Keeps ==
  /\ process' = "none" => process = "none"
  /\ process = "reaped" => process' = "reaped" /\ written' = written
  /\ waitCh > 0 => waitCh' > 0 /\ (process = "none" => process' = "none")
  /\ killed => killed'
  /\ kind' = kind
  /\ Launched => Launched'

\* What is left of the foreground script before and after each call.
FromArgv   == <<"argv", "start", "input", "eof", "wait", "wait", "stdout">>
FromStart  == <<"start", "input", "eof", "wait", "wait", "stdout">>
FromInput  == <<"input", "eof", "wait", "wait", "stdout">>
FromEof    == <<"eof", "wait", "wait", "stdout">>
FromWait   == <<"wait", "wait", "stdout">>
FromAgain  == <<"wait", "stdout">>
FromStdout == <<"stdout">>

AfterStart     == {FromInput, FromEof, FromWait, FromAgain, FromStdout}
ForegroundRest == {FromArgv, FromStart, <<>>} \cup AfterStart

\* ...and of the others, which never read.
LaunchRest ==
  {<<"eof", "argv", "start", "record">>, <<"argv", "pty", "start", "record">>,
   <<"argv", "start", "record">>, <<"pty", "start", "record">>,
   <<"start", "record">>, <<"record">>, <<>>}
LaunchCalls == {"eof", "argv", "pty", "start", "record"}

TodoFits ==
  /\ mode \in {"foreground", "background", "pty", "inproc"}
  /\ todo \in IF mode = "foreground" THEN ForegroundRest ELSE LaunchRest
  /\ mode = "foreground" => kind = "subprocess"
  /\ input \in 0 .. MaxIn
  /\ status \in States \cup {"none"}
  /\ result \in {"none", "error", "ErrorVal", "bytes", "record"}
  /\ got \in 0 .. MaxOut

\* What the shell knows of the job, by how far it has come.
ShellKnows ==
  /\ todo \in AfterStart => Launched
  /\ pc[Shell] = "waitStatus" => todo \in {FromAgain, FromStdout}
  /\ todo = FromAgain => status # "none" \/ pc[Shell] = "waitStatus"
  /\ todo = FromStdout => status # "none"
  /\ status # "none" => waitCh > 0
  /\ status # "none" /\ todo \in AfterStart /\ process = "none" => status = "failed"
  /\ status = "failed" => process = "none" \/ killed
  /\ result = "bytes" => waitCh > 0
  /\ result = "ErrorVal" => waitCh > 0

Knowledge == ShellKnows /\ BytesAreTheOutput /\ ErrorValExplained

-----------------------------------------------------------------------------
(* The job, as the shell sees it.                                          *)

LEMMA JobStepKeeps ==
  /\ Init => RunFits
  /\ Inv /\ OutputInv /\ RunFits /\ [Next]_vars => RunFits' /\ Keeps
<1>. DEFINE Goal == RunFits' /\ Keeps
<1>1. Init => RunFits
  BY JobAssumption DEF Init, RunFits, Threads
<1>2. Inv /\ OutputInv /\ RunFits /\ [Next]_vars => Goal
  <2>. SUFFICES ASSUME Inv, OutputInv, RunFits, [Next]_vars PROVE Goal
    OBVIOUS
  <2>. USE JobAssumption DEF Inv, TypeInv, TypeOK, ValuesFit, OwnerInv, LabelsFit, OneOwner, PendingIsFresh,
            Progress, ProcessFits, Owns, OwnerLabels, StartLabels, RunnerLabels,
            EndLabels, Terminal, Threads, States, Labels, Wanted, Step, At, Goto,
            OutputInv, OwnerKnowsKind, SubprocessLabels, RunFits, Keeps, Launched,
            jobVars, doneVars, execVars, auxVars
  <2>1. ASSUME NEW c \in Clients, SetArgv(c) PROVE Goal
    BY <2>1 DEF SetArgv
  <2>2. ASSUME NEW c \in Clients, SetPty(c) PROVE Goal
    BY <2>2 DEF SetPty
  <2>3. ASSUME NEW c \in Clients, StartCmd(c) PROVE Goal
    BY <2>3 DEF StartCmd
  <2>4. ASSUME NEW c \in Clients, KillPending(c) PROVE Goal
    BY <2>4 DEF KillPending
  <2>5. ASSUME NEW c \in Clients, KillRunning(c) PROVE Goal
    BY <2>5 DEF KillRunning
  <2>6. ASSUME NEW c \in Clients, Detach(c) PROVE Goal
    BY <2>6 DEF Detach
  <2>7. ASSUME NEW c \in Clients, NEW w \in Wanted, SignalCmd(c, w) PROVE Goal
    BY <2>7 DEF SignalCmd
  <2>8. ASSUME NEW c \in Clients, WriteStdin(c) PROVE Goal
    BY <2>8 DEF WriteStdin
  <2>9. ASSUME NEW c \in Clients, WaitFor(c) PROVE Goal
    BY <2>9 DEF WaitFor
  <2>10. ASSUME NEW c \in Clients, StartEvent(c) PROVE Goal
    BY <2>10 DEF StartEvent, WriteEvent
  <2>11. ASSUME NEW c \in Clients, LaunchFails(c) PROVE Goal
    BY <2>11 DEF LaunchFails
  <2>12. ASSUME NEW c \in Clients, Launch(c) PROVE Goal
    BY <2>12 DEF Launch
  <2>13. ASSUME NEW c \in Clients, SetProc(c) PROVE Goal
    BY <2>13 DEF SetProc
  <2>14. ASSUME NEW c \in Clients, Spawn(c) PROVE Goal
    BY <2>14 DEF Spawn, WriteEvent
  <2>15. ASSUME NEW c \in Clients, AppendEvent(c) PROVE Goal
    BY <2>15 DEF AppendEvent, WriteEvent
  <2>16. ASSUME NEW c \in Clients, Cancel(c) PROVE Goal
    BY <2>16 DEF Cancel
  <2>17. ASSUME NEW c \in Clients, Deliver(c) PROVE Goal
    BY <2>17 DEF Deliver, Alive
  <2>18. ASSUME NEW c \in Clients, SetWant(c) PROVE Goal
    BY <2>18 DEF SetWant
  <2>19. ASSUME NEW c \in Clients, WriteTaken(c) PROVE Goal
    BY <2>19 DEF WriteTaken, Alive
  <2>20. ASSUME NEW c \in Clients, WriteRefused(c) PROVE Goal
    BY <2>20 DEF WriteRefused
  <2>21. ASSUME NEW c \in Clients, WaitStatus(c) PROVE Goal
    BY <2>21 DEF WaitStatus
  <2>22. ASSUME NEW t \in Threads, SnapEvent(t) PROVE Goal
    BY <2>22 DEF SnapEvent, AfterSnap
  <2>23. ASSUME NEW t \in Threads, Finish(t) PROVE Goal
    BY <2>23 DEF Finish
  <2>24. ASSUME NEW t \in Threads, CloseWait(t) PROVE Goal
    BY <2>24 DEF CloseWait
  <2>25. ASSUME NEW t \in Threads, EndEvent(t) PROVE Goal
    BY <2>25 DEF EndEvent, WriteEvent
  <2>26. ASSUME NEW t \in Threads, CloseOut(t) PROVE Goal
    BY <2>26 DEF CloseOut
  <2>27. ASSUME NEW t \in Threads, CloseEvents(t) PROVE Goal
    BY <2>27 DEF CloseEvents
  <2>28. ASSUME NEW t \in Threads, Notify(t) PROVE Goal
    BY <2>28 DEF Notify
  <2>29. CASE BodyWrites
    BY <2>29 DEF BodyWrites
  <2>30. CASE BodyReturns
    BY <2>30 DEF BodyReturns
  <2>31. CASE Reap
    BY <2>31 DEF Reap
  <2>32. CASE Collect
    BY <2>32 DEF Collect
  <2>33. CASE Drain
    BY <2>33 DEF Drain
  <2>34. CASE Classify
    BY <2>34 DEF Classify
  <2>35. CASE ProcWrites
    BY <2>35 DEF ProcWrites
  <2>36. CASE ProcExits
    BY <2>36 DEF ProcExits
  <2>37. CASE CopyOut
    BY <2>37 DEF CopyOut
  <2>38. CASE CopyOutEnds
    BY <2>38 DEF CopyOutEnds
  <2>39. CASE CopyStdinEnds
    BY <2>39 DEF CopyStdinEnds
  <2>40. CASE WatchCancels
    BY <2>40 DEF WatchCancels, Alive
  <2>41. CASE CloseStdin
    BY <2>41 DEF CloseStdin
  <2>42. CASE UNCHANGED vars
    BY <2>42 DEF vars
  <2>. HIDE DEF Goal, Inv, OutputInv, RunFits, Keeps, Step, At, Goto
  <2>. QED
    BY <2>1, <2>2, <2>3, <2>4, <2>5, <2>6, <2>7, <2>8, <2>9, <2>10, <2>11,
       <2>12, <2>13, <2>14, <2>15, <2>16, <2>17, <2>18, <2>19, <2>20, <2>21, <2>22,
       <2>23, <2>24, <2>25, <2>26, <2>27, <2>28, <2>29, <2>30, <2>31, <2>32, <2>33,
       <2>34, <2>35, <2>36, <2>37, <2>38, <2>39, <2>40, <2>41, <2>42
    DEF Next, Command, Kill, Starting, Serving, Ending, Waiting, Copying
<1>. QED
  BY <1>1, <1>2

LEMMA JobInvInductive ==
  /\ Init => JobInv
  /\ JobInv /\ [Next]_vars => JobInv' /\ Keeps
  BY InvInductive, OutputInvInductive, CauseInvInductive, JobStepKeeps DEF JobInv

-----------------------------------------------------------------------------
(* The shell's steps are steps of the job.                                 *)

LEMMA ShellStepIsJobStep ==
  /\ ShellInit => Init
  /\ [ShellNext]_allVars => [Next]_vars
<1>1. ShellInit => Init
  BY DEF ShellInit
<1>2. [ShellNext]_allVars => [Next]_vars
  <2>. SUFFICES ASSUME [ShellNext]_allVars PROVE [Next]_vars
    OBVIOUS
  <2>. USE ExternalAssumption
  <2>1. CASE Program
    <3>. HIDE DEF vars
    <3>1. (\E c \in Clients : Command(c)) \/ WriteRefused(Shell) \/ CloseStdin \/ WaitStatus(Shell) \/ UNCHANGED vars
      BY <2>1 DEF Program, WriteArgv, WritePty, WriteStart, WriteInput, InputRefused, NoInputLeft, CloseInput,
                  ReadWait, WaitRead, ReturnError, ReturnOutput, ReturnRecord, Refused, Command
    <3>. QED
      BY <3>1 DEF Next, Serving
  <2>2. CASE JobSteps
    BY <2>2 DEF JobSteps, Next, Serving
  <2>3. CASE Interfere
    BY <2>3 DEF Interfere, Next, Command, Others
  <2>4. CASE UNCHANGED allVars
    BY <2>4 DEF allVars
  <2>. QED
    BY <2>1, <2>2, <2>3, <2>4 DEF ShellNext
<1>. QED
  BY <1>1, <1>2

\* A job that the shell runs, with others interfering, is a job: every theorem about
\* Spec (it ends once, its output is complete ...) holds of it.
THEOREM ShellRunsAJob == ShellSpec => Spec
  BY ShellStepIsJobStep, PTL DEF ShellSpec, Spec

-----------------------------------------------------------------------------
(* What the shell concludes.                                               *)

\* Nobody else moves the shell into, or out of, its read of wait.
LEMMA WaitStatusIsOwn ==
  ASSUME JobInv, JobSteps \/ Interfere
  PROVE  pc'[Shell] = "waitStatus" <=> pc[Shell] = "waitStatus"
<1>. USE JobAssumption, ExternalAssumption DEF JobInv, Inv, TypeInv, TypeOK, Threads, Labels, Step, At, Goto
<1>1. ASSUME NEW c \in Clients, Starting(c) PROVE pc'[Shell] = "waitStatus" <=> pc[Shell] = "waitStatus"
  BY <1>1 DEF Starting, StartEvent, LaunchFails, Launch, SetProc, Spawn
<1>2. ASSUME NEW c \in Clients, AppendEvent(c) \/ Cancel(c) \/ Deliver(c) \/ SetWant(c)
      PROVE pc'[Shell] = "waitStatus" <=> pc[Shell] = "waitStatus"
  BY <1>2 DEF AppendEvent, Cancel, Deliver, SetWant
<1>3. CASE WriteTaken(Shell)
  BY <1>3 DEF WriteTaken
<1>4. ASSUME NEW t \in Threads, SnapEvent(t) PROVE pc'[Shell] = "waitStatus" <=> pc[Shell] = "waitStatus"
  BY <1>4 DEF SnapEvent, AfterSnap
<1>5. ASSUME NEW t \in Threads, Ending(t) PROVE pc'[Shell] = "waitStatus" <=> pc[Shell] = "waitStatus"
  BY <1>5 DEF Ending, Finish, CloseWait, EndEvent, CloseOut, CloseEvents, Notify
<1>6. CASE BodyWrites \/ ProcWrites \/ ProcExits \/ Copying \/ CloseStdin
  BY <1>6 DEF BodyWrites, ProcWrites, ProcExits, Copying, CopyOut, CopyOutEnds, CopyStdinEnds, WatchCancels, CloseStdin
<1>7. CASE Waiting
  BY <1>7 DEF Waiting, BodyReturns, Reap, Collect, Drain, Classify
<1>8. ASSUME NEW c \in Others, Kill(c) PROVE pc'[Shell] = "waitStatus" <=> pc[Shell] = "waitStatus"
  BY <1>8 DEF Others, Kill, KillPending, KillRunning
<1>9. ASSUME NEW c \in Others, NEW w \in Wanted, SignalCmd(c, w)
      PROVE pc'[Shell] = "waitStatus" <=> pc[Shell] = "waitStatus"
  BY <1>9 DEF Others, SignalCmd
<1>. QED
  BY <1>1, <1>2, <1>3, <1>4, <1>5, <1>6, <1>7, <1>8, <1>9 DEF JobSteps, Interfere

LEMMA ForegroundCalls ==
  /\ Head(FromArgv) = "argv" /\ Tail(FromArgv) = FromStart
  /\ Head(FromStart) = "start" /\ Tail(FromStart) = FromInput
  /\ Head(FromInput) = "input" /\ Tail(FromInput) = FromEof
  /\ Head(FromEof) = "eof" /\ Tail(FromEof) = FromWait
  /\ Head(FromWait) = "wait" /\ Tail(FromWait) = FromAgain
  /\ Head(FromAgain) = "wait" /\ Tail(FromAgain) = FromStdout
  /\ Head(FromStdout) = "stdout" /\ Tail(FromStdout) = <<>>
  /\ <<>> \notin {FromArgv, FromStart} \cup AfterStart
  /\ FromWait # FromAgain
  BY DEF FromArgv, FromStart, FromInput, FromEof, FromWait, FromAgain, FromStdout, AfterStart

LEMMA ForegroundTail ==
  ASSUME NEW s \in ForegroundRest, s # <<>>
  PROVE  Tail(s) \in ForegroundRest
  BY ForegroundCalls DEF ForegroundRest, AfterStart

LEMMA LaunchTail ==
  ASSUME NEW s \in LaunchRest, s # <<>>
  PROVE  Tail(s) \in LaunchRest /\ Head(s) \in LaunchCalls
<1>1. CASE s = <<"eof", "argv", "start", "record">>
  BY <1>1 DEF LaunchRest, LaunchCalls
<1>2. CASE s = <<"argv", "pty", "start", "record">>
  BY <1>2 DEF LaunchRest, LaunchCalls
<1>3. CASE s = <<"argv", "start", "record">>
  BY <1>3 DEF LaunchRest, LaunchCalls
<1>4. CASE s = <<"pty", "start", "record">>
  BY <1>4 DEF LaunchRest, LaunchCalls
<1>5. CASE s = <<"start", "record">>
  BY <1>5 DEF LaunchRest, LaunchCalls
<1>6. CASE s = <<"record">>
  BY <1>6 DEF LaunchRest, LaunchCalls
<1>. QED
  BY <1>1, <1>2, <1>3, <1>4, <1>5, <1>6, Zenon DEF LaunchRest

LEMMA LaunchOnlyLaunches == LaunchRest \cap AfterStart = {}
  BY DEF LaunchRest, AfterStart, FromInput, FromEof, FromWait, FromAgain, FromStdout

LEMMA ForegroundScript ==
  /\ DOMAIN Script = {"foreground", "background", "pty", "inproc"}
  /\ Script["foreground"] = FromArgv
  /\ \A m \in DOMAIN Script : m # "foreground" => Script[m] \in LaunchRest
  BY DEF Script, FromArgv, LaunchRest

LEMMA TodoFitsInductive ==
  /\ ShellInit => TodoFits
  /\ JobInv /\ TodoFits /\ Keeps /\ [ShellNext]_allVars => TodoFits'
<1>1. ShellInit => TodoFits
  BY JobAssumption, ExternalAssumption, ForegroundScript DEF ShellInit, TodoFits, ForegroundRest, States
<1>2. JobInv /\ TodoFits /\ Keeps /\ [ShellNext]_allVars => TodoFits'
  <2>. SUFFICES ASSUME JobInv, TodoFits, Keeps, [ShellNext]_allVars PROVE TodoFits'
    OBVIOUS
  <2>0. state \in States /\ out \in 0 .. MaxOut
    BY JobAssumption DEF JobInv, Inv, TypeInv, TypeOK, OutputInv, RunFits
  <2>1. <<>> \in LaunchRest /\ <<>> \in ForegroundRest
    BY DEF LaunchRest, ForegroundRest
  <2>. USE <2>0, <2>1, ExternalAssumption, ForegroundCalls, ForegroundTail, LaunchTail
       DEF TodoFits, ForegroundRest, AfterStart, LaunchCalls, Keeps, Calls, Advance, Fail, Refused
  <2>2. CASE WriteArgv
    <3>. HIDE DEF ForegroundRest, AfterStart
    <3>. QED
      BY <2>2, ZenonT(30) DEF WriteArgv
  <2>3. CASE WritePty
    <3>. HIDE DEF ForegroundRest, AfterStart
    <3>. QED
      BY <2>3, ZenonT(30) DEF WritePty
  <2>4. CASE WriteStart
    <3>. HIDE DEF ForegroundRest, AfterStart
    <3>. QED
      BY <2>4, ZenonT(30) DEF WriteStart
  <2>5. CASE WriteInput
    BY <2>5, SMTT(30) DEF WriteInput
  <2>6. CASE InputRefused
    BY <2>6 DEF InputRefused
  <2>7. CASE NoInputLeft
    BY <2>7, SMTT(30) DEF NoInputLeft
  <2>8. CASE CloseInput
    BY <2>8, SMTT(30) DEF CloseInput
  <2>9. CASE ReadWait
    <3>. HIDE DEF ForegroundRest, AfterStart
    <3>. QED
      BY <2>9, ZenonT(30) DEF ReadWait
  <2>10. CASE WaitRead
    BY <2>10, SMTT(30) DEF WaitRead, States
  <2>11. CASE ReturnError
    BY <2>11, SMTT(30) DEF ReturnError
  <2>12. CASE ReturnOutput
    BY <2>12, SMTT(30) DEF ReturnOutput
  <2>13. CASE ReturnRecord
    BY <2>13, SMTT(30) DEF ReturnRecord
  <2>14. CASE UNCHANGED shellVars
    BY <2>14 DEF shellVars
  <2>. HIDE DEF TodoFits, Keeps
  <2>. QED
    BY <2>2, <2>3, <2>4, <2>5, <2>6, <2>7, <2>8, <2>9, <2>10, <2>11, <2>12, <2>13, <2>14 DEF ShellNext, Program, allVars
<1>. QED
  BY <1>1, <1>2

LEMMA ShellKnowsInductive ==
  /\ ShellInit => Knowledge
  /\ JobInv /\ TodoFits /\ TodoFits' /\ Knowledge /\ Keeps /\ [ShellNext]_allVars => Knowledge'
<1>1. ShellInit => Knowledge
  <2>. SUFFICES ASSUME ShellInit PROVE Knowledge
    OBVIOUS
  <2>1. todo \notin AfterStart
    BY ForegroundScript, ForegroundCalls, LaunchOnlyLaunches DEF ShellInit, AfterStart
  <2>. QED
    BY <2>1, ExternalAssumption DEF ShellInit, Init, Knowledge, ShellKnows, AfterStart, Threads,
       BytesAreTheOutput, ErrorValExplained
<1>2. JobInv /\ TodoFits /\ TodoFits' /\ Knowledge /\ Keeps /\ [ShellNext]_allVars => Knowledge'
  <2>. SUFFICES ASSUME JobInv, TodoFits, TodoFits', Knowledge, Keeps, [ShellNext]_allVars PROVE Knowledge'
    OBVIOUS
  <2>0. /\ pc[Shell] \in Labels /\ pc \in [Threads -> Labels] /\ Shell \in Threads
        /\ pc[Shell] = "waitStatus" => waitCh > 0
        /\ waitCh > 0 => process \in {"none", "reaped"}
        /\ waitCh > 0 => Terminal(state) \/ overwritten
        /\ outClosed => out = written
        /\ state \in {"killed", "failed"} /\ process # "none" => killed
        /\ kind = "subprocess" /\ process = "none" => ~overwritten
    <3>1. NoLiveProcess
      BY InvLeavesNoProcess DEF JobInv
    <3>. QED
      BY <3>1, ExternalAssumption DEF JobInv, Inv, TypeInv, TypeOK, EndedIsFinal, OutputInv, CauseInv, RunFits,
         NoLiveProcess, EndStateExplained, Threads
  <2>1. /\ mode # "foreground" => todo \in LaunchRest /\ todo' \in LaunchRest /\ todo' \notin AfterStart
        /\ mode = "foreground" => kind = "subprocess" /\ todo \in ForegroundRest
    <3>1. mode' = mode
      BY DEF ShellNext, allVars, shellVars, Program, WriteArgv, WritePty, WriteStart, WriteInput, InputRefused,
             NoInputLeft, CloseInput, ReadWait, WaitRead, ReturnError, ReturnOutput, ReturnRecord, Refused, Fail
    <3>. QED
      BY <3>1, LaunchOnlyLaunches DEF TodoFits
  <2>2. <<>> \notin AfterStart
    BY ForegroundCalls
  <2>. USE <2>0, <2>1, <2>2, ExternalAssumption, ForegroundCalls, LaunchTail
       DEF Knowledge, ShellKnows, BytesAreTheOutput, ErrorValExplained, Keeps, Calls, Advance, Fail, Refused,
           ForegroundRest, AfterStart, LaunchCalls, Step, At, Goto, Terminal
  <2>3. CASE WriteArgv
    BY <2>3 DEF WriteArgv, SetArgv, vars
  <2>4. CASE WritePty
    BY <2>4 DEF WritePty, SetPty, vars
  <2>5. CASE WriteStart
    BY <2>5 DEF WriteStart, StartCmd, Launched, vars
  <2>6. CASE WriteInput
    BY <2>6 DEF WriteInput, WriteStdin, vars
  <2>7. CASE InputRefused
    BY <2>7 DEF InputRefused, WriteRefused
  <2>8. CASE NoInputLeft
    BY <2>8 DEF NoInputLeft, vars
  <2>9. CASE CloseInput
    BY <2>9 DEF CloseInput, CloseStdin, vars
  <2>10. CASE ReadWait
    BY <2>10 DEF ReadWait, WaitFor
  <2>11. CASE WaitRead
    <3>1. state # "none" /\ UNCHANGED <<state, kind, killed, process, waitCh, written>>
      BY <2>11 DEF WaitRead, WaitStatus, jobVars, execVars, doneVars, JobInv, Inv, TypeInv, TypeOK, States
    <3>2. todo \in {FromAgain, FromStdout} /\ pc'[Shell] = "idle"
      BY <2>11 DEF WaitRead, WaitStatus
    <3>3. CASE Fail
      BY <2>11, <3>1, <3>2, <3>3 DEF Launched
    <3>4. CASE status' = state /\ UNCHANGED <<todo, result, got>>
      BY <2>11, <3>1, <3>2, <3>4 DEF Launched
    <3>. QED
      BY <2>11, <3>3, <3>4 DEF WaitRead
  <2>12. CASE ReturnError
    BY <2>12 DEF ReturnError, vars
  <2>13. CASE ReturnOutput
    BY <2>13 DEF ReturnOutput, vars, execVars
  <2>14. CASE ReturnRecord
    BY <2>14 DEF ReturnRecord, vars
  <2>15. CASE (JobSteps \/ Interfere) /\ UNCHANGED shellVars
    <3>1. pc'[Shell] = "waitStatus" <=> pc[Shell] = "waitStatus"
      BY <2>15, WaitStatusIsOwn
    <3>. QED
      BY <2>15, <3>1 DEF shellVars
  <2>16. CASE UNCHANGED allVars
    BY <2>16 DEF allVars, shellVars, vars
  <2>. HIDE DEF Knowledge, TodoFits, Keeps
  <2>. QED
    BY <2>3, <2>4, <2>5, <2>6, <2>7, <2>8, <2>9, <2>10, <2>11, <2>12, <2>13, <2>14, <2>15, <2>16 DEF ShellNext, Program
<1>. QED
  BY <1>1, <1>2

-----------------------------------------------------------------------------

LEMMA ShellInvAlways == ShellSpec => [](JobInv /\ TodoFits /\ Knowledge)
<1>1. ShellInit => JobInv /\ TodoFits /\ Knowledge
  BY ShellStepIsJobStep, JobInvInductive, TodoFitsInductive, ShellKnowsInductive
<1>2. JobInv /\ TodoFits /\ Knowledge /\ [ShellNext]_allVars => (JobInv /\ TodoFits /\ Knowledge)'
  BY ShellStepIsJobStep, JobInvInductive, TodoFitsInductive, ShellKnowsInductive
<1>. QED
  BY <1>1, <1>2, PTL DEF ShellSpec

\* Every variable of the shell stays in its range: it never makes a call its script does
\* not have, nor writes more input than it was given.
THEOREM ShellTypeCorrect == ShellSpec => []ShellTypeOK
<1>1. TodoFits => ShellTypeOK
  <2>. SUFFICES ASSUME TodoFits PROVE ShellTypeOK
    OBVIOUS
  <2>. DEFINE Ops == {"argv", "pty", "start", "input", "eof", "wait", "stdout", "record"}
  <2>1. ForegroundRest \subseteq Seq(Ops)
    BY DEF ForegroundRest, AfterStart, FromArgv, FromStart, FromInput, FromEof, FromWait, FromAgain, FromStdout
  <2>2. LaunchRest \subseteq Seq(Ops)
    BY DEF LaunchRest
  <2>3. todo \in Seq(Ops)
    BY <2>1, <2>2 DEF TodoFits
  <2>. QED
    BY <2>3, ForegroundScript DEF TodoFits, ShellTypeOK
<1>. QED
  BY <1>1, ShellInvAlways, PTL

\* The value of a foreground command is all that a process wrote which ran and is gone,
\* whatever kills, signals and closings of stdin fell between the shell's calls.
THEOREM ValueIsTheOutput == ShellSpec => []BytesAreTheOutput
<1>1. Knowledge => BytesAreTheOutput
  BY DEF Knowledge
<1>. QED
  BY <1>1, ShellInvAlways, PTL

\* An ErrorVal is the value of a command that never ran, or that somebody killed.
THEOREM ErrorIsExplained == ShellSpec => []ErrorValExplained
<1>1. Knowledge => ErrorValExplained
  BY DEF Knowledge
<1>. QED
  BY <1>1, ShellInvAlways, PTL

=============================================================================
