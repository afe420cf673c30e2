---------------------------- MODULE SessionProofs ----------------------------
(***************************************************************************)
(* Theorems about Session: its type invariant, that a marked line is       *)
(* recorded or still marked dirty, and that Close returns after a flush.   *)
(*                                                                         *)
(* The argument: only ClearDirty takes dirty away, after a Record; a line  *)
(* it loses was marked between the two, which is what overtaken says.  The *)
(* loop ends only through the checkpoint that follows stopCh, and each of  *)
(* its three exits leaves the lines of Close recorded, failed or overtaken.*)
(***************************************************************************)
EXTENDS Session, TLAPS

\* The loop of a shell that is not closing has not ended, nor has it seen stopCh.
LoopFits ==
  \A s \in Shells :
    /\ up[s] = "up" => loop[s] # "done" /\ ~final[s]
    /\ up[s] = "off" => ~final[s]
    /\ up[s] # "off" => markedAtClose[s] <= marked[s]
    /\ up[s] = "closing" /\ loop[s] = "done" => final[s]

Inv == TypeOK /\ LoopFits /\ MarkedIsDirty /\ FlushAtExit

-----------------------------------------------------------------------------

LEMMA TypeInductive ==
  /\ Init => TypeOK
  /\ TypeOK /\ [Next]_vars => TypeOK'
<1>1. Init => TypeOK
  BY SessionAssumption DEF Init, TypeOK
<1>2. TypeOK /\ [Next]_vars => TypeOK'
  <2>. SUFFICES ASSUME TypeOK, [Next]_vars PROVE TypeOK'
    OBVIOUS
  <2>. USE SessionAssumption DEF TypeOK, repoVars, clockVars, histVars, boundVars
  <2>1. CASE Tick
    BY <2>1 DEF Tick, Later
  <2>2. ASSUME NEW s \in Shells, New(s) PROVE TypeOK'
    BY <2>2 DEF New
  <2>3. ASSUME NEW s \in Shells, AppendLine(s) PROVE TypeOK'
    BY <2>3 DEF AppendLine
  <2>4. ASSUME NEW s \in Shells, NEW n \in inFlight[s], MarkDirty(s, n) PROVE TypeOK'
    BY <2>4 DEF MarkDirty
  <2>5. ASSUME NEW s \in Shells, MaybeCheckpoint(s) PROVE TypeOK'
    BY <2>5 DEF MaybeCheckpoint
  <2>6. ASSUME NEW s \in Shells, StopTaken(s) PROVE TypeOK'
    BY <2>6 DEF StopTaken
  <2>7. ASSUME NEW s \in Shells, ReadDirty(s) PROVE TypeOK'
    BY <2>7 DEF ReadDirty, Return
  <2>8. ASSUME NEW s \in Shells, Record(s) PROVE TypeOK'
    BY <2>8 DEF Record
  <2>9. ASSUME NEW s \in Shells, RecordFails(s) PROVE TypeOK'
    BY <2>9 DEF RecordFails, Return
  <2>10. ASSUME NEW s \in Shells, ClearDirty(s) PROVE TypeOK'
    BY <2>10 DEF ClearDirty, Return
  <2>11. ASSUME NEW s \in Shells, Close(s) PROVE TypeOK'
    BY <2>11 DEF Close
  <2>12. ASSUME NEW s \in Shells, Exit(s) PROVE TypeOK'
    BY <2>12 DEF Exit, Gone
  <2>13. ASSUME NEW s \in Shells, Crash(s) PROVE TypeOK'
    BY <2>13 DEF Crash, Gone
  <2>14. CASE UNCHANGED vars
    BY <2>14 DEF vars
  <2>. HIDE DEF TypeOK
  <2>. QED
    BY <2>1, <2>2, <2>3, <2>4, <2>5, <2>6, <2>7,
       <2>8, <2>9, <2>10, <2>11, <2>12, <2>13, <2>14 DEF Next, LoopStep
<1>. QED
  BY <1>1, <1>2

\* Every variable of the recorder stays in its range; no patch holds more lines than
\* the working tree.
THEOREM SessionTypeCorrect == Spec => []TypeOK
  BY TypeInductive, PTL DEF Spec

LEMMA InvInductive ==
  /\ Init => Inv
  /\ Inv /\ [Next]_vars => Inv'
<1>1. Init => Inv
  BY TypeInductive DEF Init, Inv, LoopFits, MarkedIsDirty, FlushAtExit
<1>2. Inv /\ [Next]_vars => Inv'
  <2>. SUFFICES ASSUME Inv, [Next]_vars PROVE Inv'
    OBVIOUS
  <2>t. TypeOK'
    BY TypeInductive DEF Inv
  <2>. USE <2>t, SessionAssumption DEF Inv, TypeOK, LoopFits, MarkedIsDirty, FlushAtExit,
            repoVars, clockVars, histVars, boundVars
  <2>1. CASE Tick
    BY <2>1 DEF Tick, Later
  <2>2. ASSUME NEW s \in Shells, New(s) PROVE Inv'
    BY <2>2 DEF New
  <2>3. ASSUME NEW s \in Shells, AppendLine(s) PROVE Inv'
    BY <2>3 DEF AppendLine
  <2>4. ASSUME NEW s \in Shells, NEW n \in inFlight[s], MarkDirty(s, n) PROVE Inv'
    BY <2>4 DEF MarkDirty
  <2>5. ASSUME NEW s \in Shells, MaybeCheckpoint(s) PROVE Inv'
    BY <2>5 DEF MaybeCheckpoint
  <2>6. ASSUME NEW s \in Shells, StopTaken(s) PROVE Inv'
    BY <2>6 DEF StopTaken
  <2>7. ASSUME NEW s \in Shells, ReadDirty(s) PROVE Inv'
    BY <2>7 DEF ReadDirty, Return
  <2>8. ASSUME NEW s \in Shells, Record(s) PROVE Inv'
    BY <2>8 DEF Record
  <2>9. ASSUME NEW s \in Shells, RecordFails(s) PROVE Inv'
    BY <2>9 DEF RecordFails, Return
  <2>10. ASSUME NEW s \in Shells, ClearDirty(s) PROVE Inv'
    BY <2>10 DEF ClearDirty, Return
  <2>11. ASSUME NEW s \in Shells, Close(s) PROVE Inv'
    BY <2>11 DEF Close
  <2>12. ASSUME NEW s \in Shells, Exit(s) PROVE Inv'
    BY <2>12 DEF Exit, Gone
  <2>13. ASSUME NEW s \in Shells, Crash(s) PROVE Inv'
    BY <2>13 DEF Crash, Gone
  <2>14. CASE UNCHANGED vars
    BY <2>14 DEF vars
  <2>. HIDE DEF Inv
  <2>. QED
    BY <2>1, <2>2, <2>3, <2>4, <2>5, <2>6, <2>7,
       <2>8, <2>9, <2>10, <2>11, <2>12, <2>13, <2>14 DEF Next, LoopStep
<1>. QED
  BY <1>1, <1>2

LEMMA InvAlways == Spec => []Inv
  BY InvInductive, PTL DEF Spec

\* A line that a running shell has marked is recorded or the repository is still dirty:
\* failures of 9vcs, other shells and restarts lose none; only overtaking does.
THEOREM MarkIsKept == Spec => []MarkedIsDirty
<1>1. Inv => MarkedIsDirty
  BY DEF Inv
<1>. QED
  BY <1>1, InvAlways, PTL

\* When Close returns, what was marked before it is recorded, or 9vcs failed at the last
\* checkpoint, or a line was overtaken.
THEOREM CloseFlushes == Spec => []FlushAtExit
<1>1. Inv => FlushAtExit
  BY DEF Inv
<1>. QED
  BY <1>1, InvAlways, PTL

=============================================================================
