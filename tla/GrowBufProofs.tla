---------------------------- MODULE GrowBufProofs ----------------------------
(***************************************************************************)
(* Theorems about GrowBuf: its type invariant, that no wakeup is missed,   *)
(* that the end is told only at the end, and that it implements Tail.      *)
(*                                                                         *)
(* The argument: while a reader is between its check of the buffer and     *)
(* cond.Wait it holds the mutex, so neither Write nor Close can come in;   *)
(* once it is enlisted, each of them empties the list of those who wait.   *)
(***************************************************************************)
EXTENDS GrowBuf, TLAPS

\* The mutex is held across steps only by the reader about to wait.
HolderWaits == \A r \in Readers : mu = r <=> pc[r] = "watched"

\* Only a reader in cond.Wait is enlisted.
EnlistedWait == \A r \in waiting : pc[r] = "wait"

\* A reader about to wait, or asleep, has seen all there is.
NothingToRead ==
  \A r \in Readers :
    pc[r] = "watched" \/ (pc[r] = "wait" /\ r \in waiting) => offset[r] >= len /\ ~closed

\* No offset is past the end, and a reader told of the end reads no more.
OffsetsFit ==
  /\ \A r \in Readers : offset[r] <= len
  /\ \A r \in Readers : ended[r] => pc[r] = "idle"

Inv == TypeOK /\ HolderWaits /\ EnlistedWait /\ NothingToRead /\ OffsetsFit /\ EndIsTheEnd

-----------------------------------------------------------------------------

LEMMA TypeInductive ==
  /\ Init => TypeOK
  /\ TypeOK /\ [Next]_vars => TypeOK'
<1>1. Init => TypeOK
  <2>. SUFFICES ASSUME Init PROVE TypeOK
    OBVIOUS
  <2>1. closed \in BOOLEAN
    BY Zenon DEF Init
  <2>. QED
    BY <2>1 DEF Init, TypeOK
<1>2. TypeOK /\ [Next]_vars => TypeOK'
  <2>. SUFFICES ASSUME TypeOK, [Next]_vars PROVE TypeOK'
    OBVIOUS
  <2>. USE GrowBufAssumption DEF TypeOK, Broadcast, Return, bufVars, callVars
  <2>1. CASE Write
    BY <2>1 DEF Write
  <2>2. CASE Close
    BY <2>2 DEF Close
  <2>3. ASSUME NEW r \in Readers, Call(r) PROVE TypeOK'
    BY <2>3 DEF Call
  <2>4. ASSUME NEW r \in Readers, ReadText(r) PROVE TypeOK'
    BY <2>4 DEF ReadText
  <2>5. ASSUME NEW r \in Readers, ReadEnd(r) PROVE TypeOK'
    BY <2>5 DEF ReadEnd
  <2>6. ASSUME NEW r \in Readers, ReadCancelled(r) PROVE TypeOK'
    BY <2>6 DEF ReadCancelled
  <2>7. ASSUME NEW r \in Readers, StartWatcher(r) PROVE TypeOK'
    BY <2>7 DEF StartWatcher
  <2>8. ASSUME NEW r \in Readers, Wait(r) PROVE TypeOK'
    BY <2>8 DEF Wait
  <2>9. ASSUME NEW r \in Readers, Woken(r) PROVE TypeOK'
    BY <2>9 DEF Woken
  <2>10. ASSUME NEW r \in Readers, Flush(r) PROVE TypeOK'
    BY <2>10 DEF Flush
  <2>11. ASSUME NEW r \in Readers, WatcherBroadcasts(r) PROVE TypeOK'
    BY <2>11 DEF WatcherBroadcasts
  <2>12. CASE StrayLeaves
    BY <2>12 DEF StrayLeaves
  <2>13. CASE UNCHANGED vars
    BY <2>13 DEF vars
  <2>. QED
    BY <2>1, <2>2, <2>3, <2>4, <2>5, <2>6, <2>7, <2>8, <2>9, <2>10, <2>11, <2>12, <2>13
       DEF Next, ReadStep
<1>. QED
  BY <1>1, <1>2

\* Every variable of the buffer stays in its range.
THEOREM GrowBufTypeCorrect == Spec => []TypeOK
  BY TypeInductive, PTL DEF Spec

LEMMA InvInductive ==
  /\ Init => Inv
  /\ Inv /\ [Next]_vars => Inv'
<1>1. Init => Inv
  BY TypeInductive, FreeAssumption
     DEF Init, Inv, HolderWaits, EnlistedWait, NothingToRead, OffsetsFit, EndIsTheEnd
<1>2. Inv /\ [Next]_vars => Inv'
  <2>. SUFFICES ASSUME Inv, [Next]_vars PROVE Inv'
    OBVIOUS
  <2>t. TypeOK'
    BY TypeInductive DEF Inv
  <2>. USE <2>t, FreeAssumption DEF Inv, TypeOK, HolderWaits, EnlistedWait, NothingToRead,
            OffsetsFit, EndIsTheEnd, Broadcast, Return, bufVars, callVars
  <2>1. CASE Write
    BY <2>1 DEF Write
  <2>2. CASE Close
    BY <2>2 DEF Close
  <2>3. ASSUME NEW r \in Readers, Call(r) PROVE Inv'
    BY <2>3 DEF Call
  <2>4. ASSUME NEW r \in Readers, ReadText(r) PROVE Inv'
    BY <2>4 DEF ReadText
  <2>5. ASSUME NEW r \in Readers, ReadEnd(r) PROVE Inv'
    BY <2>5 DEF ReadEnd
  <2>6. ASSUME NEW r \in Readers, ReadCancelled(r) PROVE Inv'
    BY <2>6 DEF ReadCancelled
  <2>7. ASSUME NEW r \in Readers, StartWatcher(r) PROVE Inv'
    BY <2>7 DEF StartWatcher
  <2>8. ASSUME NEW r \in Readers, Wait(r) PROVE Inv'
    BY <2>8 DEF Wait
  <2>9. ASSUME NEW r \in Readers, Woken(r) PROVE Inv'
    BY <2>9 DEF Woken
  <2>10. ASSUME NEW r \in Readers, Flush(r) PROVE Inv'
    BY <2>10 DEF Flush
  <2>11. ASSUME NEW r \in Readers, WatcherBroadcasts(r) PROVE Inv'
    BY <2>11 DEF WatcherBroadcasts
  <2>12. CASE StrayLeaves
    BY <2>12 DEF StrayLeaves
  <2>13. CASE UNCHANGED vars
    BY <2>13 DEF vars
  <2>. HIDE DEF Inv
  <2>. QED
    BY <2>1, <2>2, <2>3, <2>4, <2>5, <2>6, <2>7, <2>8, <2>9, <2>10, <2>11, <2>12, <2>13
       DEF Next, ReadStep
<1>. QED
  BY <1>1, <1>2

LEMMA InvAlways == Spec => []Inv
  BY InvInductive, PTL DEF Spec

\* A reader asleep on the condition variable has nothing to be woken for: Write and
\* Close cannot fall between its check of the buffer and its enlistment.
THEOREM NoWakeupMissed == Spec => []NoMissedWakeup
<1>1. Inv => NoMissedWakeup
  BY DEF Inv, NothingToRead, NoMissedWakeup
<1>. QED
  BY <1>1, InvAlways, PTL

\* A reader told of the end has read everything, and nothing is written after.
THEOREM EndIsTold == Spec => []EndIsTheEnd
<1>1. Inv => EndIsTheEnd
  BY DEF Inv
<1>. QED
  BY <1>1, InvAlways, PTL

-----------------------------------------------------------------------------

LEMMA StepIsTailStep == Inv /\ [Next]_vars => [Promise!TailNext]_(Promise!tailVars)
<1>. SUFFICES ASSUME Inv, [Next]_vars PROVE [Promise!TailNext]_(Promise!tailVars)
  OBVIOUS
<1>. USE DEF Promise!TailNext, Promise!tailVars, bufVars, callVars
<1>1. CASE Write
  BY <1>1 DEF Write, Promise!Grow
<1>2. CASE Close
  BY <1>2 DEF Close, Promise!Shut
<1>3. ASSUME NEW r \in Readers, ReadText(r) PROVE Promise!Advance(r)
  BY <1>3 DEF ReadText, Return, Inv, OffsetsFit, Promise!Advance, bufVars
<1>4. ASSUME NEW r \in Readers, ReadEnd(r) PROVE Promise!Told(r)
  BY <1>4 DEF ReadEnd, Return, Inv, TypeOK, OffsetsFit, Promise!Told
<1>5. ASSUME NEW r \in Readers,
             Call(r) \/ ReadCancelled(r) \/ StartWatcher(r) \/ Wait(r) \/ Woken(r)
                \/ Flush(r) \/ WatcherBroadcasts(r)
      PROVE UNCHANGED Promise!tailVars
  BY <1>5 DEF Call, ReadCancelled, Return, StartWatcher, Wait, Woken, Flush, WatcherBroadcasts
<1>6. CASE StrayLeaves
  BY <1>6 DEF StrayLeaves
<1>7. CASE UNCHANGED vars
  BY <1>7 DEF vars
<1>. QED
  BY <1>1, <1>2, <1>3, <1>4, <1>5, <1>6, <1>7 DEF Next, ReadStep

\* The buffer is a Tail: readers see one growing text, each in order at an offset of
\* its own, and are told of the end exactly when they have all of it.
THEOREM GrowBufImplementsTail == Spec => ImplementsTail
<1>1. Init => Promise!TailInit
  BY DEF Init, Promise!TailInit
<1>. QED
  BY <1>1, StepIsTailStep, InvAlways, PTL DEF Spec, ImplementsTail, Promise!TailSpec

=============================================================================
