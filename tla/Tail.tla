-------------------------------- MODULE Tail --------------------------------
(***************************************************************************)
(* What a stream file (stdout, stderr, events) promises a reader that      *)
(* follows it: every reader advances through the same growing text at its  *)
(* own offset, never past its end, and is told it has ended only when the  *)
(* stream is closed and the reader has all of it.  GrowBuf implements this.*)
(***************************************************************************)
EXTENDS Integers

CONSTANT Readers

VARIABLES
  length,   (* how much has been written                                    *)
  shut,     (* no more will be                                              *)
  seen,     (* how far each reader is                                       *)
  over      (* which readers have been told of the end                      *)

tailVars == <<length, shut, seen, over>>

TailInit ==
  /\ length = 0 /\ shut = FALSE
  /\ seen = [r \in Readers |-> 0]
  /\ over = [r \in Readers |-> FALSE]

Grow ==
  /\ ~shut
  /\ length' = length + 1
  /\ UNCHANGED <<shut, seen, over>>

Shut ==
  /\ shut' = TRUE
  /\ UNCHANGED <<length, seen, over>>

Advance(r) ==
  /\ ~over[r] /\ seen[r] < length
  /\ \E n \in seen[r] + 1 .. length : seen' = [seen EXCEPT ![r] = n]
  /\ UNCHANGED <<length, shut, over>>

Told(r) ==
  /\ shut /\ seen[r] = length
  /\ over' = [over EXCEPT ![r] = TRUE]
  /\ UNCHANGED <<length, shut, seen>>

TailNext == Grow \/ Shut \/ \E r \in Readers : Advance(r) \/ Told(r)

TailSpec == TailInit /\ [][TailNext]_tailVars

=============================================================================
