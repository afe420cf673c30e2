------------------------------- MODULE JobLife -------------------------------
(***************************************************************************)
(* What a job promises to those who watch it, whatever happens inside: it  *)
(* is started at most once and ends at most once, perhaps before it ever   *)
(* started; those who wait for it are released after its end, once; and    *)
(* its end is recorded after that, once.  Job implements this.              *)
(***************************************************************************)
EXTENDS Naturals

VARIABLES
  phase,     (* how far the job is in its life                              *)
  released,  (* how many times its waiters have been released               *)
  records    (* how many times its end has been recorded                    *)

lifeVars == <<phase, released, records>>

LifeTypeOK ==
  /\ phase \in {"pending", "running", "ended"}
  /\ released \in 0..1 /\ records \in 0..1

LifeInit == phase = "pending" /\ released = 0 /\ records = 0

Begin ==
  /\ phase = "pending" /\ phase' = "running"
  /\ UNCHANGED <<released, records>>

End ==
  /\ phase # "ended" /\ phase' = "ended"
  /\ UNCHANGED <<released, records>>

Release ==
  /\ phase = "ended" /\ released = 0
  /\ released' = 1
  /\ UNCHANGED <<phase, records>>

Record ==
  /\ released = 1 /\ records = 0
  /\ records' = 1
  /\ UNCHANGED <<phase, released>>

LifeNext == Begin \/ End \/ Release \/ Record

LifeSpec == LifeInit /\ [][LifeNext]_lifeVars

=============================================================================
