------------------------------- MODULE Language -------------------------------
(***************************************************************************)
(* The language of the shell: a program is read as it was written (Syntax) *)
(* and a pipeline of it computes what its stages say (Pipeline).  A        *)
(* behaviour is of one or the other.                                       *)
(***************************************************************************)
EXTENDS Syntax, Pipeline

LanguageInit ==
  \/ Init /\ live = <<>> /\ moves = 0 /\ pipe = Null /\ stage = Idle /\ stages = MaxStages
  \/ PipeInit /\ done = <<>> /\ expr = BreakExpr /\ nodes = MaxNodes

LanguageNext ==
  \/ Next /\ UNCHANGED pipeVars
  \/ PipeNext /\ UNCHANGED vars

LanguageSpec == LanguageInit /\ [][LanguageNext]_<<vars, pipeVars>>
================================================================================
