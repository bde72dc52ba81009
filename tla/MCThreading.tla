---------------------------- MODULE MCThreading ----------------------------
(***************************************************************************)
(* Two parts of core/threading that share no state, in one run: the arena  *)
(* of slots and the owner wait.  The first state picks a part; a behaviour *)
(* moves that part and leaves the other as it starts.                      *)
(***************************************************************************)
EXTENDS TMpmcArena, OwnerWake

VARIABLE part

MCInit == part \in {"arena", "wake"} /\ Init /\ WakeInit

MCNext == \/ part = "arena" /\ Next /\ UNCHANGED <<part, wakeVars>>
          \/ part = "wake" /\ WakeNext /\ UNCHANGED <<part, vars>>

\* Fairness of the part that moves.
MCSpec ==
  /\ MCInit /\ [][MCNext]_<<part, vars, wakeVars>>
  /\ \A t \in Thread : /\ WF_vars(part = "arena" /\ Continue(t))
                       /\ WF_vars(part = "arena" /\ Acquire(t))
  /\ WF_wakeVars(part = "wake" /\ HostStep)
  /\ \A p \in Publisher : WF_wakeVars(part = "wake" /\ SignalStep(p))
============================================================================
