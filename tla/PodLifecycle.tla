---------------------------- MODULE PodLifecycle ----------------------------
(***************************************************************************)
(* What the pool promises about each of its pods, whichever controller     *)
(* moves it: a pod serves one claim at a time, goes back to the pool only  *)
(* through Draining, and is never taken away from the claim that holds it  *)
(* to make the pool smaller.  A pod that is Terminating stays so until it  *)
(* is gone, except a Condemned one, which was set to Terminating while its *)
(* registration was under way and may come back as Idle.                   *)
(***************************************************************************)
CONSTANTS Pods, Claims, NONE

VARIABLES phase, holder

vars == <<phase, holder>>

Phases == {"none", "Unknown", "Idle", "Bound", "Draining", "Condemned", "Terminating"}

Moves == {<<"none", "Unknown">>, <<"Unknown", "Idle">>, <<"Draining", "Idle">>,
          <<"Bound", "Draining">>, <<"Draining", "Terminating">>,
          <<"Idle", "Terminating">>, <<"Unknown", "Terminating">>,
          <<"Unknown", "Condemned">>, <<"Condemned", "Idle">>,
          <<"Condemned", "Terminating">>}

Init == phase \in [Pods -> {"none", "Unknown"}] /\ holder = [p \in Pods |-> NONE]

\* A claim takes an Idle pod.
Claim(p, c) ==
  /\ phase[p] = "Idle"
  /\ phase' = [phase EXCEPT ![p] = "Bound"]
  /\ holder' = [holder EXCEPT ![p] = c]

\* Each pod keeps its phase and its holder, or makes one of the moves and
\* then nobody holds it.
Move ==
  /\ phase' \in [Pods -> Phases]
  /\ holder' \in [Pods -> Claims \cup {NONE}]
  /\ \A p \in Pods :
       \/ phase'[p] = phase[p] /\ holder'[p] = holder[p]
       \/ <<phase[p], phase'[p]>> \in Moves /\ holder'[p] = NONE

\* A pod is deleted, its node fails, or it is replaced.
Vanish(p) ==
  /\ phase[p] # "none"
  /\ phase' = [phase EXCEPT ![p] = "none"]
  /\ holder' = [holder EXCEPT ![p] = NONE]

Next ==
  \/ \E p \in Pods : (\E c \in Claims : Claim(p, c)) \/ Vanish(p)
  \/ Move

Spec == Init /\ [][Next]_vars
=============================================================================
