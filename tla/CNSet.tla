-------------------------------- MODULE CNSet --------------------------------
(***************************************************************************)
(* The CNSet controller (src/pkg/controllers/cnset): it keeps a kruise     *)
(* CloneSet like the CNSet says, and kruise creates, relabels and deletes  *)
(* the pods.  A reconciliation reads current objects and is one step.      *)
(***************************************************************************)
EXTENDS Naturals, FiniteSets, Optional

CONSTANTS
  Sets,        \* names of CNSets
  Pods,        \* names of pods
  MaxReplicas  \* bound: replicas of a CNSet

ASSUME CNSetAssumption ==
  /\ IsFiniteSet(Pods)
  /\ MaxReplicas \in Nat
  /\ Cardinality(Pods) <= MaxReplicas

VARIABLES
  cnset,  \* the CNSets
  cs,     \* the CloneSets
  pods    \* the pods

-----------------------------------------------------------------------------
(* Objects *)

Templates == 0 .. 1  \* all that makes a pod other than its labels

\* The name of the CloneSet of a CNSet is the set's name with a suffix.
setName(s) == <<s, "cn">>

CNSetObj ==
  [ st       : {"none", "live", "deleting"},
    replicas : 0 .. MaxReplicas,
    del      : SUBSET Pods,           \* spec.podsToDelete
    outdated : BOOLEAN,               \* the overlay has the outdated label
    tpl      : Templates,
    pause    : BOOLEAN,               \* spec.pauseUpdate
    drain    : BOOLEAN,               \* spec.terminationPolicy is Drain
    selector : BOOLEAN,               \* status.labelSelector is known
    running  : 0 .. Cardinality(Pods) ] \* status.replicas

CloneSetObj ==
  [ st       : {"none", "live"},
    replicas : 0 .. MaxReplicas,
    del      : SUBSET Pods,
    outdated : BOOLEAN,
    tpl      : Templates ]

PodObj ==
  [ set      : Opt(Sets),
    direct   : BOOLEAN,  \* created beside the CloneSet
    phase    : {"none", "Unknown", "Idle", "Bound", "Draining", "Terminating"},
    outdated : BOOLEAN,
    stopping : BOOLEAN ] \* its deletion has begun

NoCNSet == [ st |-> "none", replicas |-> 0, del |-> {}, outdated |-> FALSE, tpl |-> 0,
             pause |-> FALSE, drain |-> FALSE, selector |-> FALSE, running |-> 0 ]

NoPod == [set |-> NONE, direct |-> FALSE, phase |-> "none", outdated |-> FALSE, stopping |-> FALSE]

NoCloneSet == [st |-> "none", replicas |-> 0, del |-> {}, outdated |-> FALSE, tpl |-> 0]

CNSetTypeOK ==
  /\ cnset \in [Sets -> CNSetObj]
  /\ cs \in [{setName(s) : s \in Sets} -> CloneSetObj]
  /\ pods \in [Pods -> PodObj]

Exists(p) == pods[p].phase # "none"
OfSet(s) == {p \in Pods : Exists(p) /\ pods[p].set = s /\ ~pods[p].direct}

-----------------------------------------------------------------------------
(* The controller *)

scaleSet(c, set) == [set EXCEPT !.replicas = c.replicas, !.del = c.del]

syncCloneSet(c, set) == [set EXCEPT !.outdated = c.outdated, !.tpl = c.tpl]

Create(c) == syncCloneSet(c, scaleSet(c, [NoCloneSet EXCEPT !.st = "live"]))

\* What an update changes: of a paused set only what pods take in place.
Update(c, set) ==
  IF c.pause THEN [set EXCEPT !.outdated = c.outdated] ELSE syncCloneSet(c, set)

NeedsScale(c, set) == c.replicas # set.replicas \/ c.del # set.del

WithStatus(c, s) == [c EXCEPT !.selector = TRUE, !.running = Cardinality(OfSet(s))]

\* The CloneSet is created, or updated, or the status is taken and the
\* CloneSet scaled; one of them in a reconciliation.
Observe(s) ==
  LET c == cnset[s] IN
  LET set == cs[setName(s)] IN
  /\ c.st = "live"
  /\ IF set.st = "none"
     THEN cs' = [cs EXCEPT ![setName(s)] = Create(c)] /\ UNCHANGED cnset
     ELSE IF Update(c, set) # set
     THEN cs' = [cs EXCEPT ![setName(s)] = Update(c, set)] /\ UNCHANGED cnset
     ELSE /\ cnset' = [cnset EXCEPT ![s] = WithStatus(c, s)]
          /\ cs' = IF NeedsScale(c, set)
                   THEN [cs EXCEPT ![setName(s)] = scaleSet(c, set)] ELSE cs
  /\ UNCHANGED pods

\* The CloneSet is looked up by the name of the CNSet, under which there is
\* none.
waitAllCNDrained(s) ==
  s \in DOMAIN cs => cs[s].st = "none" \/ OfSet(s) = {}

Finalize(s) ==
  /\ cnset[s].st = "deleting"
  /\ cnset[s].drain => waitAllCNDrained(s)
  /\ cs' = [cs EXCEPT ![setName(s)] = NoCloneSet]
  /\ cnset' = [cnset EXCEPT ![s] = NoCNSet]
  /\ UNCHANGED pods

-----------------------------------------------------------------------------
(* kruise *)

Active(s) == {p \in OfSet(s) : ~pods[p].stopping /\ p \notin cs[setName(s)].del}

\* Names of pods are not used again while something still refers to them.
Unused(p) ==
  /\ ~Exists(p)
  /\ \A s \in Sets : p \notin cnset[s].del /\ p \notin cs[setName(s)].del

NewPod(s) == [NoPod EXCEPT !.set = s, !.phase = "Unknown", !.outdated = cs[setName(s)].outdated]

CreatePod(s, p) ==
  /\ cs[setName(s)].st = "live"
  /\ Cardinality(Active(s)) < cs[setName(s)].replicas
  /\ Unused(p)
  /\ pods' = [pods EXCEPT ![p] = NewPod(s)]
  /\ UNCHANGED <<cnset, cs>>

\* A pod begins to stop when the CloneSet names it or is gone.
StopPod(p) ==
  /\ Exists(p) /\ ~pods[p].direct /\ ~pods[p].stopping
  /\ LET set == cs[setName(pods[p].set)] IN set.st = "none" \/ p \in set.del
  /\ pods' = [pods EXCEPT ![p].stopping = TRUE]
  /\ UNCHANGED <<cnset, cs>>

\* The labels of the template reach the pod in place.
RelabelPod(p) ==
  /\ Exists(p) /\ ~pods[p].direct
  /\ LET set == cs[setName(pods[p].set)]
     IN /\ set.st = "live" /\ set.outdated # pods[p].outdated
        /\ pods' = [pods EXCEPT ![p].outdated = set.outdated]
  /\ UNCHANGED <<cnset, cs>>
=============================================================================
