------------------------------ MODULE Cluster ------------------------------
(***************************************************************************)
(* One Deployment as remediator.py and rollback.py meet it: its pod        *)
(* template, the status that the deployment controller reports, its        *)
(* ReplicaSets, and everybody else who writes to it.  None of this is      *)
(* KubeHeal's own code.                                                    *)
(*                                                                         *)
(* A template is the part a deploy changes (image: image, command, args    *)
(* and env together), the fields of PatchMerge, and the pod-template-hash  *)
(* label that ReplicaSets carry.  A ReplicaSet is named by its template.   *)
(* Counters are kept as what the code compares: generation against         *)
(* observedGeneration, resourceVersion against the one a client read.      *)
(***************************************************************************)
EXTENDS PatchMerge, Naturals, Sequences, SequencesExt

CONSTANTS
  Images,         \* the deployable versions
  FirstSpec,      \* the container fields at the start
  Edits,          \* the field changes that somebody else may make
  Clients,        \* the remediations that may hold a copy of the Deployment
  Disturbances,   \* what others may do meanwhile
  MaxDisturbances \* how often they do it (bounds a model)

AllDisturbances ==
  { "deploy",     \* a new version is deployed, fields are edited
    "scale",      \* the Deployment is scaled to zero or up again
    "collect",    \* old ReplicaSets are removed (revisionHistoryLimit)
    "exception" } \* an error that remediator.py does not catch; a crash

ASSUME ClusterAssumption ==
  /\ FirstSpec \in Specs
  /\ Edits \subseteq SpecPatches
  /\ Disturbances \subseteq AllDisturbances
  /\ MaxDisturbances \in Nat

VARIABLES
  template,   \* spec.template of the Deployment
  observed,   \* status.observedGeneration has reached metadata.generation
  level,      \* ready, updated and available replicas equal spec.replicas
  scaledUp,   \* spec.replicas > 0
  history,    \* the ReplicaSets by ascending revision
  aged,       \* those created more than rollback_window_seconds ago
  ran,        \* every template there has been a ReplicaSet of
  fresh,      \* the clients whose copy has the current resourceVersion
  disturbed   \* the disturbances so far

clusterVars == <<template, observed, level, scaledUp, history, aged, ran, fresh, disturbed>>

Templates == [image : Images, fields : Specs, hash : BOOLEAN]

ClusterTypeOK ==
  /\ template \in Templates
  /\ observed \in BOOLEAN
  /\ level \in BOOLEAN
  /\ scaledUp \in BOOLEAN
  /\ history \in Seq(Templates)
  /\ aged \subseteq Templates
  /\ ran \subseteq Templates
  /\ fresh \subseteq Clients
  /\ disturbed \in 0 .. MaxDisturbances

\* A Deployment that has been rolled out.
ClusterInit ==
  /\ \E i \in Images : template = [image |-> i, fields |-> FirstSpec, hash |-> FALSE]
  /\ observed = TRUE
  /\ level \in BOOLEAN
  /\ scaledUp = TRUE
  /\ history = <<template>>
  /\ aged = {}
  /\ ran = {template}
  /\ fresh = {}
  /\ disturbed = 0

-----------------------------------------------------------------------------
(* What a write to the Deployment does.                                    *)

\* A write of the template: a change makes a new generation.
SetTemplate(t) ==
  /\ template' = t
  /\ observed' = (observed /\ t = template)
  /\ fresh' = IF t = template THEN fresh ELSE {}
  /\ UNCHANGED <<level, scaledUp, history, aged, ran>>

\* A strategic merge patch of the container fields.
MergeFields(p) == SetTemplate([template EXCEPT !.fields = Merge(@, p)])

\* A write of metadata only.
Annotated ==
  /\ fresh' = {}
  /\ UNCHANGED <<template, observed, level, scaledUp, history, aged, ran, disturbed>>

-----------------------------------------------------------------------------
(* The deployment controller and the kubelets.                             *)

\* The controller sees the new generation: the ReplicaSet of the template gets
\* the highest revision and is created if there is none; the status is new.
Sync ==
  /\ ~observed
  /\ observed' = TRUE
  /\ level' \in BOOLEAN
  /\ \/ /\ \A n \in DOMAIN history : history[n] # template
        /\ history' = Append(history, template)
        /\ aged' = aged \ {template}
     \/ /\ \E n \in DOMAIN history :
             history[n] = template /\ history' = Append(RemoveAt(history, n), template)
        /\ UNCHANGED aged
  /\ ran' = ran \cup {template}
  /\ fresh' = {}
  /\ UNCHANGED <<template, scaledUp, disturbed>>

\* Pods become ready, or crash.
PodsChange ==
  /\ level' = ~level
  /\ fresh' = {}
  /\ UNCHANGED <<template, observed, scaledUp, history, aged, ran, disturbed>>

RSAges ==
  /\ \E n \in DOMAIN history : history[n] \notin aged /\ aged' = aged \cup {history[n]}
  /\ UNCHANGED <<template, observed, level, scaledUp, history, ran, fresh, disturbed>>

Disturb(d) ==
  /\ d \in Disturbances
  /\ disturbed < MaxDisturbances
  /\ disturbed' = disturbed + 1

RSCollected ==
  /\ Disturb("collect")
  /\ \E n \in 1 .. Len(history) - 1 :
       history' = RemoveAt(history, n) /\ aged' = aged \ {history[n]}
  /\ UNCHANGED <<template, observed, level, scaledUp, ran, fresh>>

-----------------------------------------------------------------------------
(* Other writers.                                                          *)

Deploy ==
  /\ Disturb("deploy")
  /\ \/ \E i \in Images \ {template.image} : SetTemplate([template EXCEPT !.image = i])
     \/ \E p \in Edits : MergeFields(p)

Scale ==
  /\ Disturb("scale")
  /\ scaledUp' = ~scaledUp
  /\ observed' = FALSE
  /\ fresh' = {}
  /\ UNCHANGED <<template, level, history, aged, ran>>

ClusterStep == Sync \/ PodsChange \/ RSAges \/ RSCollected \/ Deploy \/ Scale
=============================================================================
