----------------------------- MODULE PatchMerge -----------------------------
(***************************************************************************)
(* The part of a pod template that an approved patch may change, and the   *)
(* pure functions on it: the strategic merge of the API server, the patch  *)
(* that remediator._capture_rollback prepares for the undo, and the diff   *)
(* that patchdiff.render_diff shows to the human who decides.              *)
(*                                                                         *)
(* A field of a container is there or not, and holds a value or nothing    *)
(* at each path below it ("limits.memory", "httpGet.port", ...).  A patch  *)
(* keeps a field (does not mention it), sets it to null, or merges values  *)
(* into it; at a path that it does not mention it has Nothing.  What is    *)
(* merged in is stored in the spelling of the server ("1024Mi" as "1Gi"),  *)
(* which also fills in the defaults of a probe.                            *)
(***************************************************************************)

CONSTANTS
  Containers,     \* the containers of the pod template
  Fields,         \* safety.ALLOWED_FIELDS
  StructFields,   \* the fields the API server returns as {} when they are empty
  Paths,          \* the leaf paths below a field
  Values,         \* what may stand at a path, told apart by its text
  Nothing,        \* nothing stands there; in a patch: not mentioned
  Null,           \* in a patch: JSON null, which removes what stands there
  Canon,          \* how the API server spells a value
  Default         \* what it fills in at an empty path of a field that is there

NoLeaves == [k \in Paths |-> Nothing]

CanonicalValues == {v \in Values : Canon[v] = v}

ASSUME PatchAssumption ==
  /\ StructFields \subseteq Fields
  /\ Nothing \notin Values
  /\ Null \notin Values
  /\ Nothing # Null
  /\ Canon \in [Values -> CanonicalValues]
  /\ Default \in [Fields -> [Paths -> CanonicalValues \cup {Nothing}]]
  /\ \A f \in StructFields : Default[f] = NoLeaves

FieldValues == [there : BOOLEAN, leaf : [Paths -> Values \cup {Nothing}]]

Absent == [there |-> FALSE, leaf |-> NoLeaves]

\* A field as the API server stores it: spelled its way, no default missing.
IsStored(f, v) ==
  IF v.there
  THEN \A k \in Paths : /\ v.leaf[k] \in CanonicalValues \cup {Nothing}
                        /\ v.leaf[k] = Nothing => Default[f][k] = Nothing
  ELSE f \notin StructFields /\ v = Absent

\* The fields of all containers, as the API server stores them.
Specs ==
  {s \in [Containers -> [Fields -> FieldValues]] :
     \A c \in Containers, f \in Fields : IsStored(f, s[c][f])}

FieldPatches == [op : {"keep", "null", "merge"}, leaf : [Paths -> Values \cup {Nothing, Null}]]

Keep == [op |-> "keep", leaf |-> NoLeaves]

NoFieldPatches == [f \in Fields |-> Keep]

SpecPatches == [Containers -> [Fields -> FieldPatches]]

NoPatch == [c \in Containers |-> NoFieldPatches]

-----------------------------------------------------------------------------
(* The containers list of a patch.                                         *)

\* What validate_patch lets through is a list of entries, each with the name of
\* a container and any allowed fields, none included.  The diff looks at the
\* first entry; rest is what the others amount to, those of the same container
\* included.
PatchLists == [name : Containers, first : [Fields -> FieldPatches], rest : SpecPatches]

\* Two patches of a field, one after the other: at each path the last word counts.
Overlay(p, q) ==
  IF q.op = "keep" THEN p
  ELSE IF p.op = "keep" THEN q
  ELSE [op |-> "merge",
        leaf |-> [k \in Paths |-> IF q.leaf[k] = Nothing THEN p.leaf[k] ELSE q.leaf[k]]]

\* What a list of entries asks of each container.
Net(l) ==
  [c \in Containers |-> [f \in Fields |->
     IF c = l.name THEN Overlay(l.first[f], l.rest[c][f]) ELSE l.rest[c][f]]]

-----------------------------------------------------------------------------
(* The strategic merge.                                                    *)

\* The value v, if the patch does not mention the path, otherwise its own.
MergeLeaf(v, p) ==
  CASE p = Nothing -> v
    [] p = Null    -> Nothing
    [] OTHER       -> Canon[p]

Filled(v, d) == IF v = Nothing THEN d ELSE v

MergeField(f, v, p) ==
  CASE p.op = "keep"  -> v
    [] p.op = "null"  -> IF f \in StructFields THEN [Absent EXCEPT !.there = TRUE] ELSE Absent
    [] p.op = "merge" ->
         [there |-> TRUE,
          leaf |-> [k \in Paths |-> Filled(MergeLeaf(v.leaf[k], p.leaf[k]), Default[f][k])]]

Merge(s, p) ==
  [c \in Containers |-> [f \in Fields |-> MergeField(f, s[c][f], p[c][f])]]

-----------------------------------------------------------------------------
(* _capture_rollback.                                                      *)

\* Mutant of Capture: a field that is not there is left out of the restore.
Capture_SkipsAbsent(s, c) ==
  [d \in Containers |-> [f \in Fields |->
    IF d # c \/ ~s[d][f].there THEN Keep ELSE [op |-> "merge", leaf |-> s[d][f].leaf]]]

\* Mutant of Capture: every container is restored.
Capture_EveryContainer(s, c) ==
  [d \in Containers |-> [f \in Fields |->
    IF s[d][f].there THEN [op |-> "merge", leaf |-> s[d][f].leaf]
                     ELSE [op |-> "null", leaf |-> NoLeaves]]]

\* The patch that is to bring back the fields of container c: what is there is
\* merged in again, what is not (None in the client's model) is set to null.
Capture(s, c) ==
  [d \in Containers |-> [f \in Fields |->
    IF d # c THEN Keep
    ELSE IF s[d][f].there
         THEN [op |-> "merge", leaf |-> s[d][f].leaf]
         ELSE [op |-> "null", leaf |-> NoLeaves]]]

\* The patches that Capture can undo: the other containers are as the patch
\* wants them already, and no value is added at an empty path of a field that
\* is there.
Restorable(s, p, c) ==
  /\ \A d \in Containers \ {c}, f \in Fields : MergeField(f, s[d][f], p[d][f]) = s[d][f]
  /\ \A f \in Fields, k \in Paths :
       s[c][f].there /\ p[c][f].op = "merge" /\ s[c][f].leaf[k] = Nothing
         => p[c][f].leaf[k] \in {Nothing, Null}

-----------------------------------------------------------------------------
(* patchdiff.render_diff.                                                  *)

\* What render_diff compares: None stands for null and for a missing path.
Shown(p) == IF p = Null THEN Nothing ELSE p

\* Mutant of render_diff: values for paths that were empty are not shown.
render_diff_NoAdditions(spec, l) ==
  {n \in Fields \X Paths :
     /\ l.first[n[1]].op = "merge"
     /\ l.first[n[1]].leaf[n[2]] # Nothing
     /\ spec[n[1]].leaf[n[2]] # Nothing
     /\ Shown(l.first[n[1]].leaf[n[2]]) # spec[n[1]].leaf[n[2]]}

\* The lines of the diff: the paths that the first entry mentions and whose text
\* differs from that in current_spec, whichever container the entry names.
render_diff(spec, l) ==
  {n \in Fields \X Paths :
     /\ l.first[n[1]].op = "merge"
     /\ l.first[n[1]].leaf[n[2]] # Nothing
     /\ Shown(l.first[n[1]].leaf[n[2]]) # spec[n[1]].leaf[n[2]]}
=============================================================================
