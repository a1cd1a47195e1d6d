----------------------------- MODULE MergeProofs -----------------------------
(***************************************************************************)
(* What the patch that _capture_rollback prepares can bring back, and what *)
(* the diff of an alert shows, for every spec and every patch.             *)
(***************************************************************************)
EXTENDS PatchMerge, TLAPS

\* What stands at a path after a merge is spelled the server's way, and nothing
\* stands there only if there is no default.
LEMMA LeafStored ==
  ASSUME NEW f \in Fields, NEW k \in Paths,
         NEW v \in CanonicalValues \cup {Nothing}, NEW p \in Values \cup {Nothing, Null}
  PROVE  /\ Filled(MergeLeaf(v, p), Default[f][k]) \in CanonicalValues \cup {Nothing}
         /\ Filled(MergeLeaf(v, p), Default[f][k]) = Nothing => Default[f][k] = Nothing
<1>1. MergeLeaf(v, p) \in CanonicalValues \cup {Nothing}
      BY PatchAssumption DEF MergeLeaf
<1>2. Default[f][k] \in CanonicalValues \cup {Nothing}
      BY PatchAssumption
<1> QED  BY <1>1, <1>2 DEF Filled

\* A merge keeps specs well formed: its result is what the API server stores.
LEMMA MergeType ==
  ASSUME NEW s \in Specs, NEW p \in SpecPatches
  PROVE  Merge(s, p) \in Specs
<1>1. ASSUME NEW c \in Containers, NEW f \in Fields
      PROVE  /\ MergeField(f, s[c][f], p[c][f]) \in FieldValues
             /\ IsStored(f, MergeField(f, s[c][f], p[c][f]))
  <2>1. s[c][f] \in FieldValues /\ p[c][f] \in FieldPatches
        BY <1>1 DEF Specs, SpecPatches
  <2>2. IsStored(f, s[c][f])
        BY <1>1 DEF Specs
  <2>3. CASE p[c][f].op = "keep"
        BY <2>1, <2>2, <2>3 DEF MergeField
  <2>4. CASE p[c][f].op = "null"
    <3>1. Absent \in FieldValues /\ [Absent EXCEPT !.there = TRUE] \in FieldValues
          BY DEF Absent, NoLeaves, FieldValues
    <3>2. ~Absent.there /\ [Absent EXCEPT !.there = TRUE].there
          BY DEF Absent
    <3>3. f \in StructFields => IsStored(f, [Absent EXCEPT !.there = TRUE])
          BY <3>2, PatchAssumption DEF Absent, NoLeaves, IsStored
    <3>4. f \notin StructFields => IsStored(f, Absent)
          BY <3>2 DEF IsStored
    <3> QED  BY <2>4, <3>1, <3>3, <3>4 DEF MergeField
  <2>5. CASE p[c][f].op = "merge"
    <3> DEFINE w == [k \in Paths |-> Filled(MergeLeaf(s[c][f].leaf[k], p[c][f].leaf[k]), Default[f][k])]
    <3>1. ASSUME NEW k \in Paths
          PROVE  s[c][f].leaf[k] \in CanonicalValues \cup {Nothing}
          BY <2>2, <3>1 DEF IsStored, Absent, NoLeaves
    <3>2. ASSUME NEW k \in Paths
          PROVE  /\ w[k] \in CanonicalValues \cup {Nothing}
                 /\ w[k] = Nothing => Default[f][k] = Nothing
      <4>1. p[c][f].leaf[k] \in Values \cup {Nothing, Null}
            BY <2>1, <3>2 DEF FieldPatches
      <4> QED  BY <3>1, <3>2, <4>1, LeafStored
    <3>3. MergeField(f, s[c][f], p[c][f]) = [there |-> TRUE, leaf |-> w]
          BY <2>5 DEF MergeField
    <3>4. w \in [Paths -> Values \cup {Nothing}]
      <4>1. \A k \in Paths : w[k] \in Values \cup {Nothing}
            BY <3>2 DEF CanonicalValues
      <4>2. w = [k \in Paths |-> w[k]]
            OBVIOUS
      <4> HIDE DEF w
      <4> QED  BY <4>1, <4>2
    <3> HIDE DEF w
    <3> QED  BY <3>2, <3>3, <3>4 DEF FieldValues, IsStored
  <2> QED  BY <2>1, <2>3, <2>4, <2>5 DEF FieldPatches
<1> QED  BY <1>1 DEF Merge, Specs

\* What a list of entries asks for is a patch.
LEMMA NetType ==
  ASSUME NEW l \in PatchLists
  PROVE  Net(l) \in SpecPatches
<1>1. ASSUME NEW p \in FieldPatches, NEW q \in FieldPatches
      PROVE  Overlay(p, q) \in FieldPatches
  <2>1. [k \in Paths |-> IF q.leaf[k] = Nothing THEN p.leaf[k] ELSE q.leaf[k]]
          \in [Paths -> Values \cup {Nothing, Null}]
        BY DEF FieldPatches
  <2> QED  BY <2>1 DEF Overlay, FieldPatches
<1>2. ASSUME NEW c \in Containers, NEW f \in Fields
      PROVE  Net(l)[c][f] \in FieldPatches
  <2>1. l.first[f] \in FieldPatches /\ l.rest[c][f] \in FieldPatches
        BY DEF PatchLists, SpecPatches
  <2> QED  BY <1>1, <2>1 DEF Net
<1> QED  BY <1>2 DEF Net, SpecPatches

\* The restore is a patch.
LEMMA CaptureType ==
  ASSUME NEW s \in Specs, NEW c \in Containers
  PROVE  Capture(s, c) \in SpecPatches
<1>1. ASSUME NEW d \in Containers, NEW f \in Fields
      PROVE  Capture(s, c)[d][f] \in FieldPatches
  <2>1. s[d][f] \in FieldValues
        BY <1>1 DEF Specs
  <2>2. s[d][f].leaf \in [Paths -> Values \cup {Nothing, Null}]
        BY <2>1 DEF FieldValues
  <2>3. NoLeaves \in [Paths -> Values \cup {Nothing, Null}]
        BY DEF NoLeaves
  <2> QED  BY <1>1, <2>2, <2>3 DEF Capture, Keep, FieldPatches
<1> QED  BY <1>1 DEF Capture, SpecPatches

\* The undo touches the container it was captured from and no other.
THEOREM CaptureIsLocal ==
  ASSUME NEW s \in Specs, NEW t \in Specs, NEW c \in Containers,
         NEW d \in Containers \ {c}
  PROVE  Merge(t, Capture(s, c))[d] = t[d]
<1>1. ASSUME NEW f \in Fields
      PROVE  Merge(t, Capture(s, c))[d][f] = t[d][f]
      BY <1>1 DEF Merge, Capture, Keep, MergeField
<1>2. t[d] = [f \in Fields |-> t[d][f]] /\ Merge(t, Capture(s, c))[d] = [f \in Fields |-> Merge(t, Capture(s, c))[d][f]]
      BY DEF Specs, Merge
<1> QED  BY <1>1, <1>2

\* A value of the server merged in over another one stands there; where nothing
\* is merged in, what was there stays, and there is no default to replace it.
LEMMA MergedBack ==
  ASSUME NEW v \in CanonicalValues \cup {Nothing}, NEW m \in CanonicalValues \cup {Nothing},
         NEW d, v = Nothing => d = Nothing
  PROVE  Filled(MergeLeaf(m, v), d) = v <=> (v = Nothing => m = Nothing)
BY PatchAssumption DEF MergeLeaf, Filled, CanonicalValues

\* Of a container that is captured, one field comes back as it was if and only
\* if the patch added nothing at an empty path of a field that was there.
LEMMA FieldRestored ==
  ASSUME NEW f \in Fields, NEW v \in FieldValues, NEW p \in FieldPatches, IsStored(f, v),
         NEW m, m = MergeField(f, v, p),
         NEW q, q = IF v.there THEN [op |-> "merge", leaf |-> v.leaf]
                               ELSE [op |-> "null", leaf |-> NoLeaves]
  PROVE  MergeField(f, m, q) = v <=>
           ( v.there /\ p.op = "merge" =>
               \A k \in Paths : v.leaf[k] = Nothing => p.leaf[k] \in {Nothing, Null} )
<1>1. CASE ~v.there
      BY <1>1 DEF MergeField, IsStored
<1>2. CASE v.there
  <2> DEFINE w == [k \in Paths |-> Filled(MergeLeaf(m.leaf[k], v.leaf[k]), Default[f][k])]
  <2>0. ASSUME NEW k \in Paths
        PROVE  /\ v.leaf[k] \in CanonicalValues \cup {Nothing}
               /\ v.leaf[k] = Nothing => Default[f][k] = Nothing
        BY <1>2 DEF IsStored
  <2>1. q.op = "merge" /\ q.leaf = v.leaf
        BY <1>2
  <2>2. MergeField(f, m, q) = [there |-> TRUE, leaf |-> w]
    <3>1. MergeField(f, m, q) =
            [there |-> TRUE,
             leaf |-> [k \in Paths |-> Filled(MergeLeaf(m.leaf[k], q.leaf[k]), Default[f][k])]]
          BY ONLY <2>1 DEF MergeField
    <3> QED  BY <2>1, <3>1
  <2>3. v = [there |-> TRUE, leaf |-> [k \in Paths |-> v.leaf[k]]]
        BY <1>2 DEF FieldValues
  <2>4. MergeField(f, m, q) = v <=> \A k \in Paths : w[k] = v.leaf[k]
    <3>1. ASSUME MergeField(f, m, q) = v
          PROVE  w = v.leaf
          BY <2>2, <3>1
    <3>2. ASSUME \A k \in Paths : w[k] = v.leaf[k]
          PROVE  w = [k \in Paths |-> v.leaf[k]]
          BY <3>2
    <3> QED  BY <2>2, <2>3, <3>1, <3>2
  <2>5. ASSUME NEW k \in Paths
        PROVE  /\ m.leaf[k] \in CanonicalValues \cup {Nothing}
               /\ v.leaf[k] = Nothing =>
                    (m.leaf[k] = Nothing <=> (p.op = "merge" => p.leaf[k] \in {Nothing, Null}))
    <3>1. p.leaf[k] \in Values \cup {Nothing, Null}
          BY DEF FieldPatches
    <3>2. CASE p.op = "keep"
          BY <2>0, <3>2 DEF MergeField
    <3>3. CASE p.op = "null"
          BY <3>3 DEF MergeField, Absent, NoLeaves
    <3>4. CASE p.op = "merge"
      <4>1. m.leaf[k] = Filled(MergeLeaf(v.leaf[k], p.leaf[k]), Default[f][k])
            BY <3>4 DEF MergeField
      <4>2. m.leaf[k] \in CanonicalValues \cup {Nothing}
            BY <2>0, <3>1, <4>1, LeafStored
      <4>3. v.leaf[k] = Nothing => (m.leaf[k] = Nothing <=> p.leaf[k] \in {Nothing, Null})
            BY <2>0, <3>1, <4>1, PatchAssumption DEF MergeLeaf, Filled, CanonicalValues
      <4> QED  BY <3>4, <4>2, <4>3
    <3> QED  BY <3>2, <3>3, <3>4 DEF FieldPatches
  <2>6. ASSUME NEW k \in Paths
        PROVE  w[k] = v.leaf[k] <=>
                 (p.op = "merge" /\ v.leaf[k] = Nothing => p.leaf[k] \in {Nothing, Null})
    <3>1. w[k] = Filled(MergeLeaf(m.leaf[k], v.leaf[k]), Default[f][k])
          OBVIOUS
    <3> HIDE DEF w
    <3> QED  BY <2>0, <2>5, <3>1, MergedBack
  <2> HIDE DEF w
  <2> QED  BY <1>2, <2>4, <2>6
<1> QED  BY <1>1, <1>2

\* The undo brings back every field, whether it was there or absent, if the
\* patch is one of those that a merge can take back, and of no other patch.
THEOREM RestoreIsExact ==
  ASSUME NEW s \in Specs, NEW p \in SpecPatches, NEW c \in Containers
  PROVE  Merge(Merge(s, p), Capture(s, c)) = s <=> Restorable(s, p, c)
<1> DEFINE m == Merge(s, p)
           q == Capture(s, c)
           r == Merge(m, q)
<1>1. r = s <=> \A d \in Containers, f \in Fields : r[d][f] = s[d][f]
  <2>1. s = [d \in Containers |-> [f \in Fields |-> s[d][f]]]
        BY DEF Specs
  <2>2. r = [d \in Containers |-> [f \in Fields |-> r[d][f]]]
        BY DEF Merge
  <2> HIDE DEF r
  <2> QED  BY <2>1, <2>2
<1>2. ASSUME NEW d \in Containers, NEW f \in Fields
      PROVE  /\ m[d][f] = MergeField(f, s[d][f], p[d][f])
             /\ r[d][f] = MergeField(f, m[d][f], q[d][f])
      BY DEF Merge
<1>3. ASSUME NEW d \in Containers \ {c}, NEW f \in Fields
      PROVE  r[d][f] = MergeField(f, s[d][f], p[d][f])
  <2>1. q[d][f].op = "keep"
        BY DEF Capture, Keep
  <2> QED  BY <1>2, <2>1 DEF MergeField
<1>4. ASSUME NEW f \in Fields
      PROVE  r[c][f] = s[c][f] <=>
               ( s[c][f].there /\ p[c][f].op = "merge" =>
                   \A k \in Paths : s[c][f].leaf[k] = Nothing => p[c][f].leaf[k] \in {Nothing, Null} )
  <2>1. s[c][f] \in FieldValues /\ p[c][f] \in FieldPatches
        BY DEF Specs, SpecPatches
  <2>2. IsStored(f, s[c][f])
        BY DEF Specs
  <2>3. q[c][f] = IF s[c][f].there THEN [op |-> "merge", leaf |-> s[c][f].leaf]
                                   ELSE [op |-> "null", leaf |-> NoLeaves]
        BY DEF Capture
  <2> HIDE DEF m, q, r
  <2> QED  BY <1>2, <2>1, <2>2, <2>3, FieldRestored
<1> HIDE DEF m, q, r
<1>5. Restorable(s, p, c) <=> \A d \in Containers, f \in Fields : r[d][f] = s[d][f]
      BY <1>3, <1>4 DEF Restorable
<1> QED  BY <1>1, <1>5 DEF m, q, r

\* A patch of one entry for container c asks nothing of the other containers and
\* of c what the entry says.
LEMMA NetOfOne ==
  ASSUME NEW l \in PatchLists, l.rest = NoPatch, NEW c \in Containers, NEW f \in Fields
  PROVE  Net(l)[c][f] = IF c = l.name THEN l.first[f] ELSE Keep
BY DEF Net, Overlay, NoPatch, NoFieldPatches, Keep

\* Of such a patch, without null fields, every line of the diff comes true, and
\* besides them only defaults of added fields change.
THEOREM DiffIsHonest ==
  ASSUME NEW s \in Specs, NEW l \in PatchLists, l.rest = NoPatch,
         \A f \in Fields : l.first[f].op # "null",
         NEW c \in Containers, NEW f \in Fields, NEW k \in Paths
  PROVE  LET old  == s[c][f]
             new  == Merge(s, Net(l))[c][f]
             line == l.first[f].leaf[k]
         IN IF c = l.name /\ <<f, k>> \in render_diff(s[l.name], l)
            THEN new.leaf[k] = IF line = Null THEN Default[f][k] ELSE Canon[line]
            ELSE \/ new.leaf[k] = old.leaf[k]
                 \/ c = l.name /\ ~old.there /\ new.there /\ new.leaf[k] = Default[f][k]
<1> DEFINE old  == s[c][f]
           new  == Merge(s, Net(l))[c][f]
           p    == l.first[f]
<1>1. new = MergeField(f, old, IF c = l.name THEN p ELSE Keep)
      BY NetOfOne DEF Merge
<1>2. old \in FieldValues /\ IsStored(f, old) /\ p \in FieldPatches
      BY DEF Specs, PatchLists
<1>3. p.leaf[k] \in Values \cup {Nothing, Null}
      BY <1>2 DEF FieldPatches
<1>4. <<f, k>> \in render_diff(s[l.name], l) <=>
        p.op = "merge" /\ p.leaf[k] # Nothing /\ Shown(p.leaf[k]) # s[l.name][f].leaf[k]
      BY DEF render_diff
<1> HIDE DEF old, new, p
<1>5. CASE c # l.name \/ p.op = "keep"
  <2>1. new = old
        BY <1>1, <1>5 DEF MergeField, Keep
  <2> QED  BY <1>4, <1>5, <2>1 DEF old, new
<1>6. CASE c = l.name /\ p.op = "merge"
  <2>1. new.there /\ new.leaf[k] = Filled(MergeLeaf(old.leaf[k], p.leaf[k]), Default[f][k])
        BY <1>1, <1>6 DEF MergeField
  <2>2. /\ old.leaf[k] \in CanonicalValues \cup {Nothing}
        /\ old.there => (old.leaf[k] = Nothing => Default[f][k] = Nothing)
        /\ ~old.there => old.leaf[k] = Nothing
        BY <1>2 DEF IsStored, Absent, NoLeaves
  <2>3. CASE <<f, k>> \in render_diff(s[l.name], l)
    <3>1. p.leaf[k] \in Values \cup {Null}
          BY <1>3, <1>4, <2>3
    <3>2. new.leaf[k] = IF p.leaf[k] = Null THEN Default[f][k] ELSE Canon[p.leaf[k]]
          BY <2>1, <3>1, PatchAssumption DEF MergeLeaf, Filled, CanonicalValues
    <3> QED  BY <1>6, <2>3, <3>2 DEF p, new
  <2>4. CASE <<f, k>> \notin render_diff(s[l.name], l)
    <3>1. p.leaf[k] = Nothing \/ Shown(p.leaf[k]) = old.leaf[k]
          BY <1>4, <1>6, <2>4 DEF old
    <3>2. p.leaf[k] \in {Nothing, Null} \/ p.leaf[k] = old.leaf[k]
          BY <3>1 DEF Shown
    <3>3. \/ new.leaf[k] = old.leaf[k]
          \/ ~old.there /\ new.leaf[k] = Default[f][k]
      <4>1. CASE p.leaf[k] = Nothing
            BY <2>1, <2>2, <4>1, PatchAssumption DEF MergeLeaf, Filled
      <4>2. CASE p.leaf[k] = Null
        <5>1. old.leaf[k] = Nothing
              BY <3>1, <4>2, PatchAssumption DEF Shown
        <5> QED  BY <2>1, <2>2, <4>2, <5>1, PatchAssumption DEF MergeLeaf, Filled
      <4>3. CASE p.leaf[k] = old.leaf[k] /\ p.leaf[k] \notin {Nothing, Null}
            BY <2>1, <2>2, <4>3, PatchAssumption DEF MergeLeaf, Filled, CanonicalValues
      <4> QED  BY <3>2, <4>1, <4>2, <4>3
    <3> QED  BY <1>6, <2>1, <2>4, <3>3 DEF old, new
  <2> QED  BY <2>3, <2>4
<1> QED  BY <1>2, <1>5, <1>6 DEF FieldPatches, p
=============================================================================
