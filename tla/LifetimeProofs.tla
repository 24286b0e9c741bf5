--------------------------- MODULE LifetimeProofs ---------------------------
(***************************************************************************)
(* Theorems about SnapshotContext and HostObjects, for any geometries, any *)
(* number of slots and contexts, and any sessions.                         *)
(***************************************************************************)
EXTENDS HostObjects, FiniteSetTheorems, SequenceTheorems, TLAPS

\* What Start does to the context.
StartStep ==
  /\ \E n \in SlotCounts :
       /\ Reinit(n)
       /\ context' \in Saves(NewContext(contexts', n), 0, DOMAIN world)
  /\ UNCHANGED <<world, closing>>

\* Every step of the host is a step of the context, or leaves it alone.
LEMMA ContextSteps ==
  ASSUME [Next]_vars
  PROVE  ContextNext \/ StartStep \/ UNCHANGED contextVars
<1>1. CASE UNCHANGED vars
  BY <1>1 DEF vars, contextVars
<1>2. ASSUME NEW s \in Session, NEW o \in Simulations \cup {NoObject},
             SetSimulationWorld(s, o) \/ SetSimulationInterface(s, o) \/ SetSimulation(s, o)
      PROVE  UNCHANGED contextVars
  BY <1>2 DEF SetSimulationWorld, SetSimulationInterface, SetSimulation, contextVars
<1>3. ASSUME NEW s \in Session, Start(s) PROVE StartStep
  BY <1>3 DEF Start, StartStep
<1>4. ASSUME NEW s \in Session, Call(s) PROVE ContextNext
  BY <1>4 DEF Call, ContextNext
<1>5. ASSUME GameCall PROVE ContextNext
  BY <1>5 DEF GameCall, ContextNext
<1>6. ASSUME FinishDestroyWorld PROVE ContextNext
  BY <1>6 DEF FinishDestroyWorld, ContextNext
<1>7. ASSUME NEW o \in Objects, Drop(o) PROVE UNCHANGED contextVars
  BY <1>7 DEF Drop, contextVars
<1>8. ASSUME NEW o \in Objects, End(o) PROVE ContextNext \/ UNCHANGED contextVars
  BY <1>8 DEF End, ContextNext, contextVars
<1>9. ASSUME NEW o \in Objects, Free(o) PROVE ContextNext \/ UNCHANGED contextVars
  BY <1>9, <1>8 DEF Free
<1>10. ASSUME NEW o \in Objects, BeginDestroy(o) PROVE ContextNext \/ UNCHANGED contextVars
  BY <1>10, <1>8 DEF BeginDestroy
<1>11. ASSUME Collect PROVE UNCHANGED contextVars
  BY <1>11 DEF Collect, contextVars
<1>12. QED
  BY <1>1, <1>2, <1>3, <1>4, <1>5, <1>6, <1>7, <1>9, <1>10, <1>11 DEF Next
-----------------------------------------------------------------------------
(* The geometry of restored shapes. *)

\* Saving never changes which context it is.
LEMMA SavesKeepId ==
  ASSUME NEW c, NEW s, NEW shapes, NEW c2 \in Saves(c, s, shapes)
  PROVE  c2.id = c.id
BY DEF Saves, SavedTo

GeometryInv == ShapesHaveGeometry /\ (closing => ~HasWorld)

LEMMA GeometryStep ==
  ASSUME ~ReinitAnyTime, GeometryInv, ContextNext \/ StartStep \/ UNCHANGED contextVars
  PROVE  GeometryInv'
<1> USE DEF GeometryInv, ShapesHaveGeometry, HasWorld
<1>1. CASE UNCHANGED contextVars
  BY <1>1 DEF contextVars
<1>2. CASE CreateWorld
  BY <1>2 DEF CreateWorld
<1>3. CASE DestroyWorld
  BY <1>3 DEF DestroyWorld, FirstDestroyed
<1>4. CASE DestroyRest
  BY <1>4 DEF DestroyRest
<1>5. ASSUME NEW g \in Geometry, RawAddShape(g) PROVE GeometryInv'
  BY <1>5 DEF RawAddShape
<1>6. ASSUME NEW g \in Geometry, RawDestroyShape(g) PROVE GeometryInv'
  BY <1>6 DEF RawDestroyShape
<1>7. ASSUME NEW n \in SlotCounts, InitSnapshots(n) PROVE GeometryInv'
  BY <1>7 DEF InitSnapshots, Reinit, MayInit
<1>8. ASSUME NEW s \in Slots, SaveState(s) PROVE GeometryInv'
  BY <1>8, SavesKeepId DEF SaveState
<1>9. ASSUME NEW s \in Slots, LoadState(s) PROVE GeometryInv'
  BY <1>9 DEF LoadState, Restored
<1>10. CASE StartStep
  BY <1>10 DEF StartStep, Reinit, MayInit
<1>11. QED
  BY <1>1, <1>2, <1>3, <1>4, <1>5, <1>6, <1>7, <1>8, <1>9, <1>10 DEF ContextNext

\* Where hosts ask for new snapshot slots only while no restored shape is
\* left, no shape of the live world points into a context that is gone.
THEOREM GeometryOutlivesShapes == ~ReinitAnyTime /\ Spec => []ShapesHaveGeometry
<1> SUFFICES ASSUME ~ReinitAnyTime PROVE Spec => []ShapesHaveGeometry
  OBVIOUS
<1>1. Init => GeometryInv
  BY DEF Init, ContextInit, GeometryInv, ShapesHaveGeometry, HasWorld
<1>2. GeometryInv /\ [Next]_vars => GeometryInv'
  BY ContextSteps, GeometryStep
<1>3. GeometryInv => ShapesHaveGeometry
  BY DEF GeometryInv
<1>4. QED
  BY <1>1, <1>2, <1>3, PTL DEF Spec
-----------------------------------------------------------------------------
(* Images, and the objects of restored compounds. *)

\* What makes ImagesResolvable and ObjectsOwned hold of a context: the view
\* follows the registry entry by entry, and images refer to the registry,
\* which only grows.
WellFormed(c) ==
  /\ c.registry \in Seq(Geometry)
  /\ c.view \in Seq(Entry)
  /\ Len(c.view) = Len(c.registry)
  /\ c.capacity \in Nat /\ Len(c.view) <= c.capacity
  /\ \A i \in DOMAIN c.view : c.view[i].geometry = c.registry[i]
  /\ \A s \in DOMAIN c.slots : c.slots[s] # NoImage =>
       /\ c.slots[s].ids \subseteq DOMAIN c.registry
       /\ {c.registry[i] : i \in c.slots[s].ids} = c.slots[s].shapes

LEMMA NewIsWellFormed ==
  ASSUME NEW n, NEW count \in Int
  PROVE  WellFormed(NewContext(n, count)) /\ Freed(NewContext(n, count)) = {}
<1>1. <<>> \in Seq(Geometry) /\ <<>> \in Seq(Entry) /\ DOMAIN <<>> = {}
  OBVIOUS
<1>2. \A s \in DOMAIN NewContext(n, count).slots : NewContext(n, count).slots[s] = NoImage
  BY DEF NewContext
<1>3. QED
  BY <1>1, <1>2 DEF NewContext, WellFormed, Freed

LEMMA ListingsAreSequences ==
  ASSUME NEW S \in SUBSET Geometry, NEW t \in Listings(S)
  PROVE  t \in Seq(Geometry) /\ Held(t) = S
<1>1. Cardinality(S) \in Nat
  BY ContextAssumption, FS_Subset, FS_CardinalityType
<1>2. t \in [1 .. Cardinality(S) -> Geometry]
  BY DEF Listings
<1>3. QED
  BY <1>1, <1>2, SeqDef DEF Listings

LEMMA FunctionIsSeq ==
  ASSUME NEW S, NEW n \in Nat, NEW f \in [1 .. n -> S]
  PROVE  f \in Seq(S) /\ Len(f) = n
<1>1. f \in Seq(S)
  BY SeqDef
<1>2. DOMAIN f = 1 .. Len(f) /\ Len(f) \in Nat
  BY <1>1
<1>3. DOMAIN f = 1 .. n
  OBVIOUS
<1>4. QED
  BY <1>2, <1>3

\* The view v grown over registry r.
Grown(v, r) ==
  [i \in 1 .. Len(r) |-> IF i <= Len(v) THEN v[i]
                         ELSE [geometry |-> r[i], live |-> FALSE]]

\* A view that grows over the registry keeps its entries and objects.
LEMMA ViewGrows ==
  ASSUME NEW v \in Seq(Entry), NEW r \in Seq(Geometry), Len(v) <= Len(r),
         \A i \in 1 .. Len(v) : v[i].geometry = r[i]
  PROVE  /\ Grown(v, r) \in Seq(Entry) /\ Len(Grown(v, r)) = Len(r)
         /\ \A i \in 1 .. Len(r) : Grown(v, r)[i].geometry = r[i]
         /\ {i \in DOMAIN Grown(v, r) : Grown(v, r)[i].live} = {i \in DOMAIN v : v[i].live}
         /\ \A i \in DOMAIN v : Grown(v, r)[i] = v[i]
<1> DEFINE w == Grown(v, r)
<1>1. Len(v) \in Nat /\ Len(r) \in Nat /\ DOMAIN v = 1 .. Len(v) /\ DOMAIN w = 1 .. Len(r)
  BY DEF Grown
<1>2. \A i \in 1 .. Len(v) : i \in 1 .. Len(r) /\ w[i] = v[i]
  BY <1>1 DEF Grown
<1>3. \A i \in (1 .. Len(r)) \ (1 .. Len(v)) : w[i] = [geometry |-> r[i], live |-> FALSE]
  BY <1>1 DEF Grown
<1> HIDE DEF w
<1>4. \A i \in 1 .. Len(v) : w[i] \in Entry /\ w[i].geometry = r[i]
  BY <1>2
<1>5. \A i \in 1 .. Len(r) : r[i] \in Geometry
  OBVIOUS
<1>6. \A i \in (1 .. Len(r)) \ (1 .. Len(v)) :
        w[i] \in Entry /\ w[i].geometry = r[i] /\ ~w[i].live
  <2> TAKE i \in (1 .. Len(r)) \ (1 .. Len(v))
  <2>1. w[i] = [geometry |-> r[i], live |-> FALSE] /\ r[i] \in Geometry
    BY <1>3, <1>5
  <2>2. QED
    BY <2>1 DEF Entry
<1>7. \A i \in 1 .. Len(r) : w[i] \in Entry /\ w[i].geometry = r[i]
  BY <1>4, <1>6
<1>8. w \in [1 .. Len(r) -> Entry]
  BY <1>7, Zenon DEF Grown, w
<1>9. w \in Seq(Entry) /\ Len(w) = Len(r)
  BY <1>1, <1>8, FunctionIsSeq
<1>10. {i \in DOMAIN w : w[i].live} = {i \in DOMAIN v : v[i].live}
  BY <1>1, <1>2, <1>6
<1>11. QED
  BY <1>1, <1>2, <1>7, <1>9, <1>10 DEF w

\* Saving an image of interned geometry keeps the context well formed, and
\* loses no object.
LEMMA SavedToKeeps ==
  ASSUME NEW c, NEW s, NEW image, NEW t \in Seq(Geometry), WellFormed(c),
         image # NoImage =>
           /\ image.ids \subseteq DOMAIN (c.registry \o t)
           /\ {(c.registry \o t)[i] : i \in image.ids} = image.shapes
  PROVE  /\ WellFormed(SavedTo(c, s, image, c.registry \o t))
         /\ Freed(SavedTo(c, s, image, c.registry \o t)) = Freed(c)
<1> DEFINE r == c.registry \o t
           c2 == SavedTo(c, s, image, r)
<1>1. /\ r \in Seq(Geometry)
      /\ Len(r) = Len(c.registry) + Len(t)
      /\ DOMAIN c.registry = 1 .. Len(c.registry) /\ DOMAIN r = 1 .. Len(r)
      /\ DOMAIN c.registry \subseteq DOMAIN r
      /\ \A i \in DOMAIN c.registry : r[i] = c.registry[i]
  BY DEF WellFormed
<1>2. /\ c2.registry = r /\ c2.view = Viewed(c, r)
      /\ c2.capacity = RefreshedCapacity(c, r)
      /\ c2.id = c.id
      /\ DOMAIN c2.slots = DOMAIN c.slots
      /\ \A x \in DOMAIN c.slots : c2.slots[x] = image \/ c2.slots[x] = c.slots[x]
  BY DEF SavedTo
<1> HIDE DEF c2, r
<1>3. /\ c.view \in Seq(Entry) /\ Len(c.view) <= Len(r)
      /\ \A i \in 1 .. Len(c.view) : c.view[i].geometry = r[i]
  BY <1>1, SMTT(60) DEF WellFormed
<1>4. /\ Len(r) \in Nat /\ c2.view \in Seq(Entry) /\ Len(c2.view) = Len(r)
      /\ \A i \in 1 .. Len(r) : c2.view[i].geometry = r[i]
      /\ {i \in DOMAIN c2.view : c2.view[i].live} = {i \in DOMAIN c.view : c.view[i].live}
      /\ \A i \in DOMAIN c.view : c2.view[i] = c.view[i]
  <2> DEFINE v == c.view
  <2>1. v \in Seq(Entry) /\ r \in Seq(Geometry) /\ Len(v) <= Len(r)
        /\ \A i \in 1 .. Len(v) : v[i].geometry = r[i]
    BY <1>1, <1>3
  <2> DEFINE w == Grown(v, r)
  <2>2. c2.view = w
    BY <1>2 DEF Viewed, RefreshedView, KeptEntries, Grown
  <2> HIDE DEF v
  <2>3. /\ w \in Seq(Entry) /\ Len(w) = Len(r)
        /\ \A i \in 1 .. Len(r) : w[i].geometry = r[i]
        /\ {i \in DOMAIN w : w[i].live} = {i \in DOMAIN v : v[i].live}
        /\ \A i \in DOMAIN v : w[i] = v[i]
    BY <2>1, ViewGrows
  <2> HIDE DEF w
  <2>4. Len(r) \in Nat
    BY <1>1
  <2>5. QED
    BY <2>2, <2>3, <2>4 DEF v
<1>5. c2.capacity \in Nat /\ Len(r) <= c2.capacity
  BY <1>1, <1>2, <1>4, ContextAssumption DEF RefreshedCapacity, WellFormed
<1>6. ASSUME NEW x \in DOMAIN c2.slots, c2.slots[x] # NoImage
      PROVE  /\ c2.slots[x].ids \subseteq DOMAIN r
             /\ {r[i] : i \in c2.slots[x].ids} = c2.slots[x].shapes
  <2>1. CASE c2.slots[x] = image
    BY <1>6, <2>1 DEF r
  <2>2. CASE c2.slots[x] = c.slots[x]
    <3>1. /\ c.slots[x].ids \subseteq DOMAIN c.registry
          /\ {c.registry[i] : i \in c.slots[x].ids} = c.slots[x].shapes
      BY <1>2, <1>6, <2>2 DEF WellFormed
    <3>2. {r[i] : i \in c.slots[x].ids} = {c.registry[i] : i \in c.slots[x].ids}
      BY <3>1, <1>1
    <3>3. QED
      BY <3>1, <3>2, <2>2, <1>1
  <2>3. QED
    BY <2>1, <2>2, <1>2
<1>7. WellFormed(c2)
  BY <1>1, <1>2, <1>4, <1>5, <1>6 DEF WellFormed
<1>8. Freed(c2) = Freed(c)
  BY <1>2, <1>4 DEF Freed
<1>9. QED
  BY <1>7, <1>8 DEF c2, r

LEMMA SavesKeep ==
  ASSUME NEW c, NEW s, NEW shapes \in SUBSET Geometry, WellFormed(c),
         NEW c2 \in Saves(c, s, shapes)
  PROVE  WellFormed(c2) /\ Freed(c2) = Freed(c)
<1> DEFINE new == shapes \ Held(c.registry)
<1>1. CASE \E t \in Listings(new) :
             c2 = SavedTo(c, s, ImageOf(shapes, c.registry \o t), c.registry \o t)
  <2>1. PICK t \in Listings(new) :
          c2 = SavedTo(c, s, ImageOf(shapes, c.registry \o t), c.registry \o t)
    BY <1>1
  <2>2. t \in Seq(Geometry) /\ Held(t) = new
    BY <2>1, ListingsAreSequences
  <2> DEFINE r == c.registry \o t
  <2>3. \A g \in shapes : \E i \in DOMAIN r : r[i] = g
    <3> SUFFICES ASSUME NEW g \in shapes PROVE \E i \in DOMAIN r : r[i] = g
      OBVIOUS
    <3>1. /\ Len(c.registry) \in Nat /\ Len(t) \in Nat
          /\ DOMAIN c.registry = 1 .. Len(c.registry) /\ DOMAIN t = 1 .. Len(t)
          /\ DOMAIN r = 1 .. Len(c.registry) + Len(t)
      BY <2>2, ConcatProperties DEF WellFormed
    <3>5. \A i \in 1 .. Len(c.registry) + Len(t) :
            r[i] = IF i <= Len(c.registry) THEN c.registry[i] ELSE t[i - Len(c.registry)]
      BY <2>2, ConcatProperties DEF WellFormed
    <3> HIDE DEF r
    <3>2. CASE g \in Held(c.registry)
      <4>1. PICK i \in 1 .. Len(c.registry) : c.registry[i] = g
        BY <3>1, <3>2 DEF Held
      <4>2. i \in DOMAIN r /\ r[i] = g
        BY <3>1, <3>5, <4>1
      <4>3. QED
        BY <4>2
    <3>3. CASE g \in new
      <4>1. PICK i \in 1 .. Len(t) : t[i] = g
        BY <3>1, <3>3, <2>2 DEF Held
      <4> DEFINE k == Len(c.registry) + i
      <4>2. k \in 1 .. Len(c.registry) + Len(t) /\ ~(k <= Len(c.registry))
            /\ k - Len(c.registry) = i
        BY <3>1
      <4> HIDE DEF k
      <4>3. k \in DOMAIN r /\ r[k] = t[i]
        BY <3>1, <3>5, <4>2
      <4>4. QED
        BY <4>1, <4>3
    <3>4. QED
      BY <3>2, <3>3
  <2>4. /\ ImageOf(shapes, r).ids \subseteq DOMAIN r
        /\ {r[i] : i \in ImageOf(shapes, r).ids} = ImageOf(shapes, r).shapes
    BY <2>3 DEF ImageOf
  <2>5. QED
    BY <2>1, <2>2, <2>4, SavedToKeeps
<1>2. CASE \E S \in SUBSET new : \E t \in Listings(S) :
             c2 = SavedTo(c, s, NoImage, c.registry \o t)
  <2>1. PICK S \in SUBSET new :
          \E t \in Listings(S) : c2 = SavedTo(c, s, NoImage, c.registry \o t)
    BY <1>2
  <2>2. PICK t \in Listings(S) : c2 = SavedTo(c, s, NoImage, c.registry \o t)
    BY <2>1
  <2>3. t \in Seq(Geometry)
    BY <2>2, ListingsAreSequences
  <2>4. NoImage # NoImage => FALSE
    OBVIOUS
  <2>5. /\ WellFormed(SavedTo(c, s, NoImage, c.registry \o t))
        /\ Freed(SavedTo(c, s, NoImage, c.registry \o t)) = Freed(c)
    BY <2>3, <2>4, SavedToKeeps
  <2>6. QED
    BY <2>2, <2>5
<1>3. \/ \E t \in Listings(new) :
           c2 = SavedTo(c, s, ImageOf(shapes, c.registry \o t), c.registry \o t)
      \/ \E S \in SUBSET new : \E t \in Listings(S) :
           c2 = SavedTo(c, s, NoImage, c.registry \o t)
  <2> DEFINE Registries(S) == {c.registry \o t : t \in Listings(S)}
  <2>1. \/ c2 \in {SavedTo(c, s, ImageOf(shapes, r), r) : r \in Registries(new)}
        \/ c2 \in UNION {{SavedTo(c, s, NoImage, r) : r \in Registries(S)} : S \in SUBSET new}
    BY DEF Saves
  <2>2. CASE c2 \in {SavedTo(c, s, ImageOf(shapes, r), r) : r \in Registries(new)}
    BY <2>2
  <2>3. CASE c2 \in UNION {{SavedTo(c, s, NoImage, r) : r \in Registries(S)} : S \in SUBSET new}
    <3>1. PICK S \in SUBSET new : c2 \in {SavedTo(c, s, NoImage, r) : r \in Registries(S)}
      BY <2>3
    <3>2. \E t \in Listings(S) : c2 = SavedTo(c, s, NoImage, c.registry \o t)
      BY <3>1
    <3>3. QED
      BY <3>2
  <2>4. QED
    BY <2>1, <2>2, <2>3
<1>4. QED
  BY <1>1, <1>2, <1>3

LEMMA WithObjectsKeeps ==
  ASSUME NEW v \in Seq(Entry), NEW ids, NEW w, w = WithObjects(v, ids)
  PROVE  /\ w \in Seq(Entry) /\ Len(w) = Len(v)
         /\ \A i \in DOMAIN v :
              /\ w[i].geometry = v[i].geometry
              /\ w[i].live <=> v[i].live \/ (i \in ids /\ v[i].geometry \in Compound)
<1>1. Len(v) \in Nat /\ DOMAIN v = 1 .. Len(v)
  OBVIOUS
<1>2. ASSUME NEW i \in 1 .. Len(v)
      PROVE  /\ v[i].geometry \in Geometry
             /\ w[i] = [geometry |-> v[i].geometry,
                        live |-> v[i].live \/ (i \in ids /\ v[i].geometry \in Compound)]
  <2>1. v[i] \in Entry
    BY <1>2
  <2>2. QED
    BY <1>1, <2>1 DEF WithObjects, Entry
<1>3. \A i \in 1 .. Len(v) : w[i] \in Entry /\ w[i].geometry = v[i].geometry
        /\ (w[i].live <=> v[i].live \/ (i \in ids /\ v[i].geometry \in Compound))
  <2> TAKE i \in 1 .. Len(v)
  <2> DEFINE b == v[i].live \/ (i \in ids /\ v[i].geometry \in Compound)
  <2>1. b \in BOOLEAN
    OBVIOUS
  <2>2. w[i] = [geometry |-> v[i].geometry, live |-> b] /\ v[i].geometry \in Geometry
    BY <1>2
  <2>3. w[i].live <=> b
    <3> HIDE DEF b
    <3>1. QED
      BY <2>1, <2>2
  <2>4. w[i] \in Entry /\ w[i].geometry = v[i].geometry
    <3> HIDE DEF b
    <3>1. QED
      BY <2>1, <2>2 DEF Entry
  <2>5. QED
    BY <2>3, <2>4
<1>4. w \in [1 .. Len(v) -> Entry]
  <2>1. WithObjects(v, ids) \in [DOMAIN v -> Entry]
    BY <1>1, <1>3, Zenon DEF WithObjects
  <2>2. QED
    BY <1>1, <2>1
<1>5. w \in Seq(Entry) /\ Len(w) = Len(v)
  BY <1>1, <1>4, FunctionIsSeq
<1>6. QED
  BY <1>1, <1>3, <1>5

\* Restoring keeps the context well formed, and its view knows the objects
\* it knew and those just created.
LEMMA RestoredKeeps ==
  ASSUME NEW ids, Restored(ids), WellFormed(context), objects = Freed(context)
  PROVE  WellFormed(context)' /\ objects' = Freed(context')
<1>1. /\ context'.registry = context.registry /\ context'.slots = context.slots
      /\ context'.capacity = context.capacity /\ context'.id = context.id
      /\ context'.view = WithObjects(context.view, ids)
  BY DEF Restored
<1>2. Len(context.view) \in Nat /\ DOMAIN context.view = 1 .. Len(context.view)
  BY DEF WellFormed
<1>3. /\ context'.view \in Seq(Entry) /\ Len(context'.view) = Len(context.view)
      /\ \A i \in DOMAIN context.view :
           /\ context'.view[i].geometry = context.view[i].geometry
           /\ context'.view[i].live <=>
                context.view[i].live
                \/ (i \in ids /\ context.view[i].geometry \in Compound)
  BY <1>1, WithObjectsKeeps DEF WellFormed
<1>4. DOMAIN context'.view = DOMAIN context.view
  BY <1>2, <1>3
<1>5. WellFormed(context)'
  BY <1>1, <1>2, <1>3, <1>4 DEF WellFormed
<1>6. Freed(context') = Freed(context) \cup Allocated(context, ids)
  BY <1>1, <1>3, <1>4 DEF Freed, Allocated
<1>7. QED
  BY <1>5, <1>6 DEF Restored

OwnInv ==
  /\ HasWorld => DOMAIN world \subseteq Geometry
  /\ WellFormed(context)
  /\ objects = Freed(context)

LEMMA OwnStep ==
  ASSUME OwnInv, ContextNext \/ StartStep \/ UNCHANGED contextVars
  PROVE  OwnInv'
<1> USE DEF OwnInv, HasWorld
<1>1. CASE UNCHANGED contextVars
  BY <1>1 DEF contextVars, WellFormed
<1>2. CASE CreateWorld
  BY <1>2 DEF CreateWorld, WellFormed
<1>3. CASE DestroyWorld
  BY <1>3 DEF DestroyWorld, FirstDestroyed, WellFormed
<1>4. CASE DestroyRest
  <2>1. WellFormed(NoContext) /\ Freed(NoContext) = {}
    BY NewIsWellFormed DEF NoContext
  <2>2. QED
    BY <1>4, <2>1 DEF DestroyRest, ObjectsLeft
<1>5. ASSUME NEW g \in Geometry, RawAddShape(g) PROVE OwnInv'
  BY <1>5 DEF RawAddShape, WellFormed
<1>6. ASSUME NEW g \in Geometry, RawDestroyShape(g) PROVE OwnInv'
  BY <1>6 DEF RawDestroyShape, WellFormed
<1>7. ASSUME NEW n \in SlotCounts, InitSnapshots(n) PROVE OwnInv'
  <2>1. WellFormed(NewContext(contexts', n)) /\ Freed(NewContext(contexts', n)) = {}
    BY NewIsWellFormed, ContextAssumption
  <2>2. QED
    BY <1>7, <2>1 DEF InitSnapshots, Reinit, ObjectsLeft
<1>8. ASSUME NEW s \in Slots, SaveState(s) PROVE OwnInv'
  <2>1. WellFormed(context') /\ Freed(context') = Freed(context)
    BY <1>8, SavesKeep DEF SaveState
  <2>2. QED
    BY <1>8, <2>1 DEF SaveState
<1>9. ASSUME NEW s \in Slots, LoadState(s) PROVE OwnInv'
  <2>1. PICK ids \in SUBSET context.slots[s].ids :
          /\ Restored(ids)
          /\ world' = [g \in {context.view[i].geometry : i \in ids \cap DOMAIN context.view}
                         |-> context.id]
    BY <1>9 DEF LoadState
  <2>2. DOMAIN world' \subseteq Geometry
    BY <2>1 DEF WellFormed, Entry
  <2>3. QED
    BY <2>1, <2>2, RestoredKeeps
<1>10. CASE StartStep
  <2>1. PICK n \in SlotCounts :
          Reinit(n) /\ context' \in Saves(NewContext(contexts', n), 0, DOMAIN world)
    BY <1>10 DEF StartStep
  <2>2. WellFormed(NewContext(contexts', n)) /\ Freed(NewContext(contexts', n)) = {}
    BY NewIsWellFormed, ContextAssumption
  <2>3. WellFormed(context') /\ Freed(context') = {}
    BY <2>1, <2>2, SavesKeep DEF Reinit
  <2>4. QED
    BY <2>1, <2>3, <1>10 DEF StartStep, Reinit, ObjectsLeft
<1>11. QED
  BY <1>1, <1>2, <1>3, <1>4, <1>5, <1>6, <1>7, <1>8, <1>9, <1>10 DEF ContextNext

LEMMA OwnInductive == Spec => []OwnInv
<1>1. Init => OwnInv
  BY NewIsWellFormed DEF Init, ContextInit, OwnInv, HasWorld, NoContext
<1>2. OwnInv /\ [Next]_vars => OwnInv'
  BY ContextSteps, OwnStep
<1>3. QED
  BY <1>1, <1>2, PTL DEF Spec

\* An image finds in the view exactly the geometries it was saved with,
\* however the registry grew since and whatever failed on the way.
THEOREM ImagesAlwaysResolvable == Spec => []ImagesResolvable
<1>1. ASSUME OwnInv PROVE ImagesResolvable
  <2>1. /\ Len(context.view) <= context.capacity
        /\ DOMAIN context.view = DOMAIN context.registry
        /\ \A i \in DOMAIN context.view : context.view[i].geometry = context.registry[i]
    BY <1>1 DEF OwnInv, WellFormed
  <2>2. ASSUME NEW s \in DOMAIN context.slots, context.slots[s] # NoImage
        PROVE  /\ context.slots[s].ids \subseteq DOMAIN context.view
               /\ {context.view[i].geometry : i \in context.slots[s].ids}
                    = context.slots[s].shapes
    BY <1>1, <2>1, <2>2 DEF OwnInv, WellFormed
  <2>3. QED
    BY <2>1, <2>2 DEF ImagesResolvable
<1>2. QED
  BY <1>1, OwnInductive, PTL

\* The objects created for restored compounds are never leaked and never
\* lost from the view.
THEOREM ObjectsAlwaysOwned == Spec => []ObjectsOwned
<1>1. OwnInv => ObjectsOwned
  BY DEF OwnInv, ObjectsOwned
<1>2. QED
  BY <1>1, OwnInductive, PTL
-----------------------------------------------------------------------------
(* Simulations and the collector. *)

\* What makes SimulationOutlivesSession hold: a session refers to whatever
\* it points to, and what a live session refers to is live unless the game
\* freed it.
HostInv ==
  /\ status \in [Objects -> {"live", "condemned", "gone"}]
  /\ held \subseteq Objects
  /\ bound \in [Session -> Simulations \cup {NoObject}]
  /\ weak \in [Session -> Simulations \cup {NoObject}]
  /\ direct \in [Session -> BOOLEAN]
  /\ adapter = "unreal" =>
       \A s \in Session :
         /\ direct[s] => bound[s] = WorldObj
         /\ weak[s] \in Simulations => bound[s] = weak[s]
         /\ Live(s) /\ bound[s] \in Simulations \ MayFree["unreal"] => Live(bound[s])

LEMMA HostInit == Init => HostInv
BY HostAssumption DEF Init, HostInv, Live, Objects

\* A session that can be reached is held by the game, and what it refers to
\* can be reached.
LEMMA ReachesBound ==
  ASSUME HostInv, NEW s \in Session, s \in Reachable, Live(s),
         bound[s] \in Simulations
  PROVE  bound[s] \in Reachable
<1>1. s \in held
  BY HostAssumption DEF Reachable, RefersFrom, Refers, HostInv, Objects, Simulations
<1>2. s \in RefersFrom(held)
  BY <1>1 DEF RefersFrom
<1>3. bound[s] \in RefersFrom(RefersFrom(held))
  BY <1>2 DEF RefersFrom, Refers, Objects
<1>4. QED
  BY <1>3 DEF Reachable

LEMMA HostStep == HostInv /\ [Next]_vars => HostInv'
<1> SUFFICES ASSUME HostInv, [Next]_vars PROVE HostInv'
  OBVIOUS
<1>1. CASE UNCHANGED hostVars
  BY <1>1 DEF hostVars, HostInv, Live
<1>2. ASSUME NEW s \in Session, NEW o \in Simulations \cup {NoObject},
             SetSimulationWorld(s, o)
      PROVE  HostInv'
  BY <1>2, HostAssumption DEF SetSimulationWorld, Refer, HostInv, Live, Objects, Simulations
<1>3. ASSUME NEW s \in Session, NEW o \in Simulations \cup {NoObject},
             SetSimulationInterface(s, o)
      PROVE  HostInv'
  BY <1>3, HostAssumption DEF SetSimulationInterface, Refer, HostInv, Live, Objects, Simulations
<1>4. ASSUME NEW s \in Session, NEW o \in Simulations \cup {NoObject},
             SetSimulation(s, o)
      PROVE  HostInv'
  BY <1>4 DEF SetSimulation, HostInv, Adapters
<1>5. ASSUME NEW s \in Session, Start(s) PROVE HostInv'
  BY <1>5 DEF Start, HostInv, Live
<1>6. ASSUME NEW s \in Session, Call(s) PROVE HostInv'
  BY <1>6, <1>1 DEF Call
<1>7. CASE GameCall \/ FinishDestroyWorld
  BY <1>7, <1>1 DEF GameCall, FinishDestroyWorld
<1>8. ASSUME NEW o \in Objects, Drop(o) PROVE HostInv'
  BY <1>8 DEF Drop, HostInv, Live
<1>9. ASSUME NEW o \in Objects, Free(o) PROVE HostInv'
  <2>1. status' \in [Objects -> {"live", "condemned", "gone"}]
    BY <1>9 DEF Free, End, HostInv
  <2>2. \A x \in Objects : x # o => status'[x] = status[x]
    BY <1>9 DEF Free, End, HostInv
  <2>3. status'[o] # "live"
    BY <1>9 DEF Free, End, HostInv
  <2>4. o \in MayFree[adapter]
    BY <1>9 DEF Free
  <2>5. held' \subseteq Objects /\ UNCHANGED <<adapter, bound, weak, direct>>
    BY <1>9 DEF Free, HostInv
  <2>6. QED
    BY <2>1, <2>2, <2>3, <2>4, <2>5, HostAssumption DEF HostInv, Live, Objects
<1>10. ASSUME NEW o \in Objects, BeginDestroy(o) PROVE HostInv'
  <2>1. status' \in [Objects -> {"live", "condemned", "gone"}]
    BY <1>10 DEF BeginDestroy, End, HostInv
  <2>2. \A x \in Objects : (status'[x] = "live") <=> (status[x] = "live")
    BY <1>10 DEF BeginDestroy, End, HostInv
  <2>3. UNCHANGED <<adapter, held, bound, weak, direct>>
    BY <1>10 DEF BeginDestroy
  <2>4. QED
    BY <2>1, <2>2, <2>3 DEF HostInv, Live
<1>11. CASE Collect
  <2>1. status' \in [Objects -> {"live", "condemned", "gone"}]
    BY <1>11 DEF Collect, HostInv
  <2>2. \A o \in Objects : (status'[o] = "live") <=> (Live(o) /\ o \in Reachable)
    BY <1>11 DEF Collect, HostInv, Live
  <2>3. UNCHANGED <<adapter, held, bound, weak, direct>>
    BY <1>11 DEF Collect
  <2>4. ASSUME adapter = "unreal", NEW s \in Session, Live(s)',
               bound[s] \in Simulations \ MayFree["unreal"]
        PROVE  Live(bound[s])'
    <3>1. Live(s) /\ s \in Reachable
      BY <2>2, <2>4 DEF Live, Objects
    <3>2. Live(bound[s])
      BY <3>1, <2>4 DEF HostInv
    <3>3. bound[s] \in Reachable
      BY <3>1, <2>4, ReachesBound
    <3>4. QED
      BY <2>2, <3>2, <3>3, <2>3 DEF Live, Objects
  <2>5. QED
    BY <2>1, <2>3, <2>4 DEF HostInv
<1>12. QED
  BY <1>1, <1>2, <1>3, <1>4, <1>5, <1>6, <1>7, <1>8, <1>9, <1>10, <1>11
  DEF Next, vars, hostVars

\* In Unreal no session's simulation is collected while the session lives.
THEOREM SimulationsKept == Spec => []SimulationOutlivesSession
<1>1. HostInv => SimulationOutlivesSession
  BY HostAssumption DEF HostInv, SimulationOutlivesSession, Simulations
<1>2. QED
  BY <1>1, HostInit, HostStep, PTL DEF Spec
=============================================================================
