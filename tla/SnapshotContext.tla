-------------------------- MODULE SnapshotContext ---------------------------
(***************************************************************************)
(* Who owns the geometry of a rolled-back world: the snapshot context of   *)
(* core/src/rollback_shim.c under the calls that core/src/rb_world.cpp     *)
(* makes on it.                                                            *)
(*                                                                         *)
(* Geometry stands for the meshes, height fields and compounds that a host *)
(* puts into a world through the raw API; the primitives and hulls of the  *)
(* wrapper are copied by Box3D and left out.  A shape created by the host  *)
(* uses geometry the host keeps alive.  A shape restored by b3r_load       *)
(* points into the context: at a blob of its registry or, a compound, at   *)
(* the object created for its registry entry when it was first restored.   *)
(*                                                                         *)
(* The context is a record: its number, the registry that serializing      *)
(* interns geometry into, the slot view over it, the view's capacity and   *)
(* the slots.  A slot holds the registry indices its image refers to and,  *)
(* for the properties only, the shapes it was saved from.                  *)
(***************************************************************************)
EXTENDS Integers, Sequences, FiniteSets

CONSTANTS
  Geometry,       \* the geometries of the host
  Compound,       \* those that are compounds
  SlotCounts,     \* arguments of init_snapshots
  Slots,          \* arguments of save_state and load_state
  FirstCapacity,  \* the 32 of b3r_RefreshView, twice its 16
  NoWorld, NoImage,
  MayFail,        \* whether serializing and deserializing may fail
  ReinitAnyTime,  \* whether init_snapshots is called with restored shapes about
  MaxContexts     \* bound: contexts ever created

ASSUME ContextAssumption ==
  /\ IsFiniteSet(Geometry) /\ Compound \subseteq Geometry
  /\ SlotCounts \subseteq Int /\ Slots \subseteq Int
  /\ FirstCapacity \in Nat
  /\ MayFail \in BOOLEAN /\ ReinitAnyTime \in BOOLEAN
  /\ MaxContexts \in Nat

VARIABLES
  world,     \* NoWorld, or where the geometry of each shape lives: 0 for the
             \* host's memory, n for that of the n-th context
  context,   \* rollback; the context numbered 0 is the null pointer
  contexts,  \* how many contexts b3r_create has made
  objects,   \* the compound objects allocated and not freed, as <<n, g>>
  closing    \* whether destroy_world is between the world and the context

contextVars == <<world, context, contexts, objects, closing>>

HasWorld == world # NoWorld
HasContext == context.id # 0

Entry == [geometry : Geometry, live : BOOLEAN]
Image == [ids : SUBSET Nat, shapes : SUBSET Geometry]

\* The geometries in a registry or a view.
Held(registry) == {registry[i] : i \in DOMAIN registry}
-----------------------------------------------------------------------------
(* The shim. *)

\* b3r_create of the n-th context.
NewContext(n, count) ==
  [id |-> n, registry |-> <<>>, view |-> <<>>, capacity |-> 0,
   slots |-> [s \in 0 .. count - 1 |-> NoImage]]

\* Mutant of KeptEntries: the grown view starts from nothing.
KeptEntriesUnlessGrown(c, registry) ==
  IF Len(registry) > c.capacity THEN 0 ELSE Len(c.view)

\* How many entries of the view b3r_RefreshView keeps, with the objects
\* created for them, for a view that may have to grow.
KeptEntries(c, registry) == Len(c.view)

\* b3r_RefreshView, once the registry is as given.
RefreshedView(c, registry) ==
  [i \in 1 .. Len(registry) |->
     IF i <= KeptEntries(c, registry) THEN c.view[i]
     ELSE [geometry |-> registry[i], live |-> FALSE]]

RefreshedCapacity(c, registry) ==
  IF Len(registry) <= c.capacity THEN c.capacity
  ELSE IF 2 * Len(registry) > FirstCapacity THEN 2 * Len(registry)
  ELSE FirstCapacity

\* The orders in which serializing may intern the geometries of S.
Listings(S) ==
  {t \in [1 .. Cardinality(S) -> S] : Held(t) = S}

\* Mutant of Viewed: the view is refreshed before the world is serialized.
ViewedBefore(c, registry) == RefreshedView(c, c.registry)

\* The view b3r_save leaves, when serializing left the registry as given.
Viewed(c, registry) == RefreshedView(c, registry)

\* b3r_save of a world with the given shapes into slot s.
SavedTo(c, s, image, registry) ==
  [id |-> c.id, registry |-> registry, view |-> Viewed(c, registry),
   capacity |-> RefreshedCapacity(c, registry),
   slots |-> [x \in DOMAIN c.slots |-> IF x = s THEN image ELSE c.slots[x]]]

\* The image of the shapes in terms of the registry.
ImageOf(shapes, registry) ==
  [ids |-> {i \in DOMAIN registry : registry[i] \in shapes}, shapes |-> shapes]

\* What b3r_save may make of context c, for a world with the given shapes.
\* Serializing that fails may have interned some geometry all the same.
Saves(c, s, shapes) ==
  LET new == shapes \ Held(c.registry)
      Registries(S) == {c.registry \o t : t \in Listings(S)}
  IN {SavedTo(c, s, ImageOf(shapes, r), r) : r \in Registries(new)}
     \cup IF MayFail
          THEN UNION {{SavedTo(c, s, NoImage, r) : r \in Registries(S)} : S \in SUBSET new}
          ELSE {}

\* The view with the objects that restoring the entries ids creates.
WithObjects(view, ids) ==
  [i \in DOMAIN view |->
     [geometry |-> view[i].geometry,
      live |-> view[i].live \/ (i \in ids /\ view[i].geometry \in Compound)]]

\* What restoring the entries ids allocates: an object for each compound
\* whose entry has none.
Allocated(c, ids) ==
  {<<c.id, c.view[i].geometry>> :
     i \in {j \in ids \cap DOMAIN c.view :
              ~c.view[j].live /\ c.view[j].geometry \in Compound}}

\* What b3r_destroy frees: the objects its view knows.
Freed(c) ==
  {<<c.id, c.view[i].geometry>> : i \in {j \in DOMAIN c.view : c.view[j].live}}

NoContext == NewContext(0, 0)
-----------------------------------------------------------------------------
(* The wrapper. *)

ContextInit ==
  /\ world = NoWorld
  /\ context = NoContext
  /\ contexts = 0
  /\ objects = {}
  /\ closing = FALSE

CreateWorld ==
  /\ ~closing /\ ~HasWorld
  /\ world' = <<>>
  /\ UNCHANGED <<context, contexts, objects, closing>>

\* The host adds a shape with geometry of its own, or destroys a shape.
RawAddShape(g) ==
  /\ ~closing /\ HasWorld /\ g \notin DOMAIN world
  /\ world' = [x \in DOMAIN world \cup {g} |-> IF x = g THEN 0 ELSE world[x]]
  /\ UNCHANGED <<context, contexts, objects, closing>>
RawDestroyShape(g) ==
  /\ ~closing /\ HasWorld /\ g \in DOMAIN world
  /\ world' = [x \in DOMAIN world \ {g} |-> world[x]]
  /\ UNCHANGED <<context, contexts, objects, closing>>

\* Mutant of FirstDestroyed: the context goes before the world.
ContextFirst == world' = world /\ context' = NoContext

\* What destroy_world destroys first.
FirstDestroyed == world' = NoWorld /\ context' = context

\* b3r_destroy, if there is a context.
ObjectsLeft == objects \ Freed(context)

\* destroy_world up to the destruction of the world, and the rest of it.
DestroyWorld ==
  /\ ~closing
  /\ closing' = TRUE
  /\ FirstDestroyed
  /\ UNCHANGED <<contexts, objects>>
DestroyRest ==
  /\ closing
  /\ closing' = FALSE
  /\ world' = NoWorld /\ context' = NoContext
  /\ objects' = ObjectsLeft
  /\ UNCHANGED contexts

\* The host's part: it does not ask for new snapshot slots while a restored
\* shape is left in the world, unless ReinitAnyTime.
MayInit == ReinitAnyTime \/ \A g \in DOMAIN world : world[g] = 0

\* init_snapshots up to and without the new context.
Reinit(count) ==
  /\ ~closing /\ HasWorld /\ count > 0
  /\ MayInit /\ contexts < MaxContexts
  /\ objects' = ObjectsLeft
  /\ contexts' = contexts + 1

InitSnapshots(count) ==
  /\ Reinit(count)
  /\ context' = NewContext(contexts', count)
  /\ UNCHANGED <<world, closing>>

SaveState(s) ==
  /\ ~closing /\ HasWorld /\ HasContext /\ s \in DOMAIN context.slots
  /\ context' \in Saves(context, s, DOMAIN world)
  /\ UNCHANGED <<world, contexts, objects, closing>>

\* The context once the entries ids were restored, wholly or in part.
Restored(ids) ==
  /\ context' = [id |-> context.id, registry |-> context.registry,
                 view |-> WithObjects(context.view, ids),
                 capacity |-> context.capacity, slots |-> context.slots]
  /\ objects' = objects \cup Allocated(context, ids)

\* load_state: every restored shape points into the context.  When
\* deserializing fails, Box3D may have restored a part of the shapes.
LoadState(s) ==
  /\ ~closing /\ HasWorld /\ HasContext /\ s \in DOMAIN context.slots
  /\ context.slots[s] # NoImage
  /\ \E ids \in IF MayFail THEN SUBSET context.slots[s].ids
                ELSE {context.slots[s].ids} :
       /\ Restored(ids)
       /\ world' = [g \in {context.view[i].geometry : i \in ids \cap DOMAIN context.view}
                      |-> context.id]
  /\ UNCHANGED <<contexts, closing>>

ContextNext ==
  \/ CreateWorld \/ DestroyWorld \/ DestroyRest
  \/ \E g \in Geometry : RawAddShape(g) \/ RawDestroyShape(g)
  \/ \E n \in SlotCounts : InitSnapshots(n)
  \/ \E s \in Slots : SaveState(s) \/ LoadState(s)

ContextSpec == ContextInit /\ [][ContextNext]_contextVars
-----------------------------------------------------------------------------
(* Properties. *)

\* No shape of the live world points into a context that is gone: the world
\* is destroyed before the context that its restored shapes point into
\* (rollback_shim.h: "destroy the world BEFORE the context").
ShapesHaveGeometry ==
  HasWorld => \A g \in DOMAIN world :
    world[g] \in {0, context.id}

\* Whatever was interned since, by saves that succeeded or failed, an image
\* finds in the view, which never outgrows its memory, exactly the
\* geometries it was saved with.
ImagesResolvable ==
  /\ Len(context.view) <= context.capacity
  /\ \A s \in DOMAIN context.slots : context.slots[s] # NoImage =>
       LET image == context.slots[s] IN
       /\ image.ids \subseteq DOMAIN context.view
       /\ {context.view[i].geometry : i \in image.ids} = image.shapes

\* The objects created for restored compounds are exactly those the view
\* still knows: growing the view loses none of them, and destroying a
\* context frees them all.
ObjectsOwned ==
  ~closing => objects = Freed(context)

=============================================================================
