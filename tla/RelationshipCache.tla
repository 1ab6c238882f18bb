------------------------- MODULE RelationshipCache -------------------------
(***************************************************************************)
(* The cache of parents and children that SMART_NEXT uses while it         *)
(* collects the state of the screen (SnapshotRelationshipCache.kt), on the *)
(* one thread that owns it.  The tree belongs to the app on the screen and *)
(* changes at any time; the service's main thread counts the events that   *)
(* tell of it in a generation, which the cache compares before and after   *)
(* everything it does.  A value is the tree, by number, it was read from.  *)
(* What only this thread sees belongs to the step of the comparison before *)
(* it, and so does the invalidation after one that fails: an event between *)
(* the two may as well have come before both.                              *)
(***************************************************************************)
EXTENDS Naturals

CONSTANTS
  Parents,    \* the nodes whose parent is looked up
  Children,   \* the nodes and indexes whose child is looked up
  None,       \* an absent value
  MaxChange,  \* bound: changes of the tree
  MaxEvent    \* bound: structural events

Key == Parents \cup Children

ASSUME CacheAssumption ==
  /\ Parents \cap Children = {}
  /\ None \notin Nat
  /\ None \notin Key
  /\ MaxChange \in Nat
  /\ MaxEvent \in Nat

VARIABLES
  tree,        \* the number of changes of the tree
  gen,         \* structuralEpoch
  collecting,  \* a collection is in progress, with a cache of its own
  epoch,       \* the cache's epoch
  entries,     \* parents and children: the value of each cached relation
  pc,          \* where the collecting thread is
  key,         \* the relation being looked up
  before,      \* the generation read before the relation is
  value,       \* the relation at hand
  known,       \* history: the tree when the helper last learned of a change
  asked,       \* history: the tree when the lookup began
  answer       \* what the last lookup returned

screen == <<tree, gen>>
cache == <<collecting, epoch, entries>>
locals == <<key, before, value>>
history == <<known, asked, answer>>
vars == <<screen, cache, pc, locals, history>>

Looks == {"direct", "sync", "find", "copy", "miss", "read", "keep"}
PC == {"idle", "acting"} \cup Looks

NoEntries == [k \in Key |-> None]

Init ==
  /\ tree = 0
  /\ gen = 0
  /\ collecting = FALSE
  /\ epoch = 0
  /\ entries = NoEntries
  /\ pc = "idle"
  /\ key = None
  /\ before = 0
  /\ value = None
  /\ known = 0
  /\ asked = None
  /\ answer = None

Goto(here, there) == pc = here /\ pc' = there

\* Whatever comes between clearing and reading the generation finds the maps empty.
Invalidate ==
  /\ entries' = NoEntries
  /\ epoch' = gen

Return(v) ==
  /\ answer' = v
  /\ asked' = None

-----------------------------------------------------------------------------
(* The screen, and the service's main thread.                              *)

\* The app on the screen changes its tree (external).
Change ==
  /\ tree < MaxChange
  /\ tree' = tree + 1
  /\ UNCHANGED <<gen, cache, pc, locals, history>>

\* A structural event arrives, late or with no change behind it.
StructureChanged ==
  /\ gen < MaxEvent
  /\ gen' = gen + 1
  /\ known' = tree
  /\ UNCHANGED <<tree, cache, pc, locals, asked, answer>>

-----------------------------------------------------------------------------
(* A collection, and what invalidates its cache in between.                *)

Collect ==
  /\ pc = "idle"
  /\ ~collecting
  /\ collecting' = TRUE
  /\ entries' = NoEntries
  /\ epoch' = gen
  /\ UNCHANGED <<screen, pc, locals, history>>

\* The block returns or raises.
EndCollect ==
  /\ pc = "idle"
  /\ collecting
  /\ collecting' = FALSE
  /\ Invalidate
  /\ UNCHANGED <<screen, pc, locals, history>>

\* A new root is about to be acquired.
RootBoundary ==
  /\ pc = "idle"
  /\ collecting
  /\ Invalidate
  /\ known' = tree
  /\ UNCHANGED <<screen, collecting, pc, locals, asked, answer>>

\* performAction and refresh invalidate the cache before and after what they do,
\* which may change the tree (Change) before any event tells of it.
BeginAction ==
  /\ collecting
  /\ Goto("idle", "acting")
  /\ Invalidate
  /\ UNCHANGED <<screen, collecting, locals, history>>

EndAction ==
  /\ Goto("acting", "idle")
  /\ Invalidate
  /\ known' = tree
  /\ UNCHANGED <<screen, collecting, locals, asked, answer>>

ActionRaises ==
  /\ Goto("acting", "idle")
  /\ UNCHANGED <<screen, cache, locals, history>>

-----------------------------------------------------------------------------
(* parent and child.                                                       *)

Lookup(k) ==
  /\ Goto("idle", IF collecting THEN "sync" ELSE "direct")
  /\ key' = k
  /\ asked' = tree
  /\ UNCHANGED <<screen, cache, before, value, known, answer>>

\* Without a cache every relation is read.
ReadDirectly ==
  /\ Goto("direct", "idle")
  /\ Return(tree)
  /\ UNCHANGED <<screen, cache, locals, known>>

Sync ==
  /\ Goto("sync", "find")
  /\ IF gen = epoch THEN UNCHANGED <<epoch, entries>> ELSE Invalidate
  /\ UNCHANGED <<screen, collecting, locals, history>>

NotFound ==
  /\ Goto("find", "miss")
  /\ entries[key] = None
  /\ UNCHANGED <<screen, cache, locals, history>>

Find ==
  /\ Goto("find", "copy")
  /\ entries[key] # None
  /\ gen = epoch
  /\ value' = entries[key]
  /\ UNCHANGED <<screen, cache, key, before, history>>

\* Mutant: the generation is not looked at again after the copy.
HitUnchecked ==
  /\ Goto("copy", "idle")
  /\ Return(value)
  /\ UNCHANGED <<screen, cache, locals, known>>

Hit ==
  /\ Goto("copy", "idle")
  /\ gen = epoch
  /\ Return(value)
  /\ UNCHANGED <<screen, cache, locals, known>>

\* An event that came before the entry was found, or while it was copied, makes
\* the hit a miss.
Stale ==
  /\ pc \in {"find", "copy"}
  /\ entries[key] # None
  /\ gen # epoch
  /\ pc' = "miss"
  /\ Invalidate
  /\ UNCHANGED <<screen, collecting, locals, history>>

Miss ==
  /\ Goto("miss", "read")
  /\ before' = gen
  /\ UNCHANGED <<screen, cache, key, value, history>>

Read ==
  /\ Goto("read", "keep")
  /\ value' = tree
  /\ UNCHANGED <<screen, cache, key, before, history>>

\* Reading a relation, or one without a cache, may raise.
ReadRaises ==
  /\ pc \in {"direct", "read"}
  /\ pc' = "idle"
  /\ asked' = None
  /\ UNCHANGED <<screen, cache, locals, known, answer>>

\* What was read is kept if no event came meanwhile, and returned in any case.
Keep ==
  /\ Goto("keep", "idle")
  /\ gen = before
  /\ entries' = [entries EXCEPT ![key] = value]
  /\ Return(value)
  /\ UNCHANGED <<screen, collecting, epoch, locals, known>>

KeepNot ==
  /\ Goto("keep", "idle")
  /\ gen # before
  /\ Invalidate
  /\ Return(value)
  /\ UNCHANGED <<screen, collecting, locals, known>>

-----------------------------------------------------------------------------

Acting == RootBoundary \/ BeginAction \/ EndAction \/ ActionRaises

Looking ==
  \/ \E k \in Key : Lookup(k)
  \/ ReadDirectly \/ ReadRaises
  \/ Sync \/ NotFound \/ Find \/ Hit \/ Stale
  \/ Miss \/ Read \/ Keep \/ KeepNot

Next ==
  \/ Change
  \/ StructureChanged
  \/ Collect
  \/ EndCollect
  \/ Acting
  \/ Looking

CacheSpec == Init /\ [][Next]_vars

-----------------------------------------------------------------------------
(* Properties.                                                             *)

Value == 0 .. tree

\* Every variable has its type, and no value is from a tree still to come.
CacheTypeOK ==
  /\ tree \in Nat
  /\ gen \in Nat
  /\ collecting \in BOOLEAN
  /\ epoch \in 0 .. gen
  /\ entries \in [Key -> Value \cup {None}]
  /\ pc \in PC
  /\ key \in Key \cup {None}
  /\ before \in 0 .. gen
  /\ value \in Value \cup {None}
  /\ known \in Value
  /\ asked \in Value \cup {None}
  /\ answer \in Value \cup {None}

\* A lookup is in progress at its places, and knows what it looks for.
LookOK ==
  /\ asked # None <=> pc \in Looks
  /\ pc \in Looks => key \in Key

\* While no event has come since the cache was last emptied, its entries were
\* read after the last change the helper knows of.
EntriesOK == epoch = gen => \A k \in Key : entries[k] # None => entries[k] >= known

\* The value at hand is as good as an entry, or was read by this lookup.
ValueOK ==
  /\ pc = "copy" => value # None /\ (epoch = gen => value >= known)
  /\ pc = "keep" /\ gen = before => value >= known
  /\ pc = "keep" => value # None /\ value >= asked

\* The inductive invariant behind the refinement.
CacheInv == CacheTypeOK /\ LookOK /\ EntriesOK /\ ValueOK

Fresh == INSTANCE FreshLookup

\* However events, actions and changes of the tree fall between the steps of a
\* lookup, it returns what was read while it was being made, or what was read
\* when nothing the helper knows of had yet to change (the generation checks of
\* SnapshotRelationshipCache.parent and child, and its invalidation).
ImplementsFreshLookup == Fresh!Spec

=============================================================================
