----------------------- MODULE RelationshipCacheProofs -----------------------
(***************************************************************************)
(* Proofs about RelationshipCache for every set of nodes and any number of *)
(* changes and events.                                                     *)
(***************************************************************************)
EXTENDS RelationshipCache, TLAPS

USE CacheAssumption

LEMMA CacheInitOK == Init => CacheInv
<1> SUFFICES ASSUME Init PROVE CacheInv
  OBVIOUS
<1>1. collecting \in BOOLEAN
  BY DEF Init
<1>2. entries \in [Key -> Value \cup {None}] /\ EntriesOK
  BY DEF Init, NoEntries, EntriesOK
<1>3. CacheTypeOK
  BY <1>1, <1>2 DEF Init, CacheTypeOK, Value, PC
<1>4. LookOK /\ ValueOK
  BY DEF Init, LookOK, ValueOK, Looks
<1> QED BY <1>2, <1>3, <1>4 DEF CacheInv

\* A new event makes every entry one of an older generation.
LEMMA ScreenKeeps ==
  ASSUME CacheInv, Change \/ StructureChanged
  PROVE  CacheInv'
<1> USE DEF CacheInv, CacheTypeOK, LookOK, EntriesOK, ValueOK, Value
<1>1. CASE Change
  <2>1. 0 .. tree \subseteq 0 .. tree'
    BY <1>1 DEF Change
  <2> QED BY <1>1, <2>1 DEF Change, cache, locals, history
<1>2. CASE StructureChanged
  BY <1>2 DEF StructureChanged, cache, locals
<1> QED BY <1>1, <1>2

\* Nothing is left in a cache that was emptied (invalidate).
LEMMA EmptyEntries ==
  ASSUME entries' = NoEntries, epoch' = gen', gen' \in Nat
  PROVE  EntriesOK' /\ entries' \in [Key -> Value' \cup {None}] /\ epoch' \in 0 .. gen'
BY DEF EntriesOK, NoEntries

LEMMA CollectionKeeps ==
  ASSUME CacheInv, Collect \/ EndCollect \/ Acting
  PROVE  CacheInv'
<1> USE DEF CacheInv, CacheTypeOK, LookOK, ValueOK, Value, Goto, Looks, PC
<1>1. CASE Collect \/ EndCollect \/ RootBoundary \/ BeginAction \/ EndAction
  <2>1. gen' = gen /\ gen \in Nat /\ entries' = NoEntries /\ epoch' = gen
    BY <1>1 DEF Collect, EndCollect, RootBoundary, BeginAction, EndAction, Invalidate, screen
  <2>2. EntriesOK' /\ entries' \in [Key -> Value' \cup {None}] /\ epoch' \in 0 .. gen'
    BY <2>1, EmptyEntries
  <2>3. collecting' \in BOOLEAN
    BY <1>1 DEF Collect, EndCollect, RootBoundary, BeginAction, EndAction
  <2>4. UNCHANGED <<screen, locals, asked, answer>> /\ known' \in {known, tree}
    BY <1>1 DEF Collect, EndCollect, RootBoundary, BeginAction, EndAction, history
  <2>5. pc \in {"idle", "acting"} /\ pc' \in {"idle", "acting"}
    BY <1>1 DEF Collect, EndCollect, RootBoundary, BeginAction, EndAction
  <2> QED BY <2>1, <2>2, <2>3, <2>4, <2>5 DEF screen, locals
<1>2. CASE ActionRaises
  BY <1>2 DEF ActionRaises, screen, cache, locals, history, EntriesOK
<1> QED BY <1>1, <1>2 DEF Acting

\* The steps of parent and child.
LEMMA LookingKeeps ==
  ASSUME CacheInv, Looking
  PROVE  CacheInv'
<1> USE DEF CacheInv, CacheTypeOK, LookOK, ValueOK, Value, Goto, Looks, PC
<1>1. CASE \E k \in Key : Lookup(k)
  BY <1>1 DEF Lookup, screen, cache, EntriesOK
<1>2. CASE ReadDirectly \/ ReadRaises
  BY <1>2 DEF ReadDirectly, ReadRaises, Return, screen, cache, locals, EntriesOK
<1>3. CASE Sync
  <2>1. UNCHANGED <<epoch, entries>> \/ (entries' = NoEntries /\ epoch' = gen)
    BY <1>3 DEF Sync, Invalidate
  <2>2. UNCHANGED <<screen, collecting, locals, history>> /\ pc = "sync" /\ pc' = "find"
    BY <1>3 DEF Sync
  <2>3. EntriesOK' /\ entries' \in [Key -> Value' \cup {None}] /\ epoch' \in 0 .. gen'
    BY <2>1, <2>2, EmptyEntries DEF EntriesOK, screen, history
  <2> QED BY <2>2, <2>3 DEF screen, locals, history
<1>4. CASE Stale \/ KeepNot
  <2>1. gen' = gen /\ gen \in Nat /\ entries' = NoEntries /\ epoch' = gen
    BY <1>4 DEF Stale, KeepNot, Invalidate, screen
  <2>2. EntriesOK' /\ entries' \in [Key -> Value' \cup {None}] /\ epoch' \in 0 .. gen'
    BY <2>1, EmptyEntries
  <2> QED BY <1>4, <2>1, <2>2 DEF Stale, KeepNot, Return, screen, locals, history
<1>5. CASE Find \/ NotFound \/ Miss
  BY <1>5 DEF Find, NotFound, Miss, screen, cache, locals, history, EntriesOK
<1>6. CASE Hit
  BY <1>6 DEF Hit, Return, screen, cache, locals, EntriesOK
<1>7. CASE Read
  BY <1>7 DEF Read, screen, cache, history, EntriesOK
<1>8. CASE Keep
  BY <1>8 DEF Keep, Return, screen, locals, EntriesOK
<1> QED BY <1>1, <1>2, <1>3, <1>4, <1>5, <1>6, <1>7, <1>8 DEF Looking

\* Entries are current as long as no event has come, the value at hand is as good
\* or newer than the call, for any number of changes, events and actions.
THEOREM CacheInvariant == CacheSpec => []CacheInv
<1>1. CacheInv /\ UNCHANGED vars => CacheInv'
  BY DEF CacheInv, CacheTypeOK, LookOK, EntriesOK, ValueOK, Value, vars, screen, cache, locals,
         history
<1>2. CacheInv /\ [Next]_vars => CacheInv'
  BY <1>1, ScreenKeeps, CollectionKeeps, LookingKeeps DEF Next
<1> QED BY CacheInitOK, <1>2, PTL DEF CacheSpec

\* The cache's state keeps its types.
THEOREM CacheTypesHold == CacheSpec => []CacheTypeOK
BY CacheInvariant, PTL DEF CacheInv

-----------------------------------------------------------------------------
(* The refinement.                                                         *)

LEMMA LookupStep ==
  ASSUME CacheInv, [Next]_vars
  PROVE  [Fresh!Next]_(Fresh!lookup)
<1> USE DEF CacheInv, CacheTypeOK, Value, Fresh!Next, Fresh!lookup
<1>1. CASE Change
  BY <1>1 DEF Change, history, Fresh!Change
<1>2. CASE StructureChanged
  BY <1>2 DEF StructureChanged, Fresh!Learn
<1>3. CASE Collect \/ EndCollect
  BY <1>3 DEF Collect, EndCollect, screen, history
<1>4. CASE Acting
  BY <1>4 DEF Acting, RootBoundary, BeginAction, ActionRaises, EndAction, screen, history,
              Fresh!Learn
<1>5. CASE \E k \in Key : Lookup(k)
  BY <1>5 DEF Lookup, Goto, LookOK, Looks, screen, Fresh!Ask
<1>6. CASE ReadDirectly
  BY <1>6 DEF ReadDirectly, Goto, LookOK, Looks, Return, screen, Fresh!Answer
<1>7. CASE ReadRaises
  BY <1>7 DEF ReadRaises, LookOK, Looks, screen, Fresh!Fail
<1>8. CASE Sync \/ NotFound \/ Find \/ Stale \/ Miss \/ Read
  BY <1>8 DEF Sync, NotFound, Find, Stale, Miss, Read, screen, history
<1>9. CASE Hit \/ Keep \/ KeepNot
  BY <1>9 DEF Hit, Keep, KeepNot, Goto, LookOK, Looks, ValueOK, Return, screen, locals,
              Fresh!Answer
<1>10. CASE UNCHANGED vars
  BY <1>10 DEF vars, screen, history
<1> QED BY <1>1, <1>2, <1>3, <1>4, <1>5, <1>6, <1>7, <1>8, <1>9, <1>10 DEF Next, Looking

\* A lookup returns what was read while it was being made, or what was read when
\* nothing the helper knows of had yet to change, for any number of relations,
\* changes, events, actions and exceptions (parent, child).
THEOREM FreshLookupImplemented == CacheSpec => ImplementsFreshLookup
<1>1. Init => Fresh!Init
  BY DEF Init, Fresh!Init
<1> QED BY <1>1, LookupStep, CacheInvariant, PTL
        DEF CacheSpec, ImplementsFreshLookup, Fresh!Spec

=============================================================================
