--------------------------- MODULE KVCache_proofs ---------------------------
(***************************************************************************)
(* The types of KVCache, for any number of calls and prompts: pointers and *)
(* keys are held where a call needs them, and there is always an entry for *)
(* Set that nobody has a pointer to.                                       *)
(***************************************************************************)
EXTENDS KVCache, FiniteSetTheorems, TLAPS

\* Fewer entries are in use than there are, when a call holds none.
LEMMA SomeEntryIsFree ==
    ASSUME TypeOK, NEW c \in Callers, held[c] = NoEntry
    PROVE  FreshEntry \in Entries /\ ~InUse(FreshEntry)
<1> DEFINE others == Callers \ {c}
           inMap == {cache[k] : k \in Keys}
           inHand == {held[d] : d \in others}
           n == Cardinality(Keys)
           calls == Cardinality(Callers)
<1>1. /\ IsFiniteSet(Keys) /\ n \in Nat
      /\ IsFiniteSet(Callers) /\ calls \in Nat
      /\ IsFiniteSet(others) /\ Cardinality(others) = calls - 1
  BY CacheAssumption, FS_CardinalityType, FS_RemoveElement
<1>2. IsFiniteSet(inMap) /\ Cardinality(inMap) \in Nat /\ Cardinality(inMap) <= n
  <2>1. \E f \in Surjection(Keys, inMap) : TRUE
    <3> DEFINE f == [k \in Keys |-> cache[k]]
    <3>1. f \in Surjection(Keys, inMap)
      BY DEF Surjection
    <3> QED
      BY <3>1
  <2> QED
    BY <1>1, <2>1, FS_Surjection, FS_CardinalityType
<1>3. IsFiniteSet(inHand) /\ Cardinality(inHand) \in Nat /\ Cardinality(inHand) <= calls - 1
  <2>1. \E f \in Surjection(others, inHand) : TRUE
    <3> DEFINE f == [d \in others |-> held[d]]
    <3>1. f \in Surjection(others, inHand)
      BY DEF Surjection
    <3> QED
      BY <3>1
  <2> QED
    BY <1>1, <2>1, FS_Surjection, FS_CardinalityType
<1> HIDE DEF others, inMap, inHand
<1>4. /\ IsFiniteSet(inMap \cup inHand)
      /\ Cardinality(inMap \cup inHand) \in Nat
      /\ Cardinality(inMap \cup inHand) <= n + calls - 1
  <2> DEFINE both == inMap \cap inHand
             either == inMap \cup inHand
  <2>1. /\ IsFiniteSet(either)
        /\ Cardinality(either) = Cardinality(inMap) + Cardinality(inHand) - Cardinality(both)
    BY <1>2, <1>3, FS_Union
  <2>2. IsFiniteSet(both) /\ IsFiniteSet(either)
    BY <1>2, <1>3, <2>1, FS_Intersection
  <2>3. Cardinality(both) \in Nat /\ Cardinality(either) \in Nat
    BY <2>2, FS_CardinalityType
  <2> HIDE DEF both, either
  <2>4. Cardinality(either) <= n + calls - 1
    BY <1>1, <1>2, <1>3, <2>1, <2>3
  <2> QED
    BY <2>2, <2>3, <2>4 DEF either
<1>5. Cardinality(Entries) = n + calls
  <2>1. n + calls \in Nat /\ 1 \in Int
    BY <1>1
  <2> QED
    BY <2>1, <1>1, FS_Interval DEF Entries
<1>6. ~(Entries \subseteq inMap \cup inHand)
  BY <1>1, <1>4, <1>5, FS_Subset
<1>7. \E e \in Entries : ~InUse(e)
  <2>1. PICK e \in Entries : e \notin inMap /\ e \notin inHand
    BY <1>6
  <2>2. e # NoEntry
    BY CacheAssumption, <1>1 DEF Entries
  <2> QED
    BY <2>1, <2>2 DEF InUse, inMap, inHand, others
<1> QED
  BY <1>7 DEF FreshEntry

LEMMA TypeStep == ASSUME TypeOK, [Next]_vars PROVE TypeOK'
<1> USE DEF TypeOK, CallerStates, Holding, callerVars, vars
<1>1. ASSUME NEW c \in Callers, NEW k \in Keys, Lookup(c, k) PROVE TypeOK'
  BY <1>1, CacheAssumption DEF Lookup, Cached
<1>2. ASSUME NEW c \in Callers, CheckAge(c) PROVE TypeOK'
  BY <1>2 DEF CheckAge
<1>3. ASSUME NEW c \in Callers, CheckFile(c) PROVE TypeOK'
  BY <1>3 DEF CheckFile
<1>4. ASSUME NEW c \in Callers, RemoveEntry(c) PROVE TypeOK'
  BY <1>4 DEF RemoveEntry
<1>5. ASSUME NEW c \in Callers, Touch(c) PROVE TypeOK'
  BY <1>5, CacheAssumption DEF Touch, Return
<1>6. ASSUME NEW c \in Callers, Done(c) PROVE TypeOK'
  BY <1>6, CacheAssumption DEF Done, Return
<1>7. ASSUME NEW c \in Callers, Answer(c) PROVE TypeOK'
  BY <1>7 DEF Answer
<1>8. ASSUME NEW c \in Callers, MakeEntry(c) PROVE TypeOK'
  <2>1. held[c] = NoEntry
    BY <1>8 DEF MakeEntry
  <2>2. FreshEntry \in Entries
    BY <2>1, SomeEntryIsFree
  <2>3. FreshEntry # NoEntry
    BY <2>2, CacheAssumption DEF Entries
  <2> QED
    BY <1>8, <2>2, <2>3, CacheAssumption DEF MakeEntry, Return
<1>9. ASSUME NEW c \in Callers, Insert(c) PROVE TypeOK'
  BY <1>9, CacheAssumption DEF Insert, Return
<1>10. CASE Cleanup
  BY <1>10 DEF Cleanup
<1>11. CASE Tick
  BY <1>11, CacheAssumption DEF Tick, Expired
<1>12. ASSUME NEW k \in Keys, FileChanges(k) PROVE TypeOK'
  BY <1>12 DEF FileChanges
<1>13. CASE UNCHANGED vars
  BY <1>13
<1> QED
  BY <1>1, <1>2, <1>3, <1>4, <1>5, <1>6, <1>7, <1>8, <1>9, <1>10, <1>11, <1>12, <1>13
     DEF Next, Caller

\* Every call has a pointer to an entry, or a key, exactly where it uses one, whatever
\* the cleanup, other calls and the directory do meanwhile (kv_cache.go:79-213).
THEOREM CacheTypeCorrect == Spec => []TypeOK
<1>1. Init => TypeOK
  BY CacheAssumption DEF Init, TypeOK, CallerStates, Holding
<1>2. TypeOK /\ [Next]_vars => TypeOK'
  BY TypeStep
<1> QED
  BY <1>1, <1>2, PTL DEF Spec
=============================================================================
