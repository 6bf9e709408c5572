------------------------------- MODULE KVCache -------------------------------
(***************************************************************************)
(* internal/runner/kv_cache.go and its only user, LlamaInstance.Complete:  *)
(* a map from the hash of a prompt to a cache file.  A caller is one call  *)
(* of Complete, of which every instance runs one at a time.                *)
(*                                                                         *)
(* Get lets go of the lock between its steps while it goes on using the    *)
(* *KVCacheEntry it found, so entries are objects here: the map may by     *)
(* then have another one, or none, under the same key.  cleanup, Set's     *)
(* insertion and removeEntry run under the lock, so each is one step.      *)
(*                                                                         *)
(* Prompts are told apart only by their hash, so a call has a key and no   *)
(* prompt; the file of a key is GetCachePath's.  Time is the age of an     *)
(* entry, counted up to the first value that is too old.                   *)
(***************************************************************************)
EXTENDS Naturals, FiniteSets, FiniteSetsExt

CONSTANTS Callers,   \* calls of Complete that may run at once
          Keys,      \* results of simpleHash
          SizeOf,    \* the size of the file of a key
          MaxSize,   \* KVCacheManager.maxSize
          MaxAge,    \* KVCacheManager.maxAge
          NoEntry,   \* nil
          NoKey      \* what a caller looks for that is in no call

ASSUME CacheAssumption == /\ IsFiniteSet(Keys) /\ IsFiniteSet(Callers)
                          /\ SizeOf \in [Keys -> Nat]
                          /\ MaxSize \in Nat
                          /\ MaxAge \in Nat
                          /\ NoEntry \notin Nat
                          /\ NoKey \notin Keys

\* Enough objects for the map and one more per caller: others are garbage.
Entries == 1 .. Cardinality(Keys) + Cardinality(Callers)

VARIABLES cache,  \* KVCacheManager.cache
          age,    \* time since an entry's LastUsed
          files,  \* keys whose file exists in cacheDir
          pc,     \* where a caller is
          key,    \* the key it looks for
          held    \* the entry it has a pointer to

callerVars == <<pc, key, held>>
vars == <<cache, age, files, pc, key, held>>

CallerStates == {"idle", "age", "file", "touch", "remove", "missed", "answered", "insert"}

\* A caller has a pointer while it checks an entry or is about to insert one.
Holding == {"age", "file", "touch", "insert"}

TypeOK == /\ cache \in [Keys -> Entries \cup {NoEntry}]
          /\ age \in [Entries -> 0 .. MaxAge + 1]
          /\ files \in SUBSET Keys
          /\ pc \in [Callers -> CallerStates]
          /\ key \in [Callers -> Keys \cup {NoKey}]
          /\ held \in [Callers -> Entries \cup {NoEntry}]
          /\ \A c \in Callers : /\ held[c] # NoEntry <=> pc[c] \in Holding
                              /\ key[c] # NoKey <=> pc[c] # "idle"

\* The directory may have files of an earlier run; the map starts empty.
Init == /\ cache = [k \in Keys |-> NoEntry]
        /\ age = [e \in Entries |-> 0]
        /\ files \in SUBSET Keys
        /\ pc = [c \in Callers |-> "idle"]
        /\ key = [c \in Callers |-> NoKey]
        /\ held = [c \in Callers |-> NoEntry]

Cached == {k \in Keys : cache[k] # NoEntry}
Total == MapThenSumSet(LAMBDA k : SizeOf[k], Cached)

InUse(e) == (\E k \in Keys : cache[k] = e) \/ (\E c \in Callers : held[c] = e)
FreshEntry == CHOOSE e \in Entries : ~InUse(e)

-----------------------------------------------------------------------------
(* Faulty variants of the definitions below: each breaks a property (README). *)

\* Get without the test of exists.
LookupUnchecked(c, k) == /\ pc[c] = "idle"
                         /\ key' = [key EXCEPT ![c] = k]
                         /\ held' = [held EXCEPT ![c] = cache[k]]
                         /\ pc' = [pc EXCEPT ![c] = "age"]
                         /\ UNCHANGED <<cache, age, files>>

\* A limit on the number of entries.
ManyEntries == Cardinality(Cached) > MaxSize

-----------------------------------------------------------------------------
\* time.Since(entry.LastUsed) > maxAge
Expired(e) == age[e] > MaxAge

\* The call is over.
Return(c) == /\ pc' = [pc EXCEPT ![c] = "idle"]
             /\ key' = [key EXCEPT ![c] = NoKey]

(* Get *)

\* The map is read under the read lock.
Lookup(c, k) == /\ pc[c] = "idle"
                /\ key' = [key EXCEPT ![c] = k]
                /\ held' = [held EXCEPT ![c] = cache[k]]
                /\ pc' = [pc EXCEPT ![c] = IF k \in Cached THEN "age" ELSE "missed"]
                /\ UNCHANGED <<cache, age, files>>

\* The age of the entry found, without the lock.
CheckAge(c) == /\ pc[c] = "age"
               /\ IF Expired(held[c])
                  THEN /\ pc' = [pc EXCEPT ![c] = "remove"]
                       /\ held' = [held EXCEPT ![c] = NoEntry]
                  ELSE pc' = [pc EXCEPT ![c] = "file"] /\ UNCHANGED held
               /\ UNCHANGED <<cache, age, files, key>>

\* os.Stat of its file.
CheckFile(c) == /\ pc[c] = "file"
                /\ IF key[c] \notin files
                   THEN /\ pc' = [pc EXCEPT ![c] = "remove"]
                        /\ held' = [held EXCEPT ![c] = NoEntry]
                   ELSE pc' = [pc EXCEPT ![c] = "touch"] /\ UNCHANGED held
                /\ UNCHANGED <<cache, age, files, key>>

\* removeEntry removes what the map has under the key NOW, and its file.
RemoveEntry(c) == /\ pc[c] = "remove"
                  /\ cache' = [cache EXCEPT ![key[c]] = NoEntry]
                  /\ files' = IF key[c] \in Cached THEN files \ {key[c]} ELSE files
                  /\ pc' = [pc EXCEPT ![c] = "missed"]
                  /\ UNCHANGED <<age, key, held>>

\* The entry found is refreshed, whether or not the map still has it.  What Complete
\* does after a hit is no business of the cache: nobody reads the file.
Touch(c) == /\ pc[c] = "touch"
            /\ age' = [age EXCEPT ![held[c]] = 0]
            /\ held' = [held EXCEPT ![c] = NoEntry]
            /\ Return(c)
            /\ UNCHANGED <<cache, files>>

-----------------------------------------------------------------------------
(* Complete, and Set *)

\* The completion fails or has no content.
Done(c) == /\ pc[c] = "missed"
           /\ Return(c)
           /\ UNCHANGED <<cache, age, files, held>>

\* The completion of a prompt that missed returns content.
Answer(c) == /\ pc[c] = "missed"
             /\ pc' = [pc EXCEPT ![c] = "answered"]
             /\ UNCHANGED <<cache, age, files, key, held>>

\* os.Stat, in Complete and again in Set, of the path the file would have: only a
\* file that is already there gets an entry.
MakeEntry(c) == /\ pc[c] = "answered"
                /\ IF key[c] \in files
                   THEN /\ pc' = [pc EXCEPT ![c] = "insert"]
                        /\ held' = [held EXCEPT ![c] = FreshEntry]
                        /\ age' = [age EXCEPT ![FreshEntry] = 0]
                        /\ UNCHANGED key
                   ELSE Return(c) /\ UNCHANGED <<age, held>>
                /\ UNCHANGED <<cache, files>>

\* The entry joins the map, also if its file has gone meanwhile.
Insert(c) == /\ pc[c] = "insert"
             /\ cache' = [cache EXCEPT ![key[c]] = held[c]]
             /\ held' = [held EXCEPT ![c] = NoEntry]
             /\ Return(c)
             /\ UNCHANGED <<age, files>>

-----------------------------------------------------------------------------
(* cleanup, every 30 seconds *)

OverLimit == Total > MaxSize
Oldest == {k \in Cached : \A j \in Cached : age[cache[j]] <= age[cache[k]]}

\* Faulty: an early return from cleanup when the cache is within its limit.
CleanupWhenFull == /\ OverLimit
                   /\ \E k \in Oldest :
                         LET gone == {k} \cup {j \in Cached : Expired(cache[j])}
                         IN  /\ cache' = [j \in Keys |-> IF j \in gone THEN NoEntry ELSE cache[j]]
                             /\ files' = files \ gone
                   /\ UNCHANGED <<age, callerVars>>

\* Above the limit ONE entry is evicted, however far above; then whatever expired.
Cleanup == \E evicted \in IF OverLimit THEN {{k} : k \in Oldest} ELSE {{}} :
              LET gone == evicted \cup {k \in Cached : Expired(cache[k])}
              IN  /\ cache' = [k \in Keys |-> IF k \in gone THEN NoEntry ELSE cache[k]]
                  /\ files' = files \ gone
                  /\ UNCHANGED <<age, callerVars>>

-----------------------------------------------------------------------------
(* Surroundings *)

\* Time passes; the age of garbage is reset, to keep the states few.
Tick == /\ age' = [e \in Entries |-> CASE ~InUse(e) -> 0
                                       [] InUse(e) /\ Expired(e) -> age[e]
                                       [] OTHER -> age[e] + 1]
        /\ UNCHANGED <<cache, files, callerVars>>

\* Somebody puts a file into cacheDir or removes one.
FileChanges(k) == /\ \/ files' = files \cup {k}
                     \/ files' = files \ {k}
                  /\ UNCHANGED <<cache, age, callerVars>>

Caller(c) == \/ \E k \in Keys : Lookup(c, k)
             \/ CheckAge(c) \/ CheckFile(c) \/ RemoveEntry(c) \/ Touch(c)
             \/ Done(c) \/ Answer(c) \/ MakeEntry(c) \/ Insert(c)

Next == \/ \E c \in Callers : Caller(c)
        \/ Cleanup
        \/ Tick
        \/ \E k \in Keys : FileChanges(k)

Spec == Init /\ [][Next]_vars

\* Calls that have begun go on, the ticker ticks and time passes.  Nothing makes
\* anybody ask or a file appear.
Fairness == /\ WF_vars(Cleanup)
            /\ WF_vars(Tick)
            /\ \A c \in Callers :
                  WF_vars(\/ CheckAge(c) \/ CheckFile(c) \/ RemoveEntry(c) \/ Touch(c)
                          \/ Done(c) \/ MakeEntry(c) \/ Insert(c))

FairSpec == Spec /\ Fairness

-----------------------------------------------------------------------------
(* Properties *)

\* The cache comes back under its limit when nothing is inserted any more, though
\* each cleanup evicts one entry only and hits keep entries young.
SizeConverges ==
    <>[](\A c \in Callers : pc[c] # "insert") => <>[](Total <= MaxSize)

\* An entry without a file, as a removal between Set's Stat and its insertion
\* leaves behind, does not stay for ever, even if nobody asks for it again.
GhostsVanish ==
    \A k \in Keys : k \in Cached /\ k \notin files ~> k \notin Cached \/ k \in files

\* README.md:12 "相同前缀 prompt 自动缓存" (prompts are cached automatically): a
\* prompt that was answered gets an entry.
AnsweredIsCached ==
    [][\A c \in Callers : pc[c] = "answered" => pc'[c] \in {"answered", "insert"}]_vars
=============================================================================
