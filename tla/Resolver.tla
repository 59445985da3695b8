------------------------------ MODULE Resolver ------------------------------
(***************************************************************************)
(* Name resolution: MemAddressResolver, alone or wrapped in CachingResolver  *)
(* (src/src/address.rs), shared by the threads of a node, and the client's   *)
(* RegistryCache (src/src/registry/center.rs).  Every lock is taken for one  *)
(* step, so the layers of a resolver are read and written one by one.        *)
(***************************************************************************)
EXTENDS Integers, FiniteSets

CONSTANTS
    ResThread,      \* threads using the resolver
    ResName, ResId, \* node names and node ids
    Unset,          \* no id, no cache entry
    ResTtl,         \* default_ttl and the wrapper's 300 s; also RegistryCache's ttl
    MaxResTime      \* bound on the clock

\* A CacheEntry: the id and when it was cached.
Entry == [id : ResId, at : 0..MaxResTime]

ASSUME ResAssumption == ResTtl \in Nat /\ MaxResTime \in Nat /\ Unset \notin ResId \cup Entry

VARIABLES
    wrapped,        \* is there a CachingResolver around the MemAddressResolver?
    staticMap,      \* static_map
    outer, inner,   \* the caches of the wrapper and of the MemAddressResolver
    call,           \* call[t]: the call a thread is in and the step it is at
    clock,
    regCache,       \* RegistryCache
    asked,          \* requests the registry client sent
    overlapped,     \* history: have two calls overlapped?
    fresh,          \* history: ids mapped or cached for a name since the last clear_cache
    lastHeld        \* history: when the name was last mapped or cached to the id

resVars == <<wrapped, staticMap, outer, inner, call, clock, regCache, asked, overlapped, fresh, lastHeld>>
ghosts == <<overlapped, fresh, lastHeld>>

Idle == [step |-> "idle", name |-> Unset, id |-> Unset]
AtStep(s, n, i) == [step |-> s, name |-> n, id |-> i]
ResStep == {"idle", "outer", "inner", "static", "store", "cacheOuter", "cacheInner", "clearOuter", "clearInner"}

ResInit ==
    /\ wrapped \in BOOLEAN
    /\ staticMap \in [ResName -> ResId \cup {Unset}]
    /\ outer = [n \in ResName |-> Unset] /\ inner = outer /\ regCache = outer
    /\ call = [t \in ResThread |-> Idle]
    /\ clock = 0 /\ asked = {} /\ overlapped = FALSE
    /\ fresh = [n \in ResName |-> {staticMap[n]} \ {Unset}]
    /\ lastHeld = [n \in ResName |-> [i \in ResId |-> 0]]

\* CacheEntry::is_expired, negated: an entry counts until it is older than its ttl.
Current(cache, n) == cache[n] # Unset /\ clock - cache[n].at <= ResTtl

Go(t, s) == call' = [call EXCEPT ![t] = s]
Finish(t) == Go(t, Idle)

\* A call begins; from now on the history knows whether any two ran at once.
Begin(t, s) ==
    /\ call[t] = Idle
    /\ Go(t, s)
    /\ overlapped' = (overlapped \/ \E u \in ResThread : call[u] # Idle)

\* The name is mapped to the id, or cached by a caller.
Note(n, i) ==
    /\ fresh' = [fresh EXCEPT ![n] = @ \cup {i}]
    /\ lastHeld' = [lastHeld EXCEPT ![n][i] = clock]

----------------------------------------------------------------------------
(* resolve *)

ResolveBegin(t, n) ==
    /\ Begin(t, AtStep(IF wrapped THEN "outer" ELSE "inner", n, Unset))
    /\ UNCHANGED <<wrapped, staticMap, outer, inner, clock, regCache, asked, fresh, lastHeld>>

ReadOuter(t) ==
    LET n == call[t].name IN
    /\ call[t].step = "outer"
    /\ Go(t, IF Current(outer, n) THEN Idle ELSE AtStep("inner", n, Unset))
    /\ UNCHANGED <<wrapped, staticMap, outer, inner, clock, regCache, asked, ghosts>>

\* A hit is returned; under the wrapper that writes it into both caches again,
\* with a new time.
ReadInner(t) ==
    LET n == call[t].name IN
    /\ call[t].step = "inner"
    /\ Go(t, IF ~Current(inner, n) THEN AtStep("static", n, Unset)
             ELSE IF wrapped THEN AtStep("cacheOuter", n, inner[n].id) ELSE Idle)
    /\ UNCHANGED <<wrapped, staticMap, outer, inner, clock, regCache, asked, ghosts>>

ReadStatic(t) ==
    LET n == call[t].name IN
    /\ call[t].step = "static"
    /\ Go(t, IF staticMap[n] = Unset THEN Idle ELSE AtStep("store", n, staticMap[n]))
    /\ UNCHANGED <<wrapped, staticMap, outer, inner, clock, regCache, asked, ghosts>>

\* The id read from the static map, which is unlocked by now, goes into the cache.
StoreStatic(t) ==
    /\ call[t].step = "store"
    /\ inner' = [inner EXCEPT ![call[t].name] = [id |-> call[t].id, at |-> clock]]
    /\ Go(t, IF wrapped THEN AtStep("cacheOuter", call[t].name, call[t].id) ELSE Idle)
    /\ UNCHANGED <<wrapped, staticMap, outer, clock, regCache, asked, ghosts>>

----------------------------------------------------------------------------
(* cache, clear_cache, add_static_mapping, remove_static_mapping.  The       *)
(* wrapper owns the inner resolver: its static map cannot change any more.   *)

CacheBegin(t, n, i) ==
    /\ Begin(t, AtStep(IF wrapped THEN "cacheOuter" ELSE "cacheInner", n, i))
    /\ Note(n, i)
    /\ UNCHANGED <<wrapped, staticMap, outer, inner, clock, regCache, asked>>

CacheOuter(t) ==
    /\ call[t].step = "cacheOuter"
    /\ outer' = [outer EXCEPT ![call[t].name] = [id |-> call[t].id, at |-> clock]]
    /\ Go(t, [call[t] EXCEPT !.step = "cacheInner"])
    /\ UNCHANGED <<wrapped, staticMap, inner, clock, regCache, asked, ghosts>>

CacheInner(t) ==
    /\ call[t].step = "cacheInner"
    /\ inner' = [inner EXCEPT ![call[t].name] = [id |-> call[t].id, at |-> clock]]
    /\ Finish(t)
    /\ Note(call[t].name, call[t].id)
    /\ UNCHANGED <<wrapped, staticMap, outer, clock, regCache, asked, overlapped>>

ClearBegin(t) ==
    /\ Begin(t, AtStep(IF wrapped THEN "clearOuter" ELSE "clearInner", Unset, Unset))
    /\ UNCHANGED <<wrapped, staticMap, outer, inner, clock, regCache, asked, fresh, lastHeld>>

ClearOuter(t) ==
    /\ call[t].step = "clearOuter"
    /\ outer' = [n \in ResName |-> Unset]
    /\ Go(t, AtStep("clearInner", Unset, Unset))
    /\ UNCHANGED <<wrapped, staticMap, inner, clock, regCache, asked, ghosts>>

ClearInnerMutant(t) ==
    /\ call[t].step = "clearInner"
    /\ inner' = IF wrapped THEN inner ELSE [n \in ResName |-> Unset]
    /\ fresh' = [n \in ResName |-> {staticMap[n]} \ {Unset}]
    /\ Finish(t)
    /\ UNCHANGED <<wrapped, staticMap, outer, clock, regCache, asked, overlapped, lastHeld>>

ClearInner(t) ==
    /\ call[t].step = "clearInner"
    /\ inner' = [n \in ResName |-> Unset]
    /\ fresh' = [n \in ResName |-> {staticMap[n]} \ {Unset}]
    /\ Finish(t)
    /\ UNCHANGED <<wrapped, staticMap, outer, clock, regCache, asked, overlapped, lastHeld>>

MappingCall == ~wrapped /\ overlapped' = (overlapped \/ \E u \in ResThread : call[u] # Idle)

AddStaticMapping(n, i) ==
    /\ MappingCall
    /\ staticMap' = [staticMap EXCEPT ![n] = i]
    /\ Note(n, i)
    /\ UNCHANGED <<wrapped, outer, inner, call, clock, regCache, asked>>

\* The cache is left alone: the name still resolves until its entry expires.
RemoveStaticMapping(n) ==
    /\ MappingCall
    /\ staticMap' = [staticMap EXCEPT ![n] = Unset]
    /\ UNCHANGED <<wrapped, outer, inner, call, clock, regCache, asked, fresh, lastHeld>>

----------------------------------------------------------------------------
(* RegistryClient and its RegistryCache, whose entries count for less than   *)
(* the ttl.  register and the lookups send a request and wait for no answer. *)

Answer(n) == IF regCache[n] # Unset /\ clock - regCache[n].at < ResTtl THEN regCache[n].id ELSE Unset

RegInsert(n, i) ==
    /\ regCache' = [regCache EXCEPT ![n] = [id |-> i, at |-> clock]]
    /\ UNCHANGED <<wrapped, staticMap, outer, inner, call, clock, asked, ghosts>>

RegRemove(N) ==
    /\ regCache' = [n \in ResName |-> IF n \in N THEN Unset ELSE regCache[n]]
    /\ UNCHANGED <<wrapped, staticMap, outer, inner, call, clock, asked, ghosts>>

RegCleanup ==
    /\ regCache' = [n \in ResName |-> IF Answer(n) # Unset THEN regCache[n] ELSE Unset]
    /\ UNCHANGED <<wrapped, staticMap, outer, inner, call, clock, asked, ghosts>>

RegLookup(n) ==
    /\ asked' = IF Answer(n) = Unset THEN asked \cup {<<"lookup", n>>} ELSE asked
    /\ UNCHANGED <<wrapped, staticMap, outer, inner, call, clock, regCache, ghosts>>

RegReverseLookup(i) ==
    /\ asked' = asked \cup {<<"reverse", i>>}
    /\ UNCHANGED <<wrapped, staticMap, outer, inner, call, clock, regCache, ghosts>>

RegRegister(n, i) ==
    /\ asked' = asked \cup {<<"register", n, i>>}
    /\ UNCHANGED <<wrapped, staticMap, outer, inner, call, clock, regCache, ghosts>>

\* What a static map holds is held until now.
ResTick ==
    /\ clock < MaxResTime /\ clock' = clock + 1
    /\ lastHeld' = [n \in ResName |-> [i \in ResId |-> IF staticMap[n] = i THEN clock + 1 ELSE lastHeld[n][i]]]
    /\ UNCHANGED <<wrapped, staticMap, outer, inner, call, regCache, asked, overlapped, fresh>>

ResolverNext ==
    \/ \E t \in ResThread :
          \/ \E n \in ResName : ResolveBegin(t, n) \/ \E i \in ResId : CacheBegin(t, n, i)
          \/ ReadOuter(t) \/ ReadInner(t) \/ ReadStatic(t) \/ StoreStatic(t)
          \/ CacheOuter(t) \/ CacheInner(t)
          \/ ClearBegin(t) \/ ClearOuter(t) \/ ClearInner(t)
    \/ \E n \in ResName : RemoveStaticMapping(n) \/ \E i \in ResId : AddStaticMapping(n, i)
    \/ ResTick

RegClientNext ==
    \/ \E n \in ResName : RegLookup(n) \/ \E i \in ResId : RegInsert(n, i) \/ RegRegister(n, i)
    \/ \E N \in {{n} : n \in ResName} \cup {ResName} : RegRemove(N)
    \/ RegCleanup \/ ResTick
    \/ \E i \in ResId : RegReverseLookup(i)

ResSpec == ResInit /\ [][ResolverNext \/ RegClientNext]_resVars

----------------------------------------------------------------------------
(* Properties. *)

\* The caches, the calls and the clock have their types.
ResTypeOK ==
    /\ {outer, inner, regCache} \subseteq [ResName -> Entry \cup {Unset}]
    /\ call \in [ResThread -> [step : ResStep, name : ResName \cup {Unset}, id : ResId \cup {Unset}]]
    /\ clock \in 0..MaxResTime

\* clear_cache reaches both layers: unless calls overlapped, what the caches
\* answer afterwards was mapped or cached since.
ClearForgets ==
    ~overlapped => \A n \in ResName, c \in {outer, inner} : Current(c, n) => c[n].id \in fresh[n]

\* The wrapper and the resolver it wraps answer alike: unless calls overlapped,
\* no call leaves them with different ids for a name.
LayersAgree ==
    ~overlapped /\ (\A t \in ResThread : call[t] = Idle) =>
        \A n \in ResName : Current(outer, n) /\ Current(inner, n) => outer[n].id = inner[n].id

\* A mapping that was removed or replaced is answered for the ttl at most: hits do
\* not renew it.  (Under the wrapper they do, so this is about a resolver alone.)
StaleAtMostTtl ==
    ~wrapped /\ ~overlapped => \A n \in ResName :
        Current(inner, n) => clock - lastHeld[n][inner[n].id] <= ResTtl

\* As long as calls do not overlap, the caches answer nothing they should not.
CachesHonest == ClearForgets /\ LayersAgree /\ StaleAtMostTtl
=============================================================================
