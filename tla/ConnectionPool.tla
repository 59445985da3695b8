--------------------------- MODULE ConnectionPool ---------------------------
(***************************************************************************)
(* ConnectionPool of src/src/vpn/relay.rs, shared by the threads that send *)
(* through TcpClient.  Every operation runs under the pool's one lock, so  *)
(* it is one step; a client may hold a stream from the step that gets it   *)
(* to the step that returns it, while others get and return theirs.        *)
(***************************************************************************)
EXTENDS Naturals, Sequences, FiniteSets

CONSTANTS
    PoolUser,       \* threads using the pool
    Addr,           \* peer addresses
    Stream,         \* TCP sockets
    NoStream,       \* no stream, no address
    MaxSize,        \* max_size, per address
    UsizeMax,       \* the largest usize
    Faults          \* which of FaultKind happen

FaultKind == {"die", "clone"}

ASSUME PoolAssumption ==
    /\ MaxSize \in Nat /\ UsizeMax \in Nat /\ Faults \subseteq FaultKind
    /\ NoStream \notin Stream \cup Addr
    /\ IsFiniteSet(PoolUser) /\ Cardinality(PoolUser) <= UsizeMax

VARIABLES
    pool,           \* connections: for each address its PooledConnections, in order
    held,           \* the stream each thread got and has not returned yet
    peer,           \* the address it got it for
    dead,           \* sockets whose peer_addr() fails
    activeCount,    \* active_count
    upset           \* history: did try_clone fail, or clear hit connections in use?

poolVars == <<pool, held, peer, dead, activeCount, upset>>

PooledConnection == [stream : Stream, inUse : BOOLEAN]

PoolInit ==
    /\ pool = [a \in Addr |-> <<>>]
    /\ held = [c \in PoolUser |-> NoStream]
    /\ peer = [c \in PoolUser |-> NoStream]
    /\ dead = {}
    /\ activeCount = 0
    /\ upset = FALSE

Pooled == UNION {{pool[a][k].stream : k \in DOMAIN pool[a]} : a \in Addr}
Held == {held[c] : c \in PoolUser} \ {NoStream}

\* usize arithmetic wraps.
Incr(n) == (n + 1) % (UsizeMax + 1)
Decr(n) == (n + UsizeMax) % (UsizeMax + 1)

\* The place of the first connection of the list that is (not) in use and whose
\* peer_addr() is ok; 0 if there is none.
FirstLive(list, inUse) ==
    LET places == {k \in DOMAIN list : list[k].inUse = inUse /\ list[k].stream \notin dead}
    IN  IF places = {} THEN 0 ELSE CHOOSE k \in places : \A j \in places : k <= j

SetInUse(a, k, b) == pool' = [pool EXCEPT ![a][k].inUse = b]

----------------------------------------------------------------------------
(* get_connection.  The operators named ...Mutant are plausible bugs; no    *)
(* specification uses them.                                                *)

\* An idle connection is marked and a clone of its stream handed out; the mark
\* stays when try_clone fails.
Reuse(c, a) ==
    LET k == FirstLive(pool[a], FALSE) IN
    /\ k # 0
    /\ SetInUse(a, k, TRUE)
    /\ activeCount' = Incr(activeCount)
    /\ \/ held' = [held EXCEPT ![c] = pool[a][k].stream] /\ peer' = [peer EXCEPT ![c] = a]
          /\ UNCHANGED upset
       \/ "clone" \in Faults /\ upset' = TRUE /\ UNCHANGED <<held, peer>>
    /\ UNCHANGED dead

\* No idle connection and room for one more: a new one.  If connecting fails, or
\* the pool is full, the call returns an error and changes nothing.
Connect(c, a) ==
    /\ FirstLive(pool[a], FALSE) = 0
    /\ Len(pool[a]) < MaxSize
    /\ \E s \in Stream \ (Pooled \cup Held) :
          /\ pool' = [pool EXCEPT ![a] = Append(@, [stream |-> s, inUse |-> TRUE])]
          /\ held' = [held EXCEPT ![c] = s]
          /\ dead' = dead \ {s}
    /\ peer' = [peer EXCEPT ![c] = a]
    /\ activeCount' = Incr(activeCount)
    /\ UNCHANGED upset

GetConnection(c, a) == held[c] = NoStream /\ (Reuse(c, a) \/ Connect(c, a))

ReturnConnectionMutant(c) ==
    LET a == peer[c]
        k == FirstLive(pool[a], TRUE)
    IN  /\ held[c] # NoStream
        /\ IF k = 0 THEN UNCHANGED pool ELSE SetInUse(a, k, FALSE)
        /\ activeCount' = IF k = 0 THEN activeCount ELSE Decr(activeCount)
        /\ held' = [held EXCEPT ![c] = NoStream]
        /\ peer' = [peer EXCEPT ![c] = NoStream]
        /\ UNCHANGED <<dead, upset>>

\* return_connection: the first live connection in use becomes idle.
ReturnConnection(c) ==
    LET a == peer[c]
        k == FirstLive(pool[a], TRUE)
    IN  /\ held[c] # NoStream
        /\ IF k = 0 THEN UNCHANGED pool ELSE SetInUse(a, k, FALSE)
        /\ activeCount' = Decr(activeCount)
        /\ held' = [held EXCEPT ![c] = NoStream]
        /\ peer' = [peer EXCEPT ![c] = NoStream]
        /\ UNCHANGED <<dead, upset>>

\* retain: the connections that are in use or not old, in their order.
Retained(list, old) ==
    LET kept[k \in 0..Len(list)] ==
            IF k = 0 THEN <<>>
            ELSE IF list[k].inUse \/ list[k].stream \notin old THEN Append(kept[k - 1], list[k])
            ELSE kept[k - 1]
    IN  kept[Len(list)]

\* cleanup_idle: "old" are the streams not used for max_idle.
CleanupIdle ==
    /\ \E old \in SUBSET Stream : pool' = [a \in Addr |-> Retained(pool[a], old)]
    /\ UNCHANGED <<held, peer, dead, activeCount, upset>>

ClearPool ==
    /\ pool' = [a \in Addr |-> <<>>]
    /\ activeCount' = 0
    /\ upset' = (upset \/ Held # {})
    /\ UNCHANGED <<held, peer, dead>>

\* The peer resets a connection.
StreamDies(s) ==
    /\ "die" \in Faults
    /\ s \in (Pooled \cup Held) \ dead
    /\ dead' = dead \cup {s}
    /\ UNCHANGED <<pool, held, peer, activeCount, upset>>

PoolNext ==
    \/ \E c \in PoolUser, a \in Addr : GetConnection(c, a)
    \/ \E c \in PoolUser : ReturnConnection(c)
    \/ CleanupIdle \/ ClearPool
    \/ \E s \in Stream : StreamDies(s)

PoolSpec == PoolInit /\ [][PoolNext]_poolVars

----------------------------------------------------------------------------
(* Properties. *)

InUse(a) == {k \in DOMAIN pool[a] : pool[a][k].inUse}
LiveIn(a) == {k \in DOMAIN pool[a] : pool[a][k].stream \notin dead}
Users(a) == {c \in PoolUser : peer[c] = a}

\* The pool, the clients and the counter have their types, and no address has
\* more than max_size connections.
PoolTypeOK ==
    /\ pool \in [Addr -> UNION {[1..n -> PooledConnection] : n \in 0..MaxSize}]
    /\ held \in [PoolUser -> Stream \cup {NoStream}]
    /\ peer \in [PoolUser -> Addr \cup {NoStream}]
    /\ dead \subseteq Stream
    /\ activeCount \in 0..UsizeMax
    /\ upset \in BOOLEAN

\* active_count is the number of connections the callers hold, dead ones included.
ActiveCountExact == ~upset => activeCount = Cardinality({c \in PoolUser : held[c] # NoStream})

\* Although return_connection does not look for the connection it is given, the
\* number of slots marked in_use fits the number of callers: every caller has one,
\* and only dead connections can be marked without having a caller.
SlotsMatchUsers ==
    ~upset => \A a \in Addr :
        /\ Cardinality(InUse(a) \cap LiveIn(a)) <= Cardinality(Users(a))
        /\ Cardinality(Users(a)) <= Cardinality(InUse(a))

\* The pool's count and its slots both fit what the callers hold.
PoolCountsExact == ActiveCountExact /\ SlotsMatchUsers
=============================================================================
