------------------------------ MODULE Election ------------------------------
(***************************************************************************)
(* The registry-centre election of src/src/registry/election.rs: one       *)
(* ElectionManager per node, the messages they broadcast, and the registry *)
(* server that the registry_control callback switches on and off.          *)
(*                                                                         *)
(* Each handler is one atomic step.  The network keeps every message for   *)
(* ever: a message handled late, twice or never is a delayed, duplicated   *)
(* or lost one.  A vote that is denied is answered too, but its handler    *)
(* returns without touching any state, so only granted votes are kept.     *)
(***************************************************************************)
EXTENDS Naturals, FiniteSets

CONSTANTS
    Node,           \* the NodeIDs; an address is named by the node it is of
    None,           \* Rust's Option::None
    Peers,          \* known_nodes of each node once the application set it up
    Churn,          \* pairs <<n, m>>: the application adds m to / removes m from n's list
    Bootstrap,      \* pairs <<n, r>>: the application calls set_registry(r) on n
    SyncPairs,      \* pairs <<n, m>>: n calls request_sync with m's address
    CandidateHash,  \* compute_candidate_hash, a function of <<candidate, term>>
    LocalValue,     \* the first 8 bytes of each NodeID as a number
    MissThreshold,  \* heartbeat_miss_threshold
    MaxTerm         \* bound on the terms explored

Term == 0..MaxTerm
Status == {"Follower", "Candidate", "Leader"}

ASSUME NodeAssumption == IsFiniteSet(Node) /\ None \notin Node
ASSUME PeersAssumption == Peers \in [Node -> SUBSET Node]
ASSUME CallsAssumption ==
    Churn \subseteq Node \X Node /\ Bootstrap \subseteq Node \X Node /\ SyncPairs \subseteq Node \X Node
ASSUME HashAssumption ==
    CandidateHash \in [Node \X Term -> Nat] /\ LocalValue \in [Node -> Nat]
ASSUME BoundAssumption == MissThreshold \in Nat /\ MaxTerm \in Nat

VARIABLES
    status,         \* RegistryStatus of each node
    term,           \* its term
    votedFor,       \* voted_for
    votes,          \* votes_received
    known,          \* known_nodes
    registry,       \* registry_id
    registryAddr,   \* registry_addr, as the node whose address it is
    missed,         \* missed_heartbeats, capped at the threshold
    serving,        \* is the node's registry server running?
    requests,       \* ElectionRequest messages sent
    grants,         \* ElectionVote messages sent with granted = true
    results,        \* ElectionResult messages sent
    changes,        \* RegistryChange messages sent
    syncRequests,   \* RegistrySync requests sent
    syncReplies,    \* RegistrySync responses sent
    elected         \* history: who became leader, in which term, by which votes

local == <<status, term, votedFor, votes, missed>>
view == <<registry, registryAddr, serving>>
network == <<requests, grants, results, changes, syncRequests, syncReplies>>
vars == <<local, view, known, network, elected>>

----------------------------------------------------------------------------
\* Messages.  "to" is the set of nodes a broadcast was sent to.
Request == [candidate : Node, term : Term, to : SUBSET Node]
Grant == [voter : Node, candidate : Node, term : Term]
Result == [leader : Node, term : Term, to : SUBSET Node]
SyncRequest == [requester : Node, term : Term, to : Node]
SyncReply == [leader : Node, term : Term, to : Node]
Elected == [leader : Node, term : Term, voters : SUBSET Node, total : Nat]

Init ==
    /\ status = [n \in Node |-> "Follower"]
    /\ term = [n \in Node |-> 0]
    /\ votedFor = [n \in Node |-> None]
    /\ votes = [n \in Node |-> {}]
    /\ known = Peers
    /\ registry = [n \in Node |-> None]
    /\ registryAddr = [n \in Node |-> None]
    /\ missed = [n \in Node |-> 0]
    /\ serving = [n \in Node |-> FALSE]
    /\ requests = {} /\ grants = {} /\ results = {} /\ changes = {}
    /\ syncRequests = {} /\ syncReplies = {}
    /\ elected = {}

----------------------------------------------------------------------------
(* The application's calls. *)

AddKnownNode(n, m) ==
    /\ m \notin known[n]
    /\ known' = [known EXCEPT ![n] = @ \cup {m}]
    /\ UNCHANGED <<local, view, network, elected>>

RemoveKnownNode(n, m) ==
    /\ m \in known[n]
    /\ known' = [known EXCEPT ![n] = @ \ {m}]
    /\ UNCHANGED <<local, view, network, elected>>

SetRegistry(n, r) ==
    /\ registry' = [registry EXCEPT ![n] = r]
    /\ registryAddr' = [registryAddr EXCEPT ![n] = r]
    /\ missed' = [missed EXCEPT ![n] = 0]
    /\ UNCHANGED <<status, term, votedFor, votes, serving, known, network, elected>>

ResetHeartbeatMonitor(n) ==
    /\ missed' = [missed EXCEPT ![n] = 0]
    /\ UNCHANGED <<status, term, votedFor, votes, view, known, network, elected>>

RecordMissedHeartbeat(n) ==
    /\ missed[n] < MissThreshold
    /\ missed' = [missed EXCEPT ![n] = @ + 1]
    /\ UNCHANGED <<status, term, votedFor, votes, view, known, network, elected>>

IsRegistryHealthy(n) == missed[n] < MissThreshold

ShouldStartElection(n) ==
    /\ status[n] = "Follower"
    /\ registry[n] # None
    /\ ~IsRegistryHealthy(n)

----------------------------------------------------------------------------
(* Election.  The operators named ...Mutant are plausible bugs; no          *)
(* specification uses them.                                                *)

StartElection(n) ==
    /\ status[n] # "Candidate"
    /\ known[n] # {}
    /\ term[n] < MaxTerm
    /\ status' = [status EXCEPT ![n] = "Candidate"]
    /\ term' = [term EXCEPT ![n] = @ + 1]
    /\ votedFor' = [votedFor EXCEPT ![n] = n]
    /\ votes' = [votes EXCEPT ![n] = {n}]
    /\ requests' = requests \cup {[candidate |-> n, term |-> term[n] + 1, to |-> known[n]]}
    /\ UNCHANGED <<missed, view, known, grants, results, changes,
                   syncRequests, syncReplies, elected>>

\* The part of become_follower that every caller shares: adopt the term,
\* become Follower, drop the votes collected, restart the heartbeat monitor.
StepDown(n, t) ==
    /\ term' = [term EXCEPT ![n] = IF t > @ THEN t ELSE @]
    /\ status' = [status EXCEPT ![n] = "Follower"]
    /\ votes' = [votes EXCEPT ![n] = {}]
    /\ missed' = [missed EXCEPT ![n] = 0]

\* become_follower with a new registry r; the server stops unless r is n itself.
BecomeFollower(n, t, r) ==
    /\ StepDown(n, t)
    /\ votedFor' = [votedFor EXCEPT ![n] = None]
    /\ registry' = [registry EXCEPT ![n] = r]
    /\ serving' = [serving EXCEPT ![n] = @ /\ r = n]

\* The deterministic preference of should_vote_for.
Supports(n, c, t) == c = n \/ CandidateHash[c, t] > LocalValue[n]

ShouldVoteForMutant(n, c, t, votedNow) == Supports(n, c, t)

\* should_vote_for, given what voted_for holds when it is read.
ShouldVoteFor(n, c, t, votedNow) == votedNow = None /\ Supports(n, c, t)

\* handle_election_request.  A request of an older term is only denied; one of
\* a newer term first runs become_follower(term, None), which clears voted_for
\* and leaves the registry and its server alone.
HandleElectionRequest(n, r) ==
    LET newer == r.term > term[n]
        votedNow == IF newer THEN None ELSE votedFor[n]
        granted == ShouldVoteFor(n, r.candidate, r.term, votedNow)
    IN  /\ n \in r.to
        /\ r.term >= term[n]
        /\ IF newer THEN StepDown(n, r.term) ELSE UNCHANGED <<status, term, votes, missed>>
        /\ votedFor' = [votedFor EXCEPT ![n] = IF granted THEN r.candidate ELSE votedNow]
        /\ grants' = IF granted
                       THEN grants \cup {[voter |-> n, candidate |-> r.candidate, term |-> r.term]}
                       ELSE grants
        /\ UNCHANGED <<view, known, requests, results, changes,
                       syncRequests, syncReplies, elected>>

\* get_local_addr: known only if the node is on its own list.
GetLocalAddr(n) == IF n \in known[n] THEN n ELSE None

\* become_leader, with the votes that won and the number of nodes counted.
BecomeLeader(n, voters, total) ==
    /\ status' = [status EXCEPT ![n] = "Leader"]
    /\ registry' = [registry EXCEPT ![n] = n]
    /\ registryAddr' = [registryAddr EXCEPT ![n] = GetLocalAddr(n)]
    /\ serving' = [serving EXCEPT ![n] = TRUE]
    /\ results' = results \cup {[leader |-> n, term |-> term[n], to |-> known[n]]}
    /\ changes' = IF GetLocalAddr(n) = None
                    THEN changes
                    ELSE changes \cup {[leader |-> n, term |-> term[n], to |-> known[n]]}
    /\ elected' = elected \cup
                    {[leader |-> n, term |-> term[n], voters |-> voters, total |-> total]}

CountsVoteMutant(n, v) ==
    /\ status[n] = "Candidate"
    /\ v.candidate = n
    /\ v.voter \notin votes[n]

\* Does n count the vote v?
CountsVote(n, v) ==
    /\ status[n] = "Candidate"
    /\ v.term = term[n]
    /\ v.candidate = n
    /\ v.voter \notin votes[n]

IsMajorityStrictMutant(voters, total) == Cardinality(voters) > total \div 2 + 1

\* "more than half": votes > total / 2, in integers.
IsMajority(voters, total) == Cardinality(voters) > total \div 2

HandleElectionVote(n, v) ==
    LET voters == votes[n] \cup {v.voter}
        total == Cardinality(known[n]) + 1
    IN  /\ CountsVote(n, v)
        /\ votes' = [votes EXCEPT ![n] = voters]
        /\ IF IsMajority(voters, total)
             THEN BecomeLeader(n, voters, total)
             ELSE UNCHANGED <<status, view, results, changes, elected>>
        /\ UNCHANGED <<term, votedFor, missed, known, requests, grants,
                       syncRequests, syncReplies>>

HandleElectionResult(n, r) ==
    /\ n \in r.to
    /\ r.term >= term[n]
    /\ r.leader # n
    /\ BecomeFollower(n, r.term, r.leader)
    /\ UNCHANGED <<registryAddr, known, network, elected>>

HandleRegistryChange(n, c) ==
    /\ n \in c.to
    /\ c.term >= term[n]
    /\ c.leader # n
    /\ registryAddr' = [registryAddr EXCEPT ![n] = c.leader]
    /\ BecomeFollower(n, c.term, c.leader)
    /\ UNCHANGED <<known, network, elected>>

----------------------------------------------------------------------------
(* Synchronisation of a returning registry centre with the current leader. *)

RequestSync(n, m) ==
    /\ syncRequests' = syncRequests \cup {[requester |-> n, term |-> term[n], to |-> m]}
    /\ UNCHANGED <<local, view, known, requests, grants, results, changes,
                   syncReplies, elected>>

\* handle_registry_sync on a leader.  A requester with a newer term is taken
\* for the new leader; any other is sent the registry data.
HandleRegistrySync(n, s) ==
    /\ s.to = n
    /\ status[n] = "Leader"
    /\ \/ /\ s.term > term[n]
          /\ BecomeFollower(n, s.term, s.requester)
          /\ UNCHANGED <<registryAddr, syncReplies>>
       \/ /\ s.term <= term[n]
          /\ syncReplies' = syncReplies \cup {[leader |-> n, term |-> term[n], to |-> s.requester]}
          /\ UNCHANGED <<local, view>>
    /\ UNCHANGED <<known, requests, grants, results, changes, syncRequests, elected>>

HandleSyncResponseMutant(n, r) ==
    /\ r.to = n
    /\ term' = [term EXCEPT ![n] = r.term]
    /\ registry' = [registry EXCEPT ![n] = r.leader]
    /\ UNCHANGED <<status, votedFor, votes, missed, registryAddr, serving,
                   known, network, elected>>

\* handle_sync_response: adopts the term and the leader, and nothing else.
HandleSyncResponse(n, r) ==
    /\ r.to = n
    /\ term' = [term EXCEPT ![n] = IF r.term > @ THEN r.term ELSE @]
    /\ registry' = [registry EXCEPT ![n] = r.leader]
    /\ UNCHANGED <<status, votedFor, votes, missed, registryAddr, serving,
                   known, network, elected>>

----------------------------------------------------------------------------
Application(n) ==
    \/ \E m \in Node : <<n, m>> \in Churn /\ (AddKnownNode(n, m) \/ RemoveKnownNode(n, m))
    \/ \E r \in Node : <<n, r>> \in Bootstrap /\ SetRegistry(n, r)
    \/ \E m \in Node : <<n, m>> \in SyncPairs /\ RequestSync(n, m)
    \/ RecordMissedHeartbeat(n)
    \/ ResetHeartbeatMonitor(n)
    \/ ShouldStartElection(n) /\ StartElection(n)

\* handle_message
HandleMessage(n) ==
    \/ \E r \in requests : HandleElectionRequest(n, r)
    \/ \E v \in grants : HandleElectionVote(n, v)
    \/ \E r \in results : HandleElectionResult(n, r)
    \/ \E c \in changes : HandleRegistryChange(n, c)
    \/ \E s \in syncRequests : HandleRegistrySync(n, s)
    \/ \E r \in syncReplies : HandleSyncResponse(n, r)

Next == \E n \in Node : Application(n) \/ HandleMessage(n)

Spec == Init /\ [][Next]_vars

\* The scheduling of a running deployment: heartbeats of a dead registry keep
\* being missed, the driver starts the election it owes, and every message
\* sent is handled in the end.
Fairness ==
    \A n \in Node :
        /\ WF_vars(ShouldStartElection(n) /\ StartElection(n))
        /\ WF_vars(RecordMissedHeartbeat(n))
        /\ WF_vars(\E r \in requests : HandleElectionRequest(n, r))
        /\ WF_vars(\E v \in grants : HandleElectionVote(n, v))
        /\ WF_vars(\E r \in results : HandleElectionResult(n, r))
        /\ WF_vars(\E c \in changes : HandleRegistryChange(n, c))

FairSpec == Spec /\ Fairness

----------------------------------------------------------------------------
(* Properties. *)

\* Every variable of every ElectionManager, and every message on the network,
\* has its type; terms stay within the explored range.
TypeOK ==
    /\ status \in [Node -> Status]
    /\ term \in [Node -> Term]
    /\ votedFor \in [Node -> Node \cup {None}]
    /\ votes \in [Node -> SUBSET Node]
    /\ known \in [Node -> SUBSET Node]
    /\ registry \in [Node -> Node \cup {None}]
    /\ registryAddr \in [Node -> Node \cup {None}]
    /\ missed \in [Node -> 0..MissThreshold]
    /\ serving \in [Node -> BOOLEAN]
    /\ requests \subseteq Request
    /\ grants \subseteq Grant
    /\ results \subseteq Result
    /\ changes \subseteq Result
    /\ syncRequests \subseteq SyncRequest
    /\ syncReplies \subseteq SyncReply
    /\ elected \subseteq Elected

\* A leader was elected in term t.
Decided(t) == \E e \in elected : e.term = t

\* Voter v stands behind candidate c in term t: it granted its vote, or is the
\* candidate itself.
Backs(v, c, t) ==
    \/ [voter |-> v, candidate |-> c, term |-> t] \in grants
    \/ v = c /\ \E r \in requests : r.candidate = c /\ r.term = t

\* handle_election_vote makes a node leader only on the votes of more than half
\* of the nodes it knows, itself included, and each of these votes was cast for
\* it in that very term: late votes of its earlier elections never count.
ElectedByMajority ==
    \A e \in elected :
        /\ 2 * Cardinality(e.voters) > e.total
        /\ \A v \in e.voters : Backs(v, e.leader, e.term)

\* should_vote_for: as long as no leader of a term has been elected, nobody
\* backs two candidates in it, whatever is lost, repeated or reordered.
\* (Afterwards become_follower clears voted_for: see OneLeaderPerTerm.)
SingleVoteUntilDecided ==
    \A v, c, d \in Node, t \in Term :
        ~Decided(t) /\ Backs(v, c, t) /\ Backs(v, d, t) => c = d

\* No handler ever takes a node back to an older term, stale sync responses and
\* results of deposed leaders included.
TermNeverDecreases == [][\A n \in Node : term'[n] >= term[n]]_vars

\* The term number prevents split brain: no two leaders of one term.
OneLeaderPerTerm ==
    \A e, f \in elected : e.term = f.term => e.leader = f.leader

\* A lost registry is replaced: an election that has started ends with a leader
\* (unless it runs into the bound on terms).
ElectionConcludes ==
    (\E n \in Node : status[n] = "Candidate")
        ~> (\E n \in Node : status[n] = "Leader" \/ term[n] = MaxTerm)
=============================================================================
