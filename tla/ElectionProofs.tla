--------------------------- MODULE ElectionProofs ---------------------------
(***************************************************************************)
(* Proofs about Election for any set of nodes, any lists of known nodes,   *)
(* any hash and any pattern of calls.                                      *)
(***************************************************************************)
EXTENDS Election, FiniteSetTheorems, TLAPS

\* Requested(c, t): candidate c asked for votes in term t.
Requested(c, t) == \E r \in requests : r.candidate = c /\ r.term = t

\* Nobody asks for votes in, or votes in, a term it has not reached, and votes
\* only answer requests.
RequestsPast == \A r \in requests : r.term <= term[r.candidate]
GrantsPast == \A g \in grants : g.term <= term[g.voter]
GrantsAnswer == \A g \in grants : Requested(g.candidate, g.term)

\* The votes of a candidate that asked for votes in its present term are votes
\* of that term.  (A sync response can raise the term of a candidate that keeps
\* its old votes; it has then not asked for votes in the new term.)
VotesBacked ==
    \A n \in Node : status[n] = "Candidate" /\ Requested(n, term[n]) =>
        \A v \in votes[n] : Backs(v, n, term[n])

\* voted_for remembers whom a node backs in its present term, until a leader of
\* that term is elected.
VotedForKept ==
    \A v, c \in Node : ~Decided(term[v]) /\ Backs(v, c, term[v]) => votedFor[v] = c

\* Only leaders announce themselves.
ResultsDecided == \A r \in results \cup changes : Decided(r.term)

VoteInv ==
    /\ TypeOK
    /\ RequestsPast
    /\ GrantsPast
    /\ GrantsAnswer
    /\ VotesBacked
    /\ VotedForKept
    /\ ResultsDecided
    /\ SingleVoteUntilDecided
    /\ ElectedByMajority

USE DEF Term, Status, Request, Grant, Result, SyncRequest, SyncReply, Elected

----------------------------------------------------------------------------
\* Cardinalities of sets of nodes are natural numbers.
LEMMA NodeSets ==
    ASSUME NEW S \in SUBSET Node
    PROVE  Cardinality(S) \in Nat
BY NodeAssumption, FS_Subset, FS_CardinalityType

\* The initial states have their types.
LEMMA InitType == Init => TypeOK
BY NodeAssumption, PeersAssumption, BoundAssumption DEF Init, TypeOK

\* Each step of Application keeps the types.
LEMMA ApplicationType ==
    ASSUME TypeOK, NEW n \in Node, Application(n)
    PROVE  TypeOK'
<1> USE NodeAssumption, BoundAssumption DEF TypeOK, local, view, network
<1>1. ASSUME NEW m \in Node, AddKnownNode(n, m) \/ RemoveKnownNode(n, m) PROVE TypeOK'
  BY <1>1 DEF AddKnownNode, RemoveKnownNode
<1>2. ASSUME NEW r \in Node, SetRegistry(n, r) PROVE TypeOK'
  BY <1>2 DEF SetRegistry
<1>3. ASSUME NEW m \in Node, RequestSync(n, m) PROVE TypeOK'
  BY <1>3 DEF RequestSync
<1>4. CASE RecordMissedHeartbeat(n)
  BY <1>4 DEF RecordMissedHeartbeat
<1>5. CASE ResetHeartbeatMonitor(n)
  BY <1>5 DEF ResetHeartbeatMonitor
<1>6. CASE StartElection(n)
  BY <1>6 DEF StartElection
<1> QED
  BY <1>1, <1>2, <1>3, <1>4, <1>5, <1>6 DEF Application

\* Each message handled keeps the types.
LEMMA HandleMessageType ==
    ASSUME TypeOK, NEW n \in Node, HandleMessage(n)
    PROVE  TypeOK'
<1> USE NodeAssumption, BoundAssumption DEF TypeOK, local, view, network
<1>1. ASSUME NEW r \in requests, HandleElectionRequest(n, r) PROVE TypeOK'
  BY <1>1 DEF HandleElectionRequest, StepDown
<1>2. ASSUME NEW v \in grants, HandleElectionVote(n, v) PROVE TypeOK'
  <2>1. votes[n] \cup {v.voter} \in SUBSET Node
    OBVIOUS
  <2>2. Cardinality(known[n]) + 1 \in Nat
    BY NodeSets
  <2> DEFINE voters == votes[n] \cup {v.voter}
             total == Cardinality(known[n]) + 1
  <2>3. CASE IsMajority(voters, total)
    <3>1. BecomeLeader(n, voters, total)
      BY <1>2, <2>3 DEF HandleElectionVote
    <3>2. /\ status' \in [Node -> Status]
          /\ registry' \in [Node -> Node \cup {None}]
          /\ registryAddr' \in [Node -> Node \cup {None}]
          /\ serving' \in [Node -> BOOLEAN]
      BY <3>1 DEF BecomeLeader, GetLocalAddr
    <3>3. results' \subseteq Result /\ changes' \subseteq Result
      BY <3>1 DEF BecomeLeader
    <3>4. elected' \subseteq Elected
      BY <3>1, <2>1, <2>2 DEF BecomeLeader
    <3> QED
      BY <1>2, <2>1, <3>2, <3>3, <3>4 DEF HandleElectionVote
  <2>4. CASE ~IsMajority(voters, total)
    BY <1>2, <2>1, <2>4 DEF HandleElectionVote
  <2> QED
    BY <2>3, <2>4
<1>3. ASSUME NEW r \in results, HandleElectionResult(n, r) PROVE TypeOK'
  BY <1>3 DEF HandleElectionResult, BecomeFollower, StepDown
<1>4. ASSUME NEW c \in changes, HandleRegistryChange(n, c) PROVE TypeOK'
  BY <1>4 DEF HandleRegistryChange, BecomeFollower, StepDown
<1>5. ASSUME NEW s \in syncRequests, HandleRegistrySync(n, s) PROVE TypeOK'
  <2>1. CASE s.term > term[n] /\ BecomeFollower(n, s.term, s.requester)
    BY <1>5, <2>1 DEF HandleRegistrySync, BecomeFollower, StepDown
  <2>2. CASE s.term <= term[n]
    BY <1>5, <2>2 DEF HandleRegistrySync
  <2> QED
    BY <1>5, <2>1, <2>2 DEF HandleRegistrySync
<1>6. ASSUME NEW r \in syncReplies, HandleSyncResponse(n, r) PROVE TypeOK'
  BY <1>6 DEF HandleSyncResponse
<1> QED
  BY <1>1, <1>2, <1>3, <1>4, <1>5, <1>6 DEF HandleMessage

\* Every step keeps the types.
LEMMA NextType == TypeOK /\ [Next]_vars => TypeOK'
<1>1. TypeOK /\ UNCHANGED vars => TypeOK'
  BY DEF TypeOK, vars, local, view, network
<1> QED
  BY <1>1, ApplicationType, HandleMessageType DEF Next

\* Types of the election's state: whatever messages are lost, repeated or
\* reordered, every handler leaves a well-formed ElectionManager.
THEOREM Typing == Spec => []TypeOK
BY InitType, NextType, PTL DEF Spec

----------------------------------------------------------------------------
(* Facts about backing a candidate. *)

\* Backing is never taken back: requests and votes stay sent.
LEMMA BacksMonotone ==
    ASSUME requests \subseteq requests', grants \subseteq grants',
           NEW v, NEW c, NEW t, Backs(v, c, t)
    PROVE  Backs(v, c, t)'
BY DEF Backs

\* Nobody backs a candidate in a term it has not reached.
LEMMA BacksPast ==
    ASSUME TypeOK, RequestsPast, GrantsPast, NEW v \in Node, NEW c \in Node, NEW t \in Term,
           Backs(v, c, t)
    PROVE  t <= term[v]
BY DEF Backs, TypeOK, RequestsPast, GrantsPast

\* The leaders elected keep their majority as long as no other is elected.
LEMMA MajorityKept ==
    ASSUME ElectedByMajority, requests \subseteq requests', grants \subseteq grants',
           elected' = elected
    PROVE  ElectedByMajority'
BY BacksMonotone DEF ElectedByMajority

\* The variables VoteInv is about.
voteVars == <<status, term, votedFor, votes, requests, grants, results, changes, elected>>

\* A step that changes neither ballots nor terms keeps the invariant.
LEMMA Unaffected ==
    ASSUME VoteInv, TypeOK', UNCHANGED voteVars
    PROVE  VoteInv'
BY DEF VoteInv, voteVars, RequestsPast, GrantsPast, GrantsAnswer, VotesBacked, VotedForKept,
       ResultsDecided, SingleVoteUntilDecided, ElectedByMajority, Requested, Backs, Decided

\* become_follower, on news of a newer term or of a leader of the term t.
LEMMA FollowerStep ==
    ASSUME VoteInv, TypeOK', NEW n \in Node, NEW t \in Term, t >= term[n],
           t > term[n] \/ Decided(t),
           StepDown(n, t), votedFor' = [votedFor EXCEPT ![n] = None],
           UNCHANGED <<requests, grants, results, changes, elected>>
    PROVE  VoteInv'
<1> USE BoundAssumption DEF VoteInv, TypeOK
<1>1. /\ status' = [status EXCEPT ![n] = "Follower"]
      /\ term' = [term EXCEPT ![n] = t]
      /\ votes' = [votes EXCEPT ![n] = {}]
  <2>1. term[n] \in Nat /\ t \in Nat
    OBVIOUS
  <2> HIDE DEF VoteInv, TypeOK
  <2>2. t > term[n] \/ t = term[n]
    BY <2>1
  <2> QED
    BY <2>2 DEF StepDown
<1>2. RequestsPast' /\ GrantsPast' /\ GrantsAnswer' /\ ResultsDecided'
  BY <1>1 DEF RequestsPast, GrantsPast, GrantsAnswer, ResultsDecided, Requested, Decided
<1>3. VotesBacked'
  BY <1>1 DEF VotesBacked, Requested, Backs
<1>4. VotedForKept'
  <2> SUFFICES ASSUME NEW v \in Node, NEW c \in Node, ~Decided(term[v])',
                      Backs(v, c, term[v])'
               PROVE  votedFor'[v] = c
    BY DEF VotedForKept
  <2>1. ~Decided(term'[v]) /\ Backs(v, c, term'[v])
    BY DEF Decided, Backs
  <2>2. CASE v = n
    BY <1>1, <2>1, <2>2, BacksPast
  <2>3. CASE v # n
    BY <1>1, <2>1, <2>3 DEF VotedForKept
  <2> QED
    BY <2>2, <2>3
<1>5. SingleVoteUntilDecided'
  BY ZenonT(40) DEF SingleVoteUntilDecided, Decided, Backs
<1>6. ElectedByMajority'
  BY MajorityKept
<1> QED
  BY <1>2, <1>3, <1>4, <1>5, <1>6

\* Starting an election keeps it.
LEMMA StartElectionStep ==
    ASSUME VoteInv, TypeOK', NEW n \in Node, StartElection(n)
    PROVE  VoteInv'
<1> USE BoundAssumption DEF VoteInv, TypeOK
<1>1. /\ status' = [status EXCEPT ![n] = "Candidate"]
      /\ term' = [term EXCEPT ![n] = term[n] + 1]
      /\ votedFor' = [votedFor EXCEPT ![n] = n]
      /\ votes' = [votes EXCEPT ![n] = {n}]
      /\ requests' = requests \cup {[candidate |-> n, term |-> term[n] + 1, to |-> known[n]]}
      /\ UNCHANGED <<grants, results, changes, elected>>
  BY DEF StartElection
<1>2. RequestsPast' /\ GrantsPast' /\ GrantsAnswer' /\ ResultsDecided'
  BY <1>1 DEF RequestsPast, GrantsPast, GrantsAnswer, ResultsDecided, Requested, Decided
<1>3. ASSUME NEW v \in Node, NEW c \in Node, NEW t \in Term, Backs(v, c, t)'
      PROVE  Backs(v, c, t) \/ (v = n /\ c = n /\ t = term[n] + 1)
  BY <1>1, <1>3 DEF Backs
<1>4. VotesBacked'
  <2> SUFFICES ASSUME NEW m \in Node, status'[m] = "Candidate", Requested(m, term[m])',
                      NEW v \in votes'[m]
               PROVE  Backs(v, m, term[m])'
    BY DEF VotesBacked
  <2>1. CASE m = n
    BY <1>1, <2>1 DEF Backs, Requested
  <2>2. CASE m # n
    <3>1. Requested(m, term[m])
      BY <1>1, <2>2 DEF Requested
    <3>2. Backs(v, m, term[m])
      BY <1>1, <2>2, <3>1 DEF VotesBacked
    <3> QED
      BY <1>1, <2>2, <3>2 DEF Backs
  <2> QED
    BY <2>1, <2>2
<1>5. VotedForKept'
  <2> SUFFICES ASSUME NEW v \in Node, NEW c \in Node, ~Decided(term[v])',
                      Backs(v, c, term[v])'
               PROVE  votedFor'[v] = c
    BY DEF VotedForKept
  <2>1. ~Decided(term'[v])
    BY <1>1 DEF Decided
  <2>2. Backs(v, c, term'[v]) \/ (v = n /\ c = n)
    BY <1>1 DEF Backs
  <2>3. CASE v = n
    BY <1>1, <2>2, <2>3, BacksPast
  <2>4. CASE v # n
    BY <1>1, <2>1, <2>2, <2>4 DEF VotedForKept
  <2> QED
    BY <2>3, <2>4
<1>6. SingleVoteUntilDecided'
  <2> SUFFICES ASSUME NEW v \in Node, NEW c \in Node, NEW d \in Node, NEW t \in Term,
                      ~Decided(t)', Backs(v, c, t)', Backs(v, d, t)'
               PROVE  c = d
    BY DEF SingleVoteUntilDecided
  <2>1. ~Decided(t)
    BY <1>1 DEF Decided
  <2>2. ~(Backs(v, c, t) /\ t = term[n] + 1 /\ v = n) /\ ~(Backs(v, d, t) /\ t = term[n] + 1 /\ v = n)
    BY BacksPast
  <2> QED
    BY <1>3, <2>1, <2>2 DEF SingleVoteUntilDecided
<1>7. ElectedByMajority'
  BY <1>1, MajorityKept
<1> QED
  BY <1>2, <1>4, <1>5, <1>6, <1>7

\* So does an election request,
LEMMA HandleElectionRequestStep ==
    ASSUME VoteInv, TypeOK', NEW n \in Node, NEW r \in requests, HandleElectionRequest(n, r)
    PROVE  VoteInv'
<1> USE BoundAssumption DEF VoteInv, TypeOK
<1> DEFINE newer == r.term > term[n]
           votedNow == IF newer THEN None ELSE votedFor[n]
           granted == ShouldVoteFor(n, r.candidate, r.term, votedNow)
           grant == [voter |-> n, candidate |-> r.candidate, term |-> r.term]
<1>0. r.candidate \in Node /\ r.term \in Term
  OBVIOUS
<1>1. /\ UNCHANGED <<requests, results, changes, elected>>
      /\ votedFor' = [votedFor EXCEPT ![n] = IF granted THEN r.candidate ELSE votedNow]
      /\ grants' = IF granted THEN grants \cup {grant} ELSE grants
  BY DEF HandleElectionRequest
<1>2. term' = [term EXCEPT ![n] = r.term]
  BY <1>0 DEF HandleElectionRequest, StepDown
<1>3. /\ newer => status'[n] = "Follower"
      /\ ~newer => status' = status /\ votes' = votes
      /\ \A m \in Node \ {n} : status'[m] = status[m] /\ votes'[m] = votes[m]
  BY DEF HandleElectionRequest, StepDown
<1>4. r.term >= term[n]
  BY DEF HandleElectionRequest
<1>5. RequestsPast' /\ GrantsPast' /\ ResultsDecided'
  BY <1>0, <1>1, <1>2, <1>4 DEF RequestsPast, GrantsPast, ResultsDecided, Decided
<1>6. GrantsAnswer'
  BY <1>1 DEF GrantsAnswer, Requested
<1>7. VotesBacked'
  <2> SUFFICES ASSUME NEW m \in Node, status'[m] = "Candidate", Requested(m, term[m])',
                      NEW v \in votes'[m]
               PROVE  Backs(v, m, term[m])'
    BY DEF VotesBacked
  <2>0. ~newer \/ m # n
    BY <1>3
  <2>1. status[m] = "Candidate" /\ votes'[m] = votes[m] /\ term'[m] = term[m]
    BY <1>0, <1>2, <1>3, <1>4, <2>0
  <2>2. Backs(v, m, term[m])
    BY <1>1, <2>1 DEF VotesBacked, Requested
  <2> QED
    BY <1>1, <2>1, <2>2 DEF Backs
<1>8. ASSUME NEW v \in Node, NEW c \in Node, NEW t \in Term, Backs(v, c, t)'
      PROVE  Backs(v, c, t) \/ (v = n /\ c = r.candidate /\ t = r.term /\ granted)
  BY <1>1, <1>8 DEF Backs
<1>9. ASSUME NEW c \in Node, ~Decided(r.term), Backs(n, c, r.term)
      PROVE  ~newer /\ votedFor[n] = c /\ ~granted
  <2>1. ~newer
    BY <1>0, <1>9, BacksPast
  <2>2. r.term = term[n]
    BY <1>0, <1>4, <2>1, SMTT(40)
  <2>3. votedFor[n] = c
    BY <1>9, <2>2 DEF VotedForKept
  <2> QED
    BY <2>1, <2>3, NodeAssumption DEF ShouldVoteFor
<1>10. ASSUME NEW c \in Node, ~Decided(r.term), Backs(n, c, r.term)'
       PROVE  votedFor'[n] = c
  <2>1. CASE Backs(n, c, r.term)
    BY <1>1, <1>9, <1>10, <2>1
  <2>2. CASE c = r.candidate /\ granted
    BY <1>1, <2>2
  <2> QED
    BY <1>0, <1>8, <1>10, <2>1, <2>2
<1>11. VotedForKept'
  <2> SUFFICES ASSUME NEW v \in Node, NEW c \in Node, ~Decided(term[v])',
                      Backs(v, c, term[v])'
               PROVE  votedFor'[v] = c
    BY DEF VotedForKept
  <2>1. CASE v = n
    BY <1>0, <1>1, <1>2, <1>10, <2>1 DEF Decided, Backs
  <2>2. CASE v # n
    <3>1. ~Decided(term[v]) /\ Backs(v, c, term[v])
      BY <1>1, <1>2, <2>2 DEF Decided, Backs
    <3> QED
      BY <1>1, <2>2, <3>1 DEF VotedForKept
  <2> QED
    BY <2>1, <2>2
<1>12. SingleVoteUntilDecided'
  <2> SUFFICES ASSUME NEW v \in Node, NEW c \in Node, NEW d \in Node, NEW t \in Term,
                      ~Decided(t)', Backs(v, c, t)', Backs(v, d, t)'
               PROVE  c = d
    BY DEF SingleVoteUntilDecided
  <2>1. ~Decided(t)
    BY <1>1 DEF Decided
  <2>2. CASE v = n /\ t = r.term
    BY <1>10, <2>1, <2>2
  <2>3. CASE ~(v = n /\ t = r.term)
    BY <1>8, <2>1, <2>3 DEF SingleVoteUntilDecided
  <2> QED
    BY <2>2, <2>3
<1>13. ElectedByMajority'
  BY <1>1, MajorityKept
<1> QED
  BY <1>5, <1>6, <1>7, <1>11, <1>12, <1>13

\* a vote,
LEMMA HandleElectionVoteStep ==
    ASSUME VoteInv, TypeOK', NEW n \in Node, NEW v \in grants, HandleElectionVote(n, v)
    PROVE  VoteInv'
<1> USE BoundAssumption DEF VoteInv, TypeOK
<1> DEFINE voters == votes[n] \cup {v.voter}
           total == Cardinality(known[n]) + 1
<1>1. /\ CountsVote(n, v)
      /\ votes' = [votes EXCEPT ![n] = voters]
      /\ UNCHANGED <<term, votedFor, requests, grants>>
  BY DEF HandleElectionVote
<1>2. \/ UNCHANGED <<status, results, changes, elected>>
      \/ BecomeLeader(n, voters, total) /\ IsMajority(voters, total)
  BY DEF HandleElectionVote
<1>3. elected \subseteq elected'
  BY <1>2 DEF BecomeLeader
<1>4. RequestsPast' /\ GrantsPast' /\ GrantsAnswer'
  BY <1>1 DEF RequestsPast, GrantsPast, GrantsAnswer, Requested
<1>5. \A u \in voters : Backs(u, n, term[n])
  <2>1. Requested(n, term[n]) /\ status[n] = "Candidate"
    BY <1>1 DEF CountsVote, GrantsAnswer
  <2>2. \A u \in votes[n] : Backs(u, n, term[n])
    BY <2>1 DEF VotesBacked
  <2>3. Backs(v.voter, n, term[n])
    BY <1>1 DEF CountsVote, Backs
  <2> QED
    BY <2>2, <2>3
<1>6. VotesBacked'
  BY <1>1, <1>2, <1>5 DEF VotesBacked, Requested, Backs, BecomeLeader
<1>7. VotedForKept' /\ SingleVoteUntilDecided'
  <2>1. \A t : ~Decided(t)' => ~Decided(t)
    BY <1>3 DEF Decided
  <2>2. \A u, c, t : Backs(u, c, t)' <=> Backs(u, c, t)
    BY <1>1 DEF Backs
  <2>3. VotedForKept'
    BY <1>1, <2>1, <2>2 DEF VotedForKept
  <2>4. SingleVoteUntilDecided'
    BY <2>1, <2>2 DEF SingleVoteUntilDecided
  <2> QED
    BY <2>3, <2>4
<1>8. ResultsDecided'
  <2>1. CASE UNCHANGED <<results, changes>>
    BY <1>3, <2>1 DEF ResultsDecided, Decided
  <2>2. CASE BecomeLeader(n, voters, total)
    <3> DEFINE won == [leader |-> n, term |-> term[n], voters |-> voters, total |-> total]
    <3>0. won \in elected' /\ won.term = term[n] /\ term' = term
      BY <1>1, <2>2 DEF BecomeLeader
    <3>1. Decided(term[n])'
      BY <3>0 DEF Decided
    <3>2. \A r \in (results \cup changes)' : r \in results \cup changes \/ r.term = term[n]
      BY <2>2 DEF BecomeLeader
    <3> QED
      BY <1>1, <1>3, <3>1, <3>2 DEF ResultsDecided, Decided
  <2> QED
    BY <1>2, <2>1, <2>2
<1>9. ElectedByMajority'
  <2>1. CASE elected' = elected
    BY <1>1, <2>1, MajorityKept
  <2>2. CASE BecomeLeader(n, voters, total) /\ IsMajority(voters, total)
    <3>1. voters \in SUBSET Node /\ known[n] \in SUBSET Node
      OBVIOUS
    <3>2. Cardinality(voters) \in Nat /\ Cardinality(known[n]) \in Nat
      BY <3>1, NodeSets
    <3>3. 2 * Cardinality(voters) > total
      BY <2>2, <3>2 DEF IsMajority
    <3>4. \A u \in voters : Backs(u, n, term[n])'
      BY <1>1, <1>5 DEF Backs
    <3>5. \A e \in elected : \A u \in e.voters : Backs(u, e.leader, e.term)'
      BY <1>1, BacksMonotone DEF ElectedByMajority
    <3>6. \A e \in elected' : e \in elected
             \/ e = [leader |-> n, term |-> term[n], voters |-> voters, total |-> total]
      BY <2>2 DEF BecomeLeader
    <3> HIDE DEF voters, total
    <3> QED
      BY <1>1, <3>3, <3>4, <3>5, <3>6 DEF ElectedByMajority
  <2> QED
    BY <1>2, <2>1, <2>2
<1> QED
  BY <1>4, <1>6, <1>7, <1>8, <1>9

\* and a sync response.
LEMMA HandleSyncResponseStep ==
    ASSUME VoteInv, TypeOK', NEW n \in Node, NEW r \in syncReplies, HandleSyncResponse(n, r)
    PROVE  VoteInv'
<1> USE BoundAssumption DEF VoteInv, TypeOK
<1>1. UNCHANGED <<status, votedFor, votes, requests, grants, results, changes, elected>>
  BY DEF HandleSyncResponse, network
<1>2. CASE r.term <= term[n]
  <2>1. term' = term
    BY <1>2 DEF HandleSyncResponse
  <2> QED
    BY <1>1, <2>1, Unaffected DEF voteVars
<1>3. CASE r.term > term[n]
  <2>1. term' = [term EXCEPT ![n] = r.term]
    BY <1>3 DEF HandleSyncResponse
  <2>2. RequestsPast' /\ GrantsPast' /\ GrantsAnswer' /\ ResultsDecided'
    BY <1>1, <1>3, <2>1 DEF RequestsPast, GrantsPast, GrantsAnswer, ResultsDecided, Requested, Decided
  <2>3. VotesBacked'
    BY <1>1, <1>3, <2>1 DEF VotesBacked, Requested, RequestsPast, Backs
  <2>4. VotedForKept'
    <3> SUFFICES ASSUME NEW v \in Node, NEW c \in Node, ~Decided(term[v])',
                        Backs(v, c, term[v])'
                 PROVE  votedFor'[v] = c
      BY DEF VotedForKept
    <3>1. ~Decided(term'[v]) /\ Backs(v, c, term'[v]) /\ term'[v] \in Term
      BY <1>1 DEF Decided, Backs
    <3>2. v # n
      BY <1>3, <2>1, <3>1, BacksPast
    <3> QED
      BY <1>1, <2>1, <3>1, <3>2 DEF VotedForKept
  <2>5. SingleVoteUntilDecided'
    BY <1>1 DEF SingleVoteUntilDecided, Decided, Backs
  <2>6. ElectedByMajority'
    BY <1>1, MajorityKept
  <2> QED
    BY <2>2, <2>3, <2>4, <2>5, <2>6
<1> QED
  BY <1>2, <1>3

\* It holds at first.
LEMMA InitVoteInv == Init => VoteInv
<1> SUFFICES ASSUME Init PROVE VoteInv
  OBVIOUS
<1>1. TypeOK
  BY InitType
<1>2. requests = {} /\ grants = {} /\ results = {} /\ changes = {} /\ elected = {}
  BY DEF Init
<1> QED
  BY <1>1, <1>2 DEF VoteInv, RequestsPast, GrantsPast, GrantsAnswer, VotesBacked, VotedForKept,
        ResultsDecided, SingleVoteUntilDecided, ElectedByMajority, Requested, Backs

\* Every step keeps it.
LEMMA NextVoteInv == VoteInv /\ [Next]_vars => VoteInv'
<1> SUFFICES ASSUME VoteInv, [Next]_vars PROVE VoteInv'
  OBVIOUS
<1>1. TypeOK /\ TypeOK'
  BY NextType DEF VoteInv
<1>2. CASE UNCHANGED vars
  BY <1>1, <1>2, Unaffected DEF vars, local, network, voteVars
<1>3. ASSUME NEW n \in Node, Application(n) PROVE VoteInv'
  <2>1. CASE StartElection(n)
    BY <1>1, <2>1, StartElectionStep
  <2>2. CASE ~StartElection(n)
    <3>1. UNCHANGED voteVars
      BY <1>3, <2>2 DEF Application, AddKnownNode, RemoveKnownNode, SetRegistry, RequestSync,
            RecordMissedHeartbeat, ResetHeartbeatMonitor, voteVars, local, network
    <3> QED
      BY <1>1, <3>1, Unaffected
  <2> QED
    BY <2>1, <2>2
<1>4. ASSUME NEW n \in Node, HandleMessage(n) PROVE VoteInv'
  <2>1. ASSUME NEW r \in requests, HandleElectionRequest(n, r) PROVE VoteInv'
    BY <1>1, <2>1, HandleElectionRequestStep
  <2>2. ASSUME NEW v \in grants, HandleElectionVote(n, v) PROVE VoteInv'
    BY <1>1, <2>2, HandleElectionVoteStep
  <2>3. ASSUME NEW r \in results, HandleElectionResult(n, r) PROVE VoteInv'
    <3>1. Decided(r.term) /\ r.term \in Term
      BY <1>1, <2>3 DEF VoteInv, ResultsDecided, TypeOK
    <3> QED
      BY <1>1, <2>3, <3>1, FollowerStep DEF HandleElectionResult, BecomeFollower, network
  <2>4. ASSUME NEW c \in changes, HandleRegistryChange(n, c) PROVE VoteInv'
    <3>1. Decided(c.term) /\ c.term \in Term
      BY <1>1, <2>4 DEF VoteInv, ResultsDecided, TypeOK
    <3> QED
      BY <1>1, <2>4, <3>1, FollowerStep DEF HandleRegistryChange, BecomeFollower, network
  <2>5. ASSUME NEW s \in syncRequests, HandleRegistrySync(n, s) PROVE VoteInv'
    <3>1. s.term \in Term /\ s.term \in Nat /\ term[n] \in Nat
      BY <1>1, BoundAssumption DEF TypeOK
    <3>2. CASE s.term > term[n] /\ BecomeFollower(n, s.term, s.requester)
      <4>1. s.term >= term[n]
        BY <3>1, <3>2
      <4> QED
        BY <1>1, <2>5, <3>1, <3>2, <4>1, FollowerStep DEF HandleRegistrySync, BecomeFollower
    <3>3. CASE s.term <= term[n]
      <4>1. UNCHANGED voteVars
        BY <2>5, <3>1, <3>3 DEF HandleRegistrySync, voteVars, local
      <4> QED
        BY <1>1, <4>1, Unaffected
    <3> QED
      BY <2>5, <3>2, <3>3 DEF HandleRegistrySync
  <2>6. ASSUME NEW r \in syncReplies, HandleSyncResponse(n, r) PROVE VoteInv'
    BY <1>1, <2>6, HandleSyncResponseStep
  <2> QED
    BY <1>4, <2>1, <2>2, <2>3, <2>4, <2>5, <2>6 DEF HandleMessage
<1> QED
  BY <1>2, <1>3, <1>4 DEF Next

\* The inductive invariant of the election.
THEOREM VoteInvariance == Spec => []VoteInv
BY InitVoteInv, NextVoteInv, PTL DEF Spec

\* Only the votes of the term it campaigned in, and more than half of them,
\* make a node the leader of a term (handle_election_vote, become_leader).
THEOREM MajorityElection == Spec => []ElectedByMajority
<1>1. VoteInv => ElectedByMajority
  BY DEF VoteInv
<1> QED
  BY <1>1, VoteInvariance, PTL

\* Until a term has a leader, nobody backs two candidates in it
\* (should_vote_for and start_election).
THEOREM SingleVote == Spec => []SingleVoteUntilDecided
<1>1. VoteInv => SingleVoteUntilDecided
  BY DEF VoteInv
<1> QED
  BY <1>1, VoteInvariance, PTL

\* No step of any node lowers a term (become_follower, handle_sync_response).
THEOREM TermMonotone == Spec => TermNeverDecreases
<1>1. ASSUME TypeOK, [Next]_vars PROVE [\A n \in Node : term'[n] >= term[n]]_vars
  <2>1. \A m \in Node : term[m] \in Nat
    BY <1>1, BoundAssumption DEF TypeOK
  <2>2. ASSUME UNCHANGED term PROVE \A m \in Node : term'[m] >= term[m]
    BY <2>1, <2>2
  <2>3. ASSUME NEW n \in Node, NEW t \in Nat,
               term' = [term EXCEPT ![n] = IF t > @ THEN t ELSE @]
        PROVE  \A m \in Node : term'[m] >= term[m]
    BY <1>1, <2>1, <2>3 DEF TypeOK
  <2>4. ASSUME NEW n \in Node, Application(n) PROVE \A m \in Node : term'[m] >= term[m]
    <3>1. CASE StartElection(n)
      BY <1>1, <2>1, <3>1 DEF StartElection, TypeOK
    <3>2. CASE ~StartElection(n)
      BY <2>2, <2>4, <3>2 DEF Application, AddKnownNode, RemoveKnownNode, SetRegistry,
            RequestSync, RecordMissedHeartbeat, ResetHeartbeatMonitor, local
    <3> QED
      BY <3>1, <3>2
  <2>5. ASSUME NEW n \in Node, HandleMessage(n) PROVE \A m \in Node : term'[m] >= term[m]
    <3>1. \A r \in requests \cup grants \cup results \cup changes \cup syncRequests \cup syncReplies :
            r.term \in Nat
      BY <1>1, BoundAssumption DEF TypeOK
    <3>2. ASSUME NEW r \in requests, HandleElectionRequest(n, r)
          PROVE  UNCHANGED term \/ StepDown(n, r.term)
      BY <3>2 DEF HandleElectionRequest
    <3>3. ASSUME NEW v \in grants, HandleElectionVote(n, v) PROVE UNCHANGED term
      BY <3>3 DEF HandleElectionVote
    <3>4. ASSUME NEW r \in results, HandleElectionResult(n, r) PROVE StepDown(n, r.term)
      BY <3>4 DEF HandleElectionResult, BecomeFollower
    <3>5. ASSUME NEW c \in changes, HandleRegistryChange(n, c) PROVE StepDown(n, c.term)
      BY <3>5 DEF HandleRegistryChange, BecomeFollower
    <3>6. ASSUME NEW s \in syncRequests, HandleRegistrySync(n, s)
          PROVE  UNCHANGED term \/ StepDown(n, s.term)
      BY <3>6 DEF HandleRegistrySync, BecomeFollower, local
    <3>7. ASSUME NEW r \in syncReplies, HandleSyncResponse(n, r)
          PROVE  term' = [term EXCEPT ![n] = IF r.term > @ THEN r.term ELSE @]
      BY <3>7 DEF HandleSyncResponse
    <3>8. ASSUME NEW t \in Nat, StepDown(n, t) PROVE \A m \in Node : term'[m] >= term[m]
      BY <2>3, <3>8 DEF StepDown
    <3> QED
      BY <2>2, <2>3, <2>5, <3>1, <3>2, <3>3, <3>4, <3>5, <3>6, <3>7, <3>8 DEF HandleMessage
  <2> QED
    BY <1>1, <2>4, <2>5 DEF Next
<1> QED
  BY <1>1, Typing, PTL DEF Spec, TermNeverDecreases
=============================================================================
