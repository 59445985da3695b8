------------------------------- MODULE Session -------------------------------
(***************************************************************************)
(* SessionManager (src/src/vpn/session.rs): the sessions of a node with its  *)
(* peers.  get_or_create hands out copies, whose counters and state their    *)
(* holders advance on their own; the manager's own session is changed only   *)
(* through update_state, set_keys and touch.  Messages that a holder sends   *)
(* carry its counter; a holder on the other side checks the counters it      *)
(* receives with verify_recv_counter.                                        *)
(***************************************************************************)
EXTENDS Integers, FiniteSets

CONSTANTS
    Peer,           \* remote nodes
    Holder,         \* callers that hold copies
    NoSession,
    SessionTimeout, \* timeout
    MaxAge,         \* bound on the age of a session
    MaxCounter,     \* largest counter, 2^64 - 1 in the code
    MaxSerial       \* bound on the sessions ever made

ASSUME SeAssumption ==
    /\ {SessionTimeout, MaxAge, MaxCounter, MaxSerial} \subseteq Nat /\ SessionTimeout < MaxAge

VARIABLES
    sessions,       \* sessions by peer
    copies,         \* copies[h]: the copy a holder works with
    serial,         \* history: sessions made so far
    seen,           \* history: counters accepted with each copy since it was taken
    replayed,       \* history: a copy accepted a counter twice before any counter wrapped
    wrapped         \* history: a counter went over its largest value

seVars == <<sessions, copies, serial, seen, replayed, wrapped>>

SessionState == {"Init", "Handshake", "Established", "Closing", "Closed"}
SessionRec == [state : SessionState, keys : BOOLEAN, age : 0..MaxAge, send : 0..MaxCounter,
               recv : 0..MaxCounter, nr : 1..MaxSerial]
NewSession(n) == [state |-> "Init", keys |-> FALSE, age |-> 0, send |-> 0, recv |-> 0, nr |-> n]
IsExpired(s) == s.age > SessionTimeout

SeInit ==
    /\ sessions = [p \in Peer |-> NoSession]
    /\ copies = [h \in Holder |-> NoSession]
    /\ serial = 0
    /\ seen = [h \in Holder |-> {}]
    /\ replayed = FALSE /\ wrapped = FALSE

\* An unexpired session is copied, whatever its state; else a new one is made.
GetOrCreate(h, p) ==
    /\ IF sessions[p] # NoSession /\ ~IsExpired(sessions[p])
       THEN copies' = [copies EXCEPT ![h] = sessions[p]] /\ UNCHANGED <<sessions, serial>>
       ELSE /\ serial < MaxSerial /\ serial' = serial + 1
            /\ sessions' = [sessions EXCEPT ![p] = NewSession(serial')]
            /\ copies' = [copies EXCEPT ![h] = NewSession(serial')]
    /\ seen' = [seen EXCEPT ![h] = {}]
    /\ UNCHANGED <<replayed, wrapped>>

Allowed(from) ==
    CASE from = "Init" -> {"Handshake", "Closed"}
      [] from = "Handshake" -> {"Established", "Closed"}
      [] from = "Established" -> {"Closing"}
      [] from = "Closing" -> {"Closed"}
      [] from = "Closed" -> {}

TransitionMutant(s, to) == [s EXCEPT !.state = to, !.age = 0]

\* transition; an error changes nothing.
Transition(s, to) == IF to \in Allowed(s.state) THEN [s EXCEPT !.state = to, !.age = 0] ELSE s

UpdateState(p, to) ==
    /\ sessions[p] # NoSession
    /\ sessions' = [sessions EXCEPT ![p] = Transition(@, to)]
    /\ UNCHANGED <<copies, serial, seen, replayed, wrapped>>

SetKeys(p) ==
    /\ sessions[p] # NoSession
    /\ sessions' = [sessions EXCEPT ![p].keys = TRUE, ![p].age = 0]
    /\ UNCHANGED <<copies, serial, seen, replayed, wrapped>>

Touch(p) ==
    /\ sessions[p] # NoSession
    /\ sessions' = [sessions EXCEPT ![p].age = 0]
    /\ UNCHANGED <<copies, serial, seen, replayed, wrapped>>

\* remove, and secure_remove, which also closes what it removed.
RemoveSession(p) ==
    /\ sessions[p] # NoSession
    /\ sessions' = [sessions EXCEPT ![p] = NoSession]
    /\ UNCHANGED <<copies, serial, seen, replayed, wrapped>>

CleanupExpired ==
    /\ \E p \in Peer : sessions[p] # NoSession /\ IsExpired(sessions[p])
    /\ sessions' = [p \in Peer |-> IF sessions[p] # NoSession /\ IsExpired(sessions[p]) THEN NoSession ELSE sessions[p]]
    /\ UNCHANGED <<copies, serial, seen, replayed, wrapped>>

----------------------------------------------------------------------------
(* What a holder does with its copy. *)

NextSendCounter(h) ==
    /\ copies[h] # NoSession
    /\ copies' = [copies EXCEPT ![h].send = (@ + 1) % (MaxCounter + 1), ![h].age = 0]
    /\ wrapped' = (wrapped \/ copies[h].send = MaxCounter)
    /\ UNCHANGED <<sessions, serial, seen, replayed>>

VerifyRecvCounterMutant(h, n) ==
    /\ copies[h] # NoSession /\ n >= copies[h].recv
    /\ copies' = [copies EXCEPT ![h].recv = n, ![h].age = 0]
    /\ seen' = [seen EXCEPT ![h] = @ \cup {n}]
    /\ replayed' = (replayed \/ (n \in seen[h] /\ ~wrapped))
    /\ wrapped' = (wrapped \/ n = MaxCounter)
    /\ UNCHANGED <<sessions, serial>>

\* verify_recv_counter succeeds.  At the largest counter the next one expected is
\* zero again (in a build that checks for overflow the call panics).
VerifyRecvCounter(h, n) ==
    /\ copies[h] # NoSession /\ n >= copies[h].recv
    /\ copies' = [copies EXCEPT ![h].recv = (n + 1) % (MaxCounter + 1), ![h].age = 0]
    /\ seen' = [seen EXCEPT ![h] = @ \cup {n}]
    /\ replayed' = (replayed \/ (n \in seen[h] /\ ~wrapped))
    /\ wrapped' = (wrapped \/ n = MaxCounter)
    /\ UNCHANGED <<sessions, serial>>

TransitionCopy(h, to) ==
    /\ copies[h] # NoSession
    /\ copies' = [copies EXCEPT ![h] = Transition(@, to)]
    /\ UNCHANGED <<sessions, serial, seen, replayed, wrapped>>

\* secure_close of a copy: its keys are overwritten, the manager's are not.
SecureClose(h) ==
    /\ copies[h] # NoSession
    /\ copies' = [copies EXCEPT ![h].state = "Closed", ![h].keys = FALSE]
    /\ UNCHANGED <<sessions, serial, seen, replayed, wrapped>>

Older(s) == IF s = NoSession \/ s.age = MaxAge THEN s ELSE [s EXCEPT !.age = @ + 1]

Age ==
    /\ sessions' = [p \in Peer |-> Older(sessions[p])]
    /\ copies' = [h \in Holder |-> Older(copies[h])]
    /\ UNCHANGED <<serial, seen, replayed, wrapped>>

SeNext ==
    \/ \E h \in Holder, p \in Peer : GetOrCreate(h, p)
    \/ \E p \in Peer : SetKeys(p) \/ Touch(p) \/ RemoveSession(p) \/ \E to \in SessionState : UpdateState(p, to)
    \/ CleanupExpired
    \/ \E h \in Holder : \/ NextSendCounter(h) \/ SecureClose(h)
                         \/ \E n \in 0..MaxCounter : VerifyRecvCounter(h, n)
                         \/ \E to \in SessionState : TransitionCopy(h, to)
    \/ Age

SeSpec == SeInit /\ [][SeNext]_seVars

----------------------------------------------------------------------------
(* Properties. *)

\* The variables have their types.
SeTypeOK ==
    /\ \A p \in Peer : sessions[p] = NoSession \/ sessions[p] \in SessionRec
    /\ \A h \in Holder : copies[h] = NoSession \/ copies[h] \in SessionRec
    /\ serial \in 0..MaxSerial /\ {replayed, wrapped} \subseteq BOOLEAN

\* A session that was closed is not opened again, by its manager or by a holder
\* of a copy: a later open session with the peer is another one.
ClosedStaysClosed ==
    [][/\ \A p \in Peer : sessions[p] # NoSession /\ sessions[p].state = "Closed" /\ sessions'[p] # NoSession =>
             sessions'[p].state = "Closed" \/ sessions'[p].nr # sessions[p].nr
       /\ \A h \in Holder : copies[h] # NoSession /\ copies[h].state = "Closed" /\ copies'[h].state # "Closed" =>
             \E p \in Peer : copies'[h] = sessions'[p]]_seVars

\* One copy accepts no counter twice, in whatever order counters arrive, until
\* the largest one was used.  (A copy taken later starts with the counters of the
\* manager's session, which nothing advances.)
NoReplay == ~replayed
=============================================================================
