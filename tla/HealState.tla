----------------------------- MODULE HealState -----------------------------
(***************************************************************************)
(* The state file of SelfHealManager (src/src/vpn/selfheal.rs): the healing *)
(* loop saves the states of the nodes now and then, save_state saves them    *)
(* on request, and try_restore_state brings them back after a restart.       *)
(*                                                                         *)
(* stop does not wait for the loop, so that a new loop, or save_state, may   *)
(* run beside the old one.  fs::write truncates the file and then fills it.  *)
(* load_state calls the event callbacks with the states locked.              *)
(***************************************************************************)
CONSTANTS
    HealNode,       \* nodes whose state is kept
    HealLoop,       \* healing loops
    App,            \* the thread of the application
    Missing,        \* no file
    Emptied,        \* a file that was truncated
    Partial         \* a file that holds part of a text, or of two

ASSUME AppAssumption == App \notin HealLoop

VARIABLES
    states,         \* the states in memory
    stateFile,      \* the file at persist_path
    running,        \* is the manager to run?
    saver,          \* what each thread is doing, and what it is going to write
    loading,        \* is load_state calling the callbacks?
    asks,           \* does a callback ask the manager for its states?
    lastSaved,      \* history: what the last save to end had to write, while undisturbed
    undisturbed     \* history: no save failed, met another or was cut off by a crash

hsfVars == <<states, stateFile, running, saver, loading, asks, lastSaved, undisturbed>>

Savers == HealLoop \cup {App}
NodeState == {"untracked", "online", "offline"}
NoStates == [n \in HealNode |-> "untracked"]
PersistedHealState == [HealNode -> NodeState]
Off == [step |-> "off", snap |-> NoStates]
Resting == [step |-> "idle", snap |-> NoStates]
FreshSavers == [t \in Savers |-> IF t = App THEN Resting ELSE Off]

HsfInit ==
    /\ states = NoStates /\ stateFile = Missing
    /\ running = FALSE /\ saver = FreshSavers /\ loading = FALSE
    /\ asks \in BOOLEAN
    /\ lastSaved = Missing /\ undisturbed = TRUE

SaverStep(t, s) == saver' = [saver EXCEPT ![t].step = s]
Rest(t) == saver' = [saver EXCEPT ![t] = Resting]
Saving(t) == saver[t].step \in {"open", "write"}

\* A callback, a message or the application changes the state of a node.
ChangeState(n) ==
    /\ ~loading
    /\ \E s \in NodeState \ {states[n]} : states' = [states EXCEPT ![n] = s]
    /\ UNCHANGED <<stateFile, running, saver, loading, asks, lastSaved, undisturbed>>

StartLoop(l) ==
    /\ ~running /\ saver[l] = Off
    /\ running' = TRUE /\ Rest(l)
    /\ UNCHANGED <<states, stateFile, loading, asks, lastSaved, undisturbed>>

StopLoops ==
    /\ running /\ running' = FALSE
    /\ UNCHANGED <<states, stateFile, saver, loading, asks, lastSaved, undisturbed>>

EndLoop(l) ==
    /\ saver[l].step = "idle" /\ ~running
    /\ saver' = [saver EXCEPT ![l] = Off]
    /\ UNCHANGED <<states, stateFile, running, loading, asks, lastSaved, undisturbed>>

\* PERSIST_INTERVAL_SECS are over.
PersistDue(l) ==
    /\ saver[l].step = "idle" /\ running
    /\ SaverStep(l, "due")
    /\ UNCHANGED <<states, stateFile, running, loading, asks, lastSaved, undisturbed>>

\* The states are copied under their lock.
TakeStates(t) ==
    /\ saver[t].step = IF t = App THEN "idle" ELSE "due"
    /\ ~loading
    /\ saver' = [saver EXCEPT ![t] = [step |-> "open", snap |-> states]]
    /\ undisturbed' = (undisturbed /\ \A u \in Savers : ~Saving(u))
    /\ lastSaved' = (IF undisturbed' THEN lastSaved ELSE Missing)
    /\ UNCHANGED <<states, stateFile, running, loading, asks>>

OpenStateFile(t) ==
    /\ saver[t].step = "open"
    /\ stateFile' = Emptied /\ SaverStep(t, "write")
    /\ UNCHANGED <<states, running, loading, asks, lastSaved, undisturbed>>

\* Over the text of another thread, the end of that may be left.
WriteStateFile(t) ==
    /\ saver[t].step = "write"
    /\ stateFile' \in {saver[t].snap} \cup (IF stateFile \in {Emptied, saver[t].snap} THEN {} ELSE {Partial})
    /\ lastSaved' = (IF undisturbed THEN saver[t].snap ELSE Missing) /\ Rest(t)
    /\ UNCHANGED <<states, running, loading, asks, undisturbed>>

\* The loop ignores the error, save_state returns it.
SaveStateFails(t) ==
    /\ Saving(t)
    /\ stateFile' \in {stateFile} \cup (IF saver[t].step = "write" THEN {Partial} ELSE {})
    /\ undisturbed' = FALSE /\ lastSaved' = Missing /\ Rest(t)
    /\ UNCHANGED <<states, running, loading, asks>>

RestoreMutant ==
    /\ saver[App].step = "idle" /\ ~loading
    /\ stateFile \in PersistedHealState
    /\ states' = [n \in HealNode |-> IF stateFile[n] = "untracked" THEN states[n] ELSE stateFile[n]]
    /\ loading' = TRUE /\ stateFile' = Missing
    /\ UNCHANGED <<running, saver, asks, lastSaved, undisturbed>>

\* try_restore_state and load_state.  A file that is missing or cannot be parsed
\* changes nothing.  The entries of the file replace those in memory.
Restore ==
    /\ saver[App].step = "idle" /\ ~loading
    /\ stateFile \in PersistedHealState
    /\ states' = [n \in HealNode |-> IF stateFile[n] = "untracked" THEN states[n] ELSE stateFile[n]]
    /\ loading' = TRUE
    /\ UNCHANGED <<stateFile, running, saver, asks, lastSaved, undisturbed>>

EmitEventMutant ==
    /\ loading /\ asks /\ loading' = FALSE
    /\ UNCHANGED <<states, stateFile, running, saver, asks, lastSaved, undisturbed>>

\* emit_event in load_state: a callback that asks for the states never returns.
EmitEvent ==
    /\ loading /\ ~asks /\ loading' = FALSE
    /\ UNCHANGED <<states, stateFile, running, saver, asks, lastSaved, undisturbed>>

ProcessDies ==
    /\ states' = NoStates /\ running' = FALSE /\ saver' = FreshSavers /\ loading' = FALSE
    /\ \/ stateFile' = stateFile
       \/ (\E t \in Savers : saver[t].step = "write") /\ stateFile' = Partial
    /\ undisturbed' = (undisturbed /\ \A t \in Savers : saver[t].step # "write")
    /\ lastSaved' = (IF undisturbed' THEN lastSaved ELSE Missing)
    /\ UNCHANGED asks

LoopGoesOn(l) == EndLoop(l) \/ TakeStates(l) \/ OpenStateFile(l) \/ WriteStateFile(l) \/ SaveStateFails(l)

HsfNext ==
    \/ \E n \in HealNode : ChangeState(n)
    \/ \E l \in HealLoop : StartLoop(l) \/ PersistDue(l) \/ LoopGoesOn(l)
    \/ TakeStates(App) \/ OpenStateFile(App) \/ WriteStateFile(App) \/ SaveStateFails(App)
    \/ StopLoops \/ Restore \/ EmitEvent \/ ProcessDies

HsfSpec == HsfInit /\ [][HsfNext]_hsfVars

\* The states are locked for moments only: a loop that waits for them gets them,
\* whoever else takes them again and again.
HsfFairness == (\A l \in HealLoop : SF_hsfVars(LoopGoesOn(l))) /\ WF_hsfVars(EmitEvent)

----------------------------------------------------------------------------
(* Properties. *)

\* The variables have their types.
HsfTypeOK ==
    /\ states \in PersistedHealState
    /\ stateFile \in PersistedHealState \cup {Missing, Emptied, Partial}
    /\ lastSaved \in PersistedHealState \cup {Missing}
    /\ saver \in [Savers -> [step : {"off", "idle", "due", "open", "write"}, snap : PersistedHealState]]
    /\ {running, loading, asks, undisturbed} \subseteq BOOLEAN

\* As long as saves neither fail, overlap nor are cut off by a crash, the file
\* holds what was saved last, through restarts and restores: nothing the
\* manager had saved is forgotten.
StateKept == undisturbed /\ (\A t \in Savers : saver[t].step # "write") => stateFile = lastSaved

\* After a stop that no start follows, every healing loop comes to its end, also
\* when one was started before the last had noticed the stop - provided that no
\* callback asks for the states while load_state holds their lock.
LoopsEnd == ~asks /\ <>[]~running => <>[](\A l \in HealLoop : saver[l] = Off)
=============================================================================
