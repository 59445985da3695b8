------------------------------ MODULE Download ------------------------------
(***************************************************************************)
(* DownloadManager and its ReorderBuffer (src/src/storage/download.rs).      *)
(* Workers fetch the blocks of one file from several nodes: they choose the  *)
(* least loaded node, assign the block to it, and report the block complete  *)
(* or failed.  tasks and node_load have a lock each, and every call takes    *)
(* them in turn, so one action is what happens under one lock.  A worker     *)
(* that gives up on a node reports a failure; the answer may still come.     *)
(*                                                                         *)
(* A block's data is the number of the task it was requested for.  Byte      *)
(* counts, times and the estimate of the remaining time are left out.        *)
(***************************************************************************)
EXTENDS Integers, Sequences, FiniteSets, FiniteSetsExt

CONSTANTS
    Worker,         \* threads that download
    Node,           \* source nodes
    NoNode,         \* no node
    Blocks,         \* blocks of the file: they are 0..Blocks-1
    MaxFailedBlocks,\* MAX_FAILED_BLOCKS (3 in the code)
    MaxTasks,       \* bound on create_task calls
    MaxTries        \* bound on the assignments made

ASSUME DlAssumption ==
    /\ NoNode \notin Node /\ IsFiniteSet(Worker)
    /\ Blocks \in Nat \ {0} /\ MaxFailedBlocks \in Nat \ {0} /\ MaxTasks \in Nat /\ MaxTries \in Nat

VARIABLES
    task,           \* number of the current task, 0 if there is none
    blocks,         \* buffer.blocks: the data of each block received, 0 if missing
    completed,      \* completed_blocks
    failed,         \* failed_blocks: the blocks that ever failed (the nodes listed are not read)
    assigned,       \* node_assignments
    status,         \* the task's status
    load,           \* node_load
    worker,         \* what each worker is doing
    late,           \* answers that come after their worker gave up
    tasksMade, tries,
    mixedUp       \* history: calls for one block overlapped, or a task was replaced or
                    \* cancelled with blocks assigned

taskVars == <<task, blocks, completed, failed, assigned, status>>
dlVars == <<taskVars, load, worker, late, tasksMade, tries, mixedUp>>

Block == 0..Blocks - 1
\* "full" is Downloading with a progress of 1.0; nothing ever becomes Completed.
Status == {"none", "Pending", "Downloading", "full", "Failed"}
DlStep == {"idle", "load", "record", "fetching", "complete", "completeLoad", "completeTask",
         "fail", "failLoad", "failTask"}
Job(s, b, n, d) == [step |-> s, block |-> b, node |-> n, data |-> d]
Idle == Job("idle", 0, NoNode, 0)

\* InternalTask::new
NewTask ==
    /\ blocks' = [b \in Block |-> 0]
    /\ completed' = {}
    /\ failed' = {}
    /\ assigned' = [b \in Block |-> NoNode]

DlInit ==
    /\ task = 0 /\ status = "none"
    /\ blocks = [b \in Block |-> 0] /\ completed = {}
    /\ failed = {}
    /\ assigned = [b \in Block |-> NoNode]
    /\ load = [n \in Node |-> 0]
    /\ worker = [w \in Worker |-> Idle]
    /\ late = {} /\ tasksMade = 0 /\ tries = 0 /\ mixedUp = FALSE

AnyBusy == \E w \in Worker : worker[w] # Idle

\* ReorderBuffer: push refuses a block that is there, can_assemble asks for all.
Push(b, data) == blocks' = [blocks EXCEPT ![b] = IF @ = 0 THEN data ELSE @]
CanAssemble(held) == \A b \in Block : held[b] # 0

CreateTask ==
    /\ tasksMade < MaxTasks
    /\ tasksMade' = tasksMade + 1
    /\ task' = tasksMade' /\ status' = "Pending"
    /\ NewTask
    /\ mixedUp' = (mixedUp \/ AnyBusy \/ late # {})
    /\ UNCHANGED <<load, worker, late, tries>>

\* cancel forgets the assignments; the load of their nodes is not taken back.
Cancel ==
    /\ task # 0
    /\ task' = 0 /\ status' = "none"
    /\ NewTask
    /\ mixedUp' = (mixedUp \/ AnyBusy \/ late # {})
    /\ UNCHANGED <<load, worker, late, tasksMade, tries>>

----------------------------------------------------------------------------
(* assign_block *)

\* select_source: the first of the least loaded among the nodes the scheduler
\* lists, in any order.
SelectSource(available) == {n \in available : \A m \in available : load[n] <= load[m]}

Overlaps(w, b) == \E v \in Worker \ {w} : worker[v].step # "idle" /\ worker[v].block = b

Assign(w, b) ==
    /\ worker[w] = Idle /\ task # 0
    /\ tries < MaxTries /\ tries' = tries + 1
    /\ b \notin completed
    /\ \E available \in SUBSET Node : \E n \in SelectSource(available) :
          worker' = [worker EXCEPT ![w] = Job("load", b, n, task)]
    /\ mixedUp' = (mixedUp \/ Overlaps(w, b))
    /\ UNCHANGED <<taskVars, load, late, tasksMade>>

AssignLoad(w) ==
    /\ worker[w].step = "load"
    /\ load' = [load EXCEPT ![worker[w].node] = @ + 1]
    /\ worker' = [worker EXCEPT ![w].step = "record"]
    /\ UNCHANGED <<taskVars, late, tasksMade, tries, mixedUp>>

AssignRecord(w) ==
    /\ worker[w].step = "record"
    /\ assigned' = IF task = 0 THEN assigned
                   ELSE [assigned EXCEPT ![worker[w].block] = worker[w].node]
    /\ worker' = [worker EXCEPT ![w].step = "fetching"]
    /\ UNCHANGED <<task, blocks, completed, failed, status, load, late, tasksMade, tries, mixedUp>>

----------------------------------------------------------------------------
(* The node answers, or the worker gives up on it; an answer that comes       *)
(* after that is reported by a worker that is free.                           *)

FetchAnswer(w) ==
    /\ worker[w].step = "fetching"
    /\ worker' = [worker EXCEPT ![w].step = "complete"]
    /\ UNCHANGED <<taskVars, load, late, tasksMade, tries, mixedUp>>

GiveUp(w) ==
    /\ worker[w].step = "fetching"
    /\ worker' = [worker EXCEPT ![w].step = "fail"]
    /\ late' \in {late, late \cup {<<worker[w].block, worker[w].data>>}}
    /\ UNCHANGED <<taskVars, load, tasksMade, tries, mixedUp>>

LateAnswer(w) ==
    /\ worker[w] = Idle
    /\ \E a \in late :
          /\ worker' = [worker EXCEPT ![w] = Job("complete", a[1], NoNode, a[2])]
          /\ late' = late \ {a}
          /\ mixedUp' = (mixedUp \/ Overlaps(w, a[1]))
    /\ UNCHANGED <<taskVars, load, tasksMade, tries>>

----------------------------------------------------------------------------
(* complete_block and fail_block *)

\* The node the block is assigned to, if any, is read first.
FindNode(w, from, to) ==
    /\ worker[w].step = from
    /\ worker' = [worker EXCEPT ![w].step = to, ![w].node = assigned[worker[w].block]]
    /\ UNCHANGED <<taskVars, load, late, tasksMade, tries, mixedUp>>

ReleaseLoadMutant(w, from, to) ==
    /\ worker[w].step = from
    /\ load' = [n \in Node |-> IF n = worker[w].node /\ from = "completeLoad" THEN Max({load[n] - 1, 0}) ELSE load[n]]
    /\ worker' = [worker EXCEPT ![w].step = to]
    /\ UNCHANGED <<taskVars, late, tasksMade, tries, mixedUp>>

ReleaseLoad(w, from, to) ==
    /\ worker[w].step = from
    /\ load' = [n \in Node |-> IF n = worker[w].node THEN Max({load[n] - 1, 0}) ELSE load[n]]
    /\ worker' = [worker EXCEPT ![w].step = to]
    /\ UNCHANGED <<taskVars, late, tasksMade, tries, mixedUp>>

CompleteTaskMutant(w) ==
    LET b == worker[w].block IN
    /\ worker[w].step = "completeTask"
    /\ worker' = [worker EXCEPT ![w] = Idle]
    /\ IF task = 0 THEN UNCHANGED taskVars
       ELSE /\ completed' = completed \cup {b}
            /\ assigned' = [assigned EXCEPT ![b] = NoNode]
            /\ Push(b, worker[w].data)
            /\ status' = IF Cardinality(completed) + 1 >= Blocks THEN "full" ELSE "Downloading"
            /\ UNCHANGED <<task, failed>>
    /\ UNCHANGED <<load, late, tasksMade, tries, mixedUp>>

\* A block that is in the buffer already is refused by push, after it has been
\* marked completed and its assignment removed.  Anything else makes the status
\* Downloading, a Failed one too.
CompleteTask(w) ==
    LET b == worker[w].block IN
    /\ worker[w].step = "completeTask"
    /\ worker' = [worker EXCEPT ![w] = Idle]
    /\ IF task = 0 THEN UNCHANGED taskVars
       ELSE /\ completed' = completed \cup {b}
            /\ assigned' = [assigned EXCEPT ![b] = NoNode]
            /\ Push(b, worker[w].data)
            /\ status' = CASE blocks[b] # 0 -> status
                           [] blocks[b] = 0 /\ CanAssemble(blocks') -> "full"
                           [] OTHER -> "Downloading"
            /\ UNCHANGED <<task, failed>>
    /\ UNCHANGED <<load, late, tasksMade, tries, mixedUp>>

\* A block counts as failed from its first failure on, also when it arrives
\* later.
FailTask(w) ==
    LET b == worker[w].block IN
    /\ worker[w].step = "failTask"
    /\ worker' = [worker EXCEPT ![w] = Idle]
    /\ IF task = 0 THEN UNCHANGED taskVars
       ELSE /\ assigned' = [assigned EXCEPT ![b] = NoNode]
            /\ failed' = failed \cup {b}
            /\ status' = IF Cardinality(failed') >= MaxFailedBlocks
                         THEN "Failed" ELSE status
            /\ UNCHANGED <<task, blocks, completed>>
    /\ UNCHANGED <<load, late, tasksMade, tries, mixedUp>>

Work(w) ==
    \/ AssignLoad(w) \/ AssignRecord(w)
    \/ FindNode(w, "complete", "completeLoad") \/ ReleaseLoad(w, "completeLoad", "completeTask") \/ CompleteTask(w)
    \/ FindNode(w, "fail", "failLoad") \/ ReleaseLoad(w, "failLoad", "failTask") \/ FailTask(w)

DlNext ==
    \/ CreateTask \/ Cancel
    \/ \E w \in Worker : \/ \E b \in Block : Assign(w, b)
                         \/ FetchAnswer(w) \/ GiveUp(w) \/ LateAnswer(w) \/ Work(w)

DlSpec == DlInit /\ [][DlNext]_dlVars

----------------------------------------------------------------------------
(* Properties. *)

\* The variables have their types.
DlTypeOK ==
    /\ task \in 0..MaxTasks /\ tasksMade \in 0..MaxTasks /\ tries \in 0..MaxTries
    /\ blocks \in [Block -> 0..MaxTasks]
    /\ completed \subseteq Block
    /\ failed \subseteq Block
    /\ assigned \in [Block -> Node \cup {NoNode}]
    /\ status \in Status
    /\ load \in [Node -> 0..MaxTries]
    /\ worker \in [Worker -> [step : DlStep, block : Block, node : Node \cup {NoNode}, data : 0..MaxTasks]]
    /\ late \subseteq Block \X (1..MaxTasks)
    /\ mixedUp \in BOOLEAN

\* A worker between its change of node_load and its change of the task.
Unsettled == \E w \in Worker : worker[w].step \in {"record", "completeTask", "failTask"}

\* The load select_source balances by is the number of blocks each node is
\* downloading: it is exact with late answers, retries and failures, as long as
\* the calls for one block do not overlap and no task is dropped with blocks
\* assigned.
LoadExact ==
    ~mixedUp /\ ~Unsettled => \A n \in Node : load[n] = Cardinality({b \in Block : assigned[b] = n})

\* A task whose progress is 1.0 has every block in its buffer, and what
\* completed_blocks says has arrived is there to be assembled.
FullMeansComplete ==
    /\ completed = {b \in Block : blocks[b] # 0}
    /\ status = "full" => completed = Block

\* A file is never put together from the blocks of two tasks, unless a task was
\* replaced while blocks of the old one were on their way.
OneTasksBlocks == ~mixedUp => \A b \in Block : blocks[b] \in {0, task}

\* A buffer that counts as full can be assembled, and into one file.
BlocksSound == FullMeansComplete /\ OneTasksBlocks
=============================================================================
