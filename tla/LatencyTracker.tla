---------------------------- MODULE LatencyTracker ----------------------------
(***************************************************************************)
(* pipecat_runtime/metrics.py: the records of all sessions, in memory and  *)
(* in a JSONL file.  record() appends to both under an asyncio lock, but   *)
(* the line is written by a thread of the loop's executor, which may have  *)
(* to wait for one.  The task that is cancelled gives the lock back: its   *)
(* line is taken from the executor's queue, and never written, unless a    *)
(* thread has it already, which then goes on.  A write may also fail, and  *)
(* record() raise.  reset(), which only tests call, is left out.           *)
(***************************************************************************)
EXTENDS Naturals, Sequences

VARIABLES
    memory,     (* _records: the metrics' names                            *)
    file,       (* the file: a line is the place of its record in memory   *)
    holder,     (* the task that holds the lock                            *)
    queued,     (* the lines that wait for a thread                        *)
    writing,    (* the lines whose thread is under way                     *)
    lost,       (* the lines that were taken back or could not be written  *)
    inOrder     (* history: no task was cancelled while its line was       *)
                (* being written                                           *)

trackerVars == <<memory, file, holder, queued, writing, lost, inOrder>>
Nobody == "nobody"

TrackerInit ==
    /\ memory = <<>>
    /\ file = <<>>
    /\ holder = Nobody
    /\ queued = {}
    /\ writing = {}
    /\ lost = {}
    /\ inOrder = TRUE

(* record() up to the await of the thread, in a task that finds the lock   *)
(* free or is woken with it.                                               *)
Appends(task, metric) ==
    /\ holder = Nobody
    /\ holder' = task
    /\ memory' = Append(memory, metric)
    /\ queued' = queued \cup {Len(memory) + 1}
    /\ UNCHANGED <<file, writing, lost, inOrder>>

(* A thread of the executor takes a line.                                  *)
LineBegun(line) ==
    /\ line \in queued
    /\ queued' = queued \ {line}
    /\ writing' = writing \cup {line}
    /\ UNCHANGED <<memory, file, holder, lost, inOrder>>

(* _append_line, in its thread: the line is in the file, or there is an    *)
(* OSError and it is not, or not whole.                                    *)
LineWritten(line) ==
    /\ line \in writing
    /\ file' = Append(file, line)
    /\ writing' = writing \ {line}
    /\ UNCHANGED <<memory, holder, queued, lost, inOrder>>

LineFails(line) ==
    /\ line \in writing
    /\ writing' = writing \ {line}
    /\ lost' = lost \cup {line}
    /\ UNCHANGED <<memory, file, holder, queued, inOrder>>

(* record() returns, or raises the exception of the thread.                *)
LetsGo(task) ==
    /\ holder = task
    /\ Len(memory) \notin queued \cup writing
    /\ holder' = Nobody
    /\ UNCHANGED <<memory, file, queued, writing, lost, inOrder>>

Returns(task) == Len(memory) \notin lost /\ LetsGo(task)
Raises(task) == Len(memory) \in lost /\ LetsGo(task)

KeepsLock(tasks) ==
    /\ inOrder' = (inOrder /\ ~ (holder \in tasks /\ Len(memory) \in writing))
    /\ UNCHANGED <<memory, file, holder, queued, writing, lost>>

ForgetsQueued(tasks) ==
    /\ holder' = IF holder \in tasks THEN Nobody ELSE holder
    /\ inOrder' = (inOrder /\ ~ (holder \in tasks /\ Len(memory) \in writing))
    /\ UNCHANGED <<memory, file, queued, writing, lost>>

(* The tasks are cancelled, whatever they wait for; with the one that      *)
(* waits for a thread to take its line, the call of the executor.          *)
Cancelled(tasks) ==
    LET takenBack == IF holder \in tasks THEN queued \cap {Len(memory)} ELSE {} IN
    /\ holder' = IF holder \in tasks THEN Nobody ELSE holder
    /\ queued' = queued \ takenBack
    /\ lost' = lost \cup takenBack
    /\ inOrder' = (inOrder /\ ~ (holder \in tasks /\ Len(memory) \in writing))
    /\ UNCHANGED <<memory, file, writing>>

TrackerTypeOK ==
    /\ \A i \in DOMAIN file : file[i] \in DOMAIN memory
    /\ queued \cup writing \cup lost \subseteq DOMAIN memory
    /\ inOrder \in BOOLEAN

(* Every record is in the file once, or on its way there, or lost, and     *)
(* never two of these: a line that was given up is not written after all.  *)
(* Of the lines that no thread has taken there is one at most, the last,   *)
(* and its task waits for it with the lock: whoever gives the lock back    *)
(* leaves none behind.  The file has the records in the order of the       *)
(* memory, as long as no session was cancelled while a thread was writing, *)
(* and until then only the last one can be missing that is not lost.       *)
FileFollowsMemory ==
    /\ DOMAIN memory = {file[i] : i \in DOMAIN file} \cup queued \cup writing \cup lost
    /\ \A i, j \in DOMAIN file : file[i] = file[j] => i = j
    /\ \A i \in DOMAIN file : file[i] \notin queued \cup writing \cup lost
    /\ queued \cap writing = {} /\ lost \cap (queued \cup writing) = {}
    /\ \A line \in queued : line = Len(memory) /\ holder # Nobody
    /\ inOrder =>
        /\ \A i, j \in DOMAIN file : i < j => file[i] < file[j]
        /\ \A line \in writing : line = Len(memory) /\ holder # Nobody
=============================================================================
