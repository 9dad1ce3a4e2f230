----------------------------- MODULE JobManager -----------------------------
(***************************************************************************)
(* The background job manager (internal/jobs/jobs.go) over its table in    *)
(* the store (internal/store/jobs.go).                                     *)
(*                                                                         *)
(* Rows and resume counters are in the database and survive the process;   *)
(* queues, goroutines, contexts and the closed flag are its memory.  A     *)
(* step is what happens under one hold of Manager.mu or one database call. *)
(***************************************************************************)
EXTENDS Naturals, Sequences, SequencesExt

CONSTANTS
  MaxJobs,         \* bound: rows ever created (ids are AUTOINCREMENT)
  Queue,           \* queue keys
  Canceler,        \* concurrent callers of Cancel
  MaxResumes,      \* const maxResumes
  MaxBoots,        \* bound: times the service is started
  DBMayFail,       \* a database call may fail (its error is only logged)
  ClientMayLeave   \* the context of a Cancel request may end before FinishJob

Job == 1..MaxJobs
None == 0          \* no job

ASSUME ConstantsAssumption ==
  /\ MaxJobs \in Nat
  /\ MaxResumes \in Nat
  /\ MaxBoots \in Nat
  /\ DBMayFail \in BOOLEAN
  /\ ClientMayLeave \in BOOLEAN

Kind == {"plain", "resumable"}   \* does the runner implement Resumable
Outcome == {"succeeded", "failed", "canceled", "interrupted"}
Status == {"none", "queued", "running"} \cup Outcome

\* Where the goroutine of a job is; an outcome means "about to record it".
Place == {"idle", "launched", "running", "leaving", "abandoned"}
           \cup (Outcome \ {"interrupted"})

VARIABLES
  \* in the database
  status,        \* [Job -> Status]
  queueOf,       \* [Job -> Queue]
  kindOf,        \* [Job -> Kind]
  resumes,       \* key jobs.resumes.<id>
  \* in memory
  phase,         \* "down", "recover" (Recover runs), "serve", "closed"
  todo,          \* unfinished jobs Recover has not come to yet
  running,       \* running[q]: whose context holds the key q
  pending,       \* pending[q]: ids waiting for the key
  userCanceled,  \* jobs canceled by an operator
  pc,            \* [Job -> Place]
  ctxDone,       \* jobs whose context is canceled
  created,       \* row inserted by Start or Retry, enqueue not called yet
  cancel,        \* callers of Cancel: where they are, for which job
  \* history
  boots,         \* starts of the service so far
  accepted,      \* jobs for which a Cancel call got past its locked section
  begun          \* how many times the runner of a job was started

rows == <<status, queueOf, kindOf, resumes>>
queues == <<running, pending>>
memory == <<todo, running, pending, userCanceled, pc, ctxDone, created, cancel>>
vars == <<status, queueOf, kindOf, resumes, phase, todo, running, pending,
          userCanceled, pc, ctxDone, created, cancel, boots, accepted, begun>>

Done(s) == s \in Outcome
Unfinished == {j \in Job : status[j] \in {"queued", "running"}}
NotCanceling == [at |-> "no", job |-> None, hit |-> None]

TypeOK ==
  /\ status \in [Job -> Status]
  /\ queueOf \in [Job -> Queue]
  /\ kindOf \in [Job -> Kind]
  /\ resumes \in [Job -> Nat]
  /\ phase \in {"down", "recover", "serve", "closed"}
  /\ todo \subseteq Job
  /\ running \in [Queue -> Job \cup {None}]
  /\ pending \in [Queue -> Seq(Job)]
  /\ userCanceled \subseteq Job
  /\ pc \in [Job -> Place]
  /\ ctxDone \subseteq Job
  /\ created \subseteq Job
  /\ cancel \in [Canceler -> [at : {"no", "read", "drop", "signal"},
                              job : Job \cup {None}, hit : Job \cup {None}]]
  /\ boots \in Nat
  /\ accepted \subseteq Job
  /\ begun \in [Job -> Nat]

Init ==
  /\ status = [j \in Job |-> "none"]
  /\ queueOf \in {[j \in Job |-> q] : q \in Queue}  \* rows not there yet
  /\ kindOf = [j \in Job |-> "plain"]
  /\ resumes = [j \in Job |-> 0]
  /\ phase = "down"
  /\ todo = {}
  /\ running = [q \in Queue |-> None]
  /\ pending = [q \in Queue |-> <<>>]
  /\ userCanceled = {}
  /\ pc = [j \in Job |-> "idle"]
  /\ ctxDone = {}
  /\ created = {}
  /\ cancel = [c \in Canceler |-> NotCanceling]
  /\ boots = 0
  /\ accepted = {}
  /\ begun = [j \in Job |-> 0]
-----------------------------------------------------------------------------
(* Starting and stopping the service *)

\* Mutant: the query for unfinished rows leaves the queued ones out.
RunningRows == {j \in Job : status[j] = "running"}
RecoveredRows == Unfinished

\* The process starts; Recover reads the unfinished rows.  When that read
\* fails Recover returns, main logs it and goes on to serve.
Boot ==
  /\ phase = "down"
  /\ boots < MaxBoots
  /\ boots' = boots + 1
  /\ phase' = "recover"
  /\ \/ todo' = RecoveredRows
     \/ DBMayFail /\ todo' = {}
  /\ UNCHANGED <<rows, queues, userCanceled, pc, ctxDone, created, cancel,
                 accepted, begun>>

\* FinishJob: one UPDATE without a condition on the old status.
FinishJob(j, s, mayFail) ==
  \/ status' = [status EXCEPT ![j] = s]
  \/ mayFail /\ UNCHANGED status

\* Mutants: the check of the key left out; next leaving the key in the map.
BusyNever(q) == FALSE
BusyAlways(q) == TRUE
Busy(q) == running[q] # None

\* Mutants: the newest job put first; the zero id of a failed CreateJob queued.
JoinFirst(list, j) == <<j>> \o list
JoinZero(list, j) == Append(list, None)
Join(list, j) == Append(list, j)

\* enqueue, under the lock.
Enqueue(j) ==
  LET q == queueOf[j] IN
  \/ /\ phase = "closed"
     /\ UNCHANGED <<queues, pc>>
  \/ /\ phase # "closed"
     /\ Busy(q)
     /\ pending' = [pending EXCEPT ![q] = Join(@, j)]
     /\ UNCHANGED <<running, pc>>
  \/ /\ phase # "closed"
     /\ ~Busy(q)
     /\ running' = [running EXCEPT ![q] = j]
     /\ pc' = [pc EXCEPT ![j] = "launched"]
     /\ UNCHANGED pending

\* Mutant: the counter is not written back.
CountResumeLost(j, n) == n = resumes[j] + 1 /\ UNCHANGED resumes

\* The number of this continuation, by countResume: a failed read starts the
\* count again, a failed write leaves the old number in the database.
CountResume(j, n) ==
  /\ \/ n = resumes[j] + 1
     \/ DBMayFail /\ n = 1
  /\ \/ resumes' = [resumes EXCEPT ![j] = n]
     \/ DBMayFail /\ UNCHANGED resumes

\* One round of the loop of Recover, in the order of ids.
RecoverJob(j) ==
  /\ phase = "recover"
  /\ j \in todo
  /\ \A i \in todo : j <= i
  /\ todo' = todo \ {j}
  /\ \/ /\ kindOf[j] # "resumable"
        /\ FinishJob(j, "interrupted", DBMayFail)
        /\ UNCHANGED <<resumes, queues, pc>>
     \/ /\ kindOf[j] = "resumable"
        /\ \E n \in {1, resumes[j] + 1} :
             /\ CountResume(j, n)
             /\ \/ /\ n > MaxResumes
                   /\ FinishJob(j, "interrupted", DBMayFail)
                   /\ UNCHANGED <<queues, pc>>
                \/ /\ n <= MaxResumes
                   /\ Enqueue(j)
                   /\ UNCHANGED status
  /\ UNCHANGED <<queueOf, kindOf, phase, userCanceled, ctxDone, created, cancel,
                 boots, accepted, begun>>

\* Recover has returned: the HTTP server starts.
Serve ==
  /\ phase = "recover"
  /\ todo = {}
  /\ phase' = "serve"
  /\ UNCHANGED <<rows, memory, boots, accepted, begun>>

\* Close: no outcome is recorded, the contexts of running jobs are canceled.
\* Bound: the last start of the service is not followed by a stop.
Close ==
  /\ phase = "serve"
  /\ boots < MaxBoots
  /\ phase' = "closed"
  /\ ctxDone' = ctxDone \cup {running[q] : q \in {k \in Queue : running[k] # None}}
  /\ UNCHANGED <<rows, todo, queues, userCanceled, pc, created, cancel, boots,
                 accepted, begun>>

\* The process ends: after Close, or killed at any moment.  Its memory is lost.
Exit ==
  /\ phase' = "down"
  /\ todo' = {}
  /\ running' = [q \in Queue |-> None]
  /\ pending' = [q \in Queue |-> <<>>]
  /\ userCanceled' = {}
  /\ pc' = [j \in Job |-> "idle"]
  /\ ctxDone' = {}
  /\ created' = {}
  /\ cancel' = [c \in Canceler |-> NotCanceling]
  /\ UNCHANGED <<rows, boots, accepted, begun>>

Stopped == phase = "closed" /\ Exit
Crash == phase \in {"recover", "serve"} /\ boots < MaxBoots /\ Exit
-----------------------------------------------------------------------------
(* Start and Retry *)

Up == phase \in {"serve", "closed"}   \* handlers may be still at work after Close

\* CreateJob gives out ids in order.
NewRow(j, q, k) ==
  /\ status[j] = "none"
  /\ \A i \in Job : i < j => status[i] # "none"
  /\ status' = [status EXCEPT ![j] = "queued"]
  /\ queueOf' = [queueOf EXCEPT ![j] = q]
  /\ kindOf' = [kindOf EXCEPT ![j] = k]
  /\ created' = created \cup {j}
  /\ UNCHANGED <<resumes, phase, todo, queues, userCanceled, pc, ctxDone, cancel,
                 boots, accepted, begun>>

\* Start, called by a handler or by a job that starts jobs of its own.
Start(j, q, k) ==
  /\ Up \/ \E i \in Job : pc[i] = "running"
  /\ NewRow(j, q, k)

\* Retry: a new job with the queue and kind of one that ended without success.
Retry(old, j) ==
  /\ Up
  /\ Done(status[old])
  /\ status[old] # "succeeded"
  /\ kindOf[old] = "resumable"
  /\ NewRow(j, queueOf[old], "resumable")

\* The second half of Start and of Retry.
StartEnqueue(j) ==
  /\ j \in created
  /\ created' = created \ {j}
  /\ Enqueue(j)
  /\ UNCHANGED <<rows, phase, todo, userCanceled, ctxDone, cancel, boots, accepted,
                 begun>>
-----------------------------------------------------------------------------
(* run: the goroutine of one job *)

\* JobByID, MarkJobRunning, and the call of the runner.
Begin(j) ==
  /\ pc[j] = "launched"
  /\ \/ /\ \/ status' = [status EXCEPT ![j] = "running"]
           \/ DBMayFail /\ UNCHANGED status
        /\ pc' = [pc EXCEPT ![j] = "running"]
        /\ begun' = [begun EXCEPT ![j] = @ + 1]
     \/ /\ DBMayFail                     \* the job was not read
        /\ pc' = [pc EXCEPT ![j] = "leaving"]
        /\ UNCHANGED <<status, begun>>
  /\ UNCHANGED <<queueOf, kindOf, resumes, phase, todo, queues, userCanceled,
                 ctxDone, created, cancel, boots, accepted>>

\* Mutant: cancelation is told by the context, which other causes end too.
VerdictByContext(j, failed) ==
  IF phase = "closed" THEN "abandoned"
  ELSE IF j \in ctxDone THEN "canceled"
  ELSE IF failed THEN "failed" ELSE "succeeded"

Verdict(j, failed) ==
  IF phase = "closed" THEN "abandoned"
  ELSE IF j \in userCanceled THEN "canceled"
  ELSE IF failed THEN "failed" ELSE "succeeded"

\* Mutant: a job cut off by the stop is recorded as interrupted at once.
ReturnRecords(j, failed) ==
  /\ pc[j] = "running"
  /\ pc' = [pc EXCEPT ![j] = Verdict(j, failed)]
  /\ status' = IF phase = "closed" THEN [status EXCEPT ![j] = "interrupted"] ELSE status
  /\ userCanceled' = userCanceled \ {j}
  /\ UNCHANGED <<queueOf, kindOf, resumes, phase, todo, queues, ctxDone, created,
                 cancel, boots, accepted, begun>>

\* The runner returns, with an error or not (whatever its context says), and
\* the outcome is decided under the lock.
Return(j, failed) ==
  /\ pc[j] = "running"
  /\ pc' = [pc EXCEPT ![j] = Verdict(j, failed)]
  /\ userCanceled' = userCanceled \ {j}
  /\ UNCHANGED <<rows, phase, todo, queues, ctxDone, created, cancel, boots,
                 accepted, begun>>

Record(j) ==
  /\ pc[j] \in Outcome
  /\ FinishJob(j, pc[j], DBMayFail)
  /\ pc' = [pc EXCEPT ![j] = "leaving"]
  /\ UNCHANGED <<queueOf, kindOf, resumes, phase, todo, queues, userCanceled,
                 ctxDone, created, cancel, boots, accepted, begun>>

\* The deferred next(queue): the key goes to the job that waited longest.
NextJob(j) ==
  LET q == queueOf[j]
      list == pending[q]
  IN /\ pc[j] \in {"leaving", "abandoned"}
     /\ \/ /\ list = <<>> \/ phase = "closed"
           /\ running' = [running EXCEPT ![q] = None]
           /\ pending' = [pending EXCEPT ![q] = <<>>]
           /\ pc' = [pc EXCEPT ![j] = "idle"]
        \/ /\ list # <<>> /\ phase # "closed"
           /\ running' = [running EXCEPT ![q] = Head(list)]
           /\ pending' = [pending EXCEPT ![q] = Tail(list)]
           /\ pc' = [pc EXCEPT ![j] = "idle", ![Head(list)] = "launched"]
     /\ ctxDone' = ctxDone \ {j}
     /\ UNCHANGED <<rows, phase, todo, userCanceled, created, cancel, boots,
                    accepted, begun>>
-----------------------------------------------------------------------------
(* Cancel *)

\* The row is read before the lock is taken.
CancelRead(c, j) ==
  /\ phase \in {"serve", "closed"}
  /\ cancel[c].at = "no"
  /\ j \in Unfinished
  /\ cancel' = [cancel EXCEPT ![c] = [at |-> "read", job |-> j, hit |-> None]]
  /\ UNCHANGED <<rows, phase, todo, queues, userCanceled, pc, ctxDone, created,
                 boots, accepted, begun>>

\* Mutant: the canceled job is left in the queue.
WithoutNobody(list, i) == list
Without(list, i) == RemoveAt(list, i)

\* Under the lock: a waiting job is taken out of its queue; otherwise whatever
\* job holds the key now is the one whose context will be canceled.
CancelLocked(c) ==
  LET j == cancel[c].job
      q == queueOf[j]
      At == {i \in DOMAIN pending[q] : pending[q][i] = j}
  IN /\ cancel[c].at = "read"
     /\ \/ \E i \in At :
             /\ pending' = [pending EXCEPT ![q] = Without(@, i)]
             /\ cancel' = [cancel EXCEPT ![c].at = "drop"]
             /\ accepted' = accepted \cup {j}
             /\ UNCHANGED userCanceled
        \/ /\ At = {}
           /\ running[q] # None
           /\ userCanceled' = userCanceled \cup {j}
           /\ cancel' = [cancel EXCEPT ![c] = [at |-> "signal", job |-> j, hit |-> running[q]]]
           /\ accepted' = accepted \cup {j}
           /\ UNCHANGED pending
        \/ /\ At = {}
           /\ running[q] = None             \* "the job runs in another process"
           /\ cancel' = [cancel EXCEPT ![c] = NotCanceling]
           /\ UNCHANGED <<pending, userCanceled, accepted>>
     /\ UNCHANGED <<rows, phase, todo, running, pc, ctxDone, created, boots, begun>>

\* FinishJob of the job taken out, with the context of the request.
CancelDrop(c) ==
  /\ cancel[c].at = "drop"
  /\ FinishJob(cancel[c].job, "canceled", DBMayFail \/ ClientMayLeave)
  /\ cancel' = [cancel EXCEPT ![c] = NotCanceling]
  /\ UNCHANGED <<queueOf, kindOf, resumes, phase, todo, queues, userCanceled, pc,
                 ctxDone, created, boots, accepted, begun>>

\* cancel(): of no effect when that goroutine is already gone.
CancelSignal(c) ==
  /\ cancel[c].at = "signal"
  /\ ctxDone' = IF pc[cancel[c].hit] = "idle" THEN ctxDone
                ELSE ctxDone \cup {cancel[c].hit}
  /\ cancel' = [cancel EXCEPT ![c] = NotCanceling]
  /\ UNCHANGED <<rows, phase, todo, queues, userCanceled, pc, created, boots,
                 accepted, begun>>
-----------------------------------------------------------------------------
Next ==
  \/ Boot \/ Serve \/ Close \/ Stopped \/ Crash
  \/ \E j \in Job : RecoverJob(j)
  \/ \E j \in Job, q \in Queue, k \in Kind : Start(j, q, k)
  \/ \E old, j \in Job : Retry(old, j)
  \/ \E j \in Job : \/ StartEnqueue(j) \/ Begin(j) \/ Record(j) \/ NextJob(j)
                    \/ \E failed \in BOOLEAN : Return(j, failed)
  \/ \E c \in Canceler : \/ \E j \in Job : CancelRead(c, j)
                         \/ CancelLocked(c) \/ CancelDrop(c) \/ CancelSignal(c)

Spec == Init /\ [][Next]_vars

\* The go scheduler runs every goroutine that can run, requests and Recover
\* included; a runner returns; a stopped service exits and is started again (by
\* systemd after a crash, by the operator or an update after a stop). Nobody
\* has to call Start or Cancel, and nothing has to crash.
Fairness ==
  /\ WF_vars(Boot) /\ WF_vars(Serve) /\ WF_vars(Stopped)
  /\ \A j \in Job : /\ WF_vars(RecoverJob(j))
                    /\ WF_vars(StartEnqueue(j))
                    /\ WF_vars(Begin(j))
                    /\ WF_vars(\E failed \in BOOLEAN : Return(j, failed))
                    /\ WF_vars(Record(j))
                    /\ WF_vars(NextJob(j))
  /\ \A c \in Canceler : WF_vars(CancelLocked(c) \/ CancelDrop(c) \/ CancelSignal(c))

FairSpec == Spec /\ Fairness
-----------------------------------------------------------------------------
(* Properties *)

Active(j) == pc[j] # "idle"
Dropped(c, j) == cancel[c].at = "drop" /\ cancel[c].job = j
Waiting(j) == \E q \in Queue : j \in ToSet(pending[q])

\* jobs.go package comment: one job at a time on a queue key.
QueueExclusive ==
  \A i, j \in Job : Active(i) /\ Active(j) /\ queueOf[i] = queueOf[j] => i = j

\* A job waits only behind one that is being executed: next never leaves a
\* queue with waiting jobs and nobody to hand the key on.
NoStalledQueue ==
  \A q \in Queue : pending[q] # <<>> => running[q] # None /\ Active(running[q])

\* While the service works, every unfinished row is in somebody's hands: no
\* job shows "queued" or "running" for ever.
NothingLost ==
  phase \in {"recover", "serve"} =>
    \A j \in Unfinished : \/ j \in todo \cup created
                          \/ Active(j) \/ Waiting(j)
                          \/ \E c \in Canceler : Dropped(c, j)

\* A recorded outcome never changes, although FinishJob and MarkJobRunning
\* update the row whatever its status is.
OutcomeIsFinal == [][\A j \in Job : Done(status[j]) => status'[j] = status[j]]_vars

\* "Canceled" is said only of a job whose own cancelation was asked for: not
\* of one stopped with the service or because of another job of its queue.
CanceledOnlyIfAsked == \A j \in Job : status[j] = "canceled" => j \in accepted

\* What is left to Recover is still open: a job cut off by the stop keeps its
\* unfinished row (comment of Close), and no row is concluded behind the back
\* of the list Recover read at the start.
LeftToRecover ==
  \A j \in Job : pc[j] = "abandoned" \/ j \in todo => ~Done(status[j])

\* A job that brings the service down every time it runs is not continued for
\* ever (comment of Recover), and one that cannot be continued runs once.
ContinuedBoundedly ==
  \A j \in Job : begun[j] <= IF kindOf[j] = "resumable" THEN MaxResumes + 1 ELSE 1

\* The manager implements the lines of JobQueue.
Lines == INSTANCE JobQueue WITH
  line <- [q \in Queue |-> IF running[q] = None THEN <<>> ELSE <<running[q]>> \o pending[q]],
  ended <- {j \in Job : Done(status[j])}
LinesImplemented == Lines!Spec

\* Whoever starts a job sees it end, across stops and crashes of the service.
EveryJobEnds == \A j \in Job : status[j] = "queued" ~> Done(status[j])
-----------------------------------------------------------------------------
(* The inductive invariant (checked by TLC, proved in JobManagerProofs) *)

Open(j) == status[j] \in {"queued", "running"}

\* A key is held by exactly the job that is being executed on it.
KeyInv ==
  /\ \A j \in Job : Active(j) => status[j] # "none" /\ running[queueOf[j]] = j
  /\ \A q \in Queue : running[q] # None => /\ Active(running[q])
                                           /\ queueOf[running[q]] = q

\* Waiting jobs are open, wait once, for their own key, in nobody else's hands.
LineOK(q) ==
  /\ pending[q] # <<>> => running[q] # None
  /\ \A i \in DOMAIN pending[q] : /\ queueOf[pending[q][i]] = q
                                  /\ Open(pending[q][i])
                                  /\ ~Active(pending[q][i])
                                  /\ pending[q][i] \notin created \cup todo
  /\ \A i, k \in DOMAIN pending[q] : pending[q][i] = pending[q][k] => i = k
LineInv == \A q \in Queue : LineOK(q)

\* Jobs on their way to enqueue are open and nobody executes them.
HandInv ==
  /\ created \cap todo = {}
  /\ \A j \in created \cup todo : Open(j) /\ ~Active(j)

\* A goroutine that has not yet recorded an outcome works on an open row.
OpenInv == \A j \in Job : pc[j] \notin {"idle", "leaving"} => Open(j)

\* Callers of Cancel hold ids of jobs.
CancelInv ==
  \A c \in Canceler : /\ cancel[c].at # "no" => cancel[c].job \in Job
                      /\ cancel[c].at = "signal" => cancel[c].hit \in Job

\* A job taken out of its queue by Cancel is that caller's alone.
DropInv ==
  /\ \A c \in Canceler, j \in Job : Dropped(c, j) =>
       /\ Open(j) /\ ~Active(j)
       /\ j \notin created \cup todo
       /\ \A q \in Queue : \A i \in DOMAIN pending[q] : pending[q][i] # j
  /\ \A c, d \in Canceler, j \in Job : Dropped(c, j) /\ Dropped(d, j) => c = d

\* A process that is not there has no memory.
DownInv ==
  phase = "down" => /\ todo = {} /\ created = {}
                    /\ \A j \in Job : ~Active(j)
                    /\ \A q \in Queue : running[q] = None /\ pending[q] = <<>>
                    /\ \A c \in Canceler : cancel[c].at = "no"

IInv == /\ TypeOK /\ KeyInv /\ LineInv /\ HandInv /\ OpenInv /\ CancelInv /\ DropInv
        /\ DownInv
-----------------------------------------------------------------------------
(* What comments of jobs.go say and the code does not always do *)

\* "canceled by the operator, to tell it from the stop of the service: ctx is
\* the same in both cases" (userCanceled): a context is canceled for no third
\* reason.
StoppedOnlyIfAsked ==
  phase # "closed" => \A j \in Job : j \in ctxDone => j \in accepted
=============================================================================
