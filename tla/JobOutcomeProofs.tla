-------------------------- MODULE JobOutcomeProofs --------------------------
(***************************************************************************)
(* What becomes of the jobs of JobManager, on top of its inductive         *)
(* invariant: only what was asked for is canceled, nothing is lost,        *)
(* nothing is continued more often than it may be, and the lines of        *)
(* JobQueue are kept.                                                      *)
(***************************************************************************)
EXTENDS JobManager, JobManagerProofs

\* In a step of a job, of a caller of Cancel or of the service one of these.
JobSteps(j) ==
  \/ StartEnqueue(j) \/ Begin(j) \/ Record(j) \/ NextJob(j) \/ RecoverJob(j)
  \/ \E failed \in BOOLEAN : Return(j, failed)
  \/ \E q \in Queue, k \in Kind : NewRow(j, q, k)
CancelSteps(c) ==
  (\E j \in Job : CancelRead(c, j)) \/ CancelLocked(c) \/ CancelDrop(c) \/ CancelSignal(c)
ServiceSteps == Boot \/ Serve \/ Close \/ Exit

LEMMA Steps ==
  ASSUME IInv, [Next]_vars
  PROVE  \/ ServiceSteps
         \/ \E j \in Job : JobSteps(j)
         \/ \E c \in Canceler : CancelSteps(c)
         \/ UNCHANGED vars
<1>1. ASSUME NEW j \in Job, NEW q \in Queue, NEW k \in Kind, Start(j, q, k)
      PROVE  JobSteps(j)
  BY <1>1 DEF Start, JobSteps
<1>2. ASSUME NEW old \in Job, NEW j \in Job, Retry(old, j)
      PROVE  JobSteps(j)
  <2>1. queueOf[old] \in Queue /\ "resumable" \in Kind
    BY DEF IInv, TypeOK, Kind
  <2>2. QED
    BY <1>2, <2>1 DEF Retry, JobSteps
<1>3. Stopped \/ Crash => Exit
  BY DEF Stopped, Crash
<1>4. QED
  BY <1>1, <1>2, <1>3 DEF Next, ServiceSteps, JobSteps, CancelSteps
-----------------------------------------------------------------------------
(* Only what was asked for is canceled *)

AskInv ==
  /\ CanceledOnlyIfAsked
  /\ userCanceled \subseteq accepted
  /\ \A j \in Job : pc[j] = "canceled" => j \in accepted
  /\ \A c \in Canceler : cancel[c].at = "drop" => cancel[c].job \in accepted

LEMMA AskService ==
  ASSUME IInv, AskInv, ServiceSteps
  PROVE  AskInv'
<1> USE DEF AskInv, CanceledOnlyIfAsked
<1>1. CASE Boot \/ Serve \/ Close
  BY <1>1 DEF Boot, Serve, Close, rows, memory, queues
<1>2. CASE Exit
  BY <1>2 DEF Exit, rows, NotCanceling
<1>3. QED
  BY <1>1, <1>2 DEF ServiceSteps

LEMMA AskJob ==
  ASSUME IInv, AskInv, NEW j \in Job, JobSteps(j)
  PROVE  AskInv'
<1>1. status \in [Job -> Status] /\ pc \in [Job -> Place]
  BY DEF IInv, TypeOK
<1> USE DEF AskInv, CanceledOnlyIfAsked
<1>2. ASSUME Enqueue(j), UNCHANGED <<status, userCanceled, cancel, accepted>>
      PROVE  AskInv'
  <2>1. pc' = pc \/ pc' = [pc EXCEPT ![j] = "launched"]
    BY <1>2 DEF Enqueue
  <2>2. QED
    BY <1>1, <1>2, <2>1
<1>3. CASE StartEnqueue(j)
  BY <1>2, <1>3 DEF StartEnqueue, rows
<1>4. CASE RecoverJob(j)
  <2>1. UNCHANGED <<userCanceled, cancel, accepted>>
    BY <1>4 DEF RecoverJob
  <2>2. CASE Enqueue(j) /\ UNCHANGED status
    BY <1>2, <2>1, <2>2
  <2>3. CASE FinishJob(j, "interrupted", DBMayFail) /\ UNCHANGED pc
    BY <1>1, <2>1, <2>3 DEF FinishJob
  <2>4. QED
    BY <1>4, <2>2, <2>3 DEF RecoverJob, queues
<1>5. CASE Begin(j) \/ NextJob(j)
  <2>1. UNCHANGED <<userCanceled, cancel, accepted>>
    BY <1>5 DEF Begin, NextJob, rows
  <2>2. \A i \in Job : status'[i] = "canceled" => status[i] = "canceled"
    BY <1>1, <1>5 DEF Begin, NextJob, rows
  <2>3. \A i \in Job : pc'[i] = "canceled" => pc[i] = "canceled"
    BY <1>1, <1>5 DEF Begin, NextJob
  <2>4. QED
    BY <2>1, <2>2, <2>3
<1>6. CASE Record(j)
  BY <1>1, <1>6 DEF Record, FinishJob
<1>7. ASSUME NEW failed \in BOOLEAN, Return(j, failed)
      PROVE  AskInv'
  BY <1>1, <1>7 DEF Return, Verdict, rows
<1>8. ASSUME NEW q \in Queue, NEW k \in Kind, NewRow(j, q, k)
      PROVE  AskInv'
  BY <1>1, <1>8 DEF NewRow
<1>9. QED
  BY <1>3, <1>4, <1>5, <1>6, <1>7, <1>8 DEF JobSteps

LEMMA AskCancel ==
  ASSUME IInv, AskInv, NEW c \in Canceler, CancelSteps(c)
  PROVE  AskInv'
<1> DEFINE Caller == [at : {"no", "read", "drop", "signal"},
                      job : Job \cup {None}, hit : Job \cup {None}]
<1>1. status \in [Job -> Status] /\ cancel \in [Canceler -> Caller]
  BY DEF IInv, TypeOK
<1> USE DEF AskInv, CanceledOnlyIfAsked
<1>2. ASSUME NEW j \in Job, CancelRead(c, j)
      PROVE  AskInv'
  BY <1>1, <1>2 DEF CancelRead, rows
<1>3. CASE CancelLocked(c)
  <2>1. UNCHANGED <<status, pc>> /\ accepted \subseteq accepted'
    BY <1>3 DEF CancelLocked, rows
  <2>2. userCanceled' \subseteq accepted'
    BY <1>3 DEF CancelLocked
  <2>3. \A d \in Canceler : d # c => cancel'[d] = cancel[d]
    BY <1>1, <1>3 DEF CancelLocked
  <2>4. \/ cancel' = [cancel EXCEPT ![c].at = "drop"] /\ cancel[c].job \in accepted'
        \/ \E h : cancel' = [cancel EXCEPT ![c] = [at |-> "signal",
                                                   job |-> cancel[c].job, hit |-> h]]
        \/ cancel' = [cancel EXCEPT ![c] = NotCanceling]
    BY <1>3, Zenon DEF CancelLocked
  <2>5. cancel'[c].at = "drop" => cancel'[c].job \in accepted'
    BY <1>1, <2>4 DEF NotCanceling
  <2>6. QED
    BY <2>1, <2>2, <2>3, <2>5
<1>4. CASE CancelDrop(c)
  BY <1>1, <1>4 DEF CancelDrop, FinishJob, NotCanceling
<1>5. CASE CancelSignal(c)
  BY <1>1, <1>5 DEF CancelSignal, NotCanceling, rows
<1>6. QED
  BY <1>2, <1>3, <1>4, <1>5 DEF CancelSteps

\* Only a job that a call of Cancel got hold of, under the lock, is recorded as
\* "canceled": not one stopped with the service, nor one whose context was ended
\* in place of another one's; whatever the database does.
THEOREM CanceledWasAsked == Spec => []CanceledOnlyIfAsked
<1>1. Init => AskInv
  BY DEF Init, AskInv, CanceledOnlyIfAsked, NotCanceling
<1>2. IInv /\ AskInv /\ [Next]_vars => AskInv'
  <2>1. UNCHANGED vars /\ AskInv => AskInv'
    BY DEF vars, AskInv, CanceledOnlyIfAsked
  <2>2. QED
    BY <2>1, Steps, AskService, AskJob, AskCancel
<1>3. AskInv => CanceledOnlyIfAsked
  BY DEF AskInv
<1>4. QED
  BY <1>1, <1>2, <1>3, Invariance, PTL DEF Spec
-----------------------------------------------------------------------------
(* Who waits *)

InLine(j) == \E q \in Queue : \E i \in DOMAIN pending[q] : pending[q][i] = j

LEMMA WaitingInLine == \A j \in Job : Waiting(j) <=> InLine(j)
BY DEF Waiting, InLine, ToSet

\* A job that is enqueued takes the key or joins the queue, unless the service
\* is stopping; the others stay where they are.
LEMMA EnqueueLine ==
  ASSUME IInv, NEW j \in Job, Enqueue(j)
  PROVE  /\ \A i \in Job : InLine(i) => InLine(i)'
         /\ \A i \in Job : InLine(i)' => InLine(i) \/ i = j
         /\ \A i \in Job : i # j => pc'[i] = pc[i]
         /\ pc'[j] \in {pc[j], "launched"}
         /\ phase # "closed" => InLine(j)' \/ pc'[j] = "launched"
<1> DEFINE q == queueOf[j]
<1>1. /\ q \in Queue /\ pc \in [Job -> Place] /\ pending \in [Queue -> Seq(Job)]
  BY DEF IInv, TypeOK
<1>2. CASE UNCHANGED <<pending, pc>> /\ phase = "closed"
  BY <1>2 DEF InLine
<1>3. CASE UNCHANGED pc /\ pending' = [pending EXCEPT ![q] = Append(@, j)]
  <2>1. /\ pending[q] \in Seq(Job) /\ pending'[q] = Append(pending[q], j)
        /\ \A k \in Queue : k # q => pending'[k] = pending[k]
    BY <1>1, <1>3
  <2>2. /\ DOMAIN pending'[q] = DOMAIN pending[q] \cup {Len(pending[q]) + 1}
        /\ pending'[q][Len(pending[q]) + 1] = j
        /\ \A k \in DOMAIN pending[q] : pending'[q][k] = pending[q][k]
    BY <2>1
  <2> HIDE DEF q
  <2>3. InLine(j)'
    BY <1>1, <2>2 DEF InLine
  <2>4. ASSUME NEW i \in Job, InLine(i)
        PROVE  InLine(i)'
    BY <2>1, <2>2, <2>4 DEF InLine
  <2>5. ASSUME NEW i \in Job, InLine(i)', i # j
        PROVE  InLine(i)
    BY <2>1, <2>2, <2>5 DEF InLine
  <2>6. QED
    BY <1>3, <2>3, <2>4, <2>5
<1>4. CASE UNCHANGED pending /\ pc' = [pc EXCEPT ![j] = "launched"]
  BY <1>1, <1>4 DEF InLine
<1>5. QED
  BY <1>2, <1>3, <1>4 DEF Enqueue, queues, Join

\* The end of a goroutine launches the head of its queue and leaves the rest
\* waiting; when the service stops the queue is dropped.
LEMMA NextLine ==
  ASSUME IInv, NEW j \in Job, NextJob(j)
  PROVE  /\ \A i \in Job : InLine(i)' => InLine(i)
         /\ phase # "closed" =>
              \A i \in Job : InLine(i) => InLine(i)' \/ pc'[i] = "launched"
         /\ \A i \in Job : pc'[i] \in {pc[i], "idle", "launched"}
         /\ \A i \in Job : pc'[i] = "launched" => pc[i] = "launched" \/ InLine(i)
         /\ \A i \in Job : i # j /\ Active(i) => Active(i)'
<1> DEFINE q == queueOf[j]
           list == pending[q]
<1>1. /\ q \in Queue /\ pc \in [Job -> Place] /\ pending \in [Queue -> Seq(Job)]
      /\ list \in Seq(Job)
  BY DEF IInv, TypeOK
<1>2. CASE /\ list = <<>> \/ phase = "closed"
           /\ pending' = [pending EXCEPT ![q] = <<>>]
           /\ pc' = [pc EXCEPT ![j] = "idle"]
  <2>1. /\ DOMAIN pending'[q] = {} /\ (phase # "closed" => DOMAIN pending[q] = {})
        /\ \A k \in Queue : k # q => pending'[k] = pending[k]
    BY <1>1, <1>2
  <2> HIDE DEF q
  <2>2. /\ \A i \in Job : InLine(i)' => InLine(i)
        /\ phase # "closed" => \A i \in Job : InLine(i) => InLine(i)'
    BY <2>1 DEF InLine
  <2>3. QED
    BY <1>1, <1>2, <2>2 DEF Active
<1>3. CASE /\ list # <<>> /\ phase # "closed"
           /\ pending' = [pending EXCEPT ![q] = Tail(list)]
           /\ pc' = [pc EXCEPT ![j] = "idle", ![Head(list)] = "launched"]
  <2>1. /\ pending'[q] = Tail(list)
        /\ \A k \in Queue : k # q => pending'[k] = pending[k]
    BY <1>1, <1>3
  <2>2. /\ Head(list) = list[1] /\ 1 \in DOMAIN list /\ list[1] \in Job
        /\ \A k \in DOMAIN Tail(list) : k + 1 \in DOMAIN list /\ Tail(list)[k] = list[k + 1]
        /\ \A k \in DOMAIN list : k # 1 => /\ k - 1 \in DOMAIN Tail(list)
                                           /\ Tail(list)[k - 1] = list[k]
    BY <1>1, <1>3
  <2>3. InLine(Head(list))
    BY <1>1, <2>2 DEF InLine
  <2>4. ASSUME NEW i \in Job, InLine(i)'
        PROVE  InLine(i)
    <3>0. PICK p \in Queue : \E k \in DOMAIN pending'[p] : pending'[p][k] = i
      BY <2>4 DEF InLine
    <3>1. PICK k \in DOMAIN pending'[p] : pending'[p][k] = i
      BY <3>0
    <3>2. CASE p = q
      <4>1. k + 1 \in DOMAIN pending[q] /\ pending[q][k + 1] = i
        BY <2>1, <2>2, <3>1, <3>2
      <4>2. QED
        BY <1>1, <4>1 DEF InLine
    <3>3. CASE p # q
      BY <2>1, <3>1, <3>3 DEF InLine
    <3>4. QED
      BY <3>2, <3>3
  <2>5. ASSUME NEW i \in Job, InLine(i), i # Head(list)
        PROVE  InLine(i)'
    <3>0. PICK p \in Queue : \E k \in DOMAIN pending[p] : pending[p][k] = i
      BY <2>5 DEF InLine
    <3>1. PICK k \in DOMAIN pending[p] : pending[p][k] = i
      BY <3>0
    <3>2. CASE p = q
      <4>1. k - 1 \in DOMAIN pending'[q] /\ pending'[q][k - 1] = i
        BY <2>1, <2>2, <2>5, <3>1, <3>2
      <4>2. QED
        BY <1>1, <4>1 DEF InLine
    <3>3. CASE p # q
      BY <2>1, <3>1, <3>3 DEF InLine
    <3>4. QED
      BY <3>2, <3>3
  <2>6. \A i \in Job : pc'[i] = IF i = Head(list) THEN "launched"
                                ELSE IF i = j THEN "idle" ELSE pc[i]
    BY <1>1, <1>3, <2>2
  <2>7. \A i \in Job : /\ pc'[i] \in {pc[i], "idle", "launched"}
                       /\ i # j /\ Active(i) => Active(i)'
    BY <2>6 DEF Active
  <2>8. ASSUME NEW i \in Job, InLine(i)
        PROVE  InLine(i)' \/ pc'[i] = "launched"
    BY <2>5, <2>6, <2>8
  <2>9. ASSUME NEW i \in Job, pc'[i] = "launched"
        PROVE  pc[i] = "launched" \/ InLine(i)
    <3>1. CASE i = Head(list)
      BY <2>3, <3>1
    <3>2. CASE i # Head(list)
      BY <2>6, <2>9, <3>2
    <3>3. QED
      BY <3>1, <3>2
  <2>10. QED
    BY <2>4, <2>7, <2>8, <2>9
<1>4. QED
  BY <1>2, <1>3 DEF NextJob

\* Cancel takes nobody but its job out of a queue.
LEMMA CancelLine ==
  ASSUME IInv, NEW c \in Canceler, CancelLocked(c)
  PROVE  /\ \A i \in Job : InLine(i)' => InLine(i)
         /\ \A i \in Job : InLine(i) => InLine(i)' \/ Dropped(c, i)'
<1> DEFINE j == cancel[c].job
           q == queueOf[j]
           Caller == [at : {"no", "read", "drop", "signal"},
                      job : Job \cup {None}, hit : Job \cup {None}]
<1>1. /\ pending \in [Queue -> Seq(Job)] /\ cancel \in [Canceler -> Caller]
      /\ queueOf \in [Job -> Queue]
  BY DEF IInv, TypeOK
<1>2. CASE UNCHANGED pending
  BY <1>2 DEF InLine
<1>3. ASSUME NEW n \in DOMAIN pending[q], pending[q][n] = j, q \in Queue,
             pending' = [pending EXCEPT ![q] = RemoveAt(@, n)],
             cancel' = [cancel EXCEPT ![c].at = "drop"]
      PROVE  /\ \A i \in Job : InLine(i)' => InLine(i)
             /\ \A i \in Job : InLine(i) => InLine(i)' \/ Dropped(c, i)'
  <2> DEFINE s == pending[q]
             r == RemoveAt(s, n)
  <2>1. s \in Seq(Job) /\ n \in DOMAIN s
    BY <1>1, <1>3
  <2>2. /\ r \in Seq(Job) /\ Len(r) = Len(s) - 1
        /\ \A k \in 1..(Len(s) - 1) : r[k] = s[IF k < n THEN k ELSE k + 1]
    BY <2>1, RemoveAtLemma
  <2>3. pending'[q] = r /\ \A p \in Queue : p # q => pending'[p] = pending[p]
    BY <1>1, <1>3
  <2> HIDE DEF r
  <2>4. \A k \in DOMAIN r : \E m \in DOMAIN s : r[k] = s[m]
    BY <2>1, <2>2
  <2>5. ASSUME NEW m \in DOMAIN s, m # n
        PROVE  \E k \in DOMAIN r : r[k] = s[m]
    <3>1. CASE m < n
      <4>1. m \in DOMAIN r /\ r[m] = s[m]
        BY <2>1, <2>2, <3>1
      <4>2. QED
        BY <4>1
    <3>2. CASE m > n
      <4>1. m - 1 \in 1..(Len(s) - 1) /\ ~(m - 1 < n) /\ (m - 1) + 1 = m
        BY <2>1, <3>2
      <4>2. DOMAIN r = 1..(Len(s) - 1)
        BY <2>2
      <4>3. r[m - 1] = s[IF m - 1 < n THEN m - 1 ELSE (m - 1) + 1]
        BY <2>2, <4>1, Zenon
      <4>4. QED
        BY <4>1, <4>2, <4>3
    <3>3. QED
      BY <2>1, <2>5, <3>1, <3>2
  <2>6. cancel'[c].at = "drop" /\ cancel'[c].job = j
    BY <1>1, <1>3
  <2> HIDE DEF j, q
  <2>7. ASSUME NEW i \in Job, InLine(i)'
        PROVE  InLine(i)
    BY <1>3, <2>3, <2>4, <2>7 DEF InLine
  <2>8. ASSUME NEW i \in Job, InLine(i), i # j
        PROVE  InLine(i)'
    BY <1>3, <2>3, <2>5, <2>8 DEF InLine
  <2>9. QED
    BY <2>6, <2>7, <2>8 DEF Dropped
<1>4. j \in Job /\ q \in Queue
  BY <1>1 DEF CancelLocked, IInv, CancelInv
<1>5. QED
  BY <1>2, <1>3, <1>4 DEF CancelLocked, Without
-----------------------------------------------------------------------------
(* Nothing is lost *)

Held(j) == \/ j \in todo \cup created
           \/ Active(j) \/ InLine(j)
           \/ \E c \in Canceler : Dropped(c, j)

\* A goroutine that leaves has recorded its outcome, or is stopped with the
\* service: the row it lets go of is nobody's business any more.
HeldInv ==
  /\ phase \in {"recover", "serve"} => \A j \in Unfinished : Held(j)
  /\ \A j \in Job : /\ pc[j] = "leaving" => Done(status[j])
                    /\ pc[j] = "abandoned" => phase = "closed"

LEMMA HeldService ==
  ASSUME ~DBMayFail, IInv, HeldInv, ServiceSteps
  PROVE  HeldInv'
<1> USE DEF HeldInv
<1>1. CASE Boot
  <2>1. /\ phase = "down" /\ todo' = Unfinished' /\ pc' = pc
    BY <1>1 DEF Boot, RecoveredRows, rows, queues, Unfinished
  <2>2. \A j \in Job : pc'[j] = "idle"
    BY <2>1 DEF IInv, DownInv, Active
  <2>3. QED
    BY <2>1, <2>2 DEF Held
<1>2. CASE Serve
  <2>1. phase = "recover" /\ phase' = "serve"
    BY <1>2 DEF Serve
  <2>2. Unfinished' = Unfinished
    BY <1>2 DEF Serve, rows, Unfinished
  <2>3. \A j \in Job : Held(j) => Held(j)'
    BY <1>2 DEF Serve, memory, Held, Active, InLine, Dropped
  <2>4. UNCHANGED <<status, pc>>
    BY <1>2 DEF Serve, rows, memory
  <2>5. QED
    BY <2>1, <2>2, <2>3, <2>4 DEF Unfinished
<1>3. CASE Close
  BY <1>3 DEF Close, rows
<1>4. CASE Exit
  BY <1>4 DEF Exit, rows
<1>5. QED
  BY <1>1, <1>2, <1>3, <1>4 DEF ServiceSteps

LEMMA HeldJob ==
  ASSUME ~DBMayFail, IInv, HeldInv, NEW j \in Job, JobSteps(j)
  PROVE  HeldInv'
<1>1. status \in [Job -> Status] /\ pc \in [Job -> Place]
  BY DEF IInv, TypeOK
<1> USE DEF HeldInv, Unfinished, Done, Outcome
<1>2. ASSUME Enqueue(j), UNCHANGED <<status, phase, cancel>>,
             todo' \cup created' = (todo \cup created) \ {j}
      PROVE  HeldInv'
  <2>1. ASSUME NEW i \in Job, Held(i), phase # "closed"
        PROVE  Held(i)'
    BY <1>2, <2>1, EnqueueLine DEF Held, Active, Dropped
  <2>2. QED
    BY <1>2, <2>1, EnqueueLine
<1>3. CASE StartEnqueue(j)
  <2>1. HandInv
    BY DEF IInv
  <2>2. todo' \cup created' = (todo \cup created) \ {j}
    BY <1>3, <2>1 DEF StartEnqueue, HandInv
  <2>3. QED
    BY <1>2, <1>3, <2>2 DEF StartEnqueue, rows
<1>4. CASE RecoverJob(j)
  <2>1. HandInv
    BY DEF IInv
  <2>2. /\ todo' \cup created' = (todo \cup created) \ {j}
        /\ created' = created /\ UNCHANGED <<phase, cancel>>
    BY <1>4, <2>1 DEF RecoverJob, HandInv
  <2>3. CASE Enqueue(j) /\ UNCHANGED status
    BY <1>2, <2>2, <2>3
  <2>4. CASE FinishJob(j, "interrupted", DBMayFail) /\ UNCHANGED <<queues, pc>>
    <3>1. status' = [status EXCEPT ![j] = "interrupted"]
      BY <2>4 DEF FinishJob
    <3>2. \A i \in Job : i # j /\ Held(i) => Held(i)'
      BY <2>2, <2>4 DEF Held, Active, InLine, Dropped, queues
    <3>3. QED
      BY <1>1, <2>2, <2>4, <3>1, <3>2
  <2>5. QED
    BY <1>4, <2>3, <2>4 DEF RecoverJob, queues
<1>5. CASE Begin(j)
  <2>1. /\ pc[j] = "launched" /\ pc' = [pc EXCEPT ![j] = "running"]
        /\ status' = [status EXCEPT ![j] = "running"]
        /\ UNCHANGED <<phase, todo, pending, created, cancel>>
    BY <1>5 DEF Begin, queues
  <2>2. \A i \in Job : Held(i) => Held(i)'
    BY <1>1, <2>1 DEF Held, Active, InLine, Dropped
  <2>3. Held(j)
    BY <2>1 DEF Held, Active
  <2>4. QED
    BY <1>1, <2>1, <2>2, <2>3
<1>6. ASSUME NEW failed \in BOOLEAN, Return(j, failed)
      PROVE  HeldInv'
  <2>1. /\ pc[j] = "running"
        /\ pc' = [pc EXCEPT ![j] = Verdict(j, failed)]
        /\ UNCHANGED <<status, phase, todo, pending, created, cancel>>
    BY <1>6 DEF Return, rows, queues
  <2>2. /\ Verdict(j, failed) \in {"abandoned", "canceled", "failed", "succeeded"}
        /\ Verdict(j, failed) = "abandoned" => phase = "closed"
    BY DEF Verdict
  <2>3. \A i \in Job : Held(i) => Held(i)'
    BY <1>1, <2>1, <2>2 DEF Held, Active, InLine, Dropped
  <2>4. QED
    BY <1>1, <2>1, <2>2, <2>3
<1>7. CASE Record(j)
  <2>1. /\ pc[j] \in Outcome /\ pc' = [pc EXCEPT ![j] = "leaving"]
        /\ status' = [status EXCEPT ![j] = pc[j]]
        /\ UNCHANGED <<phase, todo, pending, created, cancel>>
    BY <1>7 DEF Record, FinishJob, queues
  <2>2. \A i \in Job : Held(i) => Held(i)'
    BY <1>1, <2>1 DEF Held, Active, InLine, Dropped
  <2>3. QED
    BY <1>1, <2>1, <2>2
<1>8. CASE NextJob(j)
  <2>1. /\ pc[j] \in {"leaving", "abandoned"}
        /\ UNCHANGED <<status, phase, todo, created, cancel>>
    BY <1>8 DEF NextJob, rows
  <2>2. ASSUME NEW i \in Unfinished, phase \in {"recover", "serve"}
        PROVE  Held(i)'
    <3>1. i # j /\ i \in Job /\ Held(i)
      BY <2>1, <2>2
    <3>2. QED
      BY <1>8, <2>1, <2>2, <3>1, NextLine DEF Held, Active, Dropped
  <2>3. QED
    BY <1>1, <1>8, <2>1, <2>2, NextLine
<1>9. ASSUME NEW q \in Queue, NEW k \in Kind, NewRow(j, q, k)
      PROVE  HeldInv'
  <2>1. /\ status[j] = "none" /\ status' = [status EXCEPT ![j] = "queued"]
        /\ created' = created \cup {j}
        /\ UNCHANGED <<phase, todo, pending, pc, cancel>>
    BY <1>9 DEF NewRow, queues
  <2>2. \A i \in Job : Held(i) => Held(i)'
    BY <2>1 DEF Held, Active, InLine, Dropped
  <2>3. Held(j)'
    BY <2>1 DEF Held
  <2>4. QED
    BY <1>1, <2>1, <2>2, <2>3
<1>10. QED
  BY <1>3, <1>4, <1>5, <1>6, <1>7, <1>8, <1>9 DEF JobSteps

LEMMA HeldCancel ==
  ASSUME ~DBMayFail, ~ClientMayLeave, IInv, HeldInv, NEW c \in Canceler, CancelSteps(c)
  PROVE  HeldInv'
<1> DEFINE Caller == [at : {"no", "read", "drop", "signal"},
                      job : Job \cup {None}, hit : Job \cup {None}]
<1>1. /\ status \in [Job -> Status] /\ pc \in [Job -> Place]
      /\ cancel \in [Canceler -> Caller]
  BY DEF IInv, TypeOK
<1> USE DEF HeldInv, Unfinished, Done, Outcome
<1>2. ASSUME NEW j \in Job, CancelRead(c, j)
      PROVE  HeldInv'
  <2>1. UNCHANGED <<status, phase, todo, created, pc, pending>>
    BY <1>2 DEF CancelRead, rows, queues
  <2>2. \A i \in Job : Held(i) => Held(i)'
    BY <1>1, <1>2, <2>1 DEF CancelRead, Held, Active, InLine, Dropped
  <2>3. QED
    BY <2>1, <2>2
<1>3. CASE CancelLocked(c)
  <2>1. UNCHANGED <<status, phase, todo, created, pc>> /\ cancel[c].at = "read"
    BY <1>3 DEF CancelLocked, rows
  <2>2. \A d \in Canceler : d # c => cancel'[d] = cancel[d]
    BY <1>1, <1>3 DEF CancelLocked
  <2>3. \A i \in Job : Held(i) => Held(i)'
    BY <1>3, <2>1, <2>2, CancelLine DEF Held, Active, Dropped
  <2>4. QED
    BY <2>1, <2>3
<1>4. CASE CancelDrop(c)
  <2>1. /\ status' = [status EXCEPT ![cancel[c].job] = "canceled"]
        /\ cancel' = [cancel EXCEPT ![c] = NotCanceling]
        /\ UNCHANGED <<phase, todo, created, pc, pending>>
    BY <1>4 DEF CancelDrop, FinishJob, queues
  <2>2. \A i \in Job : i # cancel[c].job /\ Held(i) => Held(i)'
    BY <1>1, <2>1 DEF Held, Active, InLine, Dropped
  <2>3. QED
    BY <1>1, <2>1, <2>2
<1>5. CASE CancelSignal(c)
  <2>1. /\ UNCHANGED <<status, phase, todo, created, pc, pending>>
        /\ cancel[c].at = "signal" /\ cancel' = [cancel EXCEPT ![c] = NotCanceling]
    BY <1>5 DEF CancelSignal, rows, queues
  <2>2. \A i \in Job : Held(i) => Held(i)'
    BY <1>1, <2>1 DEF Held, Active, InLine, Dropped
  <2>3. QED
    BY <2>1, <2>2
<1>6. QED
  BY <1>2, <1>3, <1>4, <1>5 DEF CancelSteps

\* As long as the database answers, and nobody leaves in the middle of a call
\* of Cancel, no unfinished row of a service at work is out of everybody's
\* hands: not of Recover's, Start's, a goroutine's, a queue's or Cancel's.
THEOREM NoJobIsLost ==
  ASSUME ~DBMayFail, ~ClientMayLeave
  PROVE  Spec => []NothingLost
<1>1. Init => HeldInv
  BY DEF Init, HeldInv, Unfinished
<1>2. IInv /\ HeldInv /\ [Next]_vars => HeldInv'
  <2>1. UNCHANGED vars /\ HeldInv => HeldInv'
    <3>1. ASSUME UNCHANGED vars
          PROVE  /\ Unfinished' = Unfinished
                 /\ \A j \in Job : Held(j)' <=> Held(j)
      BY <3>1 DEF vars, Unfinished, Held, Active, InLine, Dropped
    <3>2. QED
      BY <3>1 DEF vars, HeldInv, Unfinished, Done
  <2>2. QED
    BY <2>1, Steps, HeldService, HeldJob, HeldCancel
<1>3. HeldInv => NothingLost
  BY WaitingInLine DEF HeldInv, NothingLost, Held, Unfinished
<1>4. QED
  BY <1>1, <1>2, <1>3, Invariance, PTL DEF Spec
-----------------------------------------------------------------------------
(* Nothing is continued more often than it may be *)

\* Jobs whose runner is going to be started.
Launchable(j) == j \in created \/ InLine(j) \/ pc[j] = "launched"

\* A job whose runner is going to be started was begun at most once for every
\* continuation that was counted, the first start apart.
CountOK(j) ==
  /\ status[j] = "none" => begun[j] = 0 /\ resumes[j] = 0
  /\ Launchable(j) => IF kindOf[j] = "resumable"
                      THEN begun[j] <= resumes[j] /\ resumes[j] <= MaxResumes
                      ELSE begun[j] = 0
  /\ kindOf[j] = "resumable" =>
       begun[j] <= resumes[j] + 1 /\ begun[j] <= MaxResumes + 1
  /\ kindOf[j] # "resumable" => begun[j] <= 1
CountInv == \A j \in Job : CountOK(j)

\* A step that begins nothing, and makes nothing launchable, keeps the counts.
LEMMA CountStays ==
  ASSUME CountInv, UNCHANGED <<kindOf, resumes, begun>>,
         \A j \in Job : status'[j] = "none" => status[j] = "none",
         \A j \in Job : Launchable(j)' => Launchable(j)
  PROVE  CountInv'
BY DEF CountInv, CountOK

\* Bring forward what is known of the numbers.
LEMMA CountTypes ==
  ASSUME IInv
  PROVE  /\ status \in [Job -> Status] /\ pc \in [Job -> Place]
         /\ kindOf \in [Job -> Kind]
         /\ resumes \in [Job -> Nat] /\ begun \in [Job -> Nat] /\ MaxResumes \in Nat
BY ConstantsAssumption DEF IInv, TypeOK

LEMMA CountService ==
  ASSUME IInv, CountInv, ServiceSteps
  PROVE  CountInv'
<1>1. UNCHANGED <<status, kindOf, resumes, begun>>
  BY DEF ServiceSteps, Boot, Serve, Close, Exit, rows
<1>2. ASSUME NEW j \in Job, Launchable(j)'
      PROVE  Launchable(j)
  <2>1. CASE Exit
    BY <1>2, <2>1 DEF Exit, Launchable, InLine
  <2>2. CASE Boot \/ Serve \/ Close
    <3>1. UNCHANGED <<created, pending, pc>>
      BY <2>2 DEF Boot, Serve, Close, memory, queues
    <3>2. QED
      BY <1>2, <3>1 DEF Launchable, InLine
  <2>3. QED
    BY <2>1, <2>2 DEF ServiceSteps
<1>3. QED
  BY <1>1, <1>2, CountStays

LEMMA CountCancel ==
  ASSUME IInv, CountInv, NEW c \in Canceler, CancelSteps(c)
  PROVE  CountInv'
<1>1. /\ UNCHANGED <<kindOf, resumes, begun, created, pc>>
      /\ \A j \in Job : status'[j] = "none" => status[j] = "none"
  BY CountTypes DEF CancelSteps, CancelRead, CancelLocked, CancelDrop, CancelSignal,
                    FinishJob, rows
<1>2. ASSUME NEW j \in Job, InLine(j)'
      PROVE  InLine(j)
  <2>1. CASE CancelLocked(c)
    BY <1>2, <2>1, CancelLine
  <2>2. CASE (\E i \in Job : CancelRead(c, i)) \/ CancelDrop(c) \/ CancelSignal(c)
    <3>1. UNCHANGED pending
      BY <2>2 DEF CancelRead, CancelDrop, CancelSignal, queues
    <3>2. QED
      BY <1>2, <3>1 DEF InLine
  <2>3. QED
    BY <2>1, <2>2 DEF CancelSteps
<1>3. QED
  BY <1>1, <1>2, CountStays DEF Launchable

LEMMA CountRecover ==
  ASSUME ~DBMayFail, IInv, CountInv, NEW j \in Job, RecoverJob(j)
  PROVE  CountInv'
<1>1. /\ UNCHANGED <<kindOf, begun, created>>
      /\ \A i \in Job : status'[i] = "none" => status[i] = "none"
  BY CountTypes DEF RecoverJob, FinishJob
<1>2. Open(j)
  BY DEF RecoverJob, IInv, HandInv
<1>3. CASE /\ kindOf[j] # "resumable"
           /\ UNCHANGED <<resumes, queues, pc>>
  BY <1>1, <1>3, CountStays DEF queues, Launchable, InLine
<1>4. CASE /\ kindOf[j] = "resumable"
           /\ resumes' = [resumes EXCEPT ![j] = resumes[j] + 1]
           /\ resumes[j] + 1 > MaxResumes
           /\ UNCHANGED <<queues, pc>>
  <2>1. \A i \in Job : Launchable(i)' <=> Launchable(i)
    BY <1>1, <1>4 DEF queues, Launchable, InLine
  <2>2. ~Launchable(j)
    <3>1. /\ j \in todo /\ created \cap todo = {} /\ pc[j] = "idle"
      BY DEF RecoverJob, IInv, HandInv, Active
    <3>2. ~InLine(j)
      BY <3>1 DEF IInv, LineInv, LineOK, InLine
    <3>3. QED
      BY <3>1, <3>2 DEF Launchable
  <2>3. ASSUME NEW i \in Job
        PROVE  CountOK(i)'
    BY <1>1, <1>2, <1>4, <2>1, <2>2, <2>3, CountTypes DEF CountInv, CountOK, Open
  <2>4. QED
    BY <2>3 DEF CountInv
<1>5. CASE /\ kindOf[j] = "resumable"
           /\ resumes' = [resumes EXCEPT ![j] = resumes[j] + 1]
           /\ resumes[j] + 1 <= MaxResumes
           /\ Enqueue(j) /\ UNCHANGED status
  <2>1. \A i \in Job : Launchable(i)' => Launchable(i) \/ i = j
    BY <1>1, <1>5, EnqueueLine DEF Launchable
  <2>2. ASSUME NEW i \in Job
        PROVE  CountOK(i)'
    BY <1>1, <1>2, <1>5, <2>1, <2>2, CountTypes DEF CountInv, CountOK, Open
  <2>3. QED
    BY <2>2 DEF CountInv
<1>6. QED
  BY <1>3, <1>4, <1>5, CountTypes DEF RecoverJob, CountResume

LEMMA CountJob ==
  ASSUME ~DBMayFail, IInv, CountInv, NEW j \in Job, JobSteps(j)
  PROVE  CountInv'
<1>1. CASE StartEnqueue(j)
  <2>1. j \in created /\ UNCHANGED rows /\ begun' = begun /\ created' \subseteq created
    BY <1>1 DEF StartEnqueue
  <2>2. \A i \in Job : Launchable(i)' => Launchable(i)
    BY <1>1, <2>1, EnqueueLine DEF StartEnqueue, Launchable
  <2>3. QED
    BY <2>1, <2>2, CountStays DEF rows
<1>2. CASE RecoverJob(j)
  BY <1>2, CountRecover
<1>3. CASE Begin(j)
  <2>1. /\ pc[j] = "launched" /\ pc' = [pc EXCEPT ![j] = "running"]
        /\ begun' = [begun EXCEPT ![j] = @ + 1]
        /\ status' = [status EXCEPT ![j] = "running"]
        /\ UNCHANGED <<kindOf, resumes, created, pending>>
    BY <1>3 DEF Begin, queues
  <2>2. ~Launchable(j)' /\ Launchable(j)
    <3>1. Active(j)
      BY <2>1 DEF Active
    <3>2. j \notin created /\ ~InLine(j)
      BY <3>1 DEF IInv, HandInv, LineInv, LineOK, InLine
    <3>3. pc'[j] # "launched" /\ created' = created /\ ~InLine(j)'
      BY <2>1, <3>2, CountTypes DEF InLine
    <3>4. QED
      BY <2>1, <3>2, <3>3 DEF Launchable
  <2>3. \A i \in Job : i # j => (Launchable(i)' <=> Launchable(i))
    BY <2>1, CountTypes DEF Launchable, InLine
  <2>4. ASSUME NEW i \in Job
        PROVE  CountOK(i)'
    <3>1. CASE i = j
      BY <2>1, <2>2, <3>1, CountTypes DEF CountInv, CountOK
    <3>2. CASE i # j
      BY <2>1, <2>3, <3>2, CountTypes DEF CountInv, CountOK
    <3>3. QED
      BY <3>1, <3>2
  <2>5. QED
    BY <2>4 DEF CountInv
<1>4. CASE Record(j) \/ \E failed \in BOOLEAN : Return(j, failed)
  <2>1. /\ UNCHANGED <<kindOf, resumes, begun, created, pending>>
        /\ \A i \in Job : status'[i] = "none" => status[i] = "none"
        /\ \A i \in Job : pc'[i] = "launched" => pc[i] = "launched"
    BY <1>4, CountTypes DEF Record, FinishJob, Return, Verdict, Outcome, rows, queues
  <2>2. QED
    BY <2>1, CountStays DEF Launchable, InLine
<1>5. CASE NextJob(j)
  <2>1. UNCHANGED rows /\ begun' = begun /\ created' = created
    BY <1>5 DEF NextJob
  <2>2. \A i \in Job : Launchable(i)' => Launchable(i)
    BY <1>5, <2>1, NextLine DEF Launchable
  <2>3. QED
    BY <2>1, <2>2, CountStays DEF rows
<1>6. ASSUME NEW q \in Queue, NEW k \in Kind, NewRow(j, q, k)
      PROVE  CountInv'
  <2>1. /\ status[j] = "none" /\ status' = [status EXCEPT ![j] = "queued"]
        /\ kindOf' = [kindOf EXCEPT ![j] = k]
        /\ created' = created \cup {j}
        /\ UNCHANGED <<resumes, begun, pending, pc>>
    BY <1>6 DEF NewRow, queues
  <2>2. \A i \in Job : i # j => (Launchable(i)' <=> Launchable(i))
    BY <2>1 DEF Launchable, InLine
  <2>3. ASSUME NEW i \in Job
        PROVE  CountOK(i)'
    <3>1. CASE i = j
      BY <2>1, <3>1, CountTypes DEF CountInv, CountOK
    <3>2. CASE i # j
      BY <2>1, <2>2, <3>2, CountTypes DEF CountInv, CountOK
    <3>3. QED
      BY <3>1, <3>2
  <2>4. QED
    BY <2>3 DEF CountInv
<1>7. QED
  BY <1>1, <1>2, <1>3, <1>4, <1>5, <1>6 DEF JobSteps

\* As long as the database answers, a job is never begun more often than
\* maxResumes allows, however often the service stops or crashes under it; one
\* that cannot be continued is begun once.
THEOREM ContinuedAsAllowed ==
  ASSUME ~DBMayFail
  PROVE  Spec => []ContinuedBoundedly
<1>1. Init => CountInv
  BY ConstantsAssumption DEF Init, CountInv, CountOK, Launchable, InLine
<1>2. IInv /\ CountInv /\ [Next]_vars => CountInv'
  <2>1. UNCHANGED vars /\ CountInv => CountInv'
    BY CountStays DEF vars, Launchable, InLine
  <2>2. QED
    BY <2>1, Steps, CountService, CountJob, CountCancel
<1>3. CountInv => ContinuedBoundedly
  BY DEF CountInv, CountOK, ContinuedBoundedly
<1>4. QED
  BY <1>1, <1>2, <1>3, Invariance, PTL DEF Spec
-----------------------------------------------------------------------------
(* The manager implements JobQueue: every step, faults and restarts included, is
   a step of the lines or leaves them alone. *)

\* The refinement mapping, as JobManager writes it.
LineOf(q) == IF running[q] = None THEN <<>> ELSE <<running[q]>> \o pending[q]
line == [q \in Queue |-> LineOf(q)]
ended == {j \in Job : Done(status[j])}

LEMMA MappedInit == Init => Lines!Init
BY JobFact DEF Init, Lines!Init, Done, Outcome

\* What a line consists of.
LEMMA LineShape ==
  ASSUME IInv, NEW q \in Queue
  PROVE  /\ line[q] \in Seq(Job)
         /\ running[q] = None => line[q] = <<>> /\ pending[q] = <<>>
         /\ running[q] # None => /\ running[q] \in Job /\ Active(running[q])
                                 /\ Len(line[q]) = Len(pending[q]) + 1
                                 /\ line[q][1] = running[q]
                                 /\ \A i \in 1..Len(pending[q]) : line[q][i + 1] = pending[q][i]
         /\ pending[q] \in Seq(Job)
<1>1. running[q] \in Job \cup {None} /\ pending[q] \in Seq(Job)
  BY DEF IInv, TypeOK
<1>2. CASE running[q] = None
  <2>1. pending[q] = <<>>
    BY <1>2 DEF IInv, LineInv, LineOK
  <2>2. QED
    BY <1>1, <1>2, <2>1 DEF line, LineOf
<1>3. CASE running[q] # None
  <2>1. running[q] \in Job /\ Active(running[q])
    BY <1>1, <1>3 DEF IInv, KeyInv
  <2>2. line[q] = <<running[q]>> \o pending[q]
    BY <1>3 DEF line, LineOf
  <2>3. QED
    BY <1>1, <1>3, <2>1, <2>2, BehindLemma
<1>4. QED
  BY <1>2, <1>3

\* Who is not being executed and does not wait is in no line.
LEMMA NotInALine ==
  ASSUME IInv, NEW j \in Job, ~Active(j), ~InLine(j)
  PROVE  \A q \in Queue : j \notin ToSet(line[q])
<1> SUFFICES ASSUME NEW q \in Queue, NEW i \in DOMAIN line[q], line[q][i] = j
             PROVE  FALSE
  BY DEF ToSet
<1>1. running[q] # None
  BY LineShape
<1>2. i \in 1..(Len(pending[q]) + 1) /\ Len(pending[q]) \in Nat
  BY <1>1, LineShape
<1>3. CASE i = 1
  BY <1>1, <1>3, LineShape
<1>4. CASE i # 1
  <2>1. i - 1 \in 1..Len(pending[q]) /\ (i - 1) + 1 = i
    BY <1>2, <1>4
  <2>2. line[q][(i - 1) + 1] = pending[q][i - 1]
    BY <1>1, <2>1, LineShape
  <2>3. i - 1 \in DOMAIN pending[q] /\ pending[q][i - 1] = j
    BY <2>1, <2>2, LineShape
  <2>4. QED
    BY <2>3 DEF InLine
<1>5. QED
  BY <1>3, <1>4

\* The outcome of a job that does not wait is recorded, or the write fails.
LEMMA MappedFinish ==
  ASSUME IInv, NEW j \in Job, NEW s \in Outcome, NEW mayFail,
         FinishJob(j, s, mayFail), UNCHANGED queues, Open(j), ~InLine(j)
  PROVE  Lines!Conclude(j) \/ UNCHANGED <<line, ended>>
<1>1. UNCHANGED line
  BY DEF line, LineOf, queues
<1>2. CASE UNCHANGED status
  BY <1>1, <1>2 DEF ended, Done
<1>3. CASE status' = [status EXCEPT ![j] = s]
  <2>1. status \in [Job -> Status]
    BY DEF IInv, TypeOK
  <2>2. j \notin ended /\ ended' = ended \cup {j}
    BY <1>3, <2>1 DEF ended, Done, Open, Outcome
  <2>3. ASSUME NEW q \in Queue, NEW i \in 2..Len(line[q])
        PROVE  line[q][i] # j
    <3>1. running[q] # None /\ Len(pending[q]) \in Nat
      BY LineShape
    <3>2. i - 1 \in 1..Len(pending[q]) /\ (i - 1) + 1 = i
      BY <3>1, LineShape
    <3>3. line[q][(i - 1) + 1] = pending[q][i - 1] /\ i - 1 \in DOMAIN pending[q]
      BY <3>1, <3>2, LineShape
    <3>4. QED
      BY <3>2, <3>3 DEF InLine
  <2>4. QED
    BY <1>1, <2>2, <2>3 DEF Lines!Conclude, line, LineOf, ended
<1>4. QED
  BY <1>2, <1>3 DEF FinishJob
-----------------------------------------------------------------------------
(* What each step does to the lines *)

LEMMA MappedEnqueue ==
  ASSUME IInv, NEW j \in Job, Enqueue(j), UNCHANGED <<status, queueOf>>,
         Open(j), ~Active(j), ~InLine(j)
  PROVE  Lines!Next \/ UNCHANGED <<line, ended>>
<1>0. PICK q \in Queue : q = queueOf[j]
  BY DEF IInv, TypeOK
<1>1. running \in [Queue -> Job \cup {None}] /\ pending \in [Queue -> Seq(Job)]
  BY DEF IInv, TypeOK
<1>2. UNCHANGED ended
  BY DEF ended, Done
<1>3. ~Lines!InALine(j) /\ j \notin ended
  BY NotInALine DEF Lines!InALine, Lines!ToSet, ToSet, ended, Open, Done, Outcome, line, LineOf
<1>4. CASE UNCHANGED queues
  BY <1>2, <1>4 DEF line, LineOf, queues
<1>5. ASSUME \A p \in Queue : p # q => LineOf(p)' = LineOf(p),
             LineOf(q)' = Append(LineOf(q), j)
      PROVE  Lines!Next
  <2>1. line' = [line EXCEPT ![q] = Append(@, j)]
    BY <1>1, <1>5 DEF line
  <2>2. Lines!Accept(j, q)
    BY <1>2, <1>3, <2>1 DEF Lines!Accept, line, LineOf, ended
  <2>3. QED
    BY <1>1, <2>2 DEF Lines!Next
<1>6. CASE /\ running[q] # None
           /\ pending' = [pending EXCEPT ![q] = Append(@, j)]
           /\ UNCHANGED running
  <2>1. running[q] \in Job /\ pending[q] \in Seq(Job)
    BY <1>1, <1>6
  <2>2. LineOf(q)' = <<running[q]>> \o Append(pending[q], j)
    BY <1>1, <1>6 DEF LineOf
  <2>3. LineOf(q) = <<running[q]>> \o pending[q]
    BY <1>6 DEF LineOf
  <2>4. LineOf(q)' = Append(LineOf(q), j)
    BY <2>1, <2>2, <2>3, BehindLemma
  <2>5. \A p \in Queue : p # q => LineOf(p)' = LineOf(p)
    BY <1>1, <1>6 DEF LineOf
  <2>6. QED
    BY <1>5, <2>4, <2>5
<1>7. CASE /\ running[q] = None
           /\ running' = [running EXCEPT ![q] = j]
           /\ UNCHANGED pending
  <2>1. pending[q] = <<>> /\ j # None
    BY <1>1, <1>7, LineShape, JobFact
  <2>2. LineOf(q)' = <<j>> \o <<>> /\ LineOf(q) = <<>>
    BY <1>1, <1>7, <2>1 DEF LineOf
  <2>3. LineOf(q)' = Append(LineOf(q), j)
    BY <2>2
  <2>4. \A p \in Queue : p # q => LineOf(p)' = LineOf(p)
    BY <1>1, <1>7 DEF LineOf
  <2>5. QED
    BY <1>5, <2>3, <2>4
<1>8. QED
  BY <1>0, <1>4, <1>6, <1>7 DEF Enqueue, Busy, Join, queues

LEMMA MappedNextJob ==
  ASSUME IInv, NEW j \in Job, NextJob(j)
  PROVE  Lines!Next
<1>0. PICK q \in Queue : q = queueOf[j]
  BY DEF IInv, TypeOK
<1> DEFINE list == pending[q]
<1>1. /\ list \in Seq(Job)
      /\ running \in [Queue -> Job \cup {None}] /\ pending \in [Queue -> Seq(Job)]
  BY DEF IInv, TypeOK
<1>2. running[q] = j /\ j # None /\ UNCHANGED ended
  BY <1>0, JobFact DEF NextJob, rows, ended, Done, IInv, KeyInv, Active
<1>3. LineOf(q) = <<j>> \o list
  BY <1>2 DEF LineOf
<1>4. CASE /\ running' = [running EXCEPT ![q] = None]
           /\ pending' = [pending EXCEPT ![q] = <<>>]
  <2>1. LineOf(q)' = <<>> /\ \A p \in Queue : p # q => LineOf(p)' = LineOf(p)
    BY <1>1, <1>4 DEF LineOf
  <2>2. line' = [p \in Queue |-> IF p \in {q} THEN <<>> ELSE line[p]]
    BY <1>1, <2>1 DEF line
  <2>3. Lines!Stop({q})
    BY <1>2, <2>2 DEF Lines!Stop, line, LineOf, ended
  <2>4. QED
    BY <1>1, <2>3 DEF Lines!Next
<1>5. CASE /\ list # <<>>
           /\ running' = [running EXCEPT ![q] = Head(list)]
           /\ pending' = [pending EXCEPT ![q] = Tail(list)]
  <2>1. Head(list) \in Job /\ <<Head(list)>> \o Tail(list) = list /\ Head(list) # None
    BY <1>1, <1>5, HeadTailProperties, AheadLemma, JobFact
  <2>2. LineOf(q)' = list
    BY <1>1, <1>5, <2>1 DEF LineOf
  <2>3. Tail(LineOf(q)) = list /\ LineOf(q) # <<>>
    BY <1>1, <1>3, BehindLemma
  <2>4. \A p \in Queue : p # q => LineOf(p)' = LineOf(p)
    BY <1>1, <1>5 DEF LineOf
  <2> HIDE DEF list
  <2>5. line' = [line EXCEPT ![q] = Tail(@)] /\ line[q] # <<>>
    BY <1>1, <2>2, <2>3, <2>4 DEF line
  <2>6. Lines!Advance(q)
    BY <1>2, <2>5 DEF Lines!Advance, line, LineOf, ended
  <2>7. QED
    BY <1>1, <2>6 DEF Lines!Next
<1>6. QED
  BY <1>0, <1>4, <1>5 DEF NextJob

LEMMA MappedCancelLocked ==
  ASSUME IInv, NEW c \in Canceler, CancelLocked(c)
  PROVE  Lines!Next \/ UNCHANGED <<line, ended>>
<1>1. PICK q \in Queue : q = queueOf[cancel[c].job]
  BY DEF CancelLocked, IInv, TypeOK, CancelInv
<1>2. pending[q] \in Seq(Job) /\ pending \in [Queue -> Seq(Job)]
  BY DEF IInv, TypeOK
<1>3. UNCHANGED <<ended, running>>
  BY DEF CancelLocked, rows, ended, Done
<1>4. CASE UNCHANGED pending
  BY <1>3, <1>4 DEF line, LineOf
<1>5. ASSUME NEW i \in DOMAIN pending[q],
             pending' = [pending EXCEPT ![q] = RemoveAt(@, i)]
      PROVE  Lines!Next
  <2>1. running[q] \in Job /\ running[q] # None
    BY <1>2, <1>5, LineShape
  <2>2. LineOf(q) = <<running[q]>> \o pending[q]
    BY <2>1 DEF LineOf
  <2>3. LineOf(q)' = <<running[q]>> \o RemoveAt(pending[q], i)
    BY <1>2, <1>3, <1>5, <2>1 DEF LineOf
  <2>4. LineOf(q)' = RemoveAt(LineOf(q), i + 1)
    BY <1>2, <2>1, <2>2, <2>3, RemoveBehindLemma
  <2>5. \A p \in Queue : p # q => LineOf(p)' = LineOf(p)
    BY <1>2, <1>3, <1>5 DEF LineOf
  <2>6. line' = [line EXCEPT ![q] = RemoveAt(@, i + 1)]
    BY <1>2, <2>4, <2>5 DEF line
  <2>7. i + 1 \in 2..Len(line[q])
    BY <1>2, <2>1, LineShape
  <2>8. Lines!Withdraw(q, i + 1)
    <3>1. Lines!RemoveAt(line[q], i + 1) = RemoveAt(line[q], i + 1)
      BY DEF Lines!RemoveAt, RemoveAt
    <3>2. QED
      BY <1>3, <2>6, <2>7, <3>1 DEF Lines!Withdraw, line, LineOf, ended
  <2>9. QED
    BY <1>2, <2>7, <2>8 DEF Lines!Next, line, LineOf
<1>6. QED
  BY <1>1, <1>4, <1>5 DEF CancelLocked, Without

LEMMA MappedService ==
  ASSUME IInv, ServiceSteps
  PROVE  Lines!Next \/ UNCHANGED <<line, ended>>
<1>1. UNCHANGED ended
  BY DEF ServiceSteps, Boot, Serve, Close, Exit, rows, ended, Done
<1>2. CASE Boot \/ Serve \/ Close
  BY <1>1, <1>2 DEF Boot, Serve, Close, memory, queues, line, LineOf
<1>3. CASE Exit
  <2>1. line' = [q \in Queue |-> IF q \in Queue THEN <<>> ELSE line[q]]
    BY <1>3 DEF Exit, line, LineOf
  <2>2. Lines!Stop(Queue)
    BY <1>1, <2>1 DEF Lines!Stop, line, LineOf, ended
  <2>3. QED
    BY <2>2 DEF Lines!Next
<1>4. QED
  BY <1>2, <1>3 DEF ServiceSteps

LEMMA MappedJob ==
  ASSUME IInv, NEW j \in Job, JobSteps(j)
  PROVE  Lines!Next \/ UNCHANGED <<line, ended>>
<1>1. ASSUME j \in created \cup todo
      PROVE  Open(j) /\ ~Active(j) /\ ~InLine(j)
  BY <1>1 DEF IInv, HandInv, LineInv, LineOK, InLine
<1>2. ASSUME Active(j)
      PROVE  ~InLine(j)
  BY <1>2 DEF IInv, LineInv, LineOK, InLine
<1>3. status \in [Job -> Status]
  BY DEF IInv, TypeOK
<1>4. CASE StartEnqueue(j)
  BY <1>1, <1>4, MappedEnqueue DEF StartEnqueue, rows
<1>5. CASE RecoverJob(j)
  <2>1. Open(j) /\ ~Active(j) /\ ~InLine(j)
    BY <1>1, <1>5 DEF RecoverJob
  <2>2. CASE Enqueue(j) /\ UNCHANGED status
    BY <1>5, <2>1, <2>2, MappedEnqueue DEF RecoverJob
  <2>3. CASE FinishJob(j, "interrupted", DBMayFail) /\ UNCHANGED queues
    <3>1. Lines!Conclude(j) \/ UNCHANGED <<line, ended>>
      BY <2>1, <2>3, MappedFinish DEF Outcome
    <3>2. QED
      BY <3>1 DEF Lines!Next
  <2>4. QED
    BY <1>5, <2>2, <2>3 DEF RecoverJob
<1>6. CASE Begin(j)
  <2>1. Open(j) /\ UNCHANGED queues
    BY <1>6 DEF Begin, IInv, OpenInv
  <2>2. UNCHANGED ended
    BY <1>3, <1>6, <2>1 DEF Begin, ended, Done, Outcome, Open
  <2>3. QED
    BY <2>1, <2>2 DEF line, LineOf, queues
<1>7. CASE \E failed \in BOOLEAN : Return(j, failed)
  BY <1>7 DEF Return, rows, queues, line, LineOf, ended, Done
<1>8. CASE Record(j)
  <2>1. /\ Open(j) /\ Active(j) /\ pc[j] \in Outcome /\ UNCHANGED queues
        /\ FinishJob(j, pc[j], DBMayFail)
    BY <1>8 DEF Record, IInv, OpenInv, Active, Outcome
  <2>2. Lines!Conclude(j) \/ UNCHANGED <<line, ended>>
    BY <1>2, <2>1, MappedFinish
  <2>3. QED
    BY <2>2 DEF Lines!Next
<1>9. CASE NextJob(j)
  BY <1>9, MappedNextJob
<1>10. ASSUME NEW q \in Queue, NEW k \in Kind, NewRow(j, q, k)
       PROVE  UNCHANGED <<line, ended>>
  <2>1. status[j] = "none" /\ status' = [status EXCEPT ![j] = "queued"] /\ UNCHANGED queues
    BY <1>10 DEF NewRow
  <2>2. UNCHANGED ended
    BY <1>3, <2>1 DEF ended, Done, Outcome
  <2>3. QED
    BY <2>1, <2>2 DEF line, LineOf, queues
<1>11. QED
  BY <1>4, <1>5, <1>6, <1>7, <1>8, <1>9, <1>10 DEF JobSteps

LEMMA MappedCancel ==
  ASSUME IInv, NEW c \in Canceler, CancelSteps(c)
  PROVE  Lines!Next \/ UNCHANGED <<line, ended>>
<1>1. CASE (\E j \in Job : CancelRead(c, j)) \/ CancelSignal(c)
  BY <1>1 DEF CancelRead, CancelSignal, rows, queues, line, LineOf, ended, Done
<1>2. CASE CancelLocked(c)
  BY <1>2, MappedCancelLocked
<1>3. CASE CancelDrop(c)
  <2>1. PICK j \in Job : j = cancel[c].job
    BY <1>3 DEF CancelDrop, IInv, CancelInv
  <2>2. Dropped(c, j)
    BY <1>3, <2>1 DEF CancelDrop, Dropped
  <2>3. Open(j) /\ ~InLine(j)
    BY <2>2 DEF IInv, DropInv, InLine
  <2>4. FinishJob(j, "canceled", DBMayFail \/ ClientMayLeave) /\ UNCHANGED queues
    BY <1>3, <2>1 DEF CancelDrop
  <2>5. Lines!Conclude(j) \/ UNCHANGED <<line, ended>>
    BY <2>3, <2>4, MappedFinish DEF Outcome
  <2>6. QED
    BY <2>5 DEF Lines!Next
<1>4. QED
  BY <1>1, <1>2, <1>3 DEF CancelSteps

\* The manager, with its goroutines, requests that hold no lock over the
\* database, faults, stops and crashes, is a set of lines: a job joins at the
\* end, only the head is executed, only a waiting one is withdrawn, and one with
\* an outcome never stands in a line again.
THEOREM ManagerKeepsLines == Spec => LinesImplemented
<1>1. Init => Lines!Init
  BY MappedInit
<1>2. IInv /\ [Next]_vars => [Lines!Next]_(Lines!vars)
  <2>1. UNCHANGED vars => UNCHANGED <<line, ended>>
    BY DEF vars, line, LineOf, ended, Done
  <2>2. IInv /\ [Next]_vars => Lines!Next \/ UNCHANGED <<line, ended>>
    BY <2>1, Steps, MappedService, MappedJob, MappedCancel
  <2>3. UNCHANGED <<line, ended>> => UNCHANGED Lines!vars
    BY DEF line, LineOf, ended, Lines!vars
  <2>4. QED
    BY <2>2, <2>3
<1>3. QED
  BY <1>1, <1>2, Invariance, PTL DEF Spec, LinesImplemented, Lines!Spec
=============================================================================
