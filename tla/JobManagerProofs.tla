-------------------------- MODULE JobManagerProofs --------------------------
(***************************************************************************)
(* Proofs about JobManager for every number of jobs, queues, callers of    *)
(* Cancel and restarts, with and without failing database calls.           *)
(*                                                                         *)
(* Every action of JobManager has a lemma that it keeps the inductive      *)
(* invariant IInv, one step per conjunct.                                  *)
(***************************************************************************)
EXTENDS JobManager, QueueFacts, SequenceTheorems, TLAPS

\* A job is a number and never the sentinel.
LEMMA JobFact == Job \subseteq Nat /\ None \notin Job
BY ConstantsAssumption DEF Job, None

-----------------------------------------------------------------------------
(* The queue of one key *)

\* A job in nobody's hands joins the queue of its key or takes the key.
LEMMA EnqueueLemma ==
  ASSUME IInv, NEW j \in Job, j \in created \cup todo, Enqueue(j),
         UNCHANGED <<status, queueOf>>,
         created' \cup todo' = (created \cup todo) \ {j}
  PROVE  /\ KeyInv' /\ LineInv' /\ OpenInv'
         /\ running' \in [Queue -> Job \cup {None}]
         /\ pending' \in [Queue -> Seq(Job)]
         /\ pc' \in [Job -> Place]
         /\ \A i \in Job : Active(i)' => Active(i) \/ i = j
         /\ \A p \in Queue : \A i \in DOMAIN pending'[p] :
              pending'[p][i] = j \/ \E k \in DOMAIN pending[p] : pending'[p][i] = pending[p][k]
<1> DEFINE q == queueOf[j]
<1> USE JobFact
<1>1. /\ q \in Queue /\ status[j] # "none" /\ ~Active(j) /\ Open(j)
      /\ pending[q] \in Seq(Job)
      /\ \A p \in Queue : \A i \in DOMAIN pending[p] : pending[p][i] # j
  BY DEF IInv, TypeOK, HandInv, LineInv, LineOK, Open
<1>2. CASE phase = "closed" /\ UNCHANGED <<queues, pc>>
  <2>1. LineInv'
    BY <1>2 DEF IInv, LineInv, LineOK, queues, Open, Active
  <2>2. QED
    BY <1>2, <2>1 DEF IInv, TypeOK, KeyInv, OpenInv, queues, Active, Open
<1>3. CASE /\ running[q] # None
           /\ pending' = [pending EXCEPT ![q] = Append(@, j)]
           /\ UNCHANGED <<running, pc>>
  <2>1. /\ pending' \in [Queue -> Seq(Job)]
        /\ \A p \in Queue : p # q => pending'[p] = pending[p]
        /\ pending'[q] = Append(pending[q], j)
    BY <1>1, <1>3, AppendProperties DEF IInv, TypeOK
  <2>2. /\ Len(pending'[q]) = Len(pending[q]) + 1
        /\ \A i \in DOMAIN pending[q] : pending'[q][i] = pending[q][i]
        /\ pending'[q][Len(pending[q]) + 1] = j
        /\ DOMAIN pending'[q] = DOMAIN pending[q] \cup {Len(pending[q]) + 1}
    BY <1>1, <2>1, AppendProperties
  <2>3. ASSUME NEW p \in Queue
        PROVE  LineOK(p)'
    <3>1. CASE p # q
      BY <1>3, <2>1, <3>1 DEF IInv, LineInv, LineOK, Open, Active
    <3>2. CASE p = q
      <4>1. \A i \in DOMAIN pending'[q] :
              pending'[q][i] = j \/ (i \in DOMAIN pending[q] /\ pending'[q][i] = pending[q][i])
        BY <2>2
      <4>2. ASSUME NEW i \in DOMAIN pending'[q]
            PROVE  /\ queueOf[pending'[q][i]] = q
                   /\ Open(pending'[q][i]) /\ ~Active(pending'[q][i])
                   /\ pending'[q][i] \notin created' \cup todo'
        <5>1. CASE pending'[q][i] = j
          BY <1>1, <5>1
        <5>2. CASE i \in DOMAIN pending[q] /\ pending'[q][i] = pending[q][i]
          <6>1. LineOK(q)
            BY <1>1, Zenon DEF IInv, LineInv
          <6>2. /\ queueOf[pending[q][i]] = q
                /\ Open(pending[q][i]) /\ ~Active(pending[q][i])
                /\ pending[q][i] \notin created \cup todo
            BY <5>2, <6>1, Zenon DEF LineOK
          <6>3. QED
            BY <5>2, <6>2
        <5>3. QED
          BY <4>1, <5>1, <5>2, Zenon
      <4>3. \A i, k \in DOMAIN pending'[q] : pending'[q][i] = pending'[q][k] => i = k
        BY <1>1, <2>2 DEF IInv, LineInv, LineOK
      <4>4. QED
        BY <1>3, <3>2, <4>2, <4>3 DEF LineOK, Open, Active
    <3>3. QED
      BY <3>1, <3>2
  <2>4. KeyInv' /\ OpenInv'
    BY <1>3 DEF IInv, KeyInv, OpenInv, Active, Open
  <2>5. QED
    BY <1>3, <2>1, <2>2, <2>3, <2>4 DEF IInv, TypeOK, LineInv, Active
<1>4. CASE /\ running[q] = None
           /\ running' = [running EXCEPT ![q] = j]
           /\ pc' = [pc EXCEPT ![j] = "launched"]
           /\ UNCHANGED pending
  <2>1. /\ pending[q] = <<>>
        /\ running'[q] = j /\ pc'[j] = "launched"
        /\ \A p \in Queue : p # q => running'[p] = running[p]
        /\ \A i \in Job : i # j => pc'[i] = pc[i]
    BY <1>1, <1>4 DEF IInv, TypeOK, LineInv, LineOK
  <2>2. \A i \in Job : Active(i) => queueOf[i] # q
    BY <1>4 DEF IInv, KeyInv
  <2>3. KeyInv'
    <3>1. \A i \in Job : Active(i)' => status'[i] # "none" /\ running'[queueOf'[i]] = i
      BY <1>1, <2>1, <2>2 DEF IInv, TypeOK, KeyInv, Active
    <3>2. ASSUME NEW p \in Queue, running'[p] # None
          PROVE  pc'[running'[p]] # "idle" /\ queueOf'[running'[p]] = p
      <4>1. CASE p = q
        BY <2>1, <4>1
      <4>2. CASE p # q
        <5>1. /\ running'[p] = running[p] /\ running[p] \in Job
              /\ Active(running[p]) /\ queueOf[running[p]] = p
          BY <2>1, <3>2, <4>2 DEF IInv, TypeOK, KeyInv
        <5>2. running[p] # j
          BY <1>1, <5>1
        <5>3. QED
          BY <2>1, <5>1, <5>2 DEF Active
      <4>3. QED
        BY <4>1, <4>2
    <3>3. QED
      BY <3>1, <3>2 DEF KeyInv, Active
  <2>4. ASSUME NEW p \in Queue
        PROVE  LineOK(p)'
    <3>1. \A i \in DOMAIN pending[p] : pending[p][i] \in Job
      BY DEF IInv, TypeOK
    <3>2. QED
      BY <1>1, <1>4, <2>1, <3>1 DEF IInv, LineInv, LineOK, Open, Active
  <2>5. OpenInv'
    BY <1>1, <2>1 DEF IInv, OpenInv, Open
  <2>6. QED
    BY <1>1, <1>4, <2>1, <2>3, <2>4, <2>5 DEF IInv, TypeOK, LineInv, Active, Place
<1>5. QED
  BY <1>2, <1>3, <1>4 DEF Enqueue, Busy, Join, queues

-----------------------------------------------------------------------------
(* Each action keeps the inductive invariant *)

\* The conjuncts of the invariant, put together again.
LEMMA Together ==
  ASSUME TypeOK', KeyInv', LineInv', HandInv', OpenInv', CancelInv', DropInv', DownInv'
  PROVE  IInv'
BY DEF IInv

LEMMA InitInv == Init => IInv
<1> SUFFICES ASSUME Init PROVE IInv
  OBVIOUS
<1> USE JobFact DEF Init
<1>1. TypeOK
  BY DEF TypeOK, Kind, Status, Place, NotCanceling
<1>2. KeyInv /\ LineInv /\ HandInv /\ OpenInv
  BY DEF KeyInv, LineInv, LineOK, HandInv, OpenInv, Active, None
<1>3. CancelInv /\ DropInv /\ DownInv
  BY DEF CancelInv, DropInv, DownInv, Dropped, NotCanceling, Active
<1>4. QED
  BY <1>1, <1>2, <1>3 DEF IInv

LEMMA BootInv ==
  ASSUME IInv, Boot
  PROVE  IInv'
<1> USE DEF IInv, Boot, rows, queues
<1>1. TypeOK'
  BY DEF TypeOK, RecoveredRows, Unfinished
<1>2. KeyInv' /\ OpenInv' /\ CancelInv' /\ DownInv'
  BY DEF KeyInv, OpenInv, CancelInv, DownInv, Active, Open
<1>3. LineInv'
  BY DEF LineInv, LineOK, DownInv, Active, Open
<1>4. HandInv'
  BY DEF HandInv, DownInv, RecoveredRows, Unfinished, Active, Open
<1>5. DropInv'
  BY DEF DropInv, DownInv, Dropped
<1>6. QED
  BY <1>1, <1>2, <1>3, <1>4, <1>5, Together

LEMMA ServeInv ==
  ASSUME IInv, Serve
  PROVE  IInv'
<1> USE DEF IInv, Serve, rows, memory
<1>1. TypeOK'
  BY DEF TypeOK
<1>2. KeyInv' /\ LineInv' /\ HandInv' /\ OpenInv'
  BY DEF KeyInv, LineInv, LineOK, HandInv, OpenInv, Active, Open
<1>3. CancelInv' /\ DropInv' /\ DownInv'
  BY DEF CancelInv, DropInv, DownInv, Dropped, Active, Open
<1>4. QED
  BY <1>1, <1>2, <1>3, Together

LEMMA CloseInv ==
  ASSUME IInv, Close
  PROVE  IInv'
<1> USE DEF IInv, Close, rows, queues
<1>1. TypeOK'
  <2>1. {running[q] : q \in {k \in Queue : running[k] # None}} \subseteq Job
    BY DEF TypeOK
  <2>2. QED
    BY <2>1 DEF TypeOK
<1>2. KeyInv' /\ LineInv' /\ HandInv' /\ OpenInv'
  BY DEF KeyInv, LineInv, LineOK, HandInv, OpenInv, Active, Open
<1>3. CancelInv' /\ DropInv' /\ DownInv'
  BY DEF CancelInv, DropInv, DownInv, Dropped, Active, Open
<1>4. QED
  BY <1>1, <1>2, <1>3, Together

LEMMA ExitInv ==
  ASSUME IInv, Exit
  PROVE  IInv'
<1> USE JobFact DEF IInv, Exit, rows
<1>1. TypeOK'
  BY DEF TypeOK, NotCanceling, Place
<1>2. KeyInv' /\ LineInv' /\ HandInv' /\ OpenInv'
  BY DEF KeyInv, LineInv, LineOK, HandInv, OpenInv, Active
<1>3. CancelInv' /\ DropInv' /\ DownInv'
  BY DEF CancelInv, DropInv, DownInv, Dropped, NotCanceling, Active
<1>4. QED
  BY <1>1, <1>2, <1>3, Together

LEMMA NewRowInv ==
  ASSUME NEW j \in Job, NEW q \in Queue, NEW k \in Kind, IInv, phase # "down",
         NewRow(j, q, k)
  PROVE  IInv'
<1> USE DEF IInv, NewRow, queues
<1>1. /\ status[j] = "none" /\ ~Open(j) /\ ~Active(j)
      /\ j \notin created \cup todo
      /\ \A p \in Queue : \A i \in DOMAIN pending[p] : pending[p][i] # j
      /\ \A i \in Job : i # j => status'[i] = status[i] /\ queueOf'[i] = queueOf[i]
      /\ status'[j] = "queued"
  <2>1. status[j] = "none" /\ ~Open(j)
    BY DEF Open
  <2>2. ~Active(j)
    BY DEF KeyInv
  <2>3. j \notin created \cup todo
    BY <2>1 DEF HandInv
  <2>4. \A p \in Queue : \A i \in DOMAIN pending[p] : pending[p][i] # j
    BY <2>1 DEF LineInv, LineOK
  <2>5. /\ \A i \in Job : i # j => status'[i] = status[i] /\ queueOf'[i] = queueOf[i]
        /\ status'[j] = "queued"
    BY DEF TypeOK
  <2>6. QED
    BY <2>1, <2>2, <2>3, <2>4, <2>5
<1>2. TypeOK'
  BY DEF TypeOK, Status
<1>3. KeyInv'
  BY <1>1 DEF TypeOK, KeyInv, Active
<1>4. LineInv'
  <2>1. \A p \in Queue : \A i \in DOMAIN pending[p] : pending[p][i] \in Job
    BY DEF TypeOK
  <2>2. QED
    BY <1>1, <2>1 DEF LineInv, LineOK, Open, Active
<1>5. HandInv'
  BY <1>1 DEF TypeOK, HandInv, Open, Active
<1>6. OpenInv'
  BY <1>1 DEF OpenInv, Open
<1>7. CancelInv' /\ DownInv'
  BY DEF CancelInv, DownInv
<1>8. DropInv'
  BY <1>1 DEF DropInv, Dropped, Open, Active
<1>9. QED
  BY <1>2, <1>3, <1>4, <1>5, <1>6, <1>7, <1>8, Together

LEMMA StartEnqueueInv ==
  ASSUME NEW j \in Job, IInv, StartEnqueue(j)
  PROVE  IInv'
<1> USE DEF StartEnqueue, rows
<1>1. /\ KeyInv' /\ LineInv' /\ OpenInv'
      /\ running' \in [Queue -> Job \cup {None}]
      /\ pending' \in [Queue -> Seq(Job)]
      /\ pc' \in [Job -> Place]
      /\ \A i \in Job : Active(i)' => Active(i) \/ i = j
      /\ \A p \in Queue : \A i \in DOMAIN pending'[p] :
           pending'[p][i] = j \/ \E k \in DOMAIN pending[p] : pending'[p][i] = pending[p][k]
  <2>1. created' \cup todo' = (created \cup todo) \ {j}
    BY DEF IInv, HandInv
  <2>2. QED
    BY <2>1, EnqueueLemma
<1>2. TypeOK'
  BY <1>1 DEF IInv, TypeOK
<1>3. HandInv'
  BY <1>1 DEF IInv, TypeOK, HandInv, Open
<1>4. CancelInv' /\ DownInv'
  BY DEF IInv, CancelInv, DownInv
<1>5. DropInv'
  <2>1. ASSUME NEW c \in Canceler, NEW i \in Job, Dropped(c, i)
        PROVE  i # j
    BY <2>1 DEF IInv, DropInv
  <2>2. QED
    BY <1>1, <2>1 DEF IInv, DropInv, Dropped, Open
<1>6. QED
  BY <1>1, <1>2, <1>3, <1>4, <1>5, Together

LEMMA BeginInv ==
  ASSUME NEW j \in Job, IInv, Begin(j)
  PROVE  IInv'
<1> USE DEF IInv, Begin, queues
<1>1. /\ Active(j) /\ Open(j)
      /\ pc'[j] \in {"running", "leaving"}
      /\ status'[j] \in {"running", status[j]}
      /\ \A i \in Job : i # j => pc'[i] = pc[i] /\ status'[i] = status[i]
      /\ \A p \in Queue : \A i \in DOMAIN pending[p] : pending[p][i] # j
      /\ j \notin created \cup todo
  <2>1. Active(j) /\ Open(j)
    BY DEF OpenInv, Active
  <2>2. /\ pc'[j] \in {"running", "leaving"}
        /\ status'[j] \in {"running", status[j]}
        /\ \A i \in Job : i # j => pc'[i] = pc[i] /\ status'[i] = status[i]
    BY DEF TypeOK
  <2>3. /\ \A p \in Queue : \A i \in DOMAIN pending[p] : pending[p][i] # j
        /\ j \notin created \cup todo
    BY <2>1 DEF LineInv, LineOK, HandInv
  <2>4. QED
    BY <2>1, <2>2, <2>3
<1>2. TypeOK'
  <2>1. status' \in [Job -> Status]
    BY DEF TypeOK, Status
  <2>2. pc' \in [Job -> Place]
    BY DEF TypeOK, Place
  <2>3. begun' \in [Job -> Nat]
    <3>1. begun' = begun \/ begun' = [begun EXCEPT ![j] = @ + 1]
      OBVIOUS
    <3>2. begun \in [Job -> Nat]
      BY DEF TypeOK
    <3>3. QED
      BY <3>1, <3>2
  <2>4. QED
    BY <2>1, <2>2, <2>3 DEF TypeOK
<1>3. KeyInv'
  <2>1. \A i \in Job : Active(i)' <=> Active(i)
    BY <1>1 DEF Active
  <2>2. \A i \in Job : status[i] # "none" => status'[i] # "none"
    BY <1>1
  <2>3. QED
    BY <2>1, <2>2 DEF TypeOK, KeyInv
<1>4. LineInv'
  <2>1. \A p \in Queue : \A i \in DOMAIN pending[p] : pending[p][i] \in Job
    BY DEF TypeOK
  <2>2. QED
    BY <1>1, <2>1 DEF LineInv, LineOK, Open, Active
<1>5. HandInv'
  BY <1>1 DEF TypeOK, HandInv, Open, Active
<1>6. OpenInv'
  BY <1>1 DEF OpenInv, Open
<1>7. CancelInv' /\ DownInv'
  BY <1>1 DEF CancelInv, DownInv
<1>8. DropInv'
  BY <1>1 DEF DropInv, Dropped, Open, Active
<1>9. QED
  BY <1>2, <1>3, <1>4, <1>5, <1>6, <1>7, <1>8, Together

LEMMA ReturnInv ==
  ASSUME NEW j \in Job, NEW failed \in BOOLEAN, IInv, Return(j, failed)
  PROVE  IInv'
<1> USE DEF IInv, Return, rows, queues
<1>1. /\ Active(j) /\ Open(j)
      /\ pc'[j] \notin {"idle", "leaving"}
      /\ \A i \in Job : i # j => pc'[i] = pc[i]
      /\ \A i \in Job : Active(i)' <=> Active(i)
  BY DEF TypeOK, OpenInv, Active, Verdict
<1>2. TypeOK'
  BY DEF TypeOK, Verdict, Place, Outcome
<1>3. KeyInv' /\ OpenInv' /\ CancelInv' /\ DownInv'
  BY <1>1 DEF TypeOK, KeyInv, OpenInv, CancelInv, DownInv, Open
<1>4. LineInv'
  <2>1. \A p \in Queue : \A i \in DOMAIN pending[p] : pending[p][i] \in Job
    BY DEF TypeOK
  <2>2. QED
    BY <1>1, <2>1 DEF LineInv, LineOK, Open
<1>5. HandInv'
  BY <1>1 DEF TypeOK, HandInv, Open
<1>6. DropInv'
  BY <1>1 DEF DropInv, Dropped, Open
<1>7. QED
  BY <1>2, <1>3, <1>4, <1>5, <1>6, Together

LEMMA RecordInv ==
  ASSUME NEW j \in Job, IInv, Record(j)
  PROVE  IInv'
<1> USE DEF IInv, Record, queues
<1>1. /\ Active(j) /\ pc[j] \in Outcome /\ pc'[j] = "leaving"
      /\ status'[j] # "none"
      /\ \A i \in Job : i # j => pc'[i] = pc[i] /\ status'[i] = status[i]
      /\ \A i \in Job : Active(i)' <=> Active(i)
      /\ \A p \in Queue : \A i \in DOMAIN pending[p] : pending[p][i] # j
      /\ j \notin created \cup todo
  <2>1. /\ Active(j) /\ pc[j] \in Outcome /\ pc'[j] = "leaving" /\ Open(j)
        /\ \A i \in Job : i # j => pc'[i] = pc[i]
        /\ \A i \in Job : Active(i)' <=> Active(i)
    BY DEF TypeOK, OpenInv, Active, Outcome
  <2>2. /\ status'[j] # "none"
        /\ \A i \in Job : i # j => status'[i] = status[i]
    BY <2>1 DEF TypeOK, FinishJob, Open, Outcome
  <2>3. /\ \A p \in Queue : \A i \in DOMAIN pending[p] : pending[p][i] # j
        /\ j \notin created \cup todo
    BY <2>1 DEF LineInv, LineOK, HandInv
  <2>4. QED
    BY <2>1, <2>2, <2>3
<1>2. TypeOK'
  BY <1>1 DEF TypeOK, FinishJob, Status, Place
<1>3. KeyInv'
  BY <1>1 DEF TypeOK, KeyInv
<1>4. LineInv'
  <2>1. \A p \in Queue : \A i \in DOMAIN pending[p] : pending[p][i] \in Job
    BY DEF TypeOK
  <2>2. QED
    BY <1>1, <2>1 DEF LineInv, LineOK, Open
<1>5. HandInv'
  BY <1>1 DEF TypeOK, HandInv, Open
<1>6. OpenInv' /\ CancelInv' /\ DownInv'
  BY <1>1 DEF OpenInv, CancelInv, DownInv, Open
<1>7. DropInv'
  BY <1>1 DEF DropInv, Dropped, Open
<1>8. QED
  BY <1>2, <1>3, <1>4, <1>5, <1>6, <1>7, Together

LEMMA RecoverJobInv ==
  ASSUME NEW j \in Job, IInv, RecoverJob(j)
  PROVE  IInv'
<1> USE DEF RecoverJob
<1>1. /\ j \in todo /\ todo' = todo \ {j} /\ created' = created
      /\ Open(j) /\ ~Active(j) /\ j \notin created
      /\ UNCHANGED <<queueOf, phase, cancel>>
      /\ \A c \in Canceler, i \in Job : Dropped(c, i) => i # j
      /\ \A p \in Queue : \A i \in DOMAIN pending[p] : pending[p][i] # j
  BY DEF IInv, HandInv, DropInv, LineInv, LineOK
<1>2. resumes' \in [Job -> Nat]
  BY DEF IInv, TypeOK, CountResume
<1>3. CASE FinishJob(j, "interrupted", DBMayFail) /\ UNCHANGED <<queues, pc>>
  <2>1. /\ status'[j] # "none"
        /\ \A i \in Job : i # j => status'[i] = status[i]
        /\ status' \in [Job -> Status]
    BY <1>1, <1>3 DEF FinishJob, IInv, TypeOK, Status, Outcome, Open
  <2>2. TypeOK'
    BY <1>1, <1>2, <1>3, <2>1 DEF queues, IInv, TypeOK
  <2>3. KeyInv'
    BY <1>1, <1>3, <2>1 DEF queues, IInv, TypeOK, KeyInv, Active
  <2>4. OpenInv'
    BY <1>1, <1>3, <2>1 DEF queues, IInv, OpenInv, Active, Open
  <2>5. LineInv'
    <3>1. \A p \in Queue : \A i \in DOMAIN pending[p] : pending[p][i] \in Job
      BY DEF IInv, TypeOK
    <3>2. QED
      BY <1>1, <1>3, <2>1, <3>1 DEF queues, IInv, LineInv, LineOK, Open, Active
  <2>6. HandInv' /\ DropInv'
    BY <1>1, <1>3, <2>1 DEF queues, IInv, TypeOK, HandInv, DropInv, Dropped, Open, Active
  <2>7. CancelInv' /\ DownInv'
    BY DEF IInv, CancelInv, DownInv
  <2>8. QED
    BY <2>2, <2>3, <2>4, <2>5, <2>6, <2>7, Together
<1>4. CASE Enqueue(j) /\ UNCHANGED status
  <2>1. /\ KeyInv' /\ LineInv' /\ OpenInv'
        /\ running' \in [Queue -> Job \cup {None}]
        /\ pending' \in [Queue -> Seq(Job)]
        /\ pc' \in [Job -> Place]
        /\ \A i \in Job : Active(i)' => Active(i) \/ i = j
        /\ \A p \in Queue : \A i \in DOMAIN pending'[p] :
             pending'[p][i] = j \/ \E k \in DOMAIN pending[p] : pending'[p][i] = pending[p][k]
    <3>1. created' \cup todo' = (created \cup todo) \ {j}
      BY <1>1
    <3>2. QED
      BY <1>1, <1>4, <3>1, EnqueueLemma
  <2>2. TypeOK'
    BY <1>2, <1>4, <2>1 DEF IInv, TypeOK
  <2>3. HandInv'
    BY <1>1, <1>4, <2>1 DEF IInv, TypeOK, HandInv, Open
  <2>4. CancelInv' /\ DownInv'
    BY DEF IInv, CancelInv, DownInv
  <2>5. DropInv'
    BY <1>1, <1>4, <2>1 DEF IInv, DropInv, Dropped, Open
  <2>6. QED
    BY <2>1, <2>2, <2>3, <2>4, <2>5, Together
<1>5. QED
  BY <1>3, <1>4

LEMMA CancelReadInv ==
  ASSUME NEW c \in Canceler, NEW j \in Job, IInv, CancelRead(c, j)
  PROVE  IInv'
<1> USE DEF IInv, CancelRead, rows, queues
<1>1. TypeOK'
  BY DEF TypeOK
<1>2. KeyInv' /\ LineInv' /\ HandInv' /\ OpenInv'
  BY DEF KeyInv, LineInv, LineOK, HandInv, OpenInv, Active, Open
<1>3. CancelInv' /\ DownInv'
  BY DEF TypeOK, CancelInv, DownInv, Active
<1>4. DropInv'
  <2>1. \A d \in Canceler, i \in Job : Dropped(d, i)' => Dropped(d, i)
    BY DEF TypeOK, Dropped
  <2>2. QED
    BY <2>1 DEF DropInv, Active, Open
<1>5. QED
  BY <1>1, <1>2, <1>3, <1>4, Together

LEMMA CancelDropInv ==
  ASSUME NEW c \in Canceler, IInv, CancelDrop(c)
  PROVE  IInv'
<1> DEFINE j == cancel[c].job
<1> USE DEF IInv, CancelDrop, queues
<1>1. /\ j \in Job /\ Dropped(c, j) /\ Open(j) /\ ~Active(j)
      /\ j \notin created \cup todo
      /\ \A p \in Queue : \A i \in DOMAIN pending[p] : pending[p][i] # j
  BY DEF CancelInv, DropInv, Dropped
<1>2. /\ status'[j] # "none"
      /\ \A i \in Job : i # j => status'[i] = status[i]
      /\ status' \in [Job -> Status]
  BY <1>1 DEF FinishJob, TypeOK, Status, Outcome, Open
<1>3. TypeOK'
  BY <1>2 DEF TypeOK, NotCanceling
<1>4. KeyInv'
  BY <1>1, <1>2 DEF TypeOK, KeyInv, Active
<1>5. OpenInv'
  BY <1>1, <1>2 DEF OpenInv, Active, Open
<1>6. CancelInv' /\ DownInv'
  BY DEF TypeOK, CancelInv, DownInv, NotCanceling
<1>7. LineInv'
  <2>1. \A p \in Queue : \A i \in DOMAIN pending[p] : pending[p][i] \in Job
    BY DEF TypeOK
  <2>2. QED
    BY <1>1, <1>2, <2>1 DEF LineInv, LineOK, Open, Active
<1>8. HandInv'
  BY <1>1, <1>2 DEF TypeOK, HandInv, Open, Active
<1>9. DropInv'
  <2>1. \A d \in Canceler, i \in Job : Dropped(d, i)' => Dropped(d, i) /\ i # j
    BY <1>1 DEF TypeOK, DropInv, Dropped, NotCanceling
  <2>2. QED
    BY <1>2, <2>1 DEF DropInv, Active, Open
<1>10. QED
  BY <1>3, <1>4, <1>7, <1>8, <1>9, <1>5, <1>6, Together

LEMMA CancelSignalInv ==
  ASSUME NEW c \in Canceler, IInv, CancelSignal(c)
  PROVE  IInv'
<1> USE DEF IInv, CancelSignal, rows, queues
<1>1. TypeOK'
  BY DEF TypeOK, CancelInv, NotCanceling
<1>2. KeyInv' /\ LineInv' /\ HandInv' /\ OpenInv'
  BY DEF KeyInv, LineInv, LineOK, HandInv, OpenInv, Active, Open
<1>3. CancelInv' /\ DownInv'
  BY DEF TypeOK, CancelInv, DownInv, Active, NotCanceling
<1>4. DropInv'
  <2>1. \A d \in Canceler, i \in Job : Dropped(d, i)' => Dropped(d, i)
    BY DEF TypeOK, Dropped, NotCanceling
  <2>2. QED
    BY <2>1 DEF DropInv, Active, Open
<1>5. QED
  BY <1>1, <1>2, <1>3, <1>4, Together

\* Cancel takes a waiting job out of its queue.
LEMMA TakeOutInv ==
  ASSUME IInv, NEW c \in Canceler, NEW j \in Job, NEW q \in Queue,
         NEW i \in DOMAIN pending[q], pending[q][i] = j,
         cancel[c].job = j, cancel[c].at = "read",
         pending' = [pending EXCEPT ![q] = RemoveAt(@, i)],
         cancel' = [cancel EXCEPT ![c].at = "drop"],
         accepted' = accepted \cup {j},
         UNCHANGED <<rows, phase, todo, running, userCanceled, pc, ctxDone, created,
                     boots, begun>>
  PROVE  IInv'
<1> DEFINE At(k) == IF k < i THEN k ELSE k + 1
<1>1. /\ pending \in [Queue -> Seq(Job)]
      /\ pending[q] \in Seq(Job) /\ Len(pending[q]) \in Nat
      /\ DOMAIN pending[q] = 1..Len(pending[q])
      /\ i \in 1..Len(pending[q])
      /\ UNCHANGED <<status, queueOf, running, pc, created, todo, phase>>
  BY DEF IInv, TypeOK, rows
<1>2. /\ RemoveAt(pending[q], i) \in Seq(Job)
      /\ Len(RemoveAt(pending[q], i)) = Len(pending[q]) - 1
      /\ \A k \in 1..(Len(pending[q]) - 1) : RemoveAt(pending[q], i)[k] = pending[q][At(k)]
  BY <1>1, RemoveAtLemma
<1>3. /\ pending' \in [Queue -> Seq(Job)]
      /\ \A p \in Queue : p # q => pending'[p] = pending[p]
      /\ pending'[q] = RemoveAt(pending[q], i)
  BY <1>1, <1>2
<1>4. /\ DOMAIN pending'[q] = 1..(Len(pending[q]) - 1)
      /\ \A k \in 1..(Len(pending[q]) - 1) :
           /\ pending'[q][k] = pending[q][At(k)]
           /\ At(k) \in DOMAIN pending[q] /\ At(k) # i
  <2>1. \A k \in 1..(Len(pending[q]) - 1) : At(k) \in 1..Len(pending[q]) /\ At(k) # i
    BY <1>1
  <2>2. DOMAIN pending'[q] = 1..(Len(pending[q]) - 1)
    BY <1>1, <1>2, <1>3
  <2>3. QED
    BY <1>1, <1>2, <1>3, <2>1, <2>2
<1>5. \A k, l \in 1..(Len(pending[q]) - 1) : At(k) = At(l) => k = l
  BY <1>1
<1> HIDE DEF At
<1>6. /\ Open(j) /\ ~Active(j) /\ j \notin created \cup todo
      /\ queueOf[j] = q
      /\ \A k \in DOMAIN pending[q] : pending[q][k] = j => k = i
  BY DEF IInv, LineInv, LineOK
<1>7. TypeOK'
  <2>1. cancel' \in [Canceler -> [at : {"no", "read", "drop", "signal"},
                                  job : Job \cup {None}, hit : Job \cup {None}]]
    <3>1. cancel[c] \in [at : {"no", "read", "drop", "signal"},
                         job : Job \cup {None}, hit : Job \cup {None}]
      BY DEF IInv, TypeOK
    <3>2. [cancel[c] EXCEPT !.at = "drop"]
            \in [at : {"no", "read", "drop", "signal"},
                 job : Job \cup {None}, hit : Job \cup {None}]
      BY <3>1
    <3>3. cancel' = [cancel EXCEPT ![c] = [cancel[c] EXCEPT !.at = "drop"]]
      BY DEF IInv, TypeOK
    <3>4. QED
      BY <3>2, <3>3 DEF IInv, TypeOK
  <2>2. QED
    BY <1>3, <2>1 DEF IInv, TypeOK, rows
<1>8. ASSUME NEW p \in Queue
      PROVE  LineOK(p)'
  <2>1. CASE p # q
    BY <1>1, <1>3, <2>1 DEF IInv, LineInv, LineOK, Open, Active
  <2>2. CASE p = q
    <3>1. pending[q] # <<>>
      BY <1>1
    <3>2. running[q] # None
      BY <3>1 DEF IInv, LineInv, LineOK
    <3>3. \A k \in DOMAIN pending'[q] :
            /\ queueOf[pending'[q][k]] = q
            /\ Open(pending'[q][k]) /\ ~Active(pending'[q][k])
            /\ pending'[q][k] \notin created \cup todo
      BY <1>4 DEF IInv, LineInv, LineOK
    <3>4. \A k, l \in DOMAIN pending'[q] : pending'[q][k] = pending'[q][l] => k = l
      BY <1>4, <1>5 DEF IInv, LineInv, LineOK
    <3>5. QED
      BY <1>1, <2>2, <3>2, <3>3, <3>4 DEF LineOK, Open, Active
  <2>3. QED
    BY <2>1, <2>2
<1>9. KeyInv' /\ HandInv' /\ OpenInv'
  BY <1>1 DEF IInv, KeyInv, HandInv, OpenInv, Active, Open
<1>10. CancelInv'
  BY DEF IInv, TypeOK, CancelInv
<1>11. DropInv'
  <2>1. \A d \in Canceler, h \in Job :
          Dropped(d, h)' => \/ d = c /\ h = j
                            \/ d # c /\ Dropped(d, h)
    BY DEF IInv, TypeOK, Dropped
  <2>2. \A d \in Canceler : ~Dropped(d, j)
    BY DEF IInv, DropInv
  <2>3. \A p \in Queue : \A k \in DOMAIN pending'[p] :
          /\ pending'[p][k] # j
          /\ \E m \in DOMAIN pending[p] : pending'[p][k] = pending[p][m]
    <3>1. \A p \in Queue : p # q => \A k \in DOMAIN pending[p] : pending[p][k] # j
      BY <1>6 DEF IInv, LineInv, LineOK
    <3>2. \A k \in DOMAIN pending'[q] :
            /\ pending'[q][k] # j
            /\ \E m \in DOMAIN pending[q] : pending'[q][k] = pending[q][m]
      BY <1>4, <1>6
    <3>3. ASSUME NEW p \in Queue, NEW k \in DOMAIN pending'[p]
          PROVE  /\ pending'[p][k] # j
                 /\ \E m \in DOMAIN pending[p] : pending'[p][k] = pending[p][m]
      BY <1>3, <3>1, <3>2
    <3>4. QED
      BY <3>3
  <2>4. ASSUME NEW d \in Canceler, NEW h \in Job, Dropped(d, h)'
        PROVE  /\ Open(h)' /\ ~Active(h)'
               /\ h \notin created' \cup todo'
               /\ \A p \in Queue : \A k \in DOMAIN pending'[p] : pending'[p][k] # h
    <3>1. CASE h = j
      BY <1>1, <1>6, <2>3, <3>1 DEF Open, Active
    <3>2. CASE h # j
      <4>1. Dropped(d, h)
        BY <2>1, <2>4, <3>2
      <4>2. /\ Open(h) /\ ~Active(h) /\ h \notin created \cup todo
            /\ \A p \in Queue : \A k \in DOMAIN pending[p] : pending[p][k] # h
        BY <4>1 DEF IInv, DropInv
      <4>3. QED
        BY <1>1, <2>3, <4>2 DEF Open, Active
    <3>3. QED
      BY <3>1, <3>2
  <2>5. ASSUME NEW d \in Canceler, NEW e \in Canceler, NEW h \in Job,
               Dropped(d, h)', Dropped(e, h)'
        PROVE  d = e
    BY <2>1, <2>2, <2>5 DEF IInv, DropInv
  <2>6. QED
    BY <2>4, <2>5 DEF DropInv
<1>12. DownInv'
  <2>1. phase # "down"
    BY DEF IInv, DownInv
  <2>2. QED
    BY <1>1, <2>1 DEF DownInv
<1>13. QED
  BY <1>7, <1>8, <1>9, <1>10, <1>11, <1>12, Together DEF LineInv

LEMMA CancelLockedInv ==
  ASSUME NEW c \in Canceler, IInv, CancelLocked(c)
  PROVE  IInv'
<1>1. PICK j \in Job, q \in Queue : j = cancel[c].job /\ q = queueOf[j]
  BY DEF CancelLocked, IInv, TypeOK, CancelInv
<1>2. UNCHANGED <<rows, phase, todo, running, pc, ctxDone, created, boots, begun>>
  BY DEF CancelLocked
<1>3. CASE \E i \in DOMAIN pending[q] :
             /\ pending[q][i] = j
             /\ pending' = [pending EXCEPT ![q] = RemoveAt(@, i)]
             /\ cancel' = [cancel EXCEPT ![c].at = "drop"]
             /\ accepted' = accepted \cup {j}
             /\ UNCHANGED userCanceled
  <2>1. cancel[c].at = "read"
    BY DEF CancelLocked
  <2>2. QED
    BY <1>1, <1>2, <1>3, <2>1, TakeOutInv
<1>4. CASE /\ pending' = pending
           /\ \/ /\ cancel' = [cancel EXCEPT ![c] = [at |-> "signal", job |-> j, hit |-> running[q]]]
                 /\ running[q] # None
              \/ cancel' = [cancel EXCEPT ![c] = NotCanceling]
           /\ userCanceled' \in {userCanceled, userCanceled \cup {j}}
           /\ accepted' \in {accepted, accepted \cup {j}}
  <2>1. PICK r \in [at : {"no", "signal"}, job : Job \cup {None}, hit : Job \cup {None}] :
          /\ cancel' = [cancel EXCEPT ![c] = r]
          /\ r.at = "signal" => r.job = j /\ r.hit \in Job
    <3>1. CASE /\ cancel' = [cancel EXCEPT ![c] = [at |-> "signal", job |-> j, hit |-> running[q]]]
               /\ running[q] # None
      <4>1. running[q] \in Job
        BY <3>1 DEF IInv, TypeOK
      <4>2. [at |-> "signal", job |-> j, hit |-> running[q]]
              \in [at : {"no", "signal"}, job : Job \cup {None}, hit : Job \cup {None}]
        BY <4>1
      <4>3. QED
        BY <3>1, <4>1, <4>2
    <3>2. CASE cancel' = [cancel EXCEPT ![c] = NotCanceling]
      <4>1. NotCanceling \in [at : {"no", "signal"}, job : Job \cup {None}, hit : Job \cup {None}]
        BY DEF NotCanceling
      <4>2. NotCanceling.at = "no"
        BY DEF NotCanceling
      <4>3. QED
        BY <3>2, <4>1, <4>2
    <3>3. QED
      BY <1>4, <3>1, <3>2
  <2>2. TypeOK'
    <3>1. cancel' \in [Canceler -> [at : {"no", "read", "drop", "signal"},
                                    job : Job \cup {None}, hit : Job \cup {None}]]
      BY <2>1 DEF IInv, TypeOK
    <3>2. userCanceled' \subseteq Job /\ accepted' \subseteq Job
      BY <1>4 DEF IInv, TypeOK
    <3>3. QED
      BY <1>2, <1>4, <3>1, <3>2 DEF IInv, TypeOK, rows
  <2>3. KeyInv' /\ LineInv' /\ HandInv' /\ OpenInv'
    BY <1>2, <1>4 DEF IInv, KeyInv, LineInv, LineOK, HandInv, OpenInv, Active, Open, rows
  <2>4. CancelInv'
    BY <2>1 DEF IInv, TypeOK, CancelInv
  <2>5. DownInv'
    <3>1. phase # "down"
      BY DEF IInv, DownInv, CancelLocked
    <3>2. QED
      BY <1>2, <3>1 DEF DownInv
  <2>6. DropInv'
    <3>1. \A d \in Canceler, h \in Job : Dropped(d, h)' => Dropped(d, h)
      BY <2>1 DEF IInv, TypeOK, Dropped
    <3>2. QED
      BY <1>2, <1>4, <3>1 DEF IInv, DropInv, Open, Active, rows
  <2>7. QED
    BY <2>2, <2>3, <2>4, <2>5, <2>6, Together
<1>5. QED
  BY <1>1, <1>3, <1>4 DEF CancelLocked, Without

LEMMA NextJobInv ==
  ASSUME NEW j \in Job, IInv, NextJob(j)
  PROVE  IInv'
<1>1. PICK q \in Queue : q = queueOf[j]
  BY DEF IInv, TypeOK
<1>2. /\ UNCHANGED <<rows, phase, todo, userCanceled, created, cancel, boots, accepted, begun>>
      /\ ctxDone' = ctxDone \ {j}
      /\ pc[j] \in {"leaving", "abandoned"}
  BY DEF NextJob
<1>3. /\ Active(j) /\ running[q] = j
      /\ \A i \in Job : Active(i) /\ queueOf[i] = q => i = j
      /\ pending[q] \in Seq(Job) /\ pending \in [Queue -> Seq(Job)]
      /\ running \in [Queue -> Job \cup {None}] /\ pc \in [Job -> Place]
      /\ UNCHANGED <<status, queueOf, phase, todo, created, cancel>>
      /\ \A p \in Queue : \A i \in DOMAIN pending[p] : pending[p][i] \in Job
  BY <1>1, <1>2 DEF IInv, TypeOK, KeyInv, Active, rows
<1>4. DownInv'
  <2>1. phase # "down"
    BY <1>3 DEF IInv, DownInv
  <2>2. QED
    BY <1>3, <2>1 DEF DownInv
<1>5. CancelInv'
  BY <1>3 DEF IInv, CancelInv
<1>6. CASE /\ running' = [running EXCEPT ![q] = None]
           /\ pending' = [pending EXCEPT ![q] = <<>>]
           /\ pc' = [pc EXCEPT ![j] = "idle"]
  <2>1. /\ running'[q] = None /\ pending'[q] = <<>> /\ pc'[j] = "idle"
        /\ \A p \in Queue : p # q => running'[p] = running[p] /\ pending'[p] = pending[p]
        /\ \A i \in Job : i # j => pc'[i] = pc[i]
        /\ \A i \in Job : Active(i)' => Active(i) /\ i # j
    BY <1>3, <1>6 DEF Active
  <2>2. TypeOK'
    <3>1. /\ running' \in [Queue -> Job \cup {None}]
          /\ pending' \in [Queue -> Seq(Job)]
          /\ pc' \in [Job -> Place]
      BY <1>3, <1>6 DEF Place
    <3>2. QED
      BY <1>2, <3>1 DEF IInv, TypeOK, rows
  <2>3. KeyInv'
    <3>1. ASSUME NEW i \in Job, Active(i)'
          PROVE  status'[i] # "none" /\ running'[queueOf'[i]] = i
      <4>1. Active(i) /\ i # j /\ queueOf[i] # q /\ queueOf[i] \in Queue
        BY <1>3, <2>1, <3>1 DEF IInv, TypeOK
      <4>2. QED
        BY <1>3, <2>1, <4>1 DEF IInv, KeyInv
    <3>2. ASSUME NEW p \in Queue, running'[p] # None
          PROVE  pc'[running'[p]] # "idle" /\ queueOf'[running'[p]] = p
      <4>1. /\ p # q /\ running'[p] = running[p] /\ running[p] \in Job
            /\ Active(running[p]) /\ queueOf[running[p]] = p
        BY <1>3, <2>1, <3>2 DEF IInv, KeyInv
      <4>2. running[p] # j
        BY <1>1, <4>1
      <4>3. QED
        BY <1>3, <2>1, <4>1, <4>2 DEF Active
    <3>3. QED
      BY <3>1, <3>2 DEF KeyInv, Active
  <2>4. ASSUME NEW p \in Queue
        PROVE  LineOK(p)'
    <3>1. CASE p # q
      BY <1>3, <2>1, <3>1 DEF IInv, LineInv, LineOK, Open, Active
    <3>2. CASE p = q
      <4>1. pending'[p] = <<>> /\ DOMAIN pending'[p] = {}
        BY <2>1, <3>2
      <4>2. QED
        BY <4>1 DEF LineOK
    <3>3. QED
      BY <3>1, <3>2
  <2>5. HandInv'
    BY <1>3, <2>1 DEF IInv, TypeOK, HandInv, Open
  <2>6. OpenInv'
    BY <1>3, <2>1 DEF IInv, OpenInv, Open
  <2>7. DropInv'
    <3>1. \A p \in Queue : \A i \in DOMAIN pending'[p] :
            i \in DOMAIN pending[p] /\ pending'[p][i] = pending[p][i]
      BY <2>1
    <3>2. QED
      BY <1>3, <2>1, <3>1 DEF IInv, DropInv, Dropped, Open
  <2>8. QED
    BY <1>4, <1>5, <2>2, <2>3, <2>4, <2>5, <2>6, <2>7, Together DEF LineInv
<1>7. ASSUME NEW h \in Job, pending[q] # <<>>, h = Head(pending[q]),
             running' = [running EXCEPT ![q] = h],
             pending' = [pending EXCEPT ![q] = Tail(pending[q])],
             pc' = [pc EXCEPT ![j] = "idle", ![h] = "launched"]
      PROVE  IInv'
  <2>1. /\ Len(pending[q]) \in Nat /\ Len(pending[q]) > 0
        /\ h = pending[q][1] /\ 1 \in DOMAIN pending[q]
        /\ Tail(pending[q]) \in Seq(Job)
        /\ DOMAIN Tail(pending[q]) = 1..(Len(pending[q]) - 1)
        /\ \A k \in 1..(Len(pending[q]) - 1) :
             /\ Tail(pending[q])[k] = pending[q][k + 1]
             /\ k + 1 \in DOMAIN pending[q]
    BY <1>3, <1>7, HeadTailProperties
  <2>2. /\ Open(h) /\ ~Active(h) /\ queueOf[h] = q /\ h \notin created \cup todo
        /\ h # j
        /\ \A k \in DOMAIN pending[q] : pending[q][k] = h => k = 1
    BY <1>3, <2>1 DEF IInv, LineInv, LineOK
  <2>3. /\ running'[q] = h /\ pending'[q] = Tail(pending[q])
        /\ pc'[j] = "idle" /\ pc'[h] = "launched"
        /\ \A p \in Queue : p # q => running'[p] = running[p] /\ pending'[p] = pending[p]
        /\ \A i \in Job : i # j /\ i # h => pc'[i] = pc[i]
    BY <1>3, <1>7, <2>2
  <2>4. \A i \in Job : Active(i)' => i = h \/ (Active(i) /\ i # j)
    BY <2>2, <2>3 DEF Active
  <2>5. TypeOK'
    <3>1. /\ running' \in [Queue -> Job \cup {None}]
          /\ pending' \in [Queue -> Seq(Job)]
          /\ pc' \in [Job -> Place]
      BY <1>3, <1>7, <2>1 DEF Place
    <3>2. QED
      BY <1>2, <3>1 DEF IInv, TypeOK, rows
  <2>6. KeyInv'
    <3>1. ASSUME NEW i \in Job, Active(i)'
          PROVE  status'[i] # "none" /\ running'[queueOf'[i]] = i
      <4>1. CASE i = h
        BY <1>3, <2>2, <2>3, <4>1 DEF Open
      <4>2. CASE i # h
        BY <1>3, <2>3, <2>4, <3>1, <4>2 DEF IInv, TypeOK, KeyInv
      <4>3. QED
        BY <4>1, <4>2
    <3>2. ASSUME NEW p \in Queue, running'[p] # None
          PROVE  pc'[running'[p]] # "idle" /\ queueOf'[running'[p]] = p
      <4>1. CASE p = q
        BY <1>3, <2>2, <2>3, <4>1
      <4>2. CASE p # q
        <5>1. /\ running'[p] = running[p] /\ running[p] \in Job
              /\ Active(running[p]) /\ queueOf[running[p]] = p
          BY <1>3, <2>3, <3>2, <4>2 DEF IInv, KeyInv
        <5>2. running[p] # j /\ running[p] # h
          BY <1>1, <2>2, <4>2, <5>1
        <5>3. QED
          BY <1>3, <2>3, <5>1, <5>2 DEF Active
      <4>3. QED
        BY <4>1, <4>2
    <3>3. QED
      BY <3>1, <3>2 DEF KeyInv, Active
  <2>7. ASSUME NEW p \in Queue, NEW k \in DOMAIN pending'[p]
        PROVE  /\ pending'[p][k] # h
               /\ \E m \in DOMAIN pending[p] : pending'[p][k] = pending[p][m]
    <3>1. CASE p = q
      <4>1. /\ k \in 1..(Len(pending[q]) - 1) /\ k + 1 # 1
            /\ pending'[p][k] = pending[q][k + 1] /\ k + 1 \in DOMAIN pending[q]
        <5>1. pending'[p] = Tail(pending[q])
          BY <2>3, <3>1
        <5>2. k \in 1..(Len(pending[q]) - 1)
          BY <2>1, <5>1
        <5>3. QED
          BY <2>1, <5>1, <5>2
      <4>2. QED
        BY <2>2, <3>1, <4>1
    <3>2. CASE p # q
      BY <2>2, <2>3, <3>2 DEF IInv, LineInv, LineOK
    <3>3. QED
      BY <3>1, <3>2
  <2>8. ASSUME NEW p \in Queue
        PROVE  LineOK(p)'
    <3>1. \A k \in DOMAIN pending'[p] :
            /\ queueOf'[pending'[p][k]] = p
            /\ Open(pending'[p][k]) /\ ~Active(pending'[p][k])
            /\ pending'[p][k] \notin created \cup todo
            /\ pending'[p][k] # h
            /\ pending'[p][k] \in Job
      <4>1. ASSUME NEW k \in DOMAIN pending'[p]
            PROVE  /\ queueOf'[pending'[p][k]] = p
                   /\ Open(pending'[p][k]) /\ ~Active(pending'[p][k])
                   /\ pending'[p][k] \notin created \cup todo
                   /\ pending'[p][k] # h
                   /\ pending'[p][k] \in Job
        <5>1. PICK m \in DOMAIN pending[p] : pending'[p][k] = pending[p][m]
          BY <2>7
        <5>2. pending[p][m] # h
          BY <2>7, <5>1
        <5>3. QED
          BY <1>3, <5>1, <5>2 DEF IInv, LineInv, LineOK
      <4>2. QED
        BY <4>1
    <3>2. \A k \in DOMAIN pending'[p] :
            /\ queueOf'[pending'[p][k]] = p
            /\ status'[pending'[p][k]] \in {"queued", "running"}
            /\ pc'[pending'[p][k]] = "idle"
            /\ pending'[p][k] \notin created' \cup todo'
      BY <1>3, <2>4, <3>1 DEF Open, Active
    <3>3. pending'[p] # <<>> => running'[p] # None
      <4>1. CASE p = q
        BY <2>3, <4>1, JobFact
      <4>2. CASE p # q
        BY <2>3, <4>2 DEF IInv, LineInv, LineOK
      <4>3. QED
        BY <4>1, <4>2
    <3>4. \A k, l \in DOMAIN pending'[p] : pending'[p][k] = pending'[p][l] => k = l
      <4>1. CASE p = q
        <5>1. ASSUME NEW k \in DOMAIN pending'[q], NEW l \in DOMAIN pending'[q],
                     pending'[q][k] = pending'[q][l]
              PROVE  k = l
          <6>1. k \in 1..(Len(pending[q]) - 1) /\ l \in 1..(Len(pending[q]) - 1)
            BY <2>1, <2>3
          <6>2. pending[q][k + 1] = pending[q][l + 1]
            BY <2>1, <2>3, <5>1, <6>1
          <6>3. k + 1 = l + 1
            BY <2>1, <6>1, <6>2 DEF IInv, LineInv, LineOK
          <6>4. QED
            BY <2>1, <6>1, <6>3
        <5>2. QED
          BY <4>1, <5>1
      <4>2. CASE p # q
        BY <2>3, <4>2 DEF IInv, LineInv, LineOK
      <4>3. QED
        BY <4>1, <4>2
    <3>5. QED
      BY <3>2, <3>3, <3>4 DEF LineOK, Open, Active
  <2>9. HandInv'
    BY <1>3, <2>2, <2>4 DEF IInv, TypeOK, HandInv, Open
  <2>10. OpenInv'
    BY <1>3, <2>2, <2>3 DEF IInv, OpenInv, Open
  <2>11. DropInv'
    <3>1. \A d \in Canceler, i \in Job : Dropped(d, i)' => Dropped(d, i) /\ i # h
      BY <1>3, <2>1 DEF IInv, DropInv, Dropped
    <3>2. ASSUME NEW d \in Canceler, NEW i \in Job, Dropped(d, i)'
          PROVE  /\ Open(i)' /\ ~Active(i)'
                 /\ i \notin created' \cup todo'
                 /\ \A p \in Queue : \A k \in DOMAIN pending'[p] : pending'[p][k] # i
      <4>1. /\ Open(i) /\ ~Active(i) /\ i \notin created \cup todo
            /\ i # h
            /\ \A p \in Queue : \A k \in DOMAIN pending[p] : pending[p][k] # i
        BY <3>1, <3>2 DEF IInv, DropInv
      <4>2. QED
        BY <1>3, <2>4, <2>7, <4>1 DEF Open
    <3>3. QED
      BY <3>1, <3>2 DEF IInv, DropInv
  <2>12. QED
    BY <1>4, <1>5, <2>5, <2>6, <2>8, <2>9, <2>10, <2>11, Together DEF LineInv
<1>8. pending[q] # <<>> => Head(pending[q]) \in Job
  BY <1>3, HeadTailProperties
<1>9. QED
  BY <1>1, <1>6, <1>7, <1>8 DEF NextJob

\* Every step of the manager keeps the inductive invariant.
LEMMA StepInv == IInv /\ [Next]_vars => IInv'
<1> SUFFICES ASSUME IInv, [Next]_vars PROVE IInv'
  OBVIOUS
<1>1. CASE Boot \/ Serve \/ Close
  BY <1>1, BootInv, ServeInv, CloseInv
<1>2. CASE Stopped \/ Crash
  BY <1>2, ExitInv DEF Stopped, Crash
<1>3. ASSUME NEW j \in Job, RecoverJob(j)
      PROVE  IInv'
  BY <1>3, RecoverJobInv
<1>4. ASSUME NEW j \in Job, NEW q \in Queue, NEW k \in Kind, Start(j, q, k)
      PROVE  IInv'
  <2>1. phase # "down"
    BY <1>4 DEF Start, Up, IInv, DownInv, Active
  <2>2. QED
    BY <1>4, <2>1, NewRowInv DEF Start
<1>5. ASSUME NEW old \in Job, NEW j \in Job, Retry(old, j)
      PROVE  IInv'
  <2>1. queueOf[old] \in Queue /\ "resumable" \in Kind /\ phase # "down"
    BY <1>5 DEF Retry, Up, IInv, TypeOK, Kind
  <2>2. NewRow(j, queueOf[old], "resumable")
    BY <1>5 DEF Retry
  <2>3. QED
    BY <2>1, <2>2, NewRowInv
<1>6. ASSUME NEW j \in Job,
             \/ StartEnqueue(j) \/ Begin(j) \/ Record(j) \/ NextJob(j)
             \/ \E failed \in BOOLEAN : Return(j, failed)
      PROVE  IInv'
  BY <1>6, StartEnqueueInv, BeginInv, RecordInv, NextJobInv, ReturnInv
<1>7. ASSUME NEW c \in Canceler,
             \/ \E j \in Job : CancelRead(c, j)
             \/ CancelLocked(c) \/ CancelDrop(c) \/ CancelSignal(c)
      PROVE  IInv'
  BY <1>7, CancelReadInv, CancelLockedInv, CancelDropInv, CancelSignalInv
<1>8. CASE UNCHANGED vars
  <2>1. TypeOK'
    BY <1>8 DEF vars, IInv, TypeOK
  <2>2. KeyInv' /\ LineInv' /\ HandInv' /\ OpenInv'
    BY <1>8 DEF vars, IInv, KeyInv, LineInv, LineOK, HandInv, OpenInv, Active, Open
  <2>3. CancelInv' /\ DropInv' /\ DownInv'
    BY <1>8 DEF vars, IInv, CancelInv, DropInv, DownInv, Dropped, Active, Open
  <2>4. QED
    BY <2>1, <2>2, <2>3, Together
<1>9. QED
  BY <1>1, <1>2, <1>3, <1>4, <1>5, <1>6, <1>7, <1>8 DEF Next

-----------------------------------------------------------------------------
(* What the inductive invariant gives *)

\* The inductive invariant holds in every reachable state, whatever fails.
THEOREM Invariance == Spec => []IInv
<1>1. Init => IInv
  BY InitInv
<1>2. IInv /\ [Next]_vars => IInv'
  BY StepInv
<1>3. QED
  BY <1>1, <1>2, PTL DEF Spec

\* Every variable stays in its type: in particular the queues hold ids of jobs
\* and never the zero that stands for "no job".
THEOREM TypeCorrect == Spec => []TypeOK
<1>1. IInv => TypeOK
  BY DEF IInv
<1>2. QED
  BY <1>1, Invariance, PTL

\* One job at a time on a queue key (package comment of jobs.go).
THEOREM Exclusion == Spec => []QueueExclusive
<1>1. IInv => QueueExclusive
  BY DEF IInv, KeyInv, QueueExclusive
<1>2. QED
  BY <1>1, Invariance, PTL

\* Waiting jobs always have somebody ahead of them to hand the key on.
THEOREM NobodyStalls == Spec => []NoStalledQueue
<1>1. IInv => NoStalledQueue
  BY DEF IInv, KeyInv, LineInv, LineOK, NoStalledQueue
<1>2. QED
  BY <1>1, Invariance, PTL

\* What Recover still has to look at, and what the stop cut off, is open.
THEOREM RecoverFindsIt == Spec => []LeftToRecover
<1>1. IInv => LeftToRecover
  BY DEF IInv, HandInv, OpenInv, LeftToRecover, Open, Done, Outcome
<1>2. QED
  BY <1>1, Invariance, PTL

\* No step rewrites a recorded outcome: neither FinishJob nor MarkJobRunning
\* looks at the old status, it is the hands the job is in that keep it.
THEOREM OutcomesStay == Spec => OutcomeIsFinal
<1>1. ASSUME IInv, [Next]_vars, NEW j \in Job, Done(status[j])
      PROVE  status'[j] = status[j]
  <2>1. /\ ~Open(j) /\ pc[j] \in {"idle", "leaving"}
        /\ status[j] # "none" /\ j \notin todo
        /\ \A c \in Canceler : ~Dropped(c, j)
    BY <1>1 DEF IInv, HandInv, OpenInv, DropInv, Open, Done, Outcome
  <2>2. status \in [Job -> Status]
    BY <1>1 DEF IInv, TypeOK
  <2>3. CASE Boot \/ Serve \/ Close \/ Stopped \/ Crash
    BY <2>3 DEF Boot, Serve, Close, Stopped, Crash, Exit, rows
  <2>4. ASSUME NEW i \in Job, RecoverJob(i)
        PROVE  status'[j] = status[j]
    <3>1. i # j
      BY <2>1, <2>4 DEF RecoverJob
    <3>2. QED
      BY <2>2, <2>4, <3>1 DEF RecoverJob, FinishJob
  <2>5. ASSUME NEW i \in Job, NEW q, NEW k, NewRow(i, q, k)
        PROVE  status'[j] = status[j]
    BY <2>1, <2>2, <2>5 DEF NewRow
  <2>6. ASSUME NEW i \in Job, Begin(i) \/ Record(i)
        PROVE  status'[j] = status[j]
    <3>1. i # j
      BY <2>1, <2>6 DEF Begin, Record, Outcome
    <3>2. QED
      BY <2>2, <2>6, <3>1 DEF Begin, Record, FinishJob
  <2>7. ASSUME NEW i \in Job,
               StartEnqueue(i) \/ NextJob(i) \/ \E failed \in BOOLEAN : Return(i, failed)
        PROVE  status'[j] = status[j]
    BY <2>7 DEF StartEnqueue, NextJob, Return, rows
  <2>8. ASSUME NEW c \in Canceler, CancelDrop(c)
        PROVE  status'[j] = status[j]
    <3>1. cancel[c].job # j
      BY <2>1, <2>8 DEF CancelDrop, Dropped
    <3>2. QED
      BY <2>2, <2>8, <3>1 DEF CancelDrop, FinishJob
  <2>9. ASSUME NEW c \in Canceler,
               CancelLocked(c) \/ CancelSignal(c) \/ \E i \in Job : CancelRead(c, i)
        PROVE  status'[j] = status[j]
    BY <2>9 DEF CancelLocked, CancelSignal, CancelRead, rows
  <2>10. CASE UNCHANGED vars
    BY <2>10 DEF vars
  <2>11. QED
    BY <1>1, <2>3, <2>4, <2>5, <2>6, <2>7, <2>8, <2>9, <2>10 DEF Next, Start, Retry
<1>2. IInv /\ [Next]_vars => [\A j \in Job : Done(status[j]) => status'[j] = status[j]]_vars
  BY <1>1
<1>3. QED
  BY <1>2, Invariance, PTL DEF Spec, OutcomeIsFinal
=============================================================================
