--------------------------- MODULE StackMoveProofs ---------------------------
(***************************************************************************)
(* Proofs about StackMove for every number of hosts, moves, changes and    *)
(* faults: every variable keeps its type, the routes are switched only to  *)
(* a host that has all that was written on the old one, and what clients   *)
(* wrote last is kept where the routes lead.  Between two hosts and with   *)
(* no call lost, one copy of the stack runs, and while nothing is canceled *)
(* it is the one the routes lead to.                                       *)
(***************************************************************************)
EXTENDS StackMove, QueueFacts, SequenceTheorems, TLAPS

LEMMA Bounds ==
  /\ Home \in Host /\ MaxMoves \in Nat /\ MaxWrites \in Nat /\ MaxFaults \in Nat
  /\ MaxCancels \in Nat
BY ConstantsAssumption

\* The types, by owner.
HubRecord ==
  [at : Place, op : Op \cup Call \cup {"none"}, action : Action,
   id : Move \cup {NoMove}, from : Host, to : Host, old : Move \cup {NoMove},
   skip : BOOLEAN, wipe : BOOLEAN, canceled : BOOLEAN]
MoveRecord ==
  [state : {"none", "moved", "rolled_back", "removed", "returned"},
   from : Host, to : Host, second : BOOLEAN]
Results == [Op -> [Move -> {"none", "pending", "succeeded", "failed"}]]

CopyType ==
  /\ cont \in [Host -> {"none", "stopped", "up"}]
  /\ data \in [Host -> Data]
  /\ staged \in [Host -> [Move -> Data]]
QueueType == queue \in [Host -> Seq(Task)] /\ result \in Results
RecordType == recs \in [Move -> MoveRecord] /\ route \in Host
CountType == moves \in 0..MaxMoves /\ newest \in 0..MaxWrites /\ cancels \in 0..MaxCancels
FaultType == faults \in 0..MaxFaults
PastType == stale \in BOOLEAN /\ astray \in BOOLEAN

\* Which job the hub has at which place.
HubType ==
  /\ hub \in HubRecord
  /\ hub.at # "idle" => hub.id \in Move
  /\ hub.op = "clean" => hub.old \in Move
  /\ hub.at \in {"post", "wait"} => hub.op \in Op
  /\ hub.at = "copy" => hub.op = "pack" /\ hub.action = "move"
  /\ hub.at = "call" => hub.op \in Call
  /\ hub.op \in {"clean", "pack", "unpack", "undo"} => hub.action = "move"
  /\ hub.op = "start" => hub.action = "rollback"

TypeInv ==
  CopyType /\ QueueType /\ RecordType /\ CountType /\ FaultType /\ PastType /\ HubType

LEMMA TypeByOwner == TypeInv => TypeOK
BY Zenon DEF TypeInv, CopyType, QueueType, RecordType, CountType, FaultType, PastType, HubType,
   TypeOK, HubRecord, MoveRecord, Results

LEMMA IdleType == Idle \in HubRecord /\ Idle.at = "idle" /\ Idle.op = "none"
BY Bounds DEF Idle, HubRecord, Place, Action

LEMMA DataTypes == NoCopy \in Data /\ Part \in Data /\ Data \subseteq Int /\ 0..MaxWrites \subseteq Data
BY Bounds DEF Data, NoCopy, Part

LEMMA TypeInit == Init => TypeInv
<1> SUFFICES ASSUME Init PROVE TypeInv
  OBVIOUS
<1> USE Bounds DEF Init
<1>1. CopyType
  BY DataTypes, 0 \in Data DEF CopyType
<1>2. QueueType
  BY DEF QueueType, Results
<1>3. RecordType
  BY DEF RecordType, MoveRecord, NoRecord
<1>4. CountType /\ FaultType
  BY DEF CountType, FaultType
<1>5. PastType
  BY Zenon DEF PastType
<1>6. HubType
  BY IdleType DEF HubType
<1>7. QED
  BY <1>1, <1>2, <1>3, <1>4, <1>5, <1>6 DEF TypeInv

\* What a step leaves alone keeps its type; all steps set stale and astray alike.
LEMMA SameTypes ==
  ASSUME TypeInv
  PROVE  /\ UNCHANGED <<cont, data, staged>> => CopyType'
         /\ UNCHANGED <<queue, result>> => QueueType'
         /\ UNCHANGED <<recs, route>> => RecordType'
         /\ UNCHANGED ghosts => CountType'
         /\ UNCHANGED faults => FaultType'
         /\ UNCHANGED hub => HubType'
BY DEF TypeInv, CopyType, QueueType, RecordType, CountType, FaultType, HubType, ghosts

LEMMA PastTypes ==
  ASSUME TypeInv, Watch
  PROVE  PastType'
<1>1. stale' \in BOOLEAN
  BY Zenon DEF Watch, TypeInv, PastType
<1>2. astray' \in BOOLEAN
  BY Zenon DEF Watch, TypeInv, PastType
<1>3. QED
  BY <1>1, <1>2 DEF PastType

LEMMA FaultTypes ==
  ASSUME TypeInv, Fault \/ NoFault
  PROVE  FaultType'
BY Bounds DEF Fault, NoFault, TypeInv, FaultType

\* What the hub goes on with after a job of a host: nothing else changes in its job.
SameJob ==
  /\ hub'.id = hub.id /\ hub'.from = hub.from /\ hub'.to = hub.to
  /\ hub'.old = hub.old /\ hub'.action = hub.action

LEMMA ProceedTo ==
  ASSUME TypeInv, NEW ok \in BOOLEAN, hub.at \in {"post", "wait"}, Proceed(ok)
  PROVE  /\ HubType'
         /\ hub'.at # "idle" => SameJob
         /\ \/ hub' = Idle
            \/ ok /\ hub.op \in {"clean", "remove"} /\ hub'.at = "note" /\ hub'.op = hub.op
            \/ ok /\ hub.op = "pack" /\ hub'.at = "copy" /\ hub'.op = "pack"
            \/ ok /\ hub.op = "unpack" /\ hub'.at = "switch" /\ hub'.op = "unpack"
            \/ ~ok /\ hub.op = "unpack" /\ hub'.at = "post" /\ hub'.op = "undo"
            \/ hub.op = "undo" /\ hub'.at = "call" /\ hub'.op = "restart"
<1> USE IdleType DEF TypeInv, HubType, SameJob
<1>0. hub \in HubRecord
  OBVIOUS
<1>1. CASE ok /\ hub.op \in {"clean", "remove"}
  <2>1. hub' = [hub EXCEPT !.at = "note"]
    BY <1>1 DEF Proceed
  <2>2. QED
    BY <1>1, <2>1 DEF HubRecord, Place, Op, Call
<1>2. CASE ok /\ hub.op = "pack"
  <2>1. hub' = [hub EXCEPT !.at = "copy"]
    BY <1>2 DEF Proceed
  <2>2. QED
    BY <1>2, <2>1 DEF HubRecord, Place, Op, Call
<1>3. CASE ok /\ hub.op = "unpack"
  <2>1. hub' = [hub EXCEPT !.at = "switch"]
    BY <1>3 DEF Proceed
  <2>2. QED
    BY <1>3, <2>1 DEF HubRecord, Place, Op, Call
<1>4. CASE ~ok /\ hub.op = "unpack"
  <2>1. hub' = [hub EXCEPT !.at = "post", !.op = "undo"]
    BY <1>4 DEF Proceed
  <2>2. QED
    BY <1>4, <2>1 DEF HubRecord, Place, Op, Call
<1>5. CASE hub.op = "undo"
  <2>1. hub' = [hub EXCEPT !.at = "call", !.op = "restart"]
    BY <1>5 DEF Proceed
  <2>2. QED
    BY <1>5, <2>1 DEF HubRecord, Place, Op, Call
<1>6. CASE ~ok /\ hub.op \in {"clean", "remove", "pack"}
  <2>1. hub' = Idle
    BY <1>6 DEF Proceed
  <2>2. QED
    BY <2>1
<1>7. QED
  BY <1>1, <1>2, <1>3, <1>4, <1>5, <1>6 DEF Op
-----------------------------------------------------------------------------
(* What becomes of the queues of the hosts *)

NewTask == [op |-> hub.op, id |-> TaskId, wipe |-> hub.wipe, at |-> "queued",
            canceled |-> FALSE]

LEMMA HubFacts ==
  ASSUME TypeInv, hub.at # "idle"
  PROVE  /\ OnHost \in Host /\ TaskId \in Move /\ hub.from \in Host /\ hub.to \in Host
         /\ hub.id \in Move
         /\ hub.at \in {"post", "wait"} => hub.op \in Op
BY DEF TypeInv, HubType, HubRecord, OnHost, TaskId

LEMMA SubmitFacts ==
  ASSUME TypeInv, hub.at = "post", NEW h \in Host, Submit(h)
  PROVE  /\ QueueType' /\ NewTask \in Task
         /\ queue'[h] = Append(queue[h], NewTask)
         /\ \A g \in Host : g # h => queue'[g] = queue[g]
         /\ result' = [result EXCEPT ![hub.op][TaskId] = "pending"]
<1>1. TaskId \in Move /\ hub.op \in Op /\ hub.wipe \in BOOLEAN
  BY HubFacts DEF TypeInv, HubType, HubRecord
<1>2. NewTask \in Task
  BY <1>1 DEF NewTask, Task, Stage
<1>3. Append(queue[h], NewTask) \in Seq(Task)
  BY <1>2, AppendProperties DEF TypeInv, QueueType
<1>4. queue' = [queue EXCEPT ![h] = Append(queue[h], NewTask)]
  BY DEF Submit, NewTask
<1>5. result' = [result EXCEPT ![hub.op][TaskId] = "pending"]
  BY DEF Submit
<1>6. result' \in Results
  BY <1>1, <1>5 DEF TypeInv, QueueType, Results
<1>7. QED
  BY <1>2, <1>3, <1>4, <1>5, <1>6 DEF TypeInv, QueueType

\* The job at the head of the queue goes on, or it ends.
GoesOn(h) ==
  /\ Len(queue'[h]) = Len(queue[h])
  /\ queue'[h][1].op = queue[h][1].op /\ queue'[h][1].id = queue[h][1].id
  /\ \A i \in DOMAIN queue[h] : i > 1 => queue'[h][i] = queue[h][i]
  /\ UNCHANGED result
Ends(h, r) ==
  /\ queue'[h] = Tail(queue[h])
  /\ result' = [result EXCEPT ![queue[h][1].op][queue[h][1].id] = r]

LEMMA HeadFacts ==
  ASSUME TypeInv, NEW h \in Host, queue[h] # <<>>
  PROVE  /\ Running(h) = queue[h][1] /\ queue[h][1] \in Task /\ 1 \in DOMAIN queue[h]
         /\ queue[h] \in Seq(Task) /\ Len(queue[h]) \in Nat /\ Len(queue[h]) >= 1
<1>1. queue[h] \in Seq(Task)
  BY DEF TypeInv, QueueType
<1>2. QED
  BY <1>1 DEF Running

LEMMA AdvanceFacts ==
  ASSUME TypeInv, NEW h \in Host, queue[h] # <<>>, NEW stage \in Stage, Advance(h, stage)
  PROVE  /\ QueueType' /\ GoesOn(h) /\ queue'[h][1].at = stage
         /\ \A g \in Host : g # h => queue'[g] = queue[g]
<1> DEFINE t == [queue[h][1] EXCEPT !.at = stage]
           q == [queue[h] EXCEPT ![1] = t]
<1>1. t \in Task /\ t.op = queue[h][1].op /\ t.id = queue[h][1].id /\ t.at = stage
  BY HeadFacts DEF Task
<1> HIDE DEF t
<1>2. /\ q \in Seq(Task) /\ Len(q) = Len(queue[h]) /\ q[1] = t
      /\ \A i \in DOMAIN queue[h] : i > 1 => q[i] = queue[h][i]
  BY <1>1, HeadFacts
<1>3. queue' = [queue EXCEPT ![h] = q] /\ result' = result
  BY DEF Advance, t
<1> HIDE DEF q
<1>4. queue'[h] = q /\ \A g \in Host : g # h => queue'[g] = queue[g]
  BY <1>3 DEF TypeInv, QueueType
<1>5. QueueType'
  BY <1>2, <1>3 DEF TypeInv, QueueType
<1>6. QED
  BY <1>1, <1>2, <1>3, <1>4, <1>5 DEF GoesOn

LEMMA EndFacts ==
  ASSUME TypeInv, NEW h \in Host, queue[h] # <<>>, NEW r \in {"succeeded", "failed"},
         End(h, r)
  PROVE  /\ QueueType' /\ Ends(h, r)
         /\ \A g \in Host : g # h => queue'[g] = queue[g]
<1>1. Tail(queue[h]) \in Seq(Task)
  BY HeadFacts, TailLemma
<1>2. queue[h][1].op \in Op /\ queue[h][1].id \in Move
  BY HeadFacts DEF Task
<1>3. /\ queue' = [queue EXCEPT ![h] = Tail(queue[h])]
      /\ result' = [result EXCEPT ![queue[h][1].op][queue[h][1].id] = r]
  BY HeadFacts DEF End
<1>4. result' \in Results
  BY <1>2, <1>3 DEF TypeInv, QueueType, Results
<1>5. QED
  BY <1>1, <1>3, <1>4 DEF TypeInv, QueueType, Ends

LEMMA CancelTaskFacts ==
  ASSUME TypeInv, hub.at = "wait", NEW h \in Host, CancelTask(h)
  PROVE  QueueType'
<1>1. queue[h] \in Seq(Task) /\ queue \in [Host -> Seq(Task)] /\ result \in Results
  BY DEF TypeInv, QueueType
<1>2. CASE UNCHANGED <<queue, result>>
  BY <1>2, SameTypes
<1>3. ASSUME NEW i \in DOMAIN queue[h],
             queue' = [queue EXCEPT ![h] = RemoveAt(queue[h], i)],
             result' = [result EXCEPT ![hub.op][TaskId] = "failed"]
      PROVE  QueueType'
  <2>1. RemoveAt(queue[h], i) \in Seq(Task)
    BY <1>1, RemoveAtLemma
  <2>2. hub.op \in Op /\ TaskId \in Move
    BY HubFacts
  <2>3. result' \in Results
    BY <1>1, <1>3, <2>2 DEF Results
  <2>4. QED
    BY <1>1, <1>3, <2>1, <2>3 DEF QueueType
<1>4. ASSUME NEW i \in DOMAIN queue[h],
             queue' = [queue EXCEPT ![h][i].canceled = TRUE], UNCHANGED result
      PROVE  QueueType'
  <2> DEFINE t == [queue[h][i] EXCEPT !.canceled = TRUE]
  <2>1. t \in Task
    <3>1. queue[h][i] \in Task
      BY <1>1
    <3>2. QED
      BY <3>1 DEF Task
  <2> HIDE DEF t
  <2>2. [queue[h] EXCEPT ![i] = t] \in Seq(Task)
    BY <1>1, <2>1
  <2>3. queue' = [queue EXCEPT ![h] = [queue[h] EXCEPT ![i] = t]]
    BY <1>4 DEF t
  <2>4. QED
    BY <1>1, <1>4, <2>2, <2>3 DEF QueueType
<1>5. QED
  BY <1>2, <1>3, <1>4 DEF CancelTask

LEMMA InterruptFacts ==
  ASSUME TypeInv, NEW h, Interrupt(h)
  PROVE  /\ QueueType' /\ queue' = [queue EXCEPT ![h] = <<>>]
         /\ \A o \in Op, m \in Move :
              IF h \in Host /\ \E i \in DOMAIN queue[h] : queue[h][i].op = o /\ queue[h][i].id = m
              THEN result'[o][m] = "failed" ELSE result'[o][m] = result[o][m]
<1>1. queue' = [queue EXCEPT ![h] = <<>>] /\ queue' \in [Host -> Seq(Task)]
  <2>1. queue' = [queue EXCEPT ![h] = <<>>]
    BY DEF Interrupt
  <2>2. <<>> \in Seq(Task) /\ queue \in [Host -> Seq(Task)]
    BY DEF TypeInv, QueueType
  <2>3. QED
    BY <2>1, <2>2
<1>2. result' = [o \in Op |-> [m \in Move |->
         IF h \in Host /\ \E i \in DOMAIN queue[h] : queue[h][i].op = o /\ queue[h][i].id = m
         THEN "failed" ELSE result[o][m]]]
  BY DEF Interrupt
<1>3. result' \in Results
  BY <1>2 DEF TypeInv, QueueType, Results
<1>4. QED
  BY <1>1, <1>2, <1>3 DEF QueueType
-----------------------------------------------------------------------------
(* What the hub goes on with *)

\* A job of the hub starts: where it begins and with which hosts.
LEMMA StartMoveTo ==
  ASSUME TypeInv, NEW from \in Host, NEW to \in Host, NEW clean \in BOOLEAN,
         StartMove(from, to, clean)
  PROVE  /\ HubType' /\ moves' = moves + 1 /\ moves' \in Move /\ CountType'
         /\ hub'.at = "post" /\ hub'.op \in {"pack", "clean"} /\ hub'.action = "move"
         /\ hub'.id = moves' /\ hub'.from # hub'.to
<1>1. moves' = moves + 1 /\ moves' \in Move /\ UNCHANGED <<newest, cancels>>
  BY Bounds DEF StartMove, TypeInv, CountType, Move
<1>2. PICK old \in Move \cup {NoMove} :
        hub' = [Idle EXCEPT !.at = "post", !.op = IF old = NoMove THEN "pack" ELSE "clean",
                            !.action = "move", !.id = moves + 1, !.from = from, !.to = to,
                            !.old = old, !.wipe = (old # NoMove)]
  BY DEF StartMove
<1>3. /\ hub'.at = "post" /\ hub'.op = (IF old = NoMove THEN "pack" ELSE "clean")
      /\ hub'.action = "move" /\ hub'.id = moves' /\ hub'.from = from /\ hub'.to = to
      /\ hub'.old = old
  BY <1>1, <1>2 DEF Idle
<1>4. hub' \in HubRecord
  <2> DEFINE op == IF old = NoMove THEN "pack" ELSE "clean"
             wipe == old # NoMove
  <2>1. op \in Op /\ wipe \in BOOLEAN
    BY DEF Op
  <2> HIDE DEF op, wipe
  <2>2. hub' = [Idle EXCEPT !.at = "post", !.op = op, !.action = "move", !.id = moves + 1,
                            !.from = from, !.to = to, !.old = old, !.wipe = wipe]
    BY <1>2 DEF op, wipe
  <2>3. QED
    BY <1>1, <2>1, <2>2, IdleType DEF HubRecord, Place, Action
<1>5. from # to
  BY DEF StartMove
<1>6. CountType'
  BY <1>1 DEF CountType, Move, TypeInv
<1>7. hub'.old = NoMove => hub'.op = "pack"
  BY <1>3
<1>8. HubType'
  BY <1>1, <1>3, <1>4 DEF HubType, Op
<1>9. QED
  BY <1>1, <1>3, <1>5, <1>6, <1>8

LEMMA StartOtherTo ==
  ASSUME TypeInv, NEW m \in Move, NEW b \in BOOLEAN,
         StartRollback(m, b) \/ StartRemove(m, b) \/ StartStopNew(m)
  PROVE  HubType' /\ hub'.at \in {"call", "post"} /\ hub'.action # "move"
<1>1. recs[m].from \in Host /\ recs[m].to \in Host
  BY DEF TypeInv, RecordType, MoveRecord
<1>2. CASE StartRollback(m, b)
  <2>1. /\ hub' = [Idle EXCEPT !.at = "call", !.op = IF b THEN "start" ELSE "stop",
                        !.action = "rollback", !.id = m, !.from = recs[m].from,
                        !.to = recs[m].to, !.skip = b]
        /\ (IF b THEN "start" ELSE "stop") \in Call
    BY <1>2 DEF StartRollback, Call
  <2>2. hub' \in HubRecord
    BY <1>1, <2>1, IdleType DEF HubRecord, Place, Action
  <2>3. /\ hub'.at = "call" /\ hub'.op = (IF b THEN "start" ELSE "stop")
        /\ hub'.action = "rollback" /\ hub'.id = m
    BY <2>1 DEF Idle
  <2>4. QED
    BY <2>2, <2>3 DEF HubType, Call
<1>3. CASE StartRemove(m, b)
  <2>1. hub' = [Idle EXCEPT !.at = "post", !.op = "remove", !.action = "remove", !.id = m,
                        !.from = recs[m].from, !.to = recs[m].to, !.wipe = b]
    BY <1>3 DEF StartRemove
  <2>2. hub' \in HubRecord
    BY <1>1, <2>1, IdleType DEF HubRecord, Place, Action, Op
  <2>3. hub'.at = "post" /\ hub'.op = "remove" /\ hub'.action = "remove" /\ hub'.id = m
    BY <2>1 DEF Idle
  <2>4. QED
    BY <2>2, <2>3 DEF HubType, Op
<1>4. CASE StartStopNew(m)
  <2>1. hub' = [Idle EXCEPT !.at = "call", !.op = "stop", !.action = "stopnew", !.id = m,
                        !.from = recs[m].from, !.to = recs[m].to]
    BY <1>4 DEF StartStopNew
  <2>2. hub' \in HubRecord
    BY <1>1, <2>1, IdleType DEF HubRecord, Place, Action, Call
  <2>3. hub'.at = "call" /\ hub'.op = "stop" /\ hub'.action = "stopnew" /\ hub'.id = m
    BY <2>1 DEF Idle
  <2>4. QED
    BY <2>2, <2>3 DEF HubType, Call
<1>5. QED
  BY <1>2, <1>3, <1>4

\* The hub goes on from a call, a switch, a record or a sweep.
LEMMA CallTo ==
  ASSUME TypeInv, CallHost
  PROVE  /\ HubType'
         /\ hub'.at # "idle" => SameJob
         /\ hub'.at \in {"idle", "sweep", "call", "note", "switch"}
         /\ hub'.at = "switch" => hub'.action = "rollback"
         /\ hub'.at # "idle" => hub'.op \in Call
<1>1. /\ hub.at = "call" /\ hub \in HubRecord
      /\ \E ok \in BOOLEAN : Answered(ok)
  BY DEF CallHost, TypeInv, HubType
<1>2. hub.op \in Call /\ hub.id \in Move
  BY <1>1 DEF TypeInv, HubType
<1>3. PICK ok \in BOOLEAN : Answered(ok)
  BY <1>1
<1>4. CASE hub.op = "restart"
  <2>1. hub' = [hub EXCEPT !.at = "sweep"]
    BY <1>3, <1>4 DEF Answered
  <2>2. QED
    BY <1>1, <1>2, <1>4, <2>1 DEF HubType, HubRecord, Place, SameJob, TypeInv
<1>5. CASE ok /\ hub.op = "stop" /\ hub.action = "rollback"
  <2>1. hub' = [hub EXCEPT !.op = "start"]
    BY <1>3, <1>5 DEF Answered
  <2>2. QED
    BY <1>1, <1>2, <1>5, <2>1 DEF HubType, HubRecord, Call, SameJob, TypeInv
<1>6. CASE ok /\ hub.op = "stop" /\ hub.action = "stopnew"
  <2>1. hub' = [hub EXCEPT !.at = "note"]
    BY <1>3, <1>6 DEF Answered
  <2>2. QED
    BY <1>1, <1>2, <1>6, <2>1 DEF HubType, HubRecord, Place, SameJob, TypeInv
<1>7. CASE ok /\ hub.op = "start"
  <2>1. hub' = [hub EXCEPT !.at = "switch"]
    BY <1>3, <1>7 DEF Answered
  <2>2. QED
    BY <1>1, <1>2, <1>7, <2>1 DEF HubType, HubRecord, Place, SameJob, TypeInv
<1>8. CASE hub' = Idle
  BY <1>8, IdleType DEF HubType
<1>9. QED
  BY <1>2, <1>3, <1>4, <1>5, <1>6, <1>7, <1>8 DEF Answered, Call

LEMMA CopyTo ==
  ASSUME TypeInv, Copy
  PROVE  /\ HubType' /\ SameJob /\ hub'.at = "post"
         /\ \/ /\ hub'.op = "unpack"
               /\ staged' = [staged EXCEPT ![hub.to][hub.id] = staged[hub.from][hub.id]]
            \/ hub'.op = "undo" /\ UNCHANGED staged
<1>1. hub \in HubRecord /\ hub.id \in Move /\ hub.action = "move"
  BY DEF Copy, TypeInv, HubType
<1>2. ASSUME NEW o \in {"unpack", "undo"}, hub' = [hub EXCEPT !.at = "post", !.op = o]
      PROVE  HubType' /\ SameJob /\ hub'.at = "post" /\ hub'.op = o
  BY <1>1, <1>2 DEF HubType, HubRecord, Place, Op, SameJob
<1>3. QED
  BY <1>2 DEF Copy

LEMMA NoteTo ==
  ASSUME TypeInv, Note
  PROVE  /\ HubType'
         /\ hub'.at # "idle" => SameJob
         /\ \/ hub'.at \in {"idle", "sweep"}
            \/ hub.op = "clean" /\ hub'.at = "post" /\ hub'.op = "pack"
<1>1. hub \in HubRecord /\ hub.id \in Move
  BY DEF Note, TypeInv, HubType
<1>2. CASE hub.op = "clean"
  <2>1. hub' = [hub EXCEPT !.at = "post", !.op = "pack"]
    BY <1>2 DEF Note
  <2>2. QED
    BY <1>1, <1>2, <2>1 DEF HubType, HubRecord, Place, Op, SameJob, TypeInv
<1>3. CASE hub.op = "unpack"
  <2>1. hub' = [hub EXCEPT !.at = "sweep"]
    BY <1>3 DEF Note
  <2>2. QED
    BY <1>1, <1>3, <2>1 DEF HubType, HubRecord, Place, SameJob, TypeInv
<1>4. CASE hub.op \notin {"clean", "unpack"}
  <2>1. hub' = Idle
    BY <1>4 DEF Note
  <2>2. QED
    BY <2>1, IdleType DEF HubType
<1>5. QED
  BY <1>2, <1>3, <1>4

LEMMA SwitchTo ==
  ASSUME TypeInv, Switch
  PROVE  HubType' /\ hub'.at = "note" /\ SameJob
<1>1. hub \in HubRecord /\ hub.id \in Move /\ hub' = [hub EXCEPT !.at = "note"]
  BY DEF Switch, TypeInv, HubType
<1>2. QED
  BY <1>1 DEF HubType, HubRecord, Place, SameJob, TypeInv

LEMMA IdleTo ==
  ASSUME hub' = Idle
  PROVE  HubType' /\ hub'.at = "idle"
BY IdleType DEF HubType
-----------------------------------------------------------------------------
(* What a host does *)

\* A step of a host touches that host alone, and of the files of moves only those
\* of the move it packs.
OnlyHere(h) ==
  /\ \A g \in Host : g # h => /\ cont'[g] = cont[g] /\ data'[g] = data[g]
                             /\ staged'[g] = staged[g] /\ queue'[g] = queue[g]
  /\ \A m \in Move : \/ queue[h][1].op = "pack" /\ queue[h][1].id = m
                     \/ staged'[h][m] = staged[h][m]

\* The containers are stopped before the files are packed, the data are those
\* packed before the containers run.
StageReached(h) ==
  /\ queue'[h][1].at = "packing" => cont'[h] = "stopped"
  /\ queue'[h][1].at = "raising" => data'[h] = staged[h][queue[h][1].id]
  /\ queue'[h][1].at = "waiting" => data'[h] = data[h] /\ queue[h][1].at = "raising"
EndReached(h) ==
  /\ queue[h][1].op = "pack" =>
       /\ queue[h][1].at = "packing"
       /\ cont'[h] = cont[h] /\ data'[h] = data[h]
       /\ staged'[h][queue[h][1].id] = data[h]
  /\ queue[h][1].op = "unpack" => queue[h][1].at = "waiting" /\ data'[h] = data[h]

HostEffect(h) ==
  /\ queue[h] # <<>> /\ OnlyHere(h) /\ CopyType' /\ QueueType'
  /\ \/ GoesOn(h) /\ StageReached(h)
     \/ Ends(h, "failed")
     \/ Ends(h, "succeeded") /\ EndReached(h)

LEMMA AtFacts ==
  ASSUME TypeInv, NEW h \in Host, NEW o, NEW stage, At(h, o, stage)
  PROVE  /\ queue[h] # <<>> /\ queue[h][1].op = o /\ queue[h][1].at = stage
         /\ Running(h) = queue[h][1] /\ queue[h][1].id \in Move
<1>1. queue[h] # <<>>
  BY DEF At
<1>2. Running(h) = queue[h][1] /\ queue[h][1] \in Task
  BY <1>1, HeadFacts
<1>3. QED
  BY <1>1, <1>2 DEF At, Task

LEMMA PackEffect ==
  ASSUME TypeInv, NEW h \in Host, PackBegin(h) \/ PackStop(h) \/ PackFiles(h)
  PROVE  HostEffect(h)
<1> USE DEF HostEffect, OnlyHere, StageReached, EndReached
<1>0. /\ queue[h] # <<>> /\ queue[h][1].op = "pack" /\ queue[h][1].id \in Move
      /\ Running(h) = queue[h][1] /\ CopyType
  BY AtFacts DEF PackBegin, PackStop, PackFiles, TypeInv
<1>1. CASE PackBegin(h)
  <2>1. CopyType' /\ UNCHANGED <<cont, data, staged>>
    BY <1>1, SameTypes DEF PackBegin
  <2>2. CASE End(h, "failed")
    BY <1>0, <2>1, <2>2, EndFacts
  <2>3. CASE Advance(h, "stopping")
    <3>1. "stopping" \in Stage
      BY DEF Stage
    <3>2. QED
      BY <1>0, <2>1, <2>3, <3>1, AdvanceFacts
  <2>4. QED
    BY <1>1, <2>2, <2>3 DEF PackBegin
<1>2. CASE PackStop(h)
  <2>1. UNCHANGED <<data, staged>> /\ (cont' = [cont EXCEPT ![h] = "stopped"] \/ cont' = cont)
    BY <1>2 DEF PackStop, StopContainers
  <2>2. CopyType' /\ \A g \in Host : g # h => cont'[g] = cont[g]
    BY <1>0, <2>1 DEF CopyType
  <2>3. CASE StopContainers(h) /\ Advance(h, "packing")
    <3>1. "packing" \in Stage
      BY DEF Stage
    <3>2. cont'[h] = "stopped"
      BY <1>0, <2>3 DEF StopContainers, CopyType
    <3>3. QED
      BY <1>0, <2>1, <2>2, <2>3, <3>1, <3>2, AdvanceFacts
  <2>4. CASE End(h, "failed")
    BY <1>0, <2>1, <2>2, <2>4, EndFacts
  <2>5. QED
    BY <1>2, <2>3, <2>4 DEF PackStop
<1>3. CASE PackFiles(h)
  <2>1. data[h] \in Data /\ NoCopy \in Data
    BY <1>0, DataTypes DEF CopyType
  <2>2. queue[h][1].at = "packing" /\ UNCHANGED data
    BY <1>3, AtFacts DEF PackFiles
  <2>3. CASE /\ staged' = [staged EXCEPT ![h][queue[h][1].id] = data[h]]
             /\ End(h, "succeeded") /\ UNCHANGED cont
    <3>1. /\ CopyType' /\ staged'[h][queue[h][1].id] = data[h]
          /\ \A g \in Host : g # h => staged'[g] = staged[g]
          /\ \A m \in Move : m # queue[h][1].id => staged'[h][m] = staged[h][m]
      BY <1>0, <2>1, <2>2, <2>3 DEF CopyType
    <3>2. QED
      BY <1>0, <2>2, <2>3, <3>1, EndFacts
  <2>4. CASE /\ staged' = [staged EXCEPT ![h][queue[h][1].id] = NoCopy]
             /\ End(h, "failed") /\ cont' = [cont EXCEPT ![h] = "up"]
    <3>1. /\ CopyType' /\ \A g \in Host : g # h => staged'[g] = staged[g] /\ cont'[g] = cont[g]
          /\ \A m \in Move : m # queue[h][1].id => staged'[h][m] = staged[h][m]
      BY <1>0, <2>1, <2>2, <2>4 DEF CopyType
    <3>2. QED
      BY <1>0, <2>2, <2>4, <3>1, EndFacts
  <2>5. QED
    BY <1>0, <1>3, <2>3, <2>4 DEF PackFiles
<1>4. QED
  BY <1>1, <1>2, <1>3

LEMMA UnpackEffect ==
  ASSUME TypeInv, NEW h \in Host,
         UnpackBegin(h) \/ UnpackFill(h) \/ UnpackRaise(h) \/ UnpackWait(h)
  PROVE  HostEffect(h)
<1> USE DEF HostEffect, OnlyHere, StageReached, EndReached
<1>0. /\ queue[h] # <<>> /\ queue[h][1].op = "unpack" /\ queue[h][1].id \in Move
      /\ Running(h) = queue[h][1] /\ CopyType
      /\ UNCHANGED staged
      /\ Packed(h) = staged[h][queue[h][1].id] /\ Packed(h) \in Data /\ Part \in Data
  BY AtFacts, DataTypes
     DEF UnpackBegin, UnpackFill, UnpackRaise, UnpackWait, TypeInv, CopyType, Packed
<1>1. CASE UnpackBegin(h)
  <2>1. CASE End(h, "failed") /\ UNCHANGED <<cont, data>>
    BY <1>0, <2>1, EndFacts, SameTypes
  <2>2. CASE data' = [data EXCEPT ![h] = Part] /\ Advance(h, "filling") /\ UNCHANGED cont
    <3>1. "filling" \in Stage
      BY DEF Stage
    <3>2. CopyType' /\ \A g \in Host : g # h => data'[g] = data[g]
      BY <1>0, <2>2 DEF CopyType
    <3>3. QED
      BY <1>0, <2>2, <3>1, <3>2, AdvanceFacts
  <2>3. QED
    BY <1>1, <2>1, <2>2 DEF UnpackBegin
<1>2. CASE UnpackFill(h)
  <2>1. CASE /\ data' = [data EXCEPT ![h] = Packed(h)]
             /\ cont' = [cont EXCEPT ![h] = "stopped"] /\ Advance(h, "raising")
    <3>1. "raising" \in Stage
      BY DEF Stage
    <3>2. /\ CopyType' /\ data'[h] = Packed(h)
          /\ \A g \in Host : g # h => data'[g] = data[g] /\ cont'[g] = cont[g]
      BY <1>0, <2>1 DEF CopyType
    <3>3. QED
      BY <1>0, <2>1, <3>1, <3>2, AdvanceFacts
  <2>2. ASSUME NEW c \in {"none", "stopped"}, cont' = [cont EXCEPT ![h] = c],
               End(h, "failed"), UNCHANGED data
        PROVE  HostEffect(h)
    <3>1. CopyType' /\ \A g \in Host : g # h => cont'[g] = cont[g]
      BY <1>0, <2>2 DEF CopyType
    <3>2. QED
      BY <1>0, <2>2, <3>1, EndFacts
  <2>3. QED
    BY <1>2, <2>1, <2>2 DEF UnpackFill
<1>3. CASE UnpackRaise(h)
  <2>1. queue[h][1].at = "raising" /\ UNCHANGED data
    BY <1>3, AtFacts DEF UnpackRaise
  <2>2. CASE cont' = [cont EXCEPT ![h] = "up"] /\ Advance(h, "waiting")
    <3>1. "waiting" \in Stage
      BY DEF Stage
    <3>2. CopyType' /\ \A g \in Host : g # h => cont'[g] = cont[g]
      BY <1>0, <2>1, <2>2 DEF CopyType
    <3>3. QED
      BY <1>0, <2>1, <2>2, <3>1, <3>2, AdvanceFacts
  <2>3. CASE End(h, "failed") /\ UNCHANGED cont
    BY <1>0, <2>1, <2>3, EndFacts, SameTypes
  <2>4. QED
    BY <1>3, <2>2, <2>3 DEF UnpackRaise
<1>4. CASE UnpackWait(h)
  <2>1. queue[h][1].at = "waiting" /\ UNCHANGED <<cont, data>>
    BY <1>4, AtFacts DEF UnpackWait
  <2>2. QED
    BY <1>0, <1>4, <2>1, EndFacts, SameTypes DEF UnpackWait
<1>5. QED
  BY <1>1, <1>2, <1>3, <1>4

LEMMA DeleteEffect ==
  ASSUME TypeInv, NEW h \in Host, Undo(h) \/ RemoveCopy(h) \/ DockerFails(h)
  PROVE  HostEffect(h)
<1> USE DEF HostEffect, OnlyHere, EndReached
<1>1. PICK o \in {"undo", "remove", "clean"} : At(h, o, "queued")
  BY DEF Undo, RemoveCopy, DockerFails
<1>2. /\ queue[h] # <<>> /\ queue[h][1].op = o /\ CopyType /\ UNCHANGED staged
      /\ NoCopy \in Data
  BY <1>1, AtFacts, DataTypes DEF Undo, RemoveCopy, DockerFails, TypeInv
<1>3. /\ cont' = [cont EXCEPT ![h] = "none"] \/ cont' = cont
      /\ data' = [data EXCEPT ![h] = NoCopy] \/ data' = [data EXCEPT ![h] = data[h]]
         \/ data' = data
      /\ End(h, "succeeded") \/ End(h, "failed")
  BY DEF Undo, RemoveCopy, DockerFails
<1>4. /\ CopyType'
      /\ \A g \in Host : g # h => cont'[g] = cont[g] /\ data'[g] = data[g]
  BY <1>2, <1>3 DEF CopyType
<1>5. QED
  BY <1>2, <1>3, <1>4, EndFacts

LEMMA HostEffects ==
  ASSUME TypeInv, NEW h \in Host, HostStep(h) \/ DockerFails(h)
  PROVE  /\ HostEffect(h) /\ UNCHANGED <<hub, recs, route, ghosts>>
         /\ Watch
         /\ Fault \/ NoFault
BY PackEffect, UnpackEffect, DeleteEffect DEF HostStep, DockerFails, NoFault
-----------------------------------------------------------------------------
(* Every variable keeps its type *)

LEMMA RecordTypes ==
  ASSUME TypeInv, Note
  PROVE  RecordType'
<1>1. hub \in HubRecord /\ hub.id \in Move /\ (hub.op = "clean" => hub.old \in Move)
  BY DEF Note, TypeInv, HubType
<1>2. Noted \in [Move -> MoveRecord]
  <2> DEFINE new == [state |-> "moved", from |-> hub.from, to |-> hub.to, second |-> FALSE]
  <2>1. new \in MoveRecord
    BY <1>1 DEF MoveRecord, HubRecord
  <2> HIDE DEF new
  <2>2. \A m \in Move : recs[m] \in MoveRecord
    BY DEF TypeInv, RecordType
  <2>3. \A m \in Move : /\ [recs[m] EXCEPT !.state = "returned"] \in MoveRecord
                        /\ [recs[m] EXCEPT !.second = FALSE] \in MoveRecord
    BY <2>2 DEF MoveRecord
  <2>4. [recs EXCEPT ![hub.id] = new] \in [Move -> MoveRecord]
    BY <2>1 DEF TypeInv, RecordType
  <2>5. [recs EXCEPT ![hub.id].second = FALSE] \in [Move -> MoveRecord]
    BY <2>3 DEF TypeInv, RecordType
  <2>6. hub.op = "clean" =>
          [recs EXCEPT ![hub.old].state = "returned"] \in [Move -> MoveRecord]
    BY <1>1, <2>3 DEF TypeInv, RecordType
  <2>7. ASSUME NEW st \in {"removed", "rolled_back"}, NEW b \in BOOLEAN
        PROVE  [recs EXCEPT ![hub.id].state = st, ![hub.id].second = b]
                  \in [Move -> MoveRecord]
    <3>1. \A m \in Move : [recs[m] EXCEPT !.state = st] \in MoveRecord
      BY <2>2 DEF MoveRecord
    <3>2. [recs EXCEPT ![hub.id].state = st] \in [Move -> MoveRecord]
      BY <3>1 DEF TypeInv, RecordType
    <3>3. \A r \in MoveRecord : [r EXCEPT !.second = b] \in MoveRecord
      BY DEF MoveRecord
    <3>4. QED
      BY <3>2, <3>3
  <2>8. hub.skip \in BOOLEAN
    BY <1>1 DEF HubRecord
  <2>9. QED
    BY <2>4, <2>5, <2>6, <2>7, <2>8 DEF Noted, new
<1>3. NoRecord \in MoveRecord
  BY Bounds DEF NoRecord, MoveRecord
<1>4. recs' \in [Move -> MoveRecord]
  <2>1. CASE recs' = Noted
    BY <1>2, <2>1
  <2>2. CASE UNCHANGED recs
    BY <2>2 DEF TypeInv, RecordType
  <2>3. CASE recs' = [m \in Move |-> IF hub.op = "unpack" /\ m = hub.id THEN Noted[m]
                                     ELSE NoRecord]
    BY <1>2, <1>3, <2>3
  <2>4. QED
    BY <2>1, <2>2, <2>3 DEF Note
<1>5. QED
  BY <1>4 DEF Note, TypeInv, RecordType

LEMMA HubTypes ==
  ASSUME TypeInv, HubStep
  PROVE  TypeInv'
<1>1. Watch /\ (Fault \/ NoFault)
  BY DEF HubStep, Post, Wait, Copy, CallHost, Switch, Note, Sweep
<1>2. PastType' /\ FaultType'
  BY <1>1, PastTypes, FaultTypes
<1>3. CASE Post
  <2>1. CASE Submit(OnHost) /\ hub' = [hub EXCEPT !.at = "wait"]
    <3>1. QueueType' /\ hub.at = "post" /\ hub.id \in Move
      BY <1>3, <2>1, SubmitFacts, HubFacts DEF Post
    <3>2. HubType'
      BY <2>1, <3>1 DEF TypeInv, HubType, HubRecord, Place
    <3>3. QED
      BY <1>2, <1>3, <3>1, <3>2, SameTypes DEF Post, TypeInv
  <2>2. CASE Proceed(FALSE) /\ (Submit(OnHost) \/ UNCHANGED <<queue, result>>)
    <3>1. QueueType' /\ hub.at = "post"
      BY <1>3, <2>2, SubmitFacts, HubFacts, SameTypes DEF Post
    <3>2. HubType'
      BY <2>2, <3>1, ProceedTo
    <3>3. QED
      BY <1>2, <1>3, <3>1, <3>2, SameTypes DEF Post, TypeInv
  <2>3. QED
    BY <1>3, <2>1, <2>2 DEF Post
<1>4. CASE Wait
  <2>1. /\ hub.at = "wait"
        /\ \E ok \in BOOLEAN : Proceed(ok)
        /\ CancelTask(OnHost) \/ UNCHANGED <<queue, result>>
    BY <1>4 DEF Wait
  <2>2. HubType' /\ QueueType'
    BY <2>1, ProceedTo, CancelTaskFacts, HubFacts, SameTypes
  <2>3. QED
    BY <1>2, <1>4, <2>2, SameTypes DEF Wait, TypeInv
<1>5. CASE Copy
  <2>1. hub.at = "copy" /\ hub.from \in Host /\ hub.to \in Host /\ hub.id \in Move
    BY <1>5, HubFacts DEF Copy
  <2>2. CopyType'
    <3>1. staged[hub.from][hub.id] \in Data
      BY <2>1 DEF TypeInv, CopyType
    <3>2. UNCHANGED <<cont, data>>
      BY <1>5 DEF Copy
    <3>3. \/ staged' = [staged EXCEPT ![hub.to][hub.id] = staged[hub.from][hub.id]]
          \/ UNCHANGED staged
      BY <1>5, CopyTo
    <3>4. staged \in [Host -> [Move -> Data]]
      BY DEF TypeInv, CopyType
    <3>5. staged' \in [Host -> [Move -> Data]]
      BY <2>1, <3>1, <3>3, <3>4
    <3>6. QED
      BY <3>2, <3>5 DEF TypeInv, CopyType
  <2>3. QED
    BY <1>2, <1>5, <2>2, CopyTo, SameTypes DEF Copy, TypeInv
<1>6. CASE CallHost
  <2>1. \/ \E h \in Host, c \in {"stopped", "up"} : cont' = [cont EXCEPT ![h] = c]
        \/ UNCHANGED cont
    <3>1. hub.from \in Host /\ hub.to \in Host
      BY <1>6, HubFacts DEF CallHost
    <3>2. QED
      BY <1>6, <3>1 DEF CallHost
  <2>2. CopyType'
    BY <1>6, <2>1 DEF CallHost, TypeInv, CopyType
  <2>3. UNCHANGED <<queue, result, recs, route, ghosts>>
    BY <1>6 DEF CallHost
  <2>4. HubType'
    BY <1>6, CallTo
  <2>5. QED
    BY <1>2, <2>2, <2>3, <2>4, SameTypes DEF TypeInv
<1>7. CASE Switch
  <2>1. hub.from \in Host /\ hub.to \in Host
    BY <1>7, HubFacts DEF Switch
  <2>2. RecordType'
    BY <1>7, <2>1 DEF Switch, TypeInv, RecordType
  <2>3. \A h : GivenUp(h) \in 0..MaxWrites
    BY Bounds DEF GivenUp, TypeInv, CountType
  <2>4. CountType'
    BY <1>7, <2>3 DEF Switch, TypeInv, CountType
  <2>5. QED
    BY <1>2, <1>7, <2>2, <2>4, SwitchTo, SameTypes DEF Switch, TypeInv, hosts
<1>8. CASE Note
  <2>1. UNCHANGED <<hosts, ghosts>>
    BY <1>8 DEF Note
  <2>2. HubType' /\ RecordType'
    BY <1>8, NoteTo, RecordTypes
  <2>3. QED
    BY <1>2, <2>1, <2>2, SameTypes DEF TypeInv, hosts
<1>9. CASE Sweep
  <2>1. hub.id \in Move
    BY <1>9, HubFacts DEF Sweep
  <2>2. CopyType'
    <3>1. UNCHANGED <<cont, data>>
      BY <1>9 DEF Sweep
    <3>2. \A h \in Host : [staged[h] EXCEPT ![hub.id] = NoCopy] \in [Move -> Data]
      BY <2>1, DataTypes DEF TypeInv, CopyType
    <3>3. \/ UNCHANGED staged
          \/ staged' = [h \in Host |-> IF h \in {hub.from, hub.to}
                          THEN [staged[h] EXCEPT ![hub.id] = NoCopy] ELSE staged[h]]
      BY <1>9 DEF Sweep
    <3>4. staged \in [Host -> [Move -> Data]]
      BY DEF TypeInv, CopyType
    <3>5. staged' \in [Host -> [Move -> Data]]
      BY <3>2, <3>3, <3>4
    <3>6. QED
      BY <3>1, <3>5 DEF TypeInv, CopyType
  <2>3. QED
    BY <1>2, <1>9, <2>2, IdleTo, SameTypes DEF Sweep, TypeInv
<1>10. QED
  BY <1>3, <1>4, <1>5, <1>6, <1>7, <1>8, <1>9 DEF HubStep

LEMMA OtherTypes ==
  ASSUME TypeInv,
         \/ \E from \in Host, to \in Host, clean \in BOOLEAN : StartMove(from, to, clean)
         \/ \E m \in Move, b \in BOOLEAN : StartRollback(m, b) \/ StartRemove(m, b)
         \/ \E m \in Move : StartStopNew(m)
         \/ Cancel \/ Write \/ HubRestarts
         \/ \E h \in Host : HostStep(h) \/ DockerFails(h) \/ HostRestarts(h)
  PROVE  TypeInv'
<1>1. ASSUME NEW from \in Host, NEW to \in Host, NEW clean \in BOOLEAN,
             StartMove(from, to, clean)
      PROVE  TypeInv'
  BY <1>1, StartMoveTo, PastTypes, SameTypes DEF StartMove, TypeInv, hosts
<1>2. ASSUME NEW m \in Move, NEW b \in BOOLEAN,
             StartRollback(m, b) \/ StartRemove(m, b) \/ StartStopNew(m)
      PROVE  TypeInv'
  BY <1>2, StartOtherTo, PastTypes, SameTypes
     DEF StartRollback, StartRemove, StartStopNew, TypeInv, hosts
<1>3. CASE Cancel
  <2>1. CountType'
    BY <1>3, Bounds DEF Cancel, TypeInv, CountType
  <2>2. HubType'
    BY <1>3 DEF Cancel, TypeInv, HubType, HubRecord
  <2>3. QED
    BY <1>3, <2>1, <2>2, PastTypes, SameTypes DEF Cancel, TypeInv, hosts
<1>4. CASE Write
  <2> DEFINE now == IF data[route] > newest THEN data[route] ELSE newest
  <2>1. /\ now < MaxWrites /\ newest' = now + 1
        /\ data' = [data EXCEPT ![route] = now + 1] /\ UNCHANGED <<moves, cancels>>
    BY <1>4 DEF Write
  <2>2. data[route] \in Int /\ newest \in Nat
    <3>1. data[route] \in Data
      BY DEF TypeInv, CopyType, RecordType
    <3>2. newest \in Nat
      BY Bounds DEF TypeInv, CountType
    <3>3. QED
      BY <3>1, <3>2, DataTypes
  <2>3. now + 1 \in 0..MaxWrites
    BY <2>1, <2>2, Bounds
  <2>4. CountType'
    BY <2>1, <2>3 DEF TypeInv, CountType
  <2>5. CopyType'
    BY <1>4, <2>1, <2>3, DataTypes DEF Write, TypeInv, CopyType
  <2>6. QED
    BY <1>4, <2>4, <2>5, PastTypes, SameTypes DEF Write, TypeInv
<1>5. CASE HubRestarts
  BY <1>5, InterruptFacts, IdleTo, FaultTypes, PastTypes, SameTypes DEF HubRestarts, TypeInv
<1>6. ASSUME NEW h \in Host, HostStep(h) \/ DockerFails(h)
      PROVE  TypeInv'
  BY <1>6, HostEffects, FaultTypes, PastTypes, SameTypes DEF HostEffect, TypeInv
<1>7. ASSUME NEW h \in Host, HostRestarts(h)
      PROVE  TypeInv'
  BY <1>7, InterruptFacts, FaultTypes, PastTypes, SameTypes DEF HostRestarts, TypeInv
<1>8. QED
  BY <1>1, <1>2, <1>3, <1>4, <1>5, <1>6, <1>7

LEMMA TypeStep == TypeInv /\ [Next]_vars => TypeInv'
<1>1. TypeInv /\ UNCHANGED vars => TypeInv'
  <2> SUFFICES ASSUME TypeInv, UNCHANGED vars PROVE TypeInv'
    OBVIOUS
  <2>1. PastType'
    BY Zenon DEF vars, TypeInv, PastType
  <2>2. QED
    BY <2>1, SameTypes DEF vars, hosts, TypeInv
<1>2. TypeInv /\ Next => TypeInv'
  BY HubTypes, OtherTypes DEF Next
<1>3. QED
  BY <1>1, <1>2

\* Every variable keeps its type: a record names hosts and one of the states, a
\* job stands in one queue with one of the stages of its operation.
THEOREM TypeCorrect == Spec => []TypeOK
<1>1. Spec => []TypeInv
  BY TypeInit, TypeStep, PTL DEF Spec
<1>2. QED
  BY <1>1, TypeByOwner, PTL
-----------------------------------------------------------------------------
(* Why nothing is left behind *)

Is(t, o, m) == t.op = o /\ t.id = m
Absent(o, m) == \A h \in Host : \A i \in DOMAIN queue[h] : ~Is(queue[h][i], o, m)

\* The job the hub waits for is the last one of its host and of its kind.
LastIn(h, o, m) ==
  /\ \A g \in Host : \A i \in DOMAIN queue[g] :
       Is(queue[g][i], o, m) <=> g = h /\ i = Len(queue[g])
  /\ queue[h] # <<>> => result[o][m] = "pending"

\* Jobs in the queues have been posted, and only the first one of a host runs.
QueueInv ==
  \A h \in Host : \A i \in DOMAIN queue[h] :
    /\ result[queue[h][i].op][queue[h][i].id] # "none"
    /\ i > 1 => queue[h][i].at = "queued"

\* Neither packing nor unpacking is posted twice.
FreshInv ==
  \A o \in {"pack", "unpack"}, m \in Move : m > moves => result[o][m] = "none"
StartInv ==
  hub.at # "idle" /\ hub.action = "move" =>
    /\ hub.id <= moves /\ hub.from # hub.to
    /\ hub.op = "clean" \/ (hub.op = "pack" /\ hub.at = "post") =>
         result["pack"][hub.id] = "none"
    /\ hub.op \in {"clean", "pack"} \/ (hub.op = "unpack" /\ hub.at = "post") =>
         result["unpack"][hub.id] = "none"

\* The old host at rest: nothing on it will start its containers again.
AtRest(m) == cont[hub.from] = "stopped" /\ queue[hub.from] = <<>> /\ Absent("pack", m)
LastAt(h, stages) == queue[h] # <<>> /\ queue[h][Len(queue[h])].at \in stages

PackInv ==
  hub.at = "wait" /\ hub.op = "pack" =>
    /\ LastIn(hub.from, "pack", hub.id)
    /\ LastAt(hub.from, {"packing"}) => cont[hub.from] = "stopped"
    /\ result["pack"][hub.id] = "succeeded" =>
         /\ queue[hub.from] = <<>> /\ cont[hub.from] = "stopped"
         /\ staged[hub.from][hub.id] = data[hub.from]
CopyInv ==
  hub.at = "copy" => AtRest(hub.id) /\ staged[hub.from][hub.id] = data[hub.from]
UnpackInv ==
  hub.op = "unpack" /\ hub.at \in {"post", "wait"} =>
    /\ AtRest(hub.id) /\ staged[hub.to][hub.id] = data[hub.from]
    /\ hub.at = "wait" =>
         /\ LastIn(hub.to, "unpack", hub.id)
         /\ LastAt(hub.to, {"raising", "waiting"}) => data[hub.to] >= data[hub.from]
         /\ result["unpack"][hub.id] = "succeeded" =>
              queue[hub.to] = <<>> /\ data[hub.to] >= data[hub.from]
SwitchInv ==
  hub.at = "switch" /\ hub.action = "move" =>
    /\ AtRest(hub.id) /\ queue[hub.to] = <<>> /\ data[hub.to] >= data[hub.from]

MoveInv ==
  QueueInv /\ FreshInv /\ StartInv /\ PackInv /\ CopyInv /\ UnpackInv /\ SwitchInv

LEMMA MoveInit == Init => MoveInv
<1> SUFFICES ASSUME Init PROVE MoveInv
  OBVIOUS
<1>1. hub.at = "idle" /\ hub.op = "none" /\ \A h \in Host : queue[h] = <<>>
  BY DEF Init, Idle
<1>2. QueueInv
  BY <1>1 DEF QueueInv
<1>3. FreshInv
  BY DEF Init, FreshInv, Op
<1>4. QED
  BY <1>1, <1>2, <1>3 DEF MoveInv, StartInv, PackInv, CopyInv, UnpackInv, SwitchInv

\* What the lines of the hosts look like after a step of one of them.
LEMMA LineFacts ==
  ASSUME TypeInv, NEW h \in Host
  PROVE  /\ queue[h] \in Seq(Task) /\ Len(queue[h]) \in Nat /\ DOMAIN queue[h] = 1..Len(queue[h])
         /\ queue[h] = <<>> <=> Len(queue[h]) = 0
         /\ \A i \in DOMAIN queue[h] : queue[h][i].op \in Op /\ queue[h][i].id \in Move
<1>1. queue[h] \in Seq(Task)
  BY DEF TypeInv, QueueType
<1>2. \A i \in DOMAIN queue[h] : queue[h][i] \in Task
  BY <1>1
<1>3. QED
  BY <1>1, <1>2, EmptySeq, LenProperties DEF Task

\* The jobs that are left were there before; the one that ends gets its result.
LEMMA LineStep ==
  ASSUME TypeInv, NEW h \in Host, HostEffect(h)
  PROVE  /\ queue'[h] \in Seq(Task) /\ Len(queue'[h]) \in Nat
         /\ DOMAIN queue'[h] = 1..Len(queue'[h])
         /\ queue'[h] = <<>> <=> Len(queue'[h]) = 0
         /\ \/ /\ GoesOn(h) /\ Len(queue'[h]) = Len(queue[h])
               /\ \A i \in DOMAIN queue[h] : queue'[h][i].op = queue[h][i].op
                                          /\ queue'[h][i].id = queue[h][i].id
               /\ UNCHANGED result
            \/ /\ Len(queue'[h]) = Len(queue[h]) - 1
               /\ \A i \in DOMAIN queue'[h] : i + 1 \in DOMAIN queue[h]
                                           /\ queue'[h][i] = queue[h][i + 1]
               /\ \A o \in Op, m \in Move :
                    IF Is(queue[h][1], o, m) THEN result'[o][m] \in {"succeeded", "failed"}
                    ELSE result'[o][m] = result[o][m]
<1>1. queue'[h] \in Seq(Task)
  BY DEF HostEffect, QueueType
<1>2. /\ Len(queue'[h]) \in Nat /\ DOMAIN queue'[h] = 1..Len(queue'[h])
      /\ queue'[h] = <<>> <=> Len(queue'[h]) = 0
  BY <1>1, EmptySeq, LenProperties
<1>3. CASE GoesOn(h)
  <2>1. \A i \in DOMAIN queue[h] : i = 1 \/ i > 1
    BY LineFacts
  <2>2. QED
    BY <1>1, <1>2, <1>3, <2>1 DEF GoesOn
<1>4. ASSUME NEW r \in {"succeeded", "failed"}, Ends(h, r)
      PROVE  /\ Len(queue'[h]) = Len(queue[h]) - 1
             /\ \A i \in DOMAIN queue'[h] : i + 1 \in DOMAIN queue[h]
                                         /\ queue'[h][i] = queue[h][i + 1]
             /\ \A o \in Op, m \in Move :
                  IF Is(queue[h][1], o, m) THEN result'[o][m] \in {"succeeded", "failed"}
                  ELSE result'[o][m] = result[o][m]
  <2>1. queue[h] # <<>> /\ queue[h] \in Seq(Task) /\ queue[h][1] \in Task
    BY HeadFacts DEF HostEffect
  <2>2. /\ Len(queue'[h]) = Len(queue[h]) - 1
        /\ \A i \in DOMAIN queue'[h] : i + 1 \in DOMAIN queue[h]
                                    /\ queue'[h][i] = queue[h][i + 1]
    BY <1>4, <2>1, TailLemma DEF Ends
  <2>3. /\ result' = [result EXCEPT ![queue[h][1].op][queue[h][1].id] = r]
        /\ result \in Results /\ queue[h][1].op \in Op /\ queue[h][1].id \in Move
    BY <1>4, <2>1 DEF Ends, TypeInv, QueueType, Task
  <2>4. QED
    BY <2>2, <2>3 DEF Results, Is
<1>5. QED
  BY <1>1, <1>2, <1>3, <1>4 DEF HostEffect

\* A host's step keeps the order of all queues.
LEMMA QueueKept ==
  ASSUME TypeInv, MoveInv, NEW h \in Host, HostEffect(h)
  PROVE  /\ QueueInv'
         /\ \A o \in Op, m \in Move : result[o][m] = "none" => result'[o][m] = "none"
         /\ \A o \in Op, m \in Move : Absent(o, m) => Absent(o, m)'
<1>1. \A g \in Host : g # h => queue'[g] = queue[g]
  BY DEF HostEffect, OnlyHere
<1>2. /\ queue[h] # <<>> /\ 1 \in DOMAIN queue[h] /\ result[queue[h][1].op][queue[h][1].id] # "none"
      /\ queue[h][1].op \in Op /\ queue[h][1].id \in Move
  BY HeadFacts, LineFacts DEF HostEffect, MoveInv, QueueInv
<1>3. \A o \in Op, m \in Move :
        /\ result[o][m] = "none" => result'[o][m] = "none"
        /\ result[o][m] # "none" => result'[o][m] # "none"
  BY <1>2, LineStep DEF Is
<1>4. ASSUME NEW g \in Host, NEW i \in DOMAIN queue'[g]
      PROVE  /\ \E k \in DOMAIN queue[g] : /\ queue'[g][i].op = queue[g][k].op
                                          /\ queue'[g][i].id = queue[g][k].id
             /\ i > 1 => queue'[g][i].at = "queued"
  <2>1. CASE g # h
    BY <1>1, <1>4, <2>1 DEF MoveInv, QueueInv
  <2>2. CASE g = h /\ GoesOn(h)
    <3>1. DOMAIN queue'[h] = DOMAIN queue[h]
      BY <2>2, LineStep, LineFacts DEF GoesOn
    <3>2. i = 1 \/ i > 1
      BY <1>4, <2>2, LineStep
    <3>3. QED
      BY <1>4, <2>2, <3>1, <3>2 DEF GoesOn, MoveInv, QueueInv
  <2>3. CASE /\ g = h /\ i + 1 \in DOMAIN queue[h] /\ queue'[h][i] = queue[h][i + 1]
    <3>1. i + 1 > 1
      BY <1>4, <2>3, LineStep
    <3>2. QED
      BY <2>3, <3>1 DEF MoveInv, QueueInv
  <2>4. QED
    BY <1>4, <2>1, <2>2, <2>3, LineStep
<1>5. QueueInv'
  <2>1. ASSUME NEW g \in Host, NEW i \in DOMAIN queue'[g]
        PROVE  result'[queue'[g][i].op][queue'[g][i].id] # "none"
    <3>1. PICK k \in DOMAIN queue[g] : /\ queue'[g][i].op = queue[g][k].op
                                      /\ queue'[g][i].id = queue[g][k].id
      BY <1>4, <2>1
    <3>2. /\ queue[g][k].op \in Op /\ queue[g][k].id \in Move
          /\ result[queue[g][k].op][queue[g][k].id] # "none"
      BY LineFacts DEF MoveInv, QueueInv
    <3>3. QED
      BY <1>3, <3>1, <3>2
  <2>2. QED
    BY <1>4, <2>1 DEF QueueInv
<1>6. ASSUME NEW o \in Op, NEW m \in Move, Absent(o, m)
      PROVE  Absent(o, m)'
  BY <1>4, <1>6 DEF Absent, Is
<1>7. QED
  BY <1>3, <1>5, <1>6

LEMMA LastKept ==
  ASSUME TypeInv, NEW h \in Host, HostEffect(h), NEW k \in Host,
         NEW o \in Op, NEW m \in Move, LastIn(k, o, m)
  PROVE  LastIn(k, o, m)'
<1>1. \A g \in Host : g # h => queue'[g] = queue[g]
  BY DEF HostEffect, OnlyHere
<1>2. CASE GoesOn(h)
  <2>1. /\ Len(queue'[h]) = Len(queue[h]) /\ DOMAIN queue'[h] = DOMAIN queue[h]
        /\ queue'[h] = <<>> <=> queue[h] = <<>>
        /\ UNCHANGED result
    BY <1>2, LineStep, LineFacts DEF GoesOn
  <2>2. \A i \in DOMAIN queue[h] : Is(queue'[h][i], o, m) <=> Is(queue[h][i], o, m)
    <3>1. \A i \in DOMAIN queue[h] : i = 1 \/ i > 1
      BY LineFacts
    <3>2. QED
      BY <1>2, <3>1 DEF GoesOn, Is
  <2>3. QED
    BY <1>1, <2>1, <2>2 DEF LastIn
<1>3. ASSUME Len(queue'[h]) = Len(queue[h]) - 1,
             \A i \in DOMAIN queue'[h] : i + 1 \in DOMAIN queue[h]
                                       /\ queue'[h][i] = queue[h][i + 1],
             IF Is(queue[h][1], o, m) THEN result'[o][m] \in {"succeeded", "failed"}
             ELSE result'[o][m] = result[o][m]
      PROVE  LastIn(k, o, m)'
  <2>1. /\ queue[h] # <<>> /\ 1 \in DOMAIN queue[h]
        /\ Len(queue[h]) \in Nat /\ Len(queue'[h]) \in Nat /\ DOMAIN queue'[h] = 1..Len(queue'[h])
        /\ queue'[h] = <<>> <=> Len(queue'[h]) = 0
    BY HeadFacts, LineStep, LineFacts DEF HostEffect
  <2>2. ASSUME NEW g \in Host, NEW i \in DOMAIN queue'[g]
        PROVE  Is(queue'[g][i], o, m) <=> g = k /\ i = Len(queue'[g])
    <3>1. CASE g # h
      BY <1>1, <2>2, <3>1 DEF LastIn
    <3>2. CASE g = h
      <4>1. i + 1 \in DOMAIN queue[h] /\ queue'[h][i] = queue[h][i + 1] /\ i \in Nat
        BY <1>3, <2>1, <2>2, <3>2
      <4>2. Is(queue[h][i + 1], o, m) <=> h = k /\ i + 1 = Len(queue[h])
        BY <4>1 DEF LastIn
      <4>3. i + 1 = Len(queue[h]) <=> i = Len(queue'[h])
        BY <1>3, <2>1, <4>1
      <4>4. QED
        BY <3>2, <4>1, <4>2, <4>3
    <3>3. QED
      BY <3>1, <3>2
  <2>3. ASSUME queue'[k] # <<>>
        PROVE  result'[o][m] = "pending"
    <3>1. CASE k # h
      <4>1. ~Is(queue[h][1], o, m)
        BY <2>1, <3>1 DEF LastIn
      <4>2. QED
        BY <1>1, <1>3, <2>3, <3>1, <4>1 DEF LastIn
    <3>2. CASE k = h
      <4>1. Len(queue[h]) # 1
        BY <1>3, <2>1, <2>3, <3>2
      <4>2. ~Is(queue[h][1], o, m)
        BY <2>1, <4>1 DEF LastIn
      <4>3. QED
        BY <1>3, <2>1, <3>2, <4>2 DEF LastIn
    <3>3. QED
      BY <3>1, <3>2
  <2>4. QED
    BY <2>2, <2>3 DEF LastIn
<1>4. CASE ~GoesOn(h)
  BY <1>3, <1>4, LineStep
<1>5. QED
  BY <1>2, <1>4

\* The job that is last reaches a stage, or its end, only when it is alone.
LEMMA LastMoves ==
  ASSUME TypeInv, MoveInv, NEW h \in Host, HostEffect(h), NEW stages, "queued" \notin stages,
         LastAt(h, stages)'
  PROVE  /\ Len(queue[h]) = 1 /\ GoesOn(h) /\ StageReached(h)
         /\ queue'[h][1].at \in stages
<1>1. /\ queue'[h] # <<>> /\ queue'[h][Len(queue'[h])].at \in stages
      /\ Len(queue'[h]) \in Nat /\ DOMAIN queue'[h] = 1..Len(queue'[h]) /\ Len(queue'[h]) # 0
  BY LineStep DEF LastAt
<1>2. Len(queue'[h]) \in DOMAIN queue'[h]
  BY <1>1
<1>3. Len(queue[h]) \in Nat /\ DOMAIN queue[h] = 1..Len(queue[h])
  BY LineFacts
<1>4. ASSUME Len(queue'[h]) = Len(queue[h]) - 1,
             \A i \in DOMAIN queue'[h] : i + 1 \in DOMAIN queue[h]
                                       /\ queue'[h][i] = queue[h][i + 1]
      PROVE  FALSE
  <2>1. /\ Len(queue[h]) \in DOMAIN queue[h] /\ Len(queue[h]) > 1
        /\ queue'[h][Len(queue'[h])] = queue[h][Len(queue'[h]) + 1]
        /\ Len(queue'[h]) + 1 = Len(queue[h])
    BY <1>1, <1>2, <1>3, <1>4
  <2>2. queue[h][Len(queue[h])].at = "queued"
    BY <2>1 DEF MoveInv, QueueInv
  <2>3. QED
    BY <1>1, <2>1, <2>2
<1>5. GoesOn(h)
  BY <1>4, LineStep
<1>6. Len(queue[h]) = 1
  <2>1. Len(queue[h]) \in DOMAIN queue[h] /\ Len(queue'[h]) = Len(queue[h])
    BY <1>1, <1>3, <1>5 DEF GoesOn
  <2>0. Len(queue[h]) >= 1 /\ Len(queue[h]) \in Nat
    BY <1>3, <2>1
  <2>2. ASSUME Len(queue[h]) > 1
        PROVE  FALSE
    <3>1. queue'[h][Len(queue[h])] = queue[h][Len(queue[h])]
      BY <1>5, <2>1, <2>2 DEF GoesOn
    <3>2. queue[h][Len(queue[h])].at = "queued"
      BY <2>1, <2>2 DEF MoveInv, QueueInv
    <3>3. QED
      BY <1>1, <2>1, <3>1, <3>2
  <2>3. \A n \in Nat : n >= 1 => n = 1 \/ n > 1
    OBVIOUS
  <2>4. QED
    BY <2>0, <2>2, <2>3
<1>7. StageReached(h)
  <2>1. ASSUME NEW r \in {"succeeded", "failed"}, Ends(h, r)
        PROVE  FALSE
    <3>1. Len(queue'[h]) = Len(queue[h]) - 1
      BY <2>1, HeadFacts, TailLemma DEF Ends, HostEffect
    <3>2. QED
      BY <1>1, <1>6, <3>1
  <2>2. QED
    BY <2>1 DEF HostEffect
<1>8. QED
  BY <1>1, <1>5, <1>6, <1>7 DEF GoesOn

\* A step empties a line of one.
LEMMA OnlyOne ==
  ASSUME TypeInv, NEW h \in Host, HostEffect(h), queue'[h] = <<>>
  PROVE  Len(queue[h]) = 1
<1>1. Len(queue'[h]) = 0
  BY LineStep
<1>2. Len(queue[h]) \in Nat /\ Len(queue[h]) >= 1
  BY HeadFacts DEF HostEffect
<1>3. Len(queue'[h]) = Len(queue[h]) \/ Len(queue'[h]) = Len(queue[h]) - 1
  BY LineStep
<1>4. QED
  BY <1>1, <1>2, <1>3

\* A host's step, for each of the places the hub may be at.
LEMMA HostMove ==
  ASSUME TypeInv, MoveInv, NEW h \in Host, HostEffect(h), UNCHANGED <<hub, moves>>
  PROVE  MoveInv'
<1> DEFINE F == hub.from
           T == hub.to
           I == hub.id
<1>1. /\ QueueInv'
      /\ \A o \in Op, m \in Move : result[o][m] = "none" => result'[o][m] = "none"
      /\ \A o \in Op, m \in Move : Absent(o, m) => Absent(o, m)'
  BY QueueKept
<1>2. /\ queue[h] # <<>> /\ Len(queue[h]) \in Nat /\ 1 \in DOMAIN queue[h]
      /\ \A g \in Host : g # h => /\ cont'[g] = cont[g] /\ data'[g] = data[g]
                                 /\ staged'[g] = staged[g] /\ queue'[g] = queue[g]
  BY HeadFacts DEF HostEffect, OnlyHere
<1>3. hub.at # "idle" => F \in Host /\ T \in Host /\ I \in Move
  BY HubFacts
<1>4. "pack" \in Op /\ "unpack" \in Op
  BY DEF Op
<1>5. FreshInv'
  BY <1>1, <1>4 DEF MoveInv, FreshInv
<1>6. StartInv'
  BY <1>1, <1>3, <1>4 DEF MoveInv, StartInv
\* The old host at rest stays so.
<1>7. ASSUME hub.at # "idle", AtRest(I)
      PROVE  AtRest(I)' /\ h # F /\ data'[F] = data[F] /\ staged'[F] = staged[F]
  BY <1>1, <1>2, <1>3, <1>4, <1>7 DEF AtRest
<1>8. PackInv'
  <2> SUFFICES ASSUME hub.at = "wait", hub.op = "pack"
               PROVE  /\ LastIn(F, "pack", I)'
                      /\ LastAt(F, {"packing"})' => cont'[F] = "stopped"
                      /\ result'["pack"][I] = "succeeded" =>
                           /\ queue'[F] = <<>> /\ cont'[F] = "stopped"
                           /\ staged'[F][I] = data'[F]
    BY DEF PackInv
  <2>1. /\ F \in Host /\ I \in Move /\ LastIn(F, "pack", I)
        /\ LastAt(F, {"packing"}) => cont[F] = "stopped"
        /\ result["pack"][I] = "succeeded" =>
             queue[F] = <<>> /\ cont[F] = "stopped" /\ staged[F][I] = data[F]
    BY <1>3 DEF MoveInv, PackInv
  <2>2. LastIn(F, "pack", I)'
    BY <1>4, <2>1, LastKept
  <2>3. ASSUME LastAt(F, {"packing"})'
        PROVE  cont'[F] = "stopped"
    <3>1. CASE h # F
      BY <1>2, <2>1, <2>3, <3>1 DEF LastAt
    <3>2. CASE h = F
      BY <2>3, <3>2, LastMoves DEF StageReached
    <3>3. QED
      BY <3>1, <3>2
  <2>4. ASSUME result'["pack"][I] = "succeeded"
        PROVE  queue'[F] = <<>> /\ cont'[F] = "stopped" /\ staged'[F][I] = data'[F]
    <3>1. queue'[F] = <<>>
      BY <2>2, <2>4 DEF LastIn
    <3>2. CASE h # F
      <4>1. ~Is(queue[h][1], "pack", I)
        BY <1>2, <2>1, <3>2 DEF LastIn
      <4>2. result["pack"][I] = "succeeded"
        BY <1>4, <2>1, <2>4, <4>1, LineStep
      <4>3. QED
        BY <1>2, <2>1, <3>1, <3>2, <4>2
    <3>3. CASE h = F
      <4>1. result["pack"][I] = "pending" /\ Len(queue[h]) # 0
        BY <1>2, <2>1, <3>3, LineFacts DEF LastIn
      <4>2. Len(queue[h]) = 1
        BY <3>1, <3>3, OnlyOne
      <4>3. Is(queue[h][1], "pack", I)
        BY <1>2, <2>1, <3>3, <4>2 DEF LastIn
      <4>4. ~GoesOn(h) /\ ~Ends(h, "failed")
        <5>1. result \in Results
          BY DEF TypeInv, QueueType
        <5>2. QED
          BY <1>4, <2>1, <2>4, <4>1, <4>3, <5>1 DEF GoesOn, Ends, Is, Results
      <4>5. EndReached(h)
        BY <4>4 DEF HostEffect
      <4>6. LastAt(F, {"packing"})
        BY <1>2, <3>3, <4>2, <4>3, <4>5 DEF LastAt, EndReached, Is
      <4>7. QED
        BY <2>1, <3>1, <3>3, <4>3, <4>5, <4>6 DEF EndReached, Is
    <3>4. QED
      BY <3>2, <3>3
  <2>5. QED
    BY <2>2, <2>3, <2>4
<1>9. CopyInv'
  BY <1>7 DEF MoveInv, CopyInv
<1>10. UnpackInv'
  <2> SUFFICES ASSUME hub.op = "unpack", hub.at \in {"post", "wait"}
               PROVE  /\ AtRest(I)' /\ staged'[T][I] = data'[F]
                      /\ hub.at = "wait" =>
                           /\ LastIn(T, "unpack", I)'
                           /\ LastAt(T, {"raising", "waiting"})' => data'[T] >= data'[F]
                           /\ result'["unpack"][I] = "succeeded" =>
                                queue'[T] = <<>> /\ data'[T] >= data'[F]
    BY DEF UnpackInv
  <2>1. F \in Host /\ T \in Host /\ I \in Move /\ AtRest(I) /\ staged[T][I] = data[F]
    BY <1>3 DEF MoveInv, UnpackInv
  <2>2. AtRest(I)' /\ h # F /\ data'[F] = data[F]
    BY <1>7, <2>1
  <2>3. staged'[T][I] = staged[T][I]
    <3>1. ~Is(queue[h][1], "pack", I)
      BY <1>2, <2>1 DEF AtRest, Absent
    <3>2. QED
      BY <1>2, <2>1, <3>1 DEF HostEffect, OnlyHere, Is
  <2>4. ASSUME hub.at = "wait"
        PROVE  /\ LastIn(T, "unpack", I)'
               /\ LastAt(T, {"raising", "waiting"})' => data'[T] >= data'[F]
               /\ result'["unpack"][I] = "succeeded" =>
                    queue'[T] = <<>> /\ data'[T] >= data'[F]
    <3>1. /\ LastIn(T, "unpack", I)
          /\ LastAt(T, {"raising", "waiting"}) => data[T] >= data[F]
          /\ result["unpack"][I] = "succeeded" => queue[T] = <<>> /\ data[T] >= data[F]
      BY <2>4 DEF MoveInv, UnpackInv
    <3>2. LastIn(T, "unpack", I)'
      BY <1>4, <2>1, <3>1, LastKept
    <3>3. data[F] \in Int /\ data[T] \in Int
      BY <2>1, DataTypes DEF TypeInv, CopyType
    <3>4. ASSUME LastAt(T, {"raising", "waiting"})'
          PROVE  data'[T] >= data'[F]
      <4>1. CASE h # T
        BY <1>2, <2>1, <2>2, <3>1, <3>4, <4>1 DEF LastAt
      <4>2. CASE h = T
        <5>1. /\ Len(queue[h]) = 1 /\ GoesOn(h) /\ StageReached(h)
              /\ queue'[h][1].at \in {"raising", "waiting"}
          BY <3>4, <4>2, LastMoves
        <5>2. Is(queue[h][1], "unpack", I)
          BY <1>2, <2>1, <3>1, <4>2, <5>1 DEF LastIn
        <5>3. CASE queue'[h][1].at = "raising"
          BY <2>1, <2>2, <3>3, <4>2, <5>1, <5>2, <5>3 DEF StageReached, Is
        <5>4. CASE queue'[h][1].at = "waiting"
          <6>1. data'[h] = data[h] /\ queue[h][1].at = "raising"
            BY <5>1, <5>4 DEF StageReached
          <6>2. LastAt(T, {"raising", "waiting"})
            BY <1>2, <4>2, <5>1, <6>1 DEF LastAt
          <6>3. QED
            BY <2>2, <3>1, <4>2, <6>1, <6>2
        <5>5. QED
          BY <5>1, <5>3, <5>4
      <4>3. QED
        BY <4>1, <4>2
    <3>5. ASSUME result'["unpack"][I] = "succeeded"
          PROVE  queue'[T] = <<>> /\ data'[T] >= data'[F]
      <4>1. queue'[T] = <<>>
        BY <3>2, <3>5 DEF LastIn
      <4>2. CASE h # T
        <5>1. ~Is(queue[h][1], "unpack", I)
          BY <1>2, <2>1, <3>1, <4>2 DEF LastIn
        <5>2. result["unpack"][I] = "succeeded"
          BY <1>4, <2>1, <3>5, <5>1, LineStep
        <5>3. QED
          BY <1>2, <2>1, <2>2, <3>1, <4>1, <4>2, <5>2
      <4>3. CASE h = T
        <5>1. result["unpack"][I] = "pending" /\ Len(queue[h]) # 0
          BY <1>2, <2>1, <3>1, <4>3, LineFacts DEF LastIn
        <5>2. Len(queue[h]) = 1
          BY <4>1, <4>3, OnlyOne
        <5>3. Is(queue[h][1], "unpack", I)
          BY <1>2, <2>1, <3>1, <4>3, <5>2 DEF LastIn
        <5>4. ~GoesOn(h) /\ ~Ends(h, "failed")
          <6>1. result \in Results
            BY DEF TypeInv, QueueType
          <6>2. QED
            BY <1>4, <2>1, <3>5, <5>1, <5>3, <6>1 DEF GoesOn, Ends, Is, Results
        <5>5. EndReached(h)
          BY <5>4 DEF HostEffect
        <5>6. LastAt(T, {"raising", "waiting"})
          BY <1>2, <4>3, <5>2, <5>3, <5>5 DEF LastAt, EndReached, Is
        <5>7. QED
          BY <2>2, <3>1, <4>1, <4>3, <5>3, <5>5, <5>6 DEF EndReached, Is
      <4>4. QED
        BY <4>2, <4>3
    <3>6. QED
      BY <3>2, <3>4, <3>5
  <2>5. QED
    BY <2>1, <2>2, <2>3, <2>4
<1>11. SwitchInv'
  <2> SUFFICES ASSUME hub.at = "switch", hub.action = "move"
               PROVE  AtRest(I)' /\ queue'[T] = <<>> /\ data'[T] >= data'[F]
    BY DEF SwitchInv
  <2>1. AtRest(I) /\ queue[T] = <<>> /\ data[T] >= data[F] /\ T \in Host
    BY <1>3 DEF MoveInv, SwitchInv
  <2>2. QED
    BY <1>2, <1>7, <2>1
<1>12. QED
  BY <1>1, <1>5, <1>6, <1>8, <1>9, <1>10, <1>11 DEF MoveInv
-----------------------------------------------------------------------------
(* The other steps that change the queues *)

\* What is left of the invariant where the hub waits for nothing it has to rely on.
Elsewhere ==
  /\ hub.at \notin {"wait", "copy"}
  /\ hub.at = "post" => hub.op # "unpack"
  /\ hub.at = "switch" => hub.action # "move"

LEMMA ElsewhereMove ==
  ASSUME QueueInv', FreshInv', StartInv', Elsewhere'
  PROVE  MoveInv'
BY DEF MoveInv, PackInv, CopyInv, UnpackInv, SwitchInv, Elsewhere

LEMMA IdleMove ==
  ASSUME QueueInv', FreshInv', hub'.at = "idle"
  PROVE  MoveInv'
BY ElsewhereMove DEF StartInv, Elsewhere

LEMMA SameQueues ==
  ASSUME TypeInv, MoveInv, UNCHANGED <<queue, result>>, moves' = moves \/ moves' = moves + 1
  PROVE  QueueInv' /\ FreshInv'
<1>1. moves \in Int /\ Move \subseteq Int
  BY Bounds DEF TypeInv, CountType, Move
<1>2. QueueInv'
  BY DEF MoveInv, QueueInv
<1>3. \A m \in Move : m > moves' => m > moves
  BY <1>1
<1>4. QED
  BY <1>2, <1>3 DEF MoveInv, FreshInv

\* A restart takes the jobs of a host away and marks them.
LEMMA InterruptKept ==
  ASSUME TypeInv, MoveInv, NEW h, Interrupt(h)
  PROVE  /\ QueueInv'
         /\ \A g \in Host : queue'[g] = IF g = h THEN <<>> ELSE queue[g]
         /\ \A o \in Op, m \in Move : result[o][m] = "none" => result'[o][m] = "none"
         /\ \A o \in Op, m \in Move : Absent(o, m) => Absent(o, m)'
<1>1. \A g \in Host : queue'[g] = IF g = h THEN <<>> ELSE queue[g]
  BY InterruptFacts DEF TypeInv, QueueType
<1>2. \A g \in Host : \A i \in DOMAIN queue'[g] :
        g # h /\ i \in DOMAIN queue[g] /\ queue'[g][i] = queue[g][i]
  BY <1>1
<1>3. \A o \in Op, m \in Move : result'[o][m] = "failed" \/ result'[o][m] = result[o][m]
  BY InterruptFacts
<1>4. QueueInv'
  <2>1. ASSUME NEW g \in Host, NEW i \in DOMAIN queue'[g]
        PROVE  result'[queue'[g][i].op][queue'[g][i].id] # "none"
    <3>1. /\ queue'[g][i] = queue[g][i] /\ i \in DOMAIN queue[g]
          /\ queue[g][i].op \in Op /\ queue[g][i].id \in Move
      BY <1>2, <2>1, LineFacts
    <3>2. QED
      BY <1>3, <3>1 DEF MoveInv, QueueInv
  <2>2. QED
    BY <1>2, <2>1 DEF MoveInv, QueueInv
<1>5. ASSUME NEW o \in Op, NEW m \in Move, result[o][m] = "none"
      PROVE  result'[o][m] = "none"
  <2>1. h \in Host => \A i \in DOMAIN queue[h] : ~(queue[h][i].op = o /\ queue[h][i].id = m)
    BY <1>5 DEF MoveInv, QueueInv
  <2>2. QED
    BY <1>5, <2>1, InterruptFacts
<1>6. ASSUME NEW o \in Op, NEW m \in Move, Absent(o, m)
      PROVE  Absent(o, m)'
  BY <1>2, <1>6 DEF Absent
<1>7. QED
  BY <1>1, <1>4, <1>5, <1>6

LEMMA RestartMove ==
  ASSUME TypeInv, MoveInv, NEW h \in Host, HostRestarts(h)
  PROVE  MoveInv'
<1> DEFINE F == hub.from
           T == hub.to
           I == hub.id
<1>1. /\ Interrupt(h) /\ queue[h] # <<>>
      /\ UNCHANGED <<cont, data, staged, hub, moves>>
  BY DEF HostRestarts, ghosts
<1>2. /\ QueueInv'
      /\ \A g \in Host : queue'[g] = IF g = h THEN <<>> ELSE queue[g]
      /\ \A o \in Op, m \in Move : result[o][m] = "none" => result'[o][m] = "none"
      /\ \A o \in Op, m \in Move : Absent(o, m) => Absent(o, m)'
  BY <1>1, InterruptKept
<1>3. "pack" \in Op /\ "unpack" \in Op
  BY DEF Op
<1>4. hub.at # "idle" => F \in Host /\ T \in Host /\ I \in Move
  BY HubFacts
<1>5. FreshInv' /\ StartInv'
  BY <1>1, <1>2, <1>3, <1>4 DEF MoveInv, FreshInv, StartInv
<1>6. ASSUME hub.at # "idle", AtRest(I)
      PROVE  AtRest(I)'
  BY <1>1, <1>2, <1>3, <1>4, <1>6 DEF AtRest
<1>7. ASSUME NEW k \in Host, NEW o \in Op, NEW m \in Move, LastIn(k, o, m)
      PROVE  /\ LastIn(k, o, m)'
             /\ result'[o][m] = "succeeded" => result[o][m] = "succeeded"
  <2>1. \A g \in Host : \A i \in DOMAIN queue'[g] :
          g # h /\ i \in DOMAIN queue[g] /\ queue'[g] = queue[g]
    BY <1>2
  <2>2. result'[o][m] = "failed" \/ result'[o][m] = result[o][m]
    BY <1>1, InterruptFacts
  <2>3. ASSUME queue'[k] # <<>>
        PROVE  result'[o][m] = "pending"
    <3>1. k # h /\ queue'[k] = queue[k]
      BY <1>2, <2>3
    <3>2. \A i \in DOMAIN queue[h] : ~(queue[h][i].op = o /\ queue[h][i].id = m)
      BY <1>7, <3>1 DEF LastIn, Is
    <3>3. result'[o][m] = result[o][m]
      BY <1>1, <3>2, InterruptFacts
    <3>4. QED
      BY <1>7, <2>3, <3>1, <3>3 DEF LastIn
  <2>4. QED
    BY <1>7, <2>1, <2>2, <2>3 DEF LastIn
<1>8. PackInv'
  <2> SUFFICES ASSUME hub.at = "wait", hub.op = "pack"
               PROVE  /\ LastIn(F, "pack", I)'
                      /\ LastAt(F, {"packing"})' => cont[F] = "stopped"
                      /\ result'["pack"][I] = "succeeded" =>
                           /\ queue'[F] = <<>> /\ cont[F] = "stopped"
                           /\ staged[F][I] = data[F]
    BY <1>1 DEF PackInv
  <2>1. /\ LastIn(F, "pack", I)
        /\ LastAt(F, {"packing"}) => cont[F] = "stopped"
        /\ result["pack"][I] = "succeeded" =>
             queue[F] = <<>> /\ cont[F] = "stopped" /\ staged[F][I] = data[F]
    BY DEF MoveInv, PackInv
  <2>2. LastAt(F, {"packing"})' => LastAt(F, {"packing"})
    BY <1>1, <1>2, <1>4 DEF LastAt
  <2>3. QED
    BY <1>1, <1>2, <1>3, <1>4, <1>7, <2>1, <2>2
<1>9. CopyInv'
  BY <1>1, <1>6 DEF MoveInv, CopyInv
<1>10. UnpackInv'
  <2> SUFFICES ASSUME hub.op = "unpack", hub.at \in {"post", "wait"}
               PROVE  /\ AtRest(I)' /\ staged[T][I] = data[F]
                      /\ hub.at = "wait" =>
                           /\ LastIn(T, "unpack", I)'
                           /\ LastAt(T, {"raising", "waiting"})' => data[T] >= data[F]
                           /\ result'["unpack"][I] = "succeeded" =>
                                queue'[T] = <<>> /\ data[T] >= data[F]
    BY <1>1 DEF UnpackInv
  <2>1. AtRest(I) /\ staged[T][I] = data[F]
    BY DEF MoveInv, UnpackInv
  <2>2. hub.at = "wait" =>
          /\ LastIn(T, "unpack", I)
          /\ LastAt(T, {"raising", "waiting"}) => data[T] >= data[F]
          /\ result["unpack"][I] = "succeeded" => queue[T] = <<>> /\ data[T] >= data[F]
    BY DEF MoveInv, UnpackInv
  <2>3. LastAt(T, {"raising", "waiting"})' => LastAt(T, {"raising", "waiting"})
    BY <1>1, <1>2, <1>4 DEF LastAt
  <2>4. AtRest(I)'
    BY <1>6, <2>1
  <2>5. ASSUME hub.at = "wait"
        PROVE  /\ LastIn(T, "unpack", I)'
               /\ result'["unpack"][I] = "succeeded" => result["unpack"][I] = "succeeded"
    BY <1>1, <1>3, <1>4, <1>7, <2>2, <2>5
  <2>6. queue[T] = <<>> => queue'[T] = <<>>
    BY <1>2, <1>4
  <2>7. QED
    BY <2>1, <2>2, <2>3, <2>4, <2>5, <2>6
<1>11. SwitchInv'
  BY <1>1, <1>2, <1>4, <1>6 DEF MoveInv, SwitchInv
<1>12. QED
  BY <1>2, <1>5, <1>8, <1>9, <1>10, <1>11 DEF MoveInv
-----------------------------------------------------------------------------
(* The steps of the hub *)

LEMMA SubmitKept ==
  ASSUME TypeInv, MoveInv, hub.at = "post", Submit(OnHost), UNCHANGED moves,
         NEW h \in Host, NEW o \in Op, NEW m \in Move,
         h = OnHost, o = hub.op, m = TaskId
  PROVE  /\ QueueInv' /\ FreshInv'
         /\ \A g \in Host : g # h => queue'[g] = queue[g]
         /\ \A p \in Op, k \in Move :
              ~(p = o /\ k = m) => /\ result'[p][k] = result[p][k]
                                   /\ Absent(p, k) => Absent(p, k)'
         /\ result'[o][m] = "pending"
         /\ queue'[h] # <<>> /\ queue'[h][Len(queue'[h])].at = "queued"
         /\ result[o][m] = "none" => LastIn(h, o, m)'
<1>2. /\ queue'[h] = Append(queue[h], NewTask) /\ NewTask \in Task
      /\ \A g \in Host : g # h => queue'[g] = queue[g]
      /\ result' = [result EXCEPT ![o][m] = "pending"]
  BY SubmitFacts
<1>3. NewTask.op = o /\ NewTask.id = m /\ NewTask.at = "queued"
  BY DEF NewTask
<1>4. queue[h] \in Seq(Task) /\ result \in Results
  BY DEF TypeInv, QueueType
<1>5. \A p \in Op, k \in Move :
        IF p = o /\ k = m THEN result'[p][k] = "pending" ELSE result'[p][k] = result[p][k]
  BY <1>2, <1>4 DEF Results
<1>6. /\ Len(queue'[h]) = Len(queue[h]) + 1 /\ Len(queue[h]) \in Nat
      /\ DOMAIN queue[h] = 1..Len(queue[h]) /\ DOMAIN queue'[h] = 1..(Len(queue[h]) + 1)
      /\ queue'[h][Len(queue[h]) + 1] = NewTask
      /\ \A i \in 1..Len(queue[h]) : queue'[h][i] = queue[h][i]
      /\ queue'[h] # <<>>
  <2>1. queue'[h] \in Seq(Task)
    BY <1>2, <1>4, AppendProperties
  <2>2. QED
    BY <1>2, <1>4, <2>1, AppendProperties, LenProperties, EmptySeq
<1>7. ASSUME NEW g \in Host, NEW i \in DOMAIN queue'[g]
      PROVE  \/ g = h /\ i = Len(queue'[h]) /\ queue'[g][i] = NewTask
             \/ /\ i \in DOMAIN queue[g] /\ queue'[g][i] = queue[g][i]
                /\ ~(g = h /\ i = Len(queue'[h]))
  BY <1>2, <1>6, <1>7
<1>8. QueueInv'
  <2>1. ASSUME NEW g \in Host, NEW i \in DOMAIN queue'[g]
        PROVE  /\ result'[queue'[g][i].op][queue'[g][i].id] # "none"
               /\ i > 1 => queue'[g][i].at = "queued"
    <3>1. CASE queue'[g][i] = NewTask
      BY <1>3, <1>5, <3>1
    <3>2. CASE i \in DOMAIN queue[g] /\ queue'[g][i] = queue[g][i]
      <4>1. queue[g][i].op \in Op /\ queue[g][i].id \in Move
        BY <3>2, LineFacts
      <4>2. /\ result[queue[g][i].op][queue[g][i].id] # "none"
            /\ i > 1 => queue[g][i].at = "queued"
        BY <3>2 DEF MoveInv, QueueInv
      <4>3. QED
        BY <1>5, <3>2, <4>1, <4>2
    <3>3. QED
      BY <1>7, <2>1, <3>1, <3>2
  <2>2. QED
    BY <2>1 DEF QueueInv
<1>9. FreshInv'
  <2>1. ASSUME NEW p \in {"pack", "unpack"}, NEW k \in Move, k > moves
        PROVE  result'[p][k] = "none"
    <3>1. p \in Op /\ result[p][k] = "none"
      BY <2>1 DEF MoveInv, FreshInv, Op
    <3>2. ~(p = o /\ k = m)
      <4>1. SUFFICES ASSUME o \in {"pack", "unpack"}, k = m
                     PROVE  FALSE
        BY <2>1
      <4>2. m = hub.id /\ hub.action = "move" /\ hub.at # "idle"
        BY <4>1 DEF TaskId, TypeInv, HubType
      <4>3. hub.id <= moves
        BY <4>2 DEF MoveInv, StartInv
      <4>4. moves \in Int /\ Move \subseteq Int
        BY Bounds DEF TypeInv, CountType, Move
      <4>5. QED
        BY <2>1, <4>1, <4>2, <4>3, <4>4
    <3>3. QED
      BY <1>5, <3>1, <3>2
  <2>2. QED
    BY <2>1 DEF FreshInv
<1>10. ASSUME NEW p \in Op, NEW k \in Move, ~(p = o /\ k = m), Absent(p, k)
       PROVE  Absent(p, k)'
  BY <1>3, <1>7, <1>10 DEF Absent, Is
<1>11. ASSUME result[o][m] = "none"
       PROVE  LastIn(h, o, m)'
  <2>1. \A g \in Host : \A i \in DOMAIN queue[g] : ~Is(queue[g][i], o, m)
    BY <1>11 DEF MoveInv, QueueInv, Is
  <2>2. result'[o][m] = "pending"
    BY <1>5
  <2>3. \A g \in Host : \A i \in DOMAIN queue'[g] :
          Is(queue'[g][i], o, m) <=> g = h /\ i = Len(queue'[g])
    BY <1>3, <1>7, <2>1 DEF Is
  <2>4. QED
    BY <2>2, <2>3 DEF LastIn
<1>12. QED
  BY <1>2, <1>3, <1>5, <1>6, <1>8, <1>9, <1>10, <1>11

LEMMA PostMove ==
  ASSUME TypeInv, MoveInv, Post
  PROVE  MoveInv'
<1> DEFINE F == hub.from
           T == hub.to
           I == hub.id
<1>1. /\ hub.at = "post" /\ UNCHANGED <<cont, data, staged, moves>>
      /\ OnHost \in Host /\ F \in Host /\ T \in Host /\ I \in Move
      /\ TaskId \in Move /\ hub.op \in Op
  BY HubFacts DEF Post, ghosts
<1>2. "pack" \in Op /\ "unpack" \in Op
  BY DEF Op
<1>3. CASE Submit(OnHost) /\ hub' = [hub EXCEPT !.at = "wait"]
  <2>1. /\ hub'.at = "wait" /\ hub'.op = hub.op /\ hub'.action = hub.action
        /\ hub'.from = F /\ hub'.to = T /\ hub'.id = I
    BY <1>3 DEF TypeInv, HubType, HubRecord
  <2>2. /\ QueueInv' /\ FreshInv'
        /\ \A g \in Host : g # OnHost => queue'[g] = queue[g]
        /\ \A p \in Op, k \in Move :
             ~(p = hub.op /\ k = TaskId) => /\ result'[p][k] = result[p][k]
                                            /\ Absent(p, k) => Absent(p, k)'
    BY <1>1, <1>3, SubmitKept
  <2>3. ASSUME NEW h \in Host, NEW o \in Op, NEW m \in Move,
               h = OnHost, o = hub.op, m = TaskId, result[o][m] = "none"
        PROVE  /\ LastIn(h, o, m)' /\ result'[o][m] = "pending"
               /\ queue'[h][Len(queue'[h])].at = "queued"
    BY <1>1, <1>3, <2>3, SubmitKept
  <2>4. StartInv'
    BY <1>1, <1>2, <2>1, <2>2 DEF MoveInv, StartInv
  <2>5. ASSUME hub.op = "pack"
        PROVE  PackInv'
    <3>1. OnHost = F /\ TaskId = I /\ hub.action = "move"
      BY <1>1, <2>5 DEF OnHost, TaskId, TypeInv, HubType
    <3>2. result["pack"][I] = "none"
      BY <1>1, <2>5, <3>1 DEF MoveInv, StartInv
    <3>3. /\ LastIn(F, "pack", I)' /\ result'["pack"][I] = "pending"
          /\ queue'[F][Len(queue'[F])].at = "queued"
      <4>1. ASSUME NEW h \in Host, NEW m \in Move, h = F, m = I
            PROVE  /\ LastIn(h, "pack", m)' /\ result'["pack"][m] = "pending"
                   /\ queue'[h][Len(queue'[h])].at = "queued"
        BY <1>2, <2>3, <2>5, <3>1, <3>2, <4>1
      <4>2. QED
        BY <1>1, <2>1, <4>1
    <3>4. QED
      BY <2>1, <3>3 DEF PackInv, LastAt
  <2>6. ASSUME hub.op = "unpack"
        PROVE  UnpackInv'
    <3>1. OnHost = T /\ TaskId = I /\ hub.action = "move"
      BY <1>1, <2>6 DEF OnHost, TaskId, TypeInv, HubType
    <3>2. result["unpack"][I] = "none" /\ F # T
      BY <1>1, <2>6, <3>1 DEF MoveInv, StartInv
    <3>3. /\ LastIn(T, "unpack", I)' /\ result'["unpack"][I] = "pending"
          /\ queue'[T][Len(queue'[T])].at = "queued"
      <4>1. ASSUME NEW h \in Host, NEW m \in Move, h = T, m = I
            PROVE  /\ LastIn(h, "unpack", m)' /\ result'["unpack"][m] = "pending"
                   /\ queue'[h][Len(queue'[h])].at = "queued"
        BY <1>2, <2>3, <2>6, <3>1, <3>2, <4>1
      <4>2. QED
        BY <1>1, <2>1, <4>1
    <3>4. AtRest(I) /\ staged[T][I] = data[F]
      BY <1>1, <2>6 DEF MoveInv, UnpackInv
    <3>5. AtRest(I)'
      <4>1. Absent("pack", I)'
        <5>1. ASSUME NEW m \in Move, m = I
              PROVE  Absent("pack", m)'
          BY <1>2, <2>2, <2>6, <3>4, <5>1 DEF AtRest
        <5>2. QED
          BY <1>1, <2>1, <5>1
      <4>2. QED
        BY <1>1, <2>1, <2>2, <3>1, <3>2, <3>4, <4>1 DEF AtRest
    <3>6. QED
      BY <1>1, <2>1, <3>3, <3>4, <3>5 DEF UnpackInv, LastAt
  <2>7. PackInv' /\ CopyInv' /\ UnpackInv' /\ SwitchInv'
    BY <2>1, <2>5, <2>6 DEF PackInv, CopyInv, UnpackInv, SwitchInv
  <2>8. QED
    BY <2>2, <2>4, <2>7 DEF MoveInv
<1>4. CASE Proceed(FALSE) /\ (Submit(OnHost) \/ UNCHANGED <<queue, result>>)
  <2>1. QueueInv' /\ FreshInv'
    BY <1>1, <1>4, SubmitKept, SameQueues
  <2>2. \/ hub'.at = "idle"
        \/ hub'.op \in {"undo", "restart"} /\ hub'.at \in {"post", "call"} /\ SameJob
    BY <1>1, <1>4, ProceedTo, IdleType
  <2>3. StartInv' /\ Elsewhere'
    BY <1>1, <2>2 DEF MoveInv, StartInv, SameJob, Elsewhere
  <2>4. QED
    BY <2>1, <2>3, ElsewhereMove
<1>5. QED
  BY <1>3, <1>4 DEF Post

\* What the hub's cancelation leaves of a queue was there before.
LEMMA CancelKept ==
  ASSUME TypeInv, MoveInv, hub.at = "wait", NEW h \in Host, CancelTask(h), UNCHANGED moves
  PROVE  QueueInv' /\ FreshInv'
<1> DEFINE o == hub.op
           m == TaskId
<1>1. /\ queue[h] \in Seq(Task) /\ queue \in [Host -> Seq(Task)] /\ result \in Results
      /\ o \in Op /\ m \in Move /\ DOMAIN queue[h] = 1..Len(queue[h]) /\ Len(queue[h]) \in Nat
  BY HubFacts, LineFacts DEF TypeInv, QueueType
<1>2. CASE UNCHANGED <<queue, result>>
  BY <1>2, SameQueues
<1> HIDE DEF o, m
<1>3. ASSUME NEW i \in DOMAIN queue[h], queue[h][i].op = o, queue[h][i].id = m,
             queue' = [queue EXCEPT ![h] = RemoveAt(queue[h], i)],
             result' = [result EXCEPT ![o][m] = "failed"]
      PROVE  QueueInv' /\ FreshInv'
  <2>1. result[o][m] # "none"
    BY <1>3 DEF MoveInv, QueueInv
  <2>2. \A p \in Op, k \in Move : result'[p][k] = "none" <=> result[p][k] = "none"
    BY <1>1, <1>3, <2>1 DEF Results
  <2>3. /\ queue'[h] = RemoveAt(queue[h], i) /\ queue'[h] \in Seq(Task)
        /\ Len(queue'[h]) = Len(queue[h]) - 1
        /\ \A k \in 1..(Len(queue[h]) - 1) :
             queue'[h][k] = queue[h][IF k < i THEN k ELSE k + 1]
    BY <1>1, <1>3, RemoveAtLemma
  <2>4. DOMAIN queue'[h] = 1..(Len(queue[h]) - 1)
    BY <2>3
  <2>5. ASSUME NEW g \in Host, NEW j \in DOMAIN queue'[g]
        PROVE  \E k \in DOMAIN queue[g] : k >= j /\ queue'[g][j] = queue[g][k]
    <3>1. CASE g # h
      <4>1. queue'[g] = queue[g] /\ j \in DOMAIN queue[g] /\ j >= j
        BY <1>1, <1>3, <2>5, <3>1, LineFacts
      <4>2. QED
        BY <4>1
    <3>2. CASE g = h
      <4>1. j \in 1..(Len(queue[h]) - 1)
        BY <2>4, <2>5, <3>2
      <4>2. CASE j < i
        <5>1. queue'[h][j] = queue[h][j] /\ j \in DOMAIN queue[h] /\ j >= j
          BY <1>1, <2>3, <4>1, <4>2
        <5>2. QED
          BY <3>2, <5>1
      <4>3. CASE ~(j < i)
        <5>1. queue'[h][j] = queue[h][j + 1] /\ j + 1 \in DOMAIN queue[h] /\ j + 1 >= j
          BY <1>1, <2>3, <4>1, <4>3
        <5>2. QED
          BY <3>2, <5>1
      <4>4. QED
        BY <4>2, <4>3
    <3>3. QED
      BY <3>1, <3>2
  <2>6. ASSUME NEW g \in Host, NEW j \in DOMAIN queue'[g]
        PROVE  /\ result'[queue'[g][j].op][queue'[g][j].id] # "none"
               /\ j > 1 => queue'[g][j].at = "queued"
    <3>1. PICK k \in DOMAIN queue[g] : k >= j /\ queue'[g][j] = queue[g][k]
      BY <2>5, <2>6
    <3>2. queue[g][k].op \in Op /\ queue[g][k].id \in Move /\ k \in Nat
      BY LineFacts
    <3>3. j \in Int
      <4>1. queue'[g] \in Seq(Task)
        BY <1>1, <1>3, <2>3
      <4>2. QED
        BY <2>6, <4>1
    <3>4. QED
      BY <2>2, <3>1, <3>2, <3>3 DEF MoveInv, QueueInv
  <2>7. FreshInv'
    BY <2>2 DEF MoveInv, FreshInv, Op
  <2>8. QED
    BY <2>6, <2>7 DEF QueueInv
<1>4. ASSUME NEW i \in DOMAIN queue[h],
             queue' = [queue EXCEPT ![h][i].canceled = TRUE], UNCHANGED result
      PROVE  QueueInv' /\ FreshInv'
  <2>1. \A g \in Host : /\ DOMAIN queue'[g] = DOMAIN queue[g]
                        /\ \A j \in DOMAIN queue[g] : /\ queue'[g][j].op = queue[g][j].op
                                                     /\ queue'[g][j].id = queue[g][j].id
                                                     /\ queue'[g][j].at = queue[g][j].at
    <3> DEFINE t == [queue[h][i] EXCEPT !.canceled = TRUE]
    <3>1. t.op = queue[h][i].op /\ t.id = queue[h][i].id /\ t.at = queue[h][i].at
      <4>1. queue[h][i] \in Task
        BY <1>1
      <4>2. QED
        BY <4>1 DEF Task
    <3> HIDE DEF t
    <3>2. queue' = [queue EXCEPT ![h] = [queue[h] EXCEPT ![i] = t]]
      BY <1>4 DEF t
    <3>3. QED
      BY <1>1, <3>1, <3>2
  <2>2. QED
    BY <1>4, <2>1 DEF MoveInv, QueueInv, FreshInv
<1>5. QED
  BY <1>2, <1>3, <1>4 DEF CancelTask, o, m

LEMMA WaitMove ==
  ASSUME TypeInv, MoveInv, Wait
  PROVE  MoveInv'
<1> DEFINE F == hub.from
           T == hub.to
           I == hub.id
<1>1. /\ hub.at = "wait" /\ UNCHANGED <<cont, data, staged, moves>>
      /\ OnHost \in Host /\ F \in Host /\ T \in Host /\ I \in Move
      /\ hub.op \in Op
  BY HubFacts DEF Wait, ghosts
<1>2. CASE Proceed(FALSE) /\ (CancelTask(OnHost) \/ UNCHANGED <<queue, result>>)
  <2>1. QueueInv' /\ FreshInv'
    BY <1>1, <1>2, CancelKept, SameQueues
  <2>2. \/ hub'.at = "idle"
        \/ hub'.op \in {"undo", "restart"} /\ hub'.at \in {"post", "call"} /\ SameJob
    BY <1>1, <1>2, ProceedTo, IdleType
  <2>3. StartInv' /\ Elsewhere'
    BY <1>1, <2>2 DEF MoveInv, StartInv, SameJob, Elsewhere
  <2>4. QED
    BY <2>1, <2>3, ElsewhereMove
<1>3. CASE /\ result[hub.op][TaskId] = "succeeded" /\ Proceed(TRUE)
           /\ UNCHANGED <<queue, result>>
  <2>1. QueueInv' /\ FreshInv'
    BY <1>1, <1>3, SameQueues
  <2>2. \/ hub'.at = "idle"
        \/ hub'.op = "restart" /\ hub'.at = "call" /\ SameJob
        \/ hub.op \in {"clean", "remove"} /\ hub'.at = "note" /\ hub'.op = hub.op /\ SameJob
        \/ hub.op = "pack" /\ hub'.at = "copy" /\ hub'.op = "pack" /\ SameJob
        \/ hub.op = "unpack" /\ hub'.at = "switch" /\ hub'.op = "unpack" /\ SameJob
    BY <1>1, <1>3, ProceedTo, IdleType
  <2>3. StartInv'
    BY <1>1, <1>3, <2>2 DEF MoveInv, StartInv, SameJob
  <2>4. CASE hub'.at \notin {"copy", "switch"}
    BY <2>1, <2>2, <2>3, <2>4, ElsewhereMove DEF Elsewhere
  <2>5. CASE hub.op = "pack" /\ hub'.at = "copy" /\ hub'.op = "pack" /\ SameJob
    <3>1. /\ LastIn(F, "pack", I) /\ queue[F] = <<>> /\ cont[F] = "stopped"
          /\ staged[F][I] = data[F]
      BY <1>1, <1>3, <2>5 DEF MoveInv, PackInv, TaskId
    <3>2. Absent("pack", I)
      BY <1>1, <3>1, EmptySeq DEF LastIn, Absent
    <3>3. CopyInv'
      BY <1>1, <1>3, <2>5, <3>1, <3>2 DEF CopyInv, AtRest, Absent, SameJob
    <3>4. QED
      BY <2>1, <2>3, <2>5, <3>3 DEF MoveInv, PackInv, UnpackInv, SwitchInv
  <2>6. CASE hub.op = "unpack" /\ hub'.at = "switch" /\ hub'.op = "unpack" /\ SameJob
    <3>1. AtRest(I) /\ queue[T] = <<>> /\ data[T] >= data[F]
      BY <1>1, <1>3, <2>6 DEF MoveInv, UnpackInv, TaskId
    <3>2. SwitchInv'
      BY <1>1, <1>3, <2>6, <3>1 DEF SwitchInv, AtRest, Absent, SameJob
    <3>3. QED
      BY <2>1, <2>3, <2>6, <3>2 DEF MoveInv, PackInv, CopyInv, UnpackInv
  <2>7. QED
    BY <2>2, <2>4, <2>5, <2>6
<1>4. QED
  BY <1>2, <1>3 DEF Wait

LEMMA CopyMove ==
  ASSUME TypeInv, MoveInv, Copy
  PROVE  MoveInv'
<1>1. /\ hub.at = "copy" /\ hub.op = "pack" /\ hub.action = "move"
      /\ UNCHANGED <<cont, data, queue, result, moves>>
      /\ hub.from \in Host /\ hub.to \in Host /\ hub.id \in Move
  BY HubFacts DEF Copy, ghosts, TypeInv, HubType
<1>2. QueueInv' /\ FreshInv'
  BY <1>1, SameQueues
<1>3. SameJob /\ hub'.at = "post" /\ hub'.op \in {"unpack", "undo"}
  BY CopyTo
<1>4. StartInv'
  BY <1>1, <1>3 DEF MoveInv, StartInv, SameJob
<1>5. CASE hub'.op = "undo"
  BY <1>2, <1>3, <1>4, <1>5, ElsewhereMove DEF Elsewhere
<1>6. CASE hub'.op = "unpack"
  <2>1. staged' = [staged EXCEPT ![hub.to][hub.id] = staged[hub.from][hub.id]]
    BY <1>6, CopyTo
  <2>2. staged'[hub.to][hub.id] = data[hub.from]
    BY <1>1, <2>1 DEF MoveInv, CopyInv, TypeInv, CopyType
  <2>3. AtRest(hub.id)
    BY <1>1 DEF MoveInv, CopyInv
  <2>4. UnpackInv'
    BY <1>1, <1>3, <2>2, <2>3 DEF UnpackInv, AtRest, Absent, SameJob
  <2>5. QED
    BY <1>2, <1>3, <1>4, <2>4 DEF MoveInv, PackInv, CopyInv, SwitchInv
<1>7. QED
  BY <1>3, <1>5, <1>6

LEMMA CallMove ==
  ASSUME TypeInv, MoveInv, CallHost
  PROVE  MoveInv'
<1>1. hub.at = "call" /\ UNCHANGED <<queue, result, moves>>
  BY DEF CallHost, ghosts
<1>2. QueueInv' /\ FreshInv'
  BY <1>1, SameQueues
<1>3. /\ hub'.at \in {"idle", "sweep", "call", "note", "switch"}
      /\ hub'.at # "idle" => SameJob /\ hub'.op \in Call
      /\ hub'.at = "switch" => hub'.action = "rollback"
  BY CallTo
<1>4. StartInv' /\ Elsewhere'
  BY <1>1, <1>3 DEF MoveInv, StartInv, Elsewhere, SameJob, Call
<1>5. QED
  BY <1>2, <1>4, ElsewhereMove

LEMMA RecordMove ==
  ASSUME TypeInv, MoveInv, Switch \/ Note \/ Sweep
  PROVE  MoveInv'
<1>1. hub.at \in {"switch", "note", "sweep"} /\ UNCHANGED <<queue, result, moves>>
  BY DEF Switch, Note, Sweep, hosts, ghosts
<1>2. QueueInv' /\ FreshInv'
  BY <1>1, SameQueues
<1>3. \/ hub' = Idle
      \/ hub' = [hub EXCEPT !.at = "note"]
      \/ hub' = [hub EXCEPT !.at = "sweep"] /\ hub.op = "unpack"
      \/ hub' = [hub EXCEPT !.at = "post", !.op = "pack"] /\ hub.op = "clean"
  BY DEF Switch, Note, Sweep
<1>4. \/ hub'.at = "idle"
      \/ SameJob /\ hub'.op = hub.op /\ hub'.at \in {"note", "sweep"}
      \/ SameJob /\ hub.op = "clean" /\ hub'.op = "pack" /\ hub'.at = "post"
  BY <1>3, IdleType DEF TypeInv, HubType, HubRecord, SameJob
<1>5. StartInv' /\ Elsewhere'
  BY <1>1, <1>4 DEF MoveInv, StartInv, Elsewhere, SameJob
<1>6. QED
  BY <1>2, <1>5, ElsewhereMove

LEMMA HubMove ==
  ASSUME TypeInv, MoveInv, HubStep
  PROVE  MoveInv'
BY PostMove, WaitMove, CopyMove, CallMove, RecordMove DEF HubStep
-----------------------------------------------------------------------------
(* The operator, the clients and the restarts *)

LEMMA StartMoves ==
  ASSUME TypeInv, MoveInv,
         NEW from \in Host, NEW to \in Host, NEW clean \in BOOLEAN, StartMove(from, to, clean)
  PROVE  MoveInv'
<1>1. UNCHANGED <<queue, result>>
  BY DEF StartMove, hosts
<1>2. /\ moves' = moves + 1 /\ moves' \in Move /\ hub'.id = moves' /\ hub'.from # hub'.to
      /\ hub'.at = "post" /\ hub'.op \in {"pack", "clean"}
  BY StartMoveTo
<1>3. QueueInv' /\ FreshInv'
  BY <1>1, <1>2, SameQueues
<1>4. moves' > moves /\ hub'.id <= moves'
  BY <1>2, Bounds DEF TypeInv, CountType
<1>5. result'["pack"][hub'.id] = "none" /\ result'["unpack"][hub'.id] = "none"
  BY <1>1, <1>2, <1>4 DEF MoveInv, FreshInv
<1>6. StartInv' /\ Elsewhere'
  BY <1>2, <1>4, <1>5 DEF StartInv, Elsewhere
<1>7. QED
  BY <1>3, <1>6, ElsewhereMove

LEMMA OtherMove ==
  ASSUME TypeInv, MoveInv, NEW m \in Move, NEW b \in BOOLEAN,
         StartRollback(m, b) \/ StartRemove(m, b) \/ StartStopNew(m)
  PROVE  MoveInv'
<1>1. UNCHANGED <<queue, result, moves>>
  BY DEF StartRollback, StartRemove, StartStopNew, hosts, ghosts
<1>2. HubType' /\ hub'.at \in {"call", "post"} /\ hub'.action # "move"
  BY StartOtherTo
<1>3. QueueInv' /\ FreshInv'
  BY <1>1, SameQueues
<1>4. StartInv' /\ Elsewhere'
  BY <1>2 DEF StartInv, Elsewhere, HubType
<1>5. QED
  BY <1>3, <1>4, ElsewhereMove

LEMMA CancelMove ==
  ASSUME TypeInv, MoveInv, Cancel
  PROVE  MoveInv'
<1>1. UNCHANGED <<cont, data, staged, queue, result, moves>>
  BY DEF Cancel, hosts
<1>2. /\ hub'.at = hub.at /\ hub'.op = hub.op /\ hub'.action = hub.action
      /\ hub'.from = hub.from /\ hub'.to = hub.to /\ hub'.id = hub.id
  BY DEF Cancel, TypeInv, HubType, HubRecord
<1>3. QueueInv' /\ FreshInv'
  BY <1>1, SameQueues
<1>4. StartInv'
  BY <1>1, <1>2 DEF MoveInv, StartInv
<1>5. PackInv' /\ CopyInv' /\ UnpackInv' /\ SwitchInv'
  BY <1>1, <1>2 DEF MoveInv, PackInv, CopyInv, UnpackInv, SwitchInv, LastIn, LastAt, AtRest, Absent
<1>6. QED
  BY <1>3, <1>4, <1>5 DEF MoveInv

\* The clients change the copy that runs, which only makes its data newer.
LEMMA WriteMove ==
  ASSUME TypeInv, MoveInv, Write
  PROVE  MoveInv'
<1> DEFINE F == hub.from
           T == hub.to
           I == hub.id
<1>1. /\ cont[route] = "up" /\ UNCHANGED <<cont, staged, queue, result, hub, moves>>
  BY DEF Write
<1>2. /\ data' \in [Host -> Int] /\ data \in [Host -> Int]
      /\ \A h \in Host : data'[h] >= data[h] /\ (h # route => data'[h] = data[h])
  <2> DEFINE now == IF data[route] > newest THEN data[route] ELSE newest
  <2>1. data \in [Host -> Int] /\ newest \in Int /\ route \in Host
    BY DataTypes DEF TypeInv, CopyType, CountType, RecordType
  <2>2. now \in Int /\ now >= data[route]
    BY <2>1
  <2>3. data' = [data EXCEPT ![route] = now + 1]
    BY DEF Write
  <2> HIDE DEF now
  <2>4. QED
    BY <2>1, <2>2, <2>3
<1>3. QueueInv' /\ FreshInv' /\ StartInv'
  BY <1>1, SameQueues DEF MoveInv, StartInv
<1>4. hub.at # "idle" => F \in Host /\ T \in Host
  BY HubFacts
<1>5. ASSUME hub.at # "idle", cont[F] = "stopped"
      PROVE  data'[F] = data[F] /\ data'[T] >= data[T] /\ data[T] \in Int /\ data[F] \in Int
             /\ data'[T] \in Int
  BY <1>1, <1>2, <1>4, <1>5
<1>6. AtRest(I) => AtRest(I)' /\ cont[F] = "stopped"
  BY <1>1 DEF AtRest, Absent
<1>7. PackInv'
  BY <1>1, <1>5 DEF MoveInv, PackInv, LastIn, LastAt
<1>8. CopyInv'
  BY <1>1, <1>5, <1>6 DEF MoveInv, CopyInv
<1>9. hub.at # "idle" /\ AtRest(I) /\ data[T] >= data[F] => data'[T] >= data'[F]
  BY <1>5, <1>6
<1>10. UnpackInv'
  BY <1>1, <1>5, <1>6, <1>9 DEF MoveInv, UnpackInv, LastIn, LastAt
<1>11. SwitchInv'
  BY <1>1, <1>6, <1>9 DEF MoveInv, SwitchInv
<1>12. QED
  BY <1>3, <1>7, <1>8, <1>10, <1>11 DEF MoveInv

LEMMA HubRestartMove ==
  ASSUME TypeInv, MoveInv, HubRestarts
  PROVE  MoveInv'
<1>1. hub' = Idle /\ Interrupt(HubMachine) /\ UNCHANGED moves
  BY DEF HubRestarts, ghosts
<1>2. /\ QueueInv'
      /\ \A o \in Op, m \in Move : result[o][m] = "none" => result'[o][m] = "none"
  BY <1>1, InterruptKept
<1>3. FreshInv'
  BY <1>1, <1>2 DEF MoveInv, FreshInv, Op
<1>4. QED
  BY <1>1, <1>2, <1>3, IdleMove, IdleType

LEMMA MoveStep == TypeInv /\ MoveInv /\ [Next]_vars => MoveInv'
<1> SUFFICES ASSUME TypeInv, MoveInv, [Next]_vars
             PROVE  MoveInv'
  OBVIOUS
<1>1. ASSUME NEW h \in Host, HostStep(h) \/ DockerFails(h)
      PROVE  MoveInv'
  BY <1>1, HostEffects, HostMove DEF ghosts
<1>2. CASE UNCHANGED vars
  <2>1. UNCHANGED <<cont, data, staged, queue, result, hub, moves>>
    BY <1>2 DEF vars, hosts, ghosts
  <2>2. QueueInv' /\ FreshInv'
    BY <2>1, SameQueues
  <2>3. QED
    BY <2>1, <2>2 DEF MoveInv, StartInv, PackInv, CopyInv, UnpackInv, SwitchInv, LastIn, LastAt,
       AtRest, Absent
<1>3. QED
  BY <1>1, <1>2, HubMove, StartMoves, OtherMove, CancelMove, WriteMove, HubRestartMove,
     RestartMove DEF Next

\* NothingLeftBehind for every number of hosts, moves, changes and faults: when
\* hub/migrate.go switches the routes, the new host has every change the clients
\* made on the old one, whatever was canceled, lost or restarted before.
THEOREM NothingIsLeft == Spec => []NothingLeftBehind
<1>1. Init => TypeInv /\ MoveInv
  BY TypeInit, MoveInit
<1>2. TypeInv /\ MoveInv /\ [Next]_vars => TypeInv' /\ MoveInv'
  BY TypeStep, MoveStep
<1>3. MoveInv => NothingLeftBehind
  BY DEF MoveInv, SwitchInv, NothingLeftBehind
<1>4. QED
  BY <1>1, <1>2, <1>3, PTL DEF Spec
-----------------------------------------------------------------------------
(* Why one copy runs: two hosts, no call lost *)

Waits(h, o, m) == \E i \in DOMAIN queue[h] : Is(queue[h][i], o, m)
NonePacks(h) == \A m \in Move : ~Waits(h, "pack", m)

\* A job of a host stands in one queue, once, and is pending until it leaves it.
LineInv ==
  /\ \A g, h \in Host : \A i \in DOMAIN queue[g], j \in DOMAIN queue[h] :
       queue[g][i].op = queue[h][j].op /\ queue[g][i].id = queue[h][j].id => g = h /\ i = j
  /\ \A h \in Host : \A i \in DOMAIN queue[h] :
       result[queue[h][i].op][queue[h][i].id] = "pending"

\* The job the hub posts is in no queue, the one it waits for the last of its host.
AwaitInv ==
  /\ hub.at = "post" => Absent(hub.op, TaskId)
  /\ hub.at = "wait" => LastIn(OnHost, hub.op, TaskId)

\* Which job the hub has where, and what it is about.
PlaceInv ==
  /\ hub.op = "remove" => hub.action = "remove"
  /\ hub.op = "restart" => hub.action = "move"
  /\ hub.op = "stop" => hub.action \in {"rollback", "stopnew"}
  /\ hub.at = "call" => hub.op \in {"stop", "start", "restart"}
  /\ hub.at = "switch" => hub.op \in {"unpack", "start"}
  /\ hub.at = "note" => hub.op \in {"clean", "unpack", "remove", "start", "stop"}
  /\ hub.at = "note" /\ hub.op = "stop" => hub.action = "stopnew"
  /\ hub.at # "idle" => hub.from # hub.to
  /\ hub.action = "rollback" => ~hub.canceled

\* A mark is of a move that was rolled back; no other job of the hub touches it.
MarkInv ==
  /\ \A m \in Move :
       /\ recs[m].state = "moved" \/ recs[m].second => m <= moves /\ recs[m].from # recs[m].to
       /\ recs[m].state \in {"none", "moved"} => ~recs[m].second
  /\ hub.at # "idle" =>
       /\ hub.action \in {"move", "rollback", "remove"} => ~recs[hub.id].second
       /\ hub.action = "rollback" => hub.id <= moves /\ recs[hub.id].from # recs[hub.id].to

\* Only a host the hub waits for unpacks or undoes.
UnpackersInv ==
  \A h \in Host, m \in Move :
    /\ Waits(h, "unpack", m) => hub.at \in {"post", "wait"} /\ hub.op \in {"unpack", "undo"}
                                /\ h = hub.to /\ m = hub.id
    /\ Waits(h, "undo", m) => hub.at = "wait" /\ hub.op = "undo" /\ h = hub.to /\ m = hub.id

\* Where a stack is packed, the other host has no containers of it.
PackersInv ==
  /\ \A g, h \in Host : g # h /\ ~NonePacks(h) => cont[g] = "none" /\ NonePacks(g)
  /\ hub.at # "idle" /\ hub.op \in {"clean", "pack"} => NonePacks(hub.to)
  /\ \/ hub.op = "pack" /\ hub.at # "idle"
     \/ hub.op = "clean" /\ hub.at = "note"
     \/ hub.op = "clean" /\ hub.at = "wait" /\ result["clean"][hub.old] = "succeeded"
     \/ hub.op = "unpack" /\ hub.at = "post"
     => cont[hub.to] = "none"

\* What an error after the packing has to undo, until the old copy starts again.
UndoInv ==
  /\ hub.op = "unpack" /\ hub.at \in {"post", "wait"} => staged[hub.to][hub.id] # NoCopy
  /\ hub.op = "undo" /\ hub.at \in {"post", "wait"} =>
       /\ AtRest(hub.id)
       /\ \/ staged[hub.to][hub.id] # NoCopy
          \/ cont[hub.to] = "none" /\ ~Waits(hub.to, "unpack", hub.id)
       /\ hub.at = "wait" /\ result["undo"][hub.id] # "pending" => cont[hub.to] = "none"
  /\ hub.op = "restart" /\ hub.at = "call" =>
       AtRest(hub.id) /\ queue[hub.to] = <<>> /\ cont[hub.to] = "none"

\* A rollback or a late stop has stopped the new copy before it goes on.
StopInv ==
  \/ hub.at = "call" /\ hub.op = "start" /\ ~hub.skip
  \/ hub.at = "note" /\ hub.op = "stop"
  => cont[hub.to] # "up" \/ cont[hub.from] = "none"

BothInv ==
  \A g, h \in Host : cont[g] = "up" /\ cont[h] = "up" /\ g # h =>
    Marked \/ (hub.action = "rollback" /\ hub.skip /\ hub.at \in {"switch", "note"})

OneInv == LineInv /\ AwaitInv /\ PlaceInv /\ MarkInv /\ UnpackersInv /\ PackersInv /\ UndoInv
          /\ StopInv /\ BothInv

\* A step of a host leaves the jobs in their queues where they are, relative to
\* each other: the first one goes on, or it leaves and all others move up.
LEMMA LineKept ==
  ASSUME TypeInv, LineInv, NEW h \in Host, HostEffect(h)
  PROVE  /\ LineInv'
         /\ \A g \in Host, o \in Op, m \in Move : Waits(g, o, m)' => Waits(g, o, m)
<1>1. \A g \in Host : g # h => queue'[g] = queue[g]
  BY DEF HostEffect, OnlyHere
<1>2. PICK d \in {0, 1} :
        /\ \A i \in DOMAIN queue'[h] : /\ i \in Nat \ {0} /\ i + d \in DOMAIN queue[h]
                                       /\ queue'[h][i].op = queue[h][i + d].op
                                       /\ queue'[h][i].id = queue[h][i + d].id
        /\ \A o \in Op, m \in Move :
             result'[o][m] # result[o][m] => d = 1 /\ Is(queue[h][1], o, m)
  <2>1. DOMAIN queue'[h] = 1..Len(queue'[h]) /\ DOMAIN queue[h] = 1..Len(queue[h])
    BY LineStep, LineFacts
  <2>2. CASE GoesOn(h)
    BY <2>1, <2>2, LineStep DEF GoesOn
  <2>3. CASE ~GoesOn(h)
    <3>1. \A i \in DOMAIN queue'[h] : i + 1 \in DOMAIN queue[h] /\ queue'[h][i] = queue[h][i + 1]
      BY <2>3, LineStep
    <3>2. \A o \in Op, m \in Move : result'[o][m] # result[o][m] => Is(queue[h][1], o, m)
      BY <2>3, LineStep
    <3>3. QED
      BY <2>1, <3>1, <3>2
  <2>4. QED
    BY <2>2, <2>3
<1> DEFINE d0(g) == IF g = h THEN d ELSE 0
<1>3. ASSUME NEW g \in Host, NEW i \in DOMAIN queue'[g]
      PROVE  /\ i \in Nat \ {0} /\ i + d0(g) \in DOMAIN queue[g]
             /\ queue'[g][i].op = queue[g][i + d0(g)].op
             /\ queue'[g][i].id = queue[g][i + d0(g)].id
  <2>1. CASE g = h
    BY <1>2, <1>3, <2>1
  <2>2. CASE g # h
    <3>1. i \in DOMAIN queue[g] /\ i \in Nat \ {0} /\ queue'[g] = queue[g]
      BY <1>1, <1>3, <2>2, LineFacts
    <3>2. QED
      BY <2>2, <3>1
  <2>3. QED
    BY <2>1, <2>2
<1> HIDE DEF d0
<1>4. \A g \in Host : d0(g) \in {0, 1}
  BY DEF d0
<1>5. ASSUME NEW f \in Host, NEW g \in Host, NEW i \in DOMAIN queue'[f],
             NEW j \in DOMAIN queue'[g],
             queue'[f][i].op = queue'[g][j].op, queue'[f][i].id = queue'[g][j].id
      PROVE  f = g /\ i = j
  <2>1. f = g /\ i + d0(f) = j + d0(g)
    BY <1>3, <1>5 DEF LineInv
  <2>2. QED
    BY <1>3, <1>4, <2>1
<1>6. ASSUME NEW g \in Host, NEW i \in DOMAIN queue'[g]
      PROVE  result'[queue'[g][i].op][queue'[g][i].id] = "pending"
  <2> DEFINE k == i + d0(g)
  <2>1. /\ k \in DOMAIN queue[g] /\ i \in Nat \ {0}
        /\ queue'[g][i].op = queue[g][k].op /\ queue'[g][i].id = queue[g][k].id
    BY <1>3, <1>6
  <2>2. /\ result[queue[g][k].op][queue[g][k].id] = "pending"
        /\ queue[g][k].op \in Op /\ queue[g][k].id \in Move
    BY <2>1, LineFacts DEF LineInv
  <2>3. ASSUME d = 1, Is(queue[h][1], queue[g][k].op, queue[g][k].id)
        PROVE  FALSE
    <3>1. 1 \in DOMAIN queue[h]
      BY HeadFacts DEF HostEffect
    <3>2. g = h /\ k = 1
      BY <2>1, <2>3, <3>1 DEF LineInv, Is
    <3>3. k = i + 1
      BY <2>3, <3>2 DEF d0
    <3>4. QED
      BY <2>1, <3>2, <3>3
  <2> HIDE DEF k
  <2>4. QED
    BY <1>2, <2>1, <2>2, <2>3
<1>7. LineInv'
  BY <1>5, <1>6 DEF LineInv
<1>8. ASSUME NEW g \in Host, NEW o \in Op, NEW m \in Move, Waits(g, o, m)'
      PROVE  Waits(g, o, m)
  BY <1>3, <1>8 DEF Waits, Is
<1>9. QED
  BY <1>7, <1>8

\* A job the hub posts comes last.
LEMMA LineGrows ==
  ASSUME TypeInv, MoveInv, LineInv, AwaitInv, hub.at = "post", Submit(OnHost), UNCHANGED moves,
         NEW h \in Host, NEW o \in Op, NEW m \in Move, h = OnHost, o = hub.op, m = TaskId
  PROVE  /\ LineInv' /\ LastIn(h, o, m)'
         /\ \A g \in Host, p \in Op, k \in Move :
              Waits(g, p, k)' => Waits(g, p, k) \/ (g = h /\ p = o /\ k = m)
         /\ result'[o][m] = "pending" /\ ~(queue'[h] = <<>>)
         /\ \A g \in Host : g # h => queue'[g] = queue[g]
         /\ \A p \in Op, k \in Move :
              ~(p = o /\ k = m) => /\ result'[p][k] = result[p][k]
                                   /\ Absent(p, k) => Absent(p, k)'
<1>1. /\ queue'[h] = Append(queue[h], NewTask) /\ NewTask \in Task
      /\ \A g \in Host : g # h => queue'[g] = queue[g]
      /\ queue[h] \in Seq(Task)
  BY SubmitFacts DEF TypeInv, QueueType
<1>2. NewTask.op = o /\ NewTask.id = m
  BY DEF NewTask
<1>3. Absent(o, m)
  BY DEF AwaitInv
<1>4. /\ Len(queue'[h]) = Len(queue[h]) + 1 /\ Len(queue[h]) \in Nat
      /\ DOMAIN queue[h] = 1..Len(queue[h]) /\ DOMAIN queue'[h] = 1..(Len(queue[h]) + 1)
      /\ queue'[h][Len(queue[h]) + 1] = NewTask
      /\ \A i \in 1..Len(queue[h]) : queue'[h][i] = queue[h][i]
  <2>1. queue'[h] \in Seq(Task)
    BY <1>1, AppendProperties
  <2>2. QED
    BY <1>1, <2>1, AppendProperties, LenProperties
<1>5. /\ \A p \in Op, k \in Move :
           ~(p = o /\ k = m) => /\ result'[p][k] = result[p][k]
                                /\ Absent(p, k) => Absent(p, k)'
      /\ result'[o][m] = "pending" /\ queue'[h] # <<>>
  BY SubmitKept
<1>6. ASSUME NEW g \in Host, NEW i \in DOMAIN queue'[g]
      PROVE  \/ g = h /\ i = Len(queue'[h]) /\ queue'[g][i] = NewTask
             \/ /\ i \in DOMAIN queue[g] /\ queue'[g][i] = queue[g][i]
                /\ ~(g = h /\ i = Len(queue'[h]))
                /\ ~Is(queue[g][i], o, m)
                /\ queue[g][i].op \in Op /\ queue[g][i].id \in Move
  <2>1. \/ g = h /\ i = Len(queue'[h]) /\ queue'[g][i] = NewTask
        \/ /\ i \in DOMAIN queue[g] /\ queue'[g][i] = queue[g][i]
           /\ ~(g = h /\ i = Len(queue'[h]))
    BY <1>1, <1>4, <1>6
  <2>2. i \in DOMAIN queue[g] => /\ ~Is(queue[g][i], o, m)
                                 /\ queue[g][i].op \in Op /\ queue[g][i].id \in Move
    BY <1>3, LineFacts DEF Absent
  <2>3. QED
    BY <2>1, <2>2
<1>7. ASSUME NEW f \in Host, NEW g \in Host, NEW i \in DOMAIN queue'[f],
             NEW j \in DOMAIN queue'[g],
             queue'[f][i].op = queue'[g][j].op, queue'[f][i].id = queue'[g][j].id
      PROVE  f = g /\ i = j
  BY <1>2, <1>6, <1>7 DEF LineInv, Is
<1>8. ASSUME NEW g \in Host, NEW i \in DOMAIN queue'[g]
      PROVE  result'[queue'[g][i].op][queue'[g][i].id] = "pending"
  <2>1. CASE queue'[g][i] = NewTask
    BY <1>2, <1>5, <2>1
  <2>2. CASE /\ i \in DOMAIN queue[g] /\ queue'[g][i] = queue[g][i]
             /\ ~Is(queue[g][i], o, m) /\ queue[g][i].op \in Op /\ queue[g][i].id \in Move
    <3>1. result[queue[g][i].op][queue[g][i].id] = "pending"
      BY <2>2 DEF LineInv
    <3>2. QED
      BY <1>5, <2>2, <3>1 DEF Is
  <2>3. QED
    BY <1>6, <1>8, <2>1, <2>2
<1>9. LineInv'
  BY <1>7, <1>8 DEF LineInv
<1>10. \A g \in Host : \A i \in DOMAIN queue'[g] :
         Is(queue'[g][i], o, m) <=> g = h /\ i = Len(queue'[g])
  BY <1>2, <1>6 DEF Is
<1>11. LastIn(h, o, m)'
  BY <1>5, <1>10 DEF LastIn
<1>12. ASSUME NEW g \in Host, NEW p \in Op, NEW k \in Move, Waits(g, p, k)'
       PROVE  Waits(g, p, k) \/ (g = h /\ p = o /\ k = m)
  <2>1. PICK i \in DOMAIN queue'[g] : Is(queue'[g][i], p, k)
    BY <1>12 DEF Waits
  <2>2. QED
    BY <1>2, <1>6, <2>1 DEF Waits, Is
<1>13. QED
  BY <1>1, <1>5, <1>9, <1>11, <1>12

\* What the hub's cancelation takes out of a queue is in no other.
LEMMA LineLess ==
  ASSUME TypeInv, LineInv, hub.at = "wait", NEW h \in Host, CancelTask(h)
  PROVE  /\ LineInv'
         /\ \A g \in Host, o \in Op, m \in Move : Waits(g, o, m)' => Waits(g, o, m)
         /\ \A g \in Host : queue[g] = <<>> => queue'[g] = <<>>
         /\ result'[hub.op][TaskId] # "succeeded" \/ UNCHANGED result
<1> DEFINE o == hub.op
           m == TaskId
<1>1. /\ queue[h] \in Seq(Task) /\ queue \in [Host -> Seq(Task)] /\ result \in Results
      /\ o \in Op /\ m \in Move /\ DOMAIN queue[h] = 1..Len(queue[h]) /\ Len(queue[h]) \in Nat
  BY HubFacts, LineFacts DEF TypeInv, QueueType
<1>2. CASE UNCHANGED <<queue, result>>
  BY <1>2 DEF LineInv, Waits
<1> HIDE DEF o, m
<1>3. ASSUME NEW i \in DOMAIN queue[h], queue[h][i].op = o, queue[h][i].id = m,
             queue' = [queue EXCEPT ![h] = RemoveAt(queue[h], i)],
             result' = [result EXCEPT ![o][m] = "failed"]
      PROVE  /\ LineInv'
             /\ \A g \in Host, p \in Op, k \in Move : Waits(g, p, k)' => Waits(g, p, k)
             /\ \A g \in Host : queue[g] = <<>> => queue'[g] = <<>>
             /\ result'[o][m] # "succeeded"
  <2> DEFINE at(g, j) == IF g = h /\ ~(j < i) THEN j + 1 ELSE j
  <2>1. /\ queue'[h] = RemoveAt(queue[h], i) /\ queue'[h] \in Seq(Task)
        /\ Len(queue'[h]) = Len(queue[h]) - 1
        /\ \A k \in 1..(Len(queue[h]) - 1) :
             queue'[h][k] = queue[h][IF k < i THEN k ELSE k + 1]
        /\ \A g \in Host : g # h => queue'[g] = queue[g]
    BY <1>1, <1>3, RemoveAtLemma
  <2>2. DOMAIN queue'[h] = 1..(Len(queue[h]) - 1)
    BY <2>1
  <2>3. ASSUME NEW g \in Host, NEW j \in DOMAIN queue'[g]
        PROVE  /\ j \in Nat /\ at(g, j) \in DOMAIN queue[g] /\ queue'[g][j] = queue[g][at(g, j)]
               /\ ~(g = h /\ at(g, j) = i)
    <3>1. CASE g # h
      <4>1. queue'[g] = queue[g] /\ j \in DOMAIN queue[g] /\ j \in Nat
        BY <2>1, <2>3, <3>1, LineFacts
      <4>2. QED
        BY <3>1, <4>1
    <3>2. CASE g = h
      <4>1. j \in 1..(Len(queue[h]) - 1) /\ i \in 1..Len(queue[h])
        BY <1>1, <2>2, <2>3, <3>2
      <4>2. QED
        BY <1>1, <2>1, <3>2, <4>1
    <3>3. QED
      BY <3>1, <3>2
  <2>4. ASSUME NEW g \in Host, NEW j \in DOMAIN queue'[g]
        PROVE  /\ ~Is(queue'[g][j], o, m)
               /\ queue'[g][j].op \in Op /\ queue'[g][j].id \in Move
    <3>1. at(g, j) \in DOMAIN queue[g] /\ queue'[g][j] = queue[g][at(g, j)]
          /\ ~(g = h /\ at(g, j) = i)
      BY <2>3, <2>4
    <3>2. QED
      BY <1>3, <3>1, LineFacts DEF LineInv, Is
  <2>5. \A p \in Op, k \in Move : ~(p = o /\ k = m) => result'[p][k] = result[p][k]
    BY <1>1, <1>3 DEF Results
  <2>6. ASSUME NEW f \in Host, NEW g \in Host, NEW j \in DOMAIN queue'[f],
               NEW k \in DOMAIN queue'[g],
               queue'[f][j].op = queue'[g][k].op, queue'[f][j].id = queue'[g][k].id
        PROVE  f = g /\ j = k
    <3>1. f = g /\ at(f, j) = at(g, k) /\ j \in Nat /\ k \in Nat
      BY <2>3, <2>6 DEF LineInv
    <3>2. i \in Nat
      BY <1>1, <1>3
    <3>3. QED
      BY <3>1, <3>2
  <2>7. ASSUME NEW g \in Host, NEW j \in DOMAIN queue'[g]
        PROVE  result'[queue'[g][j].op][queue'[g][j].id] = "pending"
    <3>1. at(g, j) \in DOMAIN queue[g] /\ queue'[g][j] = queue[g][at(g, j)]
      BY <2>3, <2>7
    <3> HIDE DEF at
    <3>2. result[queue'[g][j].op][queue'[g][j].id] = "pending"
      BY <3>1 DEF LineInv
    <3>3. QED
      BY <2>4, <2>5, <2>7, <3>2 DEF Is
  <2>8. LineInv'
    BY <2>6, <2>7 DEF LineInv
  <2>9. \A g \in Host, p \in Op, k \in Move : Waits(g, p, k)' => Waits(g, p, k)
    <3> HIDE DEF at
    <3>1. QED
      BY <2>3 DEF Waits
  <2>10. \A g \in Host : queue[g] = <<>> => queue'[g] = <<>>
    <3>1. queue[h] # <<>>
      BY <1>3
    <3>2. QED
      BY <2>1, <3>1
  <2>11. result'[o][m] # "succeeded"
    BY <1>1, <1>3 DEF Results
  <2>12. QED
    BY <2>8, <2>9, <2>10, <2>11
<1>4. ASSUME NEW i \in DOMAIN queue[h],
             queue' = [queue EXCEPT ![h][i].canceled = TRUE], UNCHANGED result
      PROVE  /\ LineInv'
             /\ \A g \in Host, p \in Op, k \in Move : Waits(g, p, k)' => Waits(g, p, k)
             /\ \A g \in Host : queue[g] = <<>> => queue'[g] = <<>>
  <2>1. \A g \in Host : /\ DOMAIN queue'[g] = DOMAIN queue[g]
                        /\ \A j \in DOMAIN queue[g] : /\ queue'[g][j].op = queue[g][j].op
                                                     /\ queue'[g][j].id = queue[g][j].id
                        /\ queue[g] = <<>> => queue'[g] = <<>>
    <3> DEFINE t == [queue[h][i] EXCEPT !.canceled = TRUE]
    <3>1. t.op = queue[h][i].op /\ t.id = queue[h][i].id
      <4>1. queue[h][i] \in Task
        BY <1>1
      <4>2. QED
        BY <4>1 DEF Task
    <3> HIDE DEF t
    <3>2. queue' = [queue EXCEPT ![h] = [queue[h] EXCEPT ![i] = t]] /\ queue[h] # <<>>
      BY <1>4 DEF t
    <3>3. QED
      BY <1>1, <3>1, <3>2
  <2>2. QED
    BY <1>4, <2>1 DEF LineInv, Waits, Is
<1>5. QED
  BY <1>2, <1>3, <1>4 DEF CancelTask, o, m

\* What the jobs of a host do to its containers.
LEMMA ContEffect ==
  ASSUME TypeInv, NEW h \in Host, HostStep(h)
  PROVE  /\ queue[h][1].op \in {"pack", "unpack"} \/ cont'[h] \in {cont[h], "none"}
         /\ queue[h][1].op \in {"clean", "remove"} => cont'[h] = "none"
         /\ queue[h][1].op = "undo" => \/ cont'[h] = "none"
                                       \/ staged[h][queue[h][1].id] = NoCopy /\ cont'[h] = cont[h]
<1> USE DEF TypeInv, CopyType
<1>1. CASE PackBegin(h) \/ PackStop(h) \/ PackFiles(h)
  <2>1. queue[h][1].op = "pack"
    BY <1>1, AtFacts DEF PackBegin, PackStop, PackFiles
  <2>2. QED
    BY <2>1
<1>2. CASE UnpackBegin(h) \/ UnpackFill(h) \/ UnpackRaise(h) \/ UnpackWait(h)
  <2>1. queue[h][1].op = "unpack"
    BY <1>2, AtFacts DEF UnpackBegin, UnpackFill, UnpackRaise, UnpackWait
  <2>2. QED
    BY <2>1
<1>3. CASE Undo(h)
  <2>1. queue[h][1].op = "undo" /\ Packed(h) = staged[h][queue[h][1].id]
    BY <1>3, AtFacts DEF Undo, Packed
  <2>2. \/ Packed(h) = NoCopy /\ cont' = cont
        \/ cont' = [cont EXCEPT ![h] = "none"]
    BY <1>3 DEF Undo
  <2>3. QED
    BY <2>1, <2>2
<1>4. CASE RemoveCopy(h)
  <2>1. queue[h][1].op \in {"remove", "clean"} /\ cont' = [cont EXCEPT ![h] = "none"]
    BY <1>4, AtFacts DEF RemoveCopy
  <2>2. QED
    BY <2>1
<1>5. QED
  BY <1>1, <1>2, <1>3, <1>4 DEF HostStep

\* What stands in a queue, as the invariant and the lemmas about the line say it.
LEMMA WaitsFacts ==
  ASSUME TypeInv
  PROVE  /\ \A o \in Op, m \in Move : Absent(o, m) <=> \A h \in Host : ~Waits(h, o, m)
         /\ \A h \in Host : queue[h] = <<>> => \A o, m : ~Waits(h, o, m)
         /\ \A h \in Host : queue[h] # <<>> => Waits(h, queue[h][1].op, queue[h][1].id)
<1>1. \A h \in Host : queue[h] # <<>> => 1 \in DOMAIN queue[h]
  BY HeadFacts
<1>2. QED
  BY <1>1 DEF Absent, Waits, Is

\* The old host at rest stays so in a step of a host, which is the other one.
LEMMA RestKept ==
  ASSUME TypeInv, MoveInv, hub.at # "idle", AtRest(hub.id), NEW h \in Host, HostEffect(h),
         UNCHANGED hub
  PROVE  AtRest(hub.id)' /\ h # hub.from
<1>1. hub.from \in Host /\ hub.id \in Move /\ "pack" \in Op
  BY HubFacts DEF Op
<1>2. h # hub.from
  BY DEF AtRest, HostEffect
<1>3. cont'[hub.from] = cont[hub.from] /\ queue'[hub.from] = queue[hub.from]
  BY <1>1, <1>2 DEF HostEffect, OnlyHere
<1>4. Absent("pack", hub.id)'
  <2>1. ASSUME NEW m \in Move, m = hub.id
        PROVE  Absent("pack", m)'
    BY <1>1, <2>1, QueueKept DEF AtRest
  <2>2. QED
    BY <1>1, <2>1
<1>5. QED
  BY <1>2, <1>3, <1>4 DEF AtRest

LEMMA OneHost ==
  ASSUME TypeInv, MoveInv, OneInv, TwoHosts, NEW h \in Host, HostStep(h)
  PROVE  OneInv'
<1> DEFINE F == hub.from
           T == hub.to
           I == hub.id
<1>0. HostEffect(h) /\ UNCHANGED <<hub, recs, moves>>
  BY HostEffects DEF HostStep, ghosts
<1>1. /\ LineInv'
      /\ \A g \in Host, o \in Op, m \in Move : Waits(g, o, m)' => Waits(g, o, m)
  BY <1>0, LineKept DEF OneInv
<1>2. /\ queue[h] # <<>> /\ queue[h][1].op \in Op /\ queue[h][1].id \in Move
      /\ Waits(h, queue[h][1].op, queue[h][1].id)
      /\ \A g \in Host : g # h => cont'[g] = cont[g] /\ queue'[g] = queue[g]
      /\ \A g \in Host, m \in Move :
           ~(g = h /\ Is(queue[h][1], "pack", m)) => staged'[g][m] = staged[g][m]
  BY <1>0, HeadFacts, LineFacts, WaitsFacts DEF HostEffect, OnlyHere, Is
<1>3. hub.at # "idle" => F \in Host /\ T \in Host /\ I \in Move /\ TaskId \in Move /\ OnHost \in Host
  BY HubFacts
<1>4. Op = {"clean", "pack", "unpack", "undo", "remove"}
  BY DEF Op
<1>5. \A g \in Host : NonePacks(g) => NonePacks(g)'
  BY <1>1, <1>4 DEF NonePacks
\* A host whose containers appear packs or unpacks.
<1>6. ASSUME cont[h] = "none", cont'[h] # "none"
      PROVE  ~NonePacks(h) \/ \E m \in Move : Waits(h, "unpack", m)
  BY <1>2, <1>6, ContEffect DEF NonePacks
<1>7. AwaitInv'
  <2>1. ASSUME hub.at = "post"
        PROVE  Absent(hub.op, TaskId)'
    <3>1. ASSUME NEW o \in Op, NEW m \in Move, o = hub.op, m = TaskId
          PROVE  Absent(o, m)'
      BY <1>0, <2>1, <3>1, QueueKept DEF OneInv, AwaitInv
    <3>2. hub.op \in Op /\ TaskId \in Move /\ TaskId' = TaskId
      BY <1>0, <2>1, HubFacts DEF TaskId
    <3>3. QED
      BY <1>0, <3>1, <3>2 DEF Absent
  <2>2. ASSUME hub.at = "wait"
        PROVE  LastIn(OnHost, hub.op, TaskId)'
    <3>1. ASSUME NEW k \in Host, NEW o \in Op, NEW m \in Move, k = OnHost, o = hub.op, m = TaskId
          PROVE  LastIn(k, o, m)'
      BY <1>0, <2>2, <3>1, LastKept DEF OneInv, AwaitInv
    <3>2. hub.op \in Op /\ TaskId \in Move /\ OnHost \in Host /\ TaskId' = TaskId /\ OnHost' = OnHost
      BY <1>0, <2>2, HubFacts DEF TaskId, OnHost
    <3>3. QED
      BY <1>0, <3>1, <3>2 DEF LastIn
  <2>3. QED
    BY <1>0, <2>1, <2>2 DEF AwaitInv
<1>8. PlaceInv' /\ MarkInv'
  BY <1>0 DEF OneInv, PlaceInv, MarkInv
<1>9. UnpackersInv'
  BY <1>0, <1>1, <1>4 DEF OneInv, UnpackersInv
\* The hub relies on the old host being at rest when it unpacks and undoes.
<1>10. ASSUME hub.at \in {"post", "wait"}, hub.op \in {"unpack", "undo"}
       PROVE  /\ AtRest(I) /\ AtRest(I)' /\ h # F /\ h = T /\ NonePacks(T) /\ NonePacks(F)
              /\ \A m \in Move : staged'[T][m] = staged[T][m]
  <2>1. AtRest(I)
    BY <1>10 DEF OneInv, UndoInv, MoveInv, UnpackInv
  <2>2. AtRest(I)' /\ h # F
    BY <1>0, <1>10, <2>1, RestKept
  <2>3. F # T /\ h = T
    BY <1>3, <1>10, <2>2 DEF OneInv, PlaceInv, TwoHosts
  <2>4. cont[F] # "none" /\ queue[F] = <<>>
    BY <2>1 DEF AtRest
  <2>5. NonePacks(T)
    BY <1>3, <1>10, <2>3, <2>4 DEF OneInv, PackersInv
  <2>6. NonePacks(F)
    BY <1>3, <1>10, <2>4, WaitsFacts DEF NonePacks
  <2>7. \A m \in Move : staged'[T][m] = staged[T][m]
    BY <1>2, <1>3, <1>10, <2>3, <2>5 DEF NonePacks, Is
  <2>8. QED
    BY <2>1, <2>2, <2>3, <2>5, <2>6, <2>7
<1>11. ASSUME NEW g \in Host, NEW k \in Host, g # k, ~NonePacks(k)'
       PROVE  cont'[g] = "none" /\ NonePacks(g)'
  <2>1. ~NonePacks(k) /\ cont[g] = "none" /\ NonePacks(g) /\ NonePacks(g)'
    BY <1>5, <1>11 DEF OneInv, PackersInv
  <2>2. ASSUME g = h, cont'[g] # "none"
        PROVE  FALSE
    <3>1. PICK m \in Move : Waits(h, "unpack", m)
      BY <1>6, <2>1, <2>2
    <3>2. hub.at \in {"post", "wait"} /\ hub.op \in {"unpack", "undo"}
      BY <3>1 DEF OneInv, UnpackersInv
    <3>3. QED
      BY <1>3, <1>10, <1>11, <2>1, <2>2, <3>2 DEF TwoHosts
  <2>3. QED
    BY <1>2, <2>1, <2>2
\* No containers appear on the new host before the hub has it unpack.
<1>12. ASSUME hub.at # "idle", cont[T] = "none", NonePacks(T),
              ~(\E m \in Move : Waits(T, "unpack", m))
       PROVE  cont'[T] = "none"
  BY <1>2, <1>3, <1>6, <1>12
<1>13. PackersInv'
  <2>1. hub.at # "idle" /\ hub.op \in {"clean", "pack"} => NonePacks(T)'
    <3>1. \A g \in Host : g = T /\ NonePacks(g) => NonePacks(T)'
      BY <1>0, <1>5 DEF NonePacks, Waits
    <3>2. QED
      BY <1>3, <3>1 DEF OneInv, PackersInv
  <2>2. ASSUME \/ hub.op = "pack" /\ hub.at # "idle"
               \/ hub.op = "clean" /\ hub.at = "note"
        PROVE  cont'[T] = "none"
    <3>1. cont[T] = "none" /\ NonePacks(T)
      BY <2>2 DEF OneInv, PackersInv
    <3>2. QED
      BY <1>3, <1>12, <2>2, <3>1 DEF OneInv, UnpackersInv
  <2>3. ASSUME hub.op = "unpack", hub.at = "post"
        PROVE  cont'[T] = "none"
    <3>1. cont[T] = "none" /\ NonePacks(T) /\ Absent("unpack", I)
      BY <1>10, <2>3 DEF OneInv, PackersInv, AwaitInv, TaskId
    <3>2. \A m \in Move : ~Waits(T, "unpack", m)
      BY <1>3, <1>4, <2>3, <3>1, WaitsFacts DEF OneInv, UnpackersInv
    <3>3. QED
      BY <1>12, <2>3, <3>1, <3>2
  <2>4. ASSUME hub.op = "clean", hub.at = "wait", result'["clean"][hub.old] = "succeeded"
        PROVE  cont'[T] = "none"
    <3>1. hub.old \in Move /\ OnHost = T /\ TaskId = hub.old
      BY <2>4 DEF TypeInv, HubType, OnHost, TaskId
    <3>2. CASE result["clean"][hub.old] = "succeeded"
      <4>1. cont[T] = "none" /\ NonePacks(T)
        BY <2>4, <3>2 DEF OneInv, PackersInv
      <4>2. QED
        BY <1>3, <1>12, <2>4, <4>1 DEF OneInv, UnpackersInv
    <3>3. CASE result["clean"][hub.old] # "succeeded"
      <4>1. Is(queue[h][1], "clean", hub.old)
        BY <1>0, <1>4, <2>4, <3>1, <3>3, LineStep
      <4>2. LastIn(T, "clean", hub.old) /\ 1 \in DOMAIN queue[h]
        BY <1>2, <2>4, <3>1, HeadFacts DEF OneInv, AwaitInv
      <4>3. h = T
        BY <4>1, <4>2 DEF LastIn
      <4>4. QED
        BY <4>1, <4>3, ContEffect DEF Is
    <3>4. QED
      BY <3>2, <3>3
  <2>5. QED
    BY <1>0, <1>11, <2>1, <2>2, <2>3, <2>4 DEF PackersInv
<1>14. UndoInv'
  <2>1. ASSUME hub.op = "unpack", hub.at \in {"post", "wait"}
        PROVE  staged'[T][I] # NoCopy
    BY <1>3, <1>10, <2>1 DEF OneInv, UndoInv
  <2>2. ASSUME hub.op = "undo", hub.at \in {"post", "wait"}
        PROVE  /\ AtRest(I)'
               /\ \/ staged'[T][I] # NoCopy
                  \/ cont'[T] = "none" /\ ~Waits(T, "unpack", I)'
    <3>1. CASE staged[T][I] # NoCopy
      BY <1>3, <1>10, <2>2, <3>1
    <3>2. CASE cont[T] = "none" /\ ~Waits(T, "unpack", I)
      <4>1. \A m \in Move : ~Waits(T, "unpack", m)
        BY <1>3, <2>2, <3>2 DEF OneInv, UnpackersInv
      <4>2. cont'[T] = "none"
        BY <1>10, <1>12, <2>2, <3>2, <4>1
      <4>3. ~Waits(T, "unpack", I)'
        <5>1. ASSUME NEW g \in Host, NEW m \in Move, g = T, m = I
              PROVE  ~Waits(g, "unpack", m)'
          BY <1>1, <1>4, <3>2, <5>1
        <5>2. QED
          BY <1>0, <1>3, <2>2, <5>1 DEF Waits
      <4>4. QED
        BY <1>10, <2>2, <4>2, <4>3
    <3>3. QED
      BY <2>2, <3>1, <3>2 DEF OneInv, UndoInv
  <2>3. ASSUME hub.op = "undo", hub.at = "wait", result'["undo"][I] # "pending"
        PROVE  cont'[T] = "none"
    <3>1. OnHost = T /\ TaskId = I /\ LastIn(T, "undo", I) /\ h = T
      BY <1>10, <2>3 DEF OneInv, AwaitInv, OnHost, TaskId
    <3>2. result["undo"][I] = "pending"
      BY <1>2, <3>1 DEF LastIn
    <3>3. Is(queue[h][1], "undo", I)
      BY <1>0, <1>3, <1>4, <2>3, <3>2, LineStep
    <3>4. \/ cont'[T] = "none"
          \/ staged[T][I] = NoCopy /\ cont'[T] = cont[T]
      BY <3>1, <3>3, ContEffect DEF Is
    <3>5. QED
      BY <2>3, <3>4 DEF OneInv, UndoInv
  <2>4. ASSUME hub.op = "restart", hub.at = "call"
        PROVE  AtRest(I)' /\ queue'[T] = <<>> /\ cont'[T] = "none"
    <3>1. AtRest(I) /\ queue[T] = <<>> /\ cont[T] = "none"
      BY <2>4 DEF OneInv, UndoInv
    <3>2. AtRest(I)' /\ h # T
      BY <1>0, <1>2, <2>4, <3>1, RestKept
    <3>3. QED
      BY <1>2, <1>3, <2>4, <3>1, <3>2
  <2>5. QED
    BY <1>0, <2>1, <2>2, <2>3, <2>4 DEF UndoInv
<1>15. StopInv'
  <2>1. SUFFICES ASSUME \/ hub.at = "call" /\ hub.op = "start" /\ ~hub.skip
                        \/ hub.at = "note" /\ hub.op = "stop"
                 PROVE  cont'[T] # "up" \/ cont'[F] = "none"
    BY <1>0 DEF StopInv
  <2>2. cont[T] # "up" \/ cont[F] = "none"
    BY <2>1 DEF OneInv, StopInv
  <2>3. F # T /\ F \in Host /\ T \in Host /\ \A g \in Host, m \in Move : ~Waits(g, "unpack", m)
    BY <1>3, <2>1 DEF OneInv, PlaceInv, UnpackersInv
  <2>4. CASE ~NonePacks(h)
    BY <1>2, <2>3, <2>4 DEF OneInv, PackersInv
  <2>5. CASE NonePacks(h)
    <3>1. cont'[h] \in {cont[h], "none"}
      BY <1>2, <1>4, <2>3, <2>5, ContEffect DEF NonePacks
    <3>2. QED
      BY <1>2, <2>2, <2>3, <3>1
  <2>6. QED
    BY <2>4, <2>5
<1>16. BothInv'
  <2>1. SUFFICES ASSUME NEW g \in Host, NEW k \in Host, cont'[g] = "up", cont'[k] = "up", g # k
                 PROVE  Marked \/ (hub.action = "rollback" /\ hub.skip /\ hub.at \in {"switch", "note"})
    BY <1>0 DEF BothInv, Marked
  <2>2. CASE ~NonePacks(h)
    <3>1. \A f \in Host : f # h => cont'[f] = "none"
      BY <1>2, <2>2 DEF OneInv, PackersInv
    <3>2. QED
      BY <2>1, <3>1
  <2>3. ASSUME NEW m \in Move, Waits(h, "unpack", m)
        PROVE  FALSE
    <3>1. /\ hub.at \in {"post", "wait"} /\ hub.op \in {"unpack", "undo"} /\ F \in Host
          /\ AtRest(I)' /\ h # F
      BY <1>3, <1>10, <2>3 DEF OneInv, UnpackersInv
    <3>2. cont'[F] = "stopped"
      BY <1>0, <3>1 DEF AtRest
    <3>3. QED
      BY <1>3, <2>1, <3>1, <3>2 DEF TwoHosts
  <2>4. CASE NonePacks(h) /\ ~(\E m \in Move : Waits(h, "unpack", m))
    <3>1. cont'[h] \in {cont[h], "none"}
      BY <1>2, <1>4, <2>4, ContEffect DEF NonePacks
    <3>2. cont[g] = "up" /\ cont[k] = "up"
      BY <1>2, <2>1, <3>1
    <3>3. QED
      BY <2>1, <3>2 DEF OneInv, BothInv
  <2>5. QED
    BY <2>2, <2>3, <2>4
<1>17. QED
  BY <1>1, <1>7, <1>8, <1>9, <1>13, <1>14, <1>15, <1>16 DEF OneInv

\* The steps of the hub, one by one.
LEMMA NoneLost ==
  ASSUME TypeInv, NoFault
  PROVE  ~Fault
BY Bounds DEF NoFault, Fault, TypeInv, FaultType

LEMMA SameLine ==
  ASSUME LineInv, UNCHANGED <<queue, result>>
  PROVE  LineInv' /\ \A g, o, m : Waits(g, o, m)' <=> Waits(g, o, m)
BY DEF LineInv, Waits

\* Where the hub waits for no host, few parts of the invariant say anything.
LEMMA ElsewhereOne ==
  ASSUME LineInv', PlaceInv', MarkInv', BothInv', hub'.at \notin {"post", "wait", "call"},
         hub'.at = "note" => hub'.op # "stop",
         \A h \in Host, m \in Move : ~Waits(h, "unpack", m)' /\ ~Waits(h, "undo", m)',
         \A g, h \in Host : g # h /\ ~NonePacks(h)' => cont'[g] = "none" /\ NonePacks(g)',
         hub'.at # "idle" /\ hub'.op \in {"clean", "pack"} =>
           cont'[hub'.to] = "none" /\ NonePacks(hub.to)'
  PROVE  OneInv'
<1>1. AwaitInv' /\ UnpackersInv' /\ UndoInv' /\ StopInv'
  BY DEF AwaitInv, UnpackersInv, UndoInv, StopInv
<1>2. PackersInv'
  BY DEF PackersInv
<1>3. QED
  BY <1>1, <1>2 DEF OneInv

LEMMA PostOne ==
  ASSUME TypeInv, MoveInv, OneInv, TwoHosts, Post, NoFault
  PROVE  OneInv'
<1> DEFINE F == hub.from
           T == hub.to
           I == hub.id
<1>1. /\ hub.at = "post" /\ UNCHANGED <<cont, data, staged, recs, moves>>
      /\ F \in Host /\ T \in Host /\ I \in Move /\ hub.op \in Op /\ F # T
      /\ ~Fault
  BY HubFacts, NoneLost DEF Post, ghosts, OneInv, PlaceInv
<1>2. PICK h \in Host, o \in Op, m \in Move : h = OnHost /\ o = hub.op /\ m = TaskId
  BY <1>1, HubFacts
<1>3. Op = {"clean", "pack", "unpack", "undo", "remove"}
  BY DEF Op
<1>4. \A g \in Host : g = F \/ g = T
  BY <1>1 DEF TwoHosts
\* What the job that is posted adds.
<1>5. ASSUME Submit(OnHost)
      PROVE  /\ LineInv' /\ LastIn(h, o, m)' /\ result'[o][m] = "pending"
             /\ \A g \in Host, p \in Op, k \in Move :
                  Waits(g, p, k)' => Waits(g, p, k) \/ (g = h /\ p = o /\ k = m)
             /\ \A g \in Host : g # h => queue'[g] = queue[g]
             /\ \A p \in Op, k \in Move :
                  ~(p = o /\ k = m) /\ Absent(p, k) => Absent(p, k)'
  BY <1>1, <1>2, <1>5, LineGrows DEF OneInv
<1>6. /\ \A g \in Host : ~NonePacks(g)' => ~NonePacks(g) \/ (o = "pack" /\ g = F)
      /\ \A g \in Host, k \in Move :
           /\ ~Waits(g, "undo", k)' \/ (o = "undo" /\ g = T /\ k = I)
           /\ Waits(g, "unpack", k)' => /\ o \in {"unpack", "undo"} /\ g = T /\ k = I
                                        /\ Waits(g, "unpack", k) \/ o = "unpack"
      /\ LineInv'
  <2>1. \/ UNCHANGED <<queue, result>>
        \/ Submit(OnHost)
    BY DEF Post
  <2>2. \A g \in Host, k \in Move :
          /\ ~Waits(g, "undo", k)
          /\ Waits(g, "unpack", k) => o \in {"unpack", "undo"} /\ g = T /\ k = I
    BY <1>1, <1>2 DEF OneInv, UnpackersInv
  <2>3. CASE UNCHANGED <<queue, result>>
    <3>1. LineInv' /\ \A g \in Host, p \in Op, k \in Move : Waits(g, p, k)' => Waits(g, p, k)
      BY <2>3, SameLine DEF OneInv
    <3>2. QED
      BY <1>3, <2>2, <3>1 DEF NonePacks
  <2>4. CASE Submit(OnHost)
    <3>1. o = "pack" => h = F
      BY <1>2 DEF OnHost
    <3>2. o \in {"unpack", "undo"} => h = T /\ m = I
      BY <1>2 DEF OnHost, TaskId
    <3>3. QED
      BY <1>3, <1>5, <2>2, <2>4, <3>1, <3>2 DEF NonePacks
  <2>5. QED
    BY <2>1, <2>3, <2>4
<1>7. \A g, k \in Host : g # k /\ ~NonePacks(k)' => cont'[g] = "none" /\ NonePacks(g)'
  <2>1. o = "pack" => cont[T] = "none" /\ NonePacks(T)
    BY <1>1, <1>2 DEF OneInv, PackersInv
  <2>2. QED
    BY <1>1, <1>4, <1>6, <2>1 DEF OneInv, PackersInv
<1>8. Marked' = Marked /\ BothInv'
  BY <1>1 DEF OneInv, BothInv, Marked
\* The hub posts the job and waits for it.
<1>9. CASE Submit(OnHost) /\ hub' = [hub EXCEPT !.at = "wait"]
  <2>1. /\ hub'.at = "wait" /\ hub'.op = o /\ hub'.action = hub.action
        /\ hub'.from = F /\ hub'.to = T /\ hub'.id = I /\ hub'.old = hub.old
        /\ hub'.canceled = hub.canceled
    BY <1>2, <1>9 DEF TypeInv, HubType, HubRecord
  <2>2. AwaitInv'
    <3>1. OnHost' = h /\ TaskId' = m
      BY <1>2, <2>1 DEF OnHost, TaskId
    <3>2. QED
      BY <1>5, <1>9, <2>1, <3>1 DEF AwaitInv, LastIn
  <2>3. PlaceInv' /\ MarkInv'
    BY <1>1, <1>2, <2>1 DEF OneInv, PlaceInv, MarkInv
  <2>4. UnpackersInv'
    BY <1>6, <2>1 DEF UnpackersInv
  <2>5. PackersInv'
    <3>1. o \in {"clean", "pack"} => NonePacks(T)'
      <4>1. o \in {"clean", "pack"} => NonePacks(T)
        BY <1>1, <1>2 DEF OneInv, PackersInv
      <4>2. \A g \in Host : g = T /\ NonePacks(g) => NonePacks(g)'
        BY <1>1, <1>6
      <4>3. QED
        BY <1>1, <2>1, <4>1, <4>2 DEF NonePacks, Waits
    <3>2. o = "pack" => cont[T] = "none"
      BY <1>1, <1>2 DEF OneInv, PackersInv
    <3>3. o = "clean" => result'["clean"][hub'.old] = "pending"
      BY <1>2, <1>5, <1>9, <2>1 DEF TaskId
    <3>4. QED
      BY <1>1, <1>7, <2>1, <3>1, <3>2, <3>3 DEF PackersInv
  <2>6. UndoInv'
    <3>1. o = "unpack" => staged[T][I] # NoCopy
      BY <1>1, <1>2 DEF OneInv, UndoInv
    <3>2. ASSUME o = "undo"
          PROVE  /\ AtRest(I)'
                 /\ staged[T][I] # NoCopy \/ (cont[T] = "none" /\ ~Waits(T, "unpack", I)')
                 /\ result'["undo"][I] = "pending"
      <4>1. AtRest(I) /\ h = T /\ m = I
        BY <1>1, <1>2, <3>2 DEF OneInv, UndoInv, OnHost, TaskId
      <4>2. queue'[F] = queue[F]
        BY <1>1, <1>5, <1>9, <4>1
      <4>3. \A k \in Move : k = I => Absent("pack", k)'
        BY <1>3, <1>5, <1>9, <3>2, <4>1 DEF AtRest
      <4>4. AtRest(I)'
        BY <1>1, <2>1, <4>1, <4>2, <4>3 DEF AtRest, Absent
      <4>5. \A g \in Host, k \in Move : g = T /\ k = I /\ ~Waits(g, "unpack", k)
              => ~Waits(g, "unpack", k)'
        BY <1>6, <3>2
      <4>6. ~Waits(T, "unpack", I) => ~Waits(T, "unpack", I)'
        BY <1>1, <2>1, <4>5 DEF Waits
      <4>7. result'["undo"][I] = "pending"
        BY <1>5, <1>9, <3>2, <4>1
      <4>8. QED
        BY <1>1, <1>2, <3>2, <4>4, <4>6, <4>7 DEF OneInv, UndoInv
    <3>3. QED
      BY <1>1, <2>1, <3>1, <3>2 DEF UndoInv, Waits, AtRest, Absent
  <2>7. StopInv'
    BY <2>1 DEF StopInv
  <2>8. QED
    BY <1>6, <1>8, <2>2, <2>3, <2>4, <2>5, <2>6, <2>7 DEF OneInv
\* The hub's job was canceled.
<1>10. CASE Aborted /\ Proceed(FALSE) /\ (Submit(OnHost) \/ UNCHANGED <<queue, result>>)
  <2>1. o # "undo"
    BY <1>2, <1>10 DEF Aborted
  <2>2. CASE o # "unpack"
    <3>1. hub' = Idle
      BY <1>1, <1>2, <1>10, <2>1, <2>2, ProceedTo
    <3>2. hub'.at = "idle" /\ hub'.op = "none" /\ hub'.action = "none" /\ hub'.canceled = FALSE
      BY <3>1 DEF Idle
    <3>3. PlaceInv' /\ MarkInv'
      BY <1>1, <3>2 DEF OneInv, PlaceInv, MarkInv
    <3>4. QED
      BY <1>6, <1>7, <1>8, <2>1, <2>2, <3>2, <3>3, ElsewhereOne
  <2>3. CASE o = "unpack"
    <3>2. hub' = [hub EXCEPT !.at = "post", !.op = "undo"]
      BY <1>2, <1>10, <2>3 DEF Proceed
    <3>1. hub'.at = "post" /\ hub'.op = "undo" /\ SameJob
      BY <3>2 DEF TypeInv, HubType, HubRecord, SameJob
    <3>3. hub'.canceled = hub.canceled /\ hub.action = "move"
      BY <1>1, <1>2, <2>3, <3>2 DEF TypeInv, HubType, HubRecord
    <3>4. AwaitInv'
      <4>1. \A g \in Host, k \in Move : ~Waits(g, "undo", k)'
        BY <1>6, <2>3
      <4>2. TaskId' = I
        BY <3>1 DEF TaskId, SameJob
      <4>3. QED
        BY <1>1, <3>1, <4>1, <4>2 DEF AwaitInv, Waits, Absent
    <3>5. PlaceInv' /\ MarkInv'
      BY <1>1, <3>1, <3>3 DEF OneInv, PlaceInv, MarkInv, SameJob
    <3>6. UnpackersInv'
      BY <1>6, <2>3, <3>1 DEF UnpackersInv, SameJob
    <3>7. PackersInv'
      BY <1>7, <3>1 DEF PackersInv
    <3>8. UndoInv'
      <4>1. AtRest(I) /\ h = T /\ staged[T][I] # NoCopy
        BY <1>1, <1>2, <2>3 DEF MoveInv, UnpackInv, OneInv, UndoInv, OnHost
      <4>2. queue'[F] = queue[F]
        BY <1>1, <1>5, <1>10, <4>1
      <4>3. Absent("pack", I)'
        <5>1. \A k \in Move : k = I => Absent("pack", k)'
          <6>1. CASE Submit(OnHost)
            BY <1>3, <1>5, <2>3, <4>1, <6>1 DEF AtRest
          <6>2. CASE UNCHANGED queue
            BY <4>1, <6>2 DEF AtRest, Absent
          <6>3. QED
            BY <1>10, <6>1, <6>2
        <5>2. QED
          BY <1>1, <3>1, <5>1 DEF Absent, SameJob
      <4>4. AtRest(I)'
        BY <1>1, <3>1, <4>1, <4>2, <4>3 DEF AtRest, SameJob, Absent
      <4>5. QED
        BY <1>1, <3>1, <4>1, <4>4 DEF UndoInv, SameJob, AtRest, Absent
    <3>9. StopInv'
      BY <3>1 DEF StopInv
    <3>10. QED
      BY <1>6, <1>8, <3>4, <3>5, <3>6, <3>7, <3>8, <3>9 DEF OneInv
  <2>4. QED
    BY <2>2, <2>3
<1>11. QED
  BY <1>1, <1>9, <1>10 DEF Post

LEMMA WaitOne ==
  ASSUME TypeInv, MoveInv, OneInv, TwoHosts, Wait, NoFault
  PROVE  OneInv'
<1> DEFINE F == hub.from
           T == hub.to
           I == hub.id
<1>1. /\ hub.at = "wait" /\ UNCHANGED <<cont, data, staged, recs, moves>>
      /\ F \in Host /\ T \in Host /\ I \in Move /\ hub.op \in Op /\ F # T
      /\ OnHost \in Host /\ TaskId \in Move /\ ~Fault
  BY HubFacts, NoneLost DEF Wait, ghosts, OneInv, PlaceInv
<1>2. Op = {"clean", "pack", "unpack", "undo", "remove"}
  BY DEF Op
<1>3. /\ LineInv'
      /\ \A g \in Host, o \in Op, m \in Move : Waits(g, o, m)' => Waits(g, o, m)
  <2>1. CASE UNCHANGED <<queue, result>>
    BY <2>1, SameLine DEF OneInv
  <2>2. CASE CancelTask(OnHost)
    BY <1>1, <2>2, LineLess DEF OneInv
  <2>3. QED
    BY <2>1, <2>2 DEF Wait
<1>4. \A g \in Host : NonePacks(g) => NonePacks(g)'
  BY <1>2, <1>3 DEF NonePacks
<1>5. \A g, k \in Host : g # k /\ ~NonePacks(k)' => cont'[g] = "none" /\ NonePacks(g)'
  BY <1>1, <1>4 DEF OneInv, PackersInv
<1>6. Marked' = Marked /\ BothInv'
  BY <1>1 DEF OneInv, BothInv, Marked
<1>7. \A g \in Host, k \in Move :
        /\ Waits(g, "undo", k)' => hub.op = "undo" /\ g = T /\ k = I
        /\ Waits(g, "unpack", k)' => hub.op \in {"unpack", "undo"} /\ g = T /\ k = I
  BY <1>2, <1>3 DEF OneInv, UnpackersInv
\* What the hub knows of the job that has ended well.
<1>8. ASSUME result[hub.op][TaskId] # "pending"
      PROVE  queue[OnHost] = <<>>
  BY <1>1, <1>8 DEF OneInv, AwaitInv, LastIn
\* The hub gives its job up.
<1>9. CASE hub' = Idle /\ hub.op \in {"clean", "pack", "remove"}
  <2>1. hub'.at = "idle" /\ hub'.op = "none" /\ hub'.action = "none" /\ hub'.canceled = FALSE
    BY <1>9 DEF Idle
  <2>2. PlaceInv' /\ MarkInv'
    BY <1>1, <2>1 DEF OneInv, PlaceInv, MarkInv
  <2>3. QED
    BY <1>3, <1>5, <1>6, <1>7, <1>9, <2>1, <2>2, ElsewhereOne
\* The hub undoes what the new host unpacked, whether that has ended or not.
<1>10. CASE hub' = [hub EXCEPT !.at = "post", !.op = "undo"] /\ hub.op = "unpack"
            /\ (CancelTask(OnHost) \/ UNCHANGED <<queue, result>>)
  <2>1. /\ hub'.at = "post" /\ hub'.op = "undo" /\ SameJob /\ hub'.canceled = hub.canceled
        /\ hub.action = "move"
    BY <1>10 DEF TypeInv, HubType, HubRecord, SameJob
  <2>2. AwaitInv'
    <3>1. \A g \in Host, k \in Move : ~Waits(g, "undo", k)'
      BY <1>7, <1>10
    <3>2. TaskId' = I
      BY <2>1 DEF TaskId, SameJob
    <3>3. QED
      BY <1>1, <2>1, <3>1, <3>2 DEF AwaitInv, Waits, Absent
  <2>3. PlaceInv' /\ MarkInv'
    BY <1>1, <2>1 DEF OneInv, PlaceInv, MarkInv, SameJob
  <2>4. UnpackersInv'
    BY <1>7, <1>10, <2>1 DEF UnpackersInv, SameJob
  <2>5. PackersInv'
    BY <1>5, <2>1 DEF PackersInv
  <2>6. UndoInv'
    <3>1. AtRest(I) /\ staged[T][I] # NoCopy
      BY <1>1, <1>10 DEF MoveInv, UnpackInv, OneInv, UndoInv
    <3>2. queue'[F] = queue[F]
      <4>1. CASE UNCHANGED queue
        BY <4>1
      <4>2. CASE CancelTask(OnHost)
        BY <1>1, <3>1, <4>2, LineLess DEF AtRest, OneInv
      <4>3. QED
        BY <1>10, <4>1, <4>2
    <3>3. Absent("pack", I)'
      <4>1. \A g \in Host, k \in Move : k = I => ~Waits(g, "pack", k)'
        BY <1>1, <1>2, <1>3, <3>1, WaitsFacts DEF AtRest
      <4>2. QED
        BY <1>1, <2>1, <4>1 DEF Absent, Waits, SameJob
    <3>4. AtRest(I)'
      BY <1>1, <2>1, <3>1, <3>2, <3>3 DEF AtRest, SameJob, Absent
    <3>5. QED
      BY <1>1, <2>1, <3>1, <3>4 DEF UndoInv, SameJob, AtRest, Absent
  <2>7. StopInv'
    BY <2>1 DEF StopInv
  <2>8. QED
    BY <1>3, <1>6, <2>2, <2>3, <2>4, <2>5, <2>6, <2>7 DEF OneInv
\* The undo has ended: the new host has nothing of the move any more.
<1>11. CASE /\ hub' = [hub EXCEPT !.at = "call", !.op = "restart"] /\ hub.op = "undo"
            /\ result["undo"][I] # "pending" /\ UNCHANGED <<queue, result>>
  <2>1. /\ hub'.at = "call" /\ hub'.op = "restart" /\ SameJob /\ hub'.canceled = hub.canceled
        /\ hub.action = "move"
    BY <1>11 DEF TypeInv, HubType, HubRecord, SameJob
  <2>2. OnHost = T /\ TaskId = I
    BY <1>11 DEF OnHost, TaskId
  <2>3. AtRest(I) /\ cont[T] = "none" /\ queue[T] = <<>>
    BY <1>1, <1>8, <1>11, <2>2 DEF OneInv, UndoInv
  <2>4. AwaitInv' /\ StopInv'
    BY <2>1 DEF AwaitInv, StopInv
  <2>5. PlaceInv' /\ MarkInv'
    BY <1>1, <2>1 DEF OneInv, PlaceInv, MarkInv, SameJob
  <2>6. UnpackersInv'
    <3>1. \A o, m : ~Waits(T, o, m)
      BY <1>1, <2>3, WaitsFacts
    <3>2. \A g \in Host, m \in Move : ~Waits(g, "unpack", m)' /\ ~Waits(g, "undo", m)'
      BY <1>2, <1>3, <1>7, <3>1
    <3>3. QED
      BY <3>2 DEF UnpackersInv
  <2>7. PackersInv'
    BY <1>5, <2>1 DEF PackersInv
  <2>8. UndoInv'
    BY <1>1, <1>11, <2>1, <2>3 DEF UndoInv, AtRest, Absent, SameJob
  <2>9. QED
    BY <1>3, <1>6, <2>4, <2>5, <2>6, <2>7, <2>8 DEF OneInv
\* The job of the host ended well, and the hub goes on.
<1>12. CASE /\ result[hub.op][TaskId] = "succeeded" /\ UNCHANGED <<queue, result>>
            /\ \/ hub' = [hub EXCEPT !.at = "note"] /\ hub.op \in {"clean", "remove"}
               \/ hub' = [hub EXCEPT !.at = "copy"] /\ hub.op = "pack"
               \/ hub' = [hub EXCEPT !.at = "switch"] /\ hub.op = "unpack"
  <2>1. /\ SameJob /\ hub'.op = hub.op /\ hub'.canceled = hub.canceled
        /\ \/ hub'.at = "note" /\ hub.op \in {"clean", "remove"}
           \/ hub'.at = "copy" /\ hub.op = "pack"
           \/ hub'.at = "switch" /\ hub.op = "unpack"
    BY <1>12 DEF TypeInv, HubType, HubRecord, SameJob
  <2>2. \A g \in Host, m \in Move : ~Waits(g, "unpack", m)' /\ ~Waits(g, "undo", m)'
    <3>1. hub.op = "unpack" => OnHost = T
      BY DEF OnHost
    <3>2. \A o, m : ~Waits(OnHost, o, m)
      BY <1>1, <1>8, <1>12, WaitsFacts
    <3>3. QED
      BY <1>2, <1>3, <1>7, <2>1, <3>1, <3>2
  <2>3. PlaceInv' /\ MarkInv'
    BY <1>1, <2>1 DEF OneInv, PlaceInv, MarkInv, SameJob
  <2>4. ASSUME hub.op \in {"clean", "pack"}
        PROVE  cont[T] = "none" /\ NonePacks(hub.to)'
    <3>1. cont[T] = "none"
      BY <1>1, <1>12, <2>4 DEF OneInv, PackersInv, TaskId
    <3>2. NonePacks(T)
      BY <1>1, <2>4 DEF OneInv, PackersInv
    <3>3. QED
      BY <1>12, <2>1, <3>1, <3>2 DEF NonePacks, Waits, SameJob
  <2>5. QED
    BY <1>1, <1>3, <1>5, <1>6, <2>1, <2>2, <2>3, <2>4, ElsewhereOne DEF SameJob
<1>13. CASE /\ result[hub.op][TaskId] \in {"succeeded", "failed"}
            /\ Proceed(result[hub.op][TaskId] = "succeeded") /\ UNCHANGED <<queue, result>>
  <2>1. CASE hub.op = "undo"
    <3>1. hub' = [hub EXCEPT !.at = "call", !.op = "restart"] /\ TaskId = I
      BY <1>13, <2>1 DEF Proceed, TaskId
    <3>2. QED
      BY <1>11, <1>13, <2>1, <3>1
  <2>2. CASE hub.op # "undo" /\ result[hub.op][TaskId] = "succeeded"
    BY <1>1, <1>2, <1>12, <1>13, <2>2 DEF Proceed
  <2>3. CASE hub.op # "undo" /\ result[hub.op][TaskId] = "failed"
    <3>1. Proceed(FALSE)
      BY <1>13, <2>3
    <3>2. QED
      BY <1>1, <1>2, <1>9, <1>10, <1>13, <2>3, <3>1 DEF Proceed
  <2>4. QED
    BY <1>13, <2>1, <2>2, <2>3
<1>14. CASE Aborted /\ Proceed(FALSE) /\ CancelTask(OnHost)
  <2>1. hub.op # "undo"
    BY <1>14 DEF Aborted
  <2>2. QED
    BY <1>1, <1>2, <1>9, <1>10, <1>14, <2>1 DEF Proceed
<1>15. QED
  BY <1>1, <1>13, <1>14 DEF Wait

LEMMA CopyOne ==
  ASSUME TypeInv, MoveInv, OneInv, TwoHosts, Copy
  PROVE  OneInv'
<1> DEFINE F == hub.from
           T == hub.to
           I == hub.id
<1>1. /\ hub.at = "copy" /\ hub.op = "pack" /\ hub.action = "move"
      /\ UNCHANGED <<cont, data, queue, result, recs, moves>>
      /\ F \in Host /\ T \in Host /\ I \in Move /\ F # T
  BY HubFacts DEF Copy, ghosts, TypeInv, HubType, OneInv, PlaceInv
<1>2. LineInv' /\ \A g, o, m : Waits(g, o, m)' <=> Waits(g, o, m)
  BY <1>1, SameLine DEF OneInv
<1>3. SameJob /\ hub'.at = "post" /\ hub'.op \in {"unpack", "undo"} /\ hub'.canceled = hub.canceled
  <2>1. CASE hub' = [hub EXCEPT !.at = "post", !.op = "unpack"]
    BY <2>1 DEF TypeInv, HubType, HubRecord, SameJob
  <2>2. CASE hub' = [hub EXCEPT !.at = "post", !.op = "undo"]
    BY <2>2 DEF TypeInv, HubType, HubRecord, SameJob
  <2>3. QED
    BY <2>1, <2>2 DEF Copy
<1>4. AtRest(I) /\ cont[T] = "none"
  BY <1>1 DEF MoveInv, CopyInv, OneInv, PackersInv
<1>5. \A g \in Host, m \in Move : ~Waits(g, "unpack", m) /\ ~Waits(g, "undo", m)
  BY <1>1 DEF OneInv, UnpackersInv
<1>6. AwaitInv'
  <2>1. TaskId' = I
    BY <1>1, <1>3 DEF TaskId, SameJob
  <2>2. QED
    BY <1>1, <1>2, <1>3, <1>5, <2>1 DEF AwaitInv, Absent, Waits
<1>7. PlaceInv' /\ MarkInv' /\ UnpackersInv' /\ StopInv'
  BY <1>1, <1>2, <1>3, <1>5 DEF OneInv, PlaceInv, MarkInv, UnpackersInv, StopInv, SameJob
<1>8. PackersInv'
  BY <1>1, <1>2, <1>3, <1>4 DEF OneInv, PackersInv, NonePacks, SameJob
<1>9. UndoInv'
  <2>1. ASSUME hub'.op = "unpack"
        PROVE  staged'[T][I] # NoCopy
    <3>1. staged[F][I] # NoCopy /\ staged' = [staged EXCEPT ![T][I] = staged[F][I]]
      <4>1. hub' # [hub EXCEPT !.at = "post", !.op = "undo"]
        BY <2>1 DEF TypeInv, HubType, HubRecord
      <4>2. QED
        BY <4>1 DEF Copy
    <3>2. QED
      BY <1>1, <3>1 DEF TypeInv, CopyType
  <2>2. ~Waits(T, "unpack", I)' /\ AtRest(I)'
    BY <1>1, <1>2, <1>3, <1>4, <1>5 DEF SameJob, AtRest, Absent, Waits
  <2>3. QED
    BY <1>1, <1>3, <1>4, <2>1, <2>2 DEF UndoInv, SameJob, AtRest, Absent, Waits
<1>10. BothInv'
  BY <1>1 DEF OneInv, BothInv, Marked
<1>11. QED
  BY <1>2, <1>6, <1>7, <1>8, <1>9, <1>10 DEF OneInv

LEMMA CallOne ==
  ASSUME TypeInv, MoveInv, OneInv, TwoHosts, CallHost, NoFault
  PROVE  OneInv'
<1> DEFINE F == hub.from
           T == hub.to
<1>1. /\ hub.at = "call" /\ UNCHANGED <<data, staged, queue, result, recs, moves>>
      /\ F \in Host /\ T \in Host /\ F # T /\ ~Fault
      /\ cont \in [Host -> {"none", "stopped", "up"}] /\ hub \in HubRecord
  BY HubFacts, NoneLost DEF CallHost, ghosts, OneInv, PlaceInv, TypeInv, CopyType, HubType
<1>2. LineInv' /\ \A g, o, m : Waits(g, o, m)' <=> Waits(g, o, m)
  BY <1>1, SameLine DEF OneInv
<1>3. \A h \in Host, m \in Move : ~Waits(h, "unpack", m)' /\ ~Waits(h, "undo", m)'
  BY <1>1, <1>2 DEF OneInv, UnpackersInv
<1>4. \A g \in Host : g = F \/ g = T
  BY <1>1 DEF TwoHosts
<1>5. \A g, h \in Host : g # h /\ ~NonePacks(h) => cont[g] = "none" /\ NonePacks(g)
  BY DEF OneInv, PackersInv
\* Containers that are started or stopped are there, so the other host packs nothing.
<1>6. ASSUME NEW h \in Host, NEW c \in {"stopped", "up"}, cont' = cont \/ cont[h] # "none",
             cont' = cont \/ cont' = [cont EXCEPT ![h] = c]
      PROVE  \A g, k \in Host : g # k /\ ~NonePacks(k)' => cont'[g] = "none" /\ NonePacks(g)'
  BY <1>1, <1>2, <1>5, <1>6 DEF NonePacks
<1>7. Marked' = Marked
  BY <1>1 DEF Marked
\* The old copy is started again once the new host has undone its part.
<1>8. CASE hub.op = "restart"
  <2>1. queue[T] = <<>> /\ cont[T] = "none" /\ hub.action = "move"
    BY <1>1, <1>8 DEF OneInv, UndoInv, PlaceInv
  <2>2. /\ hub' = [hub EXCEPT !.at = "sweep"]
        /\ cont' = cont \/ (cont' = [cont EXCEPT ![F] = "up"] /\ cont[F] # "none")
    <3>1. Answered(TRUE) \/ Answered(FALSE)
      BY DEF CallHost
    <3>2. hub' = [hub EXCEPT !.at = "sweep"]
      BY <1>8, <3>1 DEF Answered
    <3>3. cont' = cont \/ (cont' = [cont EXCEPT ![F] = "up"] /\ cont[F] # "none")
      BY <1>8 DEF CallHost
    <3>4. QED
      BY <3>2, <3>3
  <2>3. hub'.at = "sweep" /\ SameJob /\ hub'.op = "restart" /\ hub'.canceled = hub.canceled
    BY <1>1, <1>8, <2>2 DEF HubRecord, SameJob
  <2>4. PlaceInv' /\ MarkInv'
    BY <1>1, <1>8, <2>3 DEF OneInv, PlaceInv, MarkInv, SameJob
  <2>5. cont'[T] = "none"
    BY <1>1, <2>1, <2>2
  <2>6. BothInv'
    BY <1>4, <2>5 DEF BothInv
  <2>7. QED
    BY <1>1, <1>2, <1>3, <1>6, <2>2, <2>3, <2>4, <2>6, ElsewhereOne
<1>9. CASE hub.op = "stop"
  <2>1. hub.action \in {"rollback", "stopnew"}
    BY <1>9 DEF OneInv, PlaceInv
  <2>2. /\ cont' = cont \/ (cont' = [cont EXCEPT ![T] = "stopped"] /\ cont[T] # "none")
        /\ \/ hub' = Idle
           \/ /\ cont' = [cont EXCEPT ![T] = "stopped"]
              /\ \/ hub.action = "rollback" /\ hub' = [hub EXCEPT !.op = "start"]
                 \/ hub.action = "stopnew" /\ hub' = [hub EXCEPT !.at = "note"]
    <3>1. /\ cont' = cont \/ (cont' = [cont EXCEPT ![T] = "stopped"] /\ cont[T] # "none")
          /\ \/ Answered(TRUE) /\ cont' = [cont EXCEPT ![T] = "stopped"]
             \/ Answered(FALSE)
      BY <1>9 DEF CallHost
    <3>2. Answered(FALSE) => hub' = Idle
      BY <1>9 DEF Answered
    <3>3. Answered(TRUE) => \/ hub.action = "rollback" /\ hub' = [hub EXCEPT !.op = "start"]
                            \/ hub.action = "stopnew" /\ hub' = [hub EXCEPT !.at = "note"]
      BY <1>9, <2>1 DEF Answered
    <3>4. QED
      BY <3>1, <3>2, <3>3
  <2>3. BothInv'
    <3>1. \A g \in Host : cont'[g] = "up" => cont[g] = "up"
      BY <1>1, <2>2
    <3>2. QED
      BY <1>1, <1>7, <3>1 DEF OneInv, BothInv
  <2>4. \A g, k \in Host : g # k /\ ~NonePacks(k)' => cont'[g] = "none" /\ NonePacks(g)'
    BY <1>1, <1>6, <2>2
  <2>5. CASE hub' = Idle
    <3>1. hub'.at = "idle" /\ hub'.op = "none" /\ hub'.action = "none" /\ hub'.canceled = FALSE
      BY <2>5 DEF Idle
    <3>2. PlaceInv' /\ MarkInv'
      BY <1>1, <3>1 DEF OneInv, PlaceInv, MarkInv
    <3>3. QED
      BY <1>2, <1>3, <2>3, <2>4, <3>1, <3>2, ElsewhereOne
  <2>6. CASE /\ hub' # Idle /\ cont' = [cont EXCEPT ![T] = "stopped"]
             /\ \/ hub.action = "rollback" /\ hub' = [hub EXCEPT !.op = "start"]
                \/ hub.action = "stopnew" /\ hub' = [hub EXCEPT !.at = "note"]
    <3>1. /\ SameJob /\ hub'.canceled = hub.canceled
          /\ \/ hub'.at = "call" /\ hub'.op = "start" /\ hub.action = "rollback"
             \/ hub'.at = "note" /\ hub'.op = "stop" /\ hub.action = "stopnew"
      BY <1>1, <1>9, <2>6 DEF HubRecord, SameJob
    <3>2. PlaceInv' /\ MarkInv'
      BY <1>1, <3>1 DEF OneInv, PlaceInv, MarkInv, SameJob
    <3>3. AwaitInv' /\ UnpackersInv' /\ UndoInv'
      BY <1>3, <3>1 DEF AwaitInv, UnpackersInv, UndoInv
    <3>4. PackersInv'
      BY <2>4, <3>1 DEF PackersInv
    <3>5. StopInv'
      BY <1>1, <2>6, <3>1 DEF StopInv, SameJob
    <3>6. QED
      BY <1>2, <2>3, <3>2, <3>3, <3>4, <3>5 DEF OneInv
  <2>7. QED
    BY <2>2, <2>5, <2>6
<1>10. CASE hub.op = "start"
  <2>1. hub.action = "rollback" /\ ~hub.canceled
    BY <1>10 DEF TypeInv, HubType, OneInv, PlaceInv
  <2>2. \/ hub' = Idle /\ cont' = cont
        \/ /\ cont' = [cont EXCEPT ![F] = "up"] /\ cont[F] # "none"
           /\ hub' = [hub EXCEPT !.at = "switch"]
    BY <1>1, <1>10, <2>1 DEF CallHost, Answered, Aborted
  <2>3. CASE hub' = Idle /\ cont' = cont
    <3>1. hub'.at = "idle" /\ hub'.op = "none" /\ hub'.action = "none" /\ hub'.canceled = FALSE
      BY <2>3 DEF Idle
    <3>2. PlaceInv' /\ MarkInv' /\ BothInv'
      BY <1>1, <1>7, <2>3, <3>1 DEF OneInv, PlaceInv, MarkInv, BothInv
    <3>3. QED
      BY <1>1, <1>2, <1>3, <1>6, <2>3, <3>1, <3>2, ElsewhereOne
  <2>4. CASE /\ cont' = [cont EXCEPT ![F] = "up"] /\ cont[F] # "none"
             /\ hub' = [hub EXCEPT !.at = "switch"]
    <3>1. /\ SameJob /\ hub'.canceled = hub.canceled /\ hub'.at = "switch" /\ hub'.op = "start"
          /\ hub'.skip = hub.skip
      BY <1>1, <1>10, <2>4 DEF HubRecord, SameJob
    <3>2. PlaceInv' /\ MarkInv'
      BY <1>1, <2>1, <3>1 DEF OneInv, PlaceInv, MarkInv, SameJob
    <3>3. hub.skip \/ cont'[T] # "up"
      BY <1>1, <1>10, <2>4 DEF OneInv, StopInv
    <3>4. BothInv'
      BY <1>4, <2>1, <3>1, <3>3 DEF BothInv, SameJob
    <3>5. QED
      BY <1>1, <1>2, <1>3, <1>6, <2>4, <3>1, <3>2, <3>4, ElsewhereOne
  <2>5. QED
    BY <2>2, <2>3, <2>4
<1>11. QED
  BY <1>1, <1>8, <1>9, <1>10 DEF OneInv, PlaceInv

LEMMA SwitchOne ==
  ASSUME TypeInv, OneInv, Switch
  PROVE  OneInv'
<1>1. /\ hub.at = "switch" /\ UNCHANGED <<cont, queue, result, recs, moves>>
      /\ hub.op \in {"unpack", "start"} /\ hub \in HubRecord /\ hub' = [hub EXCEPT !.at = "note"]
  BY DEF Switch, hosts, OneInv, PlaceInv, TypeInv, HubType
<1>2. /\ SameJob /\ hub'.canceled = hub.canceled /\ hub'.at = "note" /\ hub'.op = hub.op
      /\ hub'.skip = hub.skip
  BY <1>1 DEF HubRecord, SameJob
<1>3. LineInv' /\ \A g, o, m : Waits(g, o, m)' <=> Waits(g, o, m)
  BY <1>1, SameLine DEF OneInv
<1>4. \A h \in Host, m \in Move : ~Waits(h, "unpack", m)' /\ ~Waits(h, "undo", m)'
  BY <1>1, <1>3 DEF OneInv, UnpackersInv
<1>5. PlaceInv' /\ MarkInv'
  BY <1>1, <1>2 DEF OneInv, PlaceInv, MarkInv, SameJob
<1>6. BothInv'
  BY <1>1, <1>2 DEF OneInv, BothInv, Marked, SameJob
<1>7. \A g, h \in Host : g # h /\ ~NonePacks(h)' => cont'[g] = "none" /\ NonePacks(g)'
  BY <1>1, <1>3 DEF OneInv, PackersInv, NonePacks
<1>8. QED
  BY <1>1, <1>2, <1>3, <1>4, <1>5, <1>6, <1>7, ElsewhereOne

LEMMA SweepOne ==
  ASSUME TypeInv, OneInv, Sweep
  PROVE  OneInv'
<1>1. /\ hub.at = "sweep" /\ UNCHANGED <<cont, queue, result, recs, moves>>
      /\ hub' = Idle
  BY DEF Sweep, ghosts
<1>2. hub'.at = "idle" /\ hub'.op = "none" /\ hub'.action = "none" /\ hub'.canceled = FALSE
  BY <1>1 DEF Idle
<1>3. LineInv' /\ \A g, o, m : Waits(g, o, m)' <=> Waits(g, o, m)
  BY <1>1, SameLine DEF OneInv
<1>4. \A h \in Host, m \in Move : ~Waits(h, "unpack", m)' /\ ~Waits(h, "undo", m)'
  BY <1>1, <1>3 DEF OneInv, UnpackersInv
<1>5. PlaceInv' /\ MarkInv' /\ BothInv'
  BY <1>1, <1>2 DEF OneInv, PlaceInv, MarkInv, BothInv, Marked
<1>6. \A g, h \in Host : g # h /\ ~NonePacks(h)' => cont'[g] = "none" /\ NonePacks(g)'
  BY <1>1, <1>3 DEF OneInv, PackersInv, NonePacks
<1>7. QED
  BY <1>2, <1>3, <1>4, <1>5, <1>6, ElsewhereOne

LEMMA NoteOne ==
  ASSUME TypeInv, MoveInv, OneInv, TwoHosts, Note, NoFault
  PROVE  OneInv'
<1> DEFINE F == hub.from
           T == hub.to
           I == hub.id
<1>1. /\ hub.at = "note" /\ UNCHANGED <<cont, queue, result, moves>> /\ ~Fault
      /\ F \in Host /\ T \in Host /\ I \in Move /\ F # T /\ hub \in HubRecord
      /\ hub.op \in {"clean", "unpack", "remove", "start", "stop"}
      /\ recs \in [Move -> MoveRecord]
  BY HubFacts, NoneLost DEF Note, hosts, ghosts, OneInv, PlaceInv, TypeInv, HubType, RecordType
<1>2. LineInv' /\ \A g, o, m : Waits(g, o, m)' <=> Waits(g, o, m)
  BY <1>1, SameLine DEF OneInv
<1>3. \A h \in Host, m \in Move : ~Waits(h, "unpack", m)' /\ ~Waits(h, "undo", m)'
  BY <1>1, <1>2 DEF OneInv, UnpackersInv
<1>4. \A g, h \in Host : g # h /\ ~NonePacks(h)' => cont'[g] = "none" /\ NonePacks(g)'
  BY <1>1, <1>2 DEF OneInv, PackersInv, NonePacks
<1>5. (~hub.canceled /\ recs' = Noted) \/ (hub.canceled /\ UNCHANGED recs)
  BY <1>1 DEF Note, Aborted
\* What the record becomes.
<1>6. \A m \in Move : m # I =>
        \/ recs'[m] = recs[m]
        \/ /\ recs'[m].state = "returned" /\ recs'[m].second = recs[m].second
           /\ recs'[m].from = recs[m].from /\ recs'[m].to = recs[m].to
  BY <1>1, <1>5 DEF Noted, MoveRecord, TypeInv, HubType
<1>7. recs' # recs =>
        /\ hub.op = "clean" => /\ recs'[I].second = recs[I].second
                               /\ recs'[I].from = recs[I].from /\ recs'[I].to = recs[I].to
                               /\ recs'[I] = recs[I] \/ recs'[I].state = "returned"
        /\ hub.op = "unpack" => /\ recs'[I].state = "moved" /\ ~recs'[I].second
                                /\ recs'[I].from = F /\ recs'[I].to = T
        /\ hub.op = "remove" => recs'[I].state = "removed" /\ ~recs'[I].second
        /\ hub.op = "start" => /\ recs'[I].state = "rolled_back" /\ recs'[I].second = hub.skip
                               /\ recs'[I].from = recs[I].from /\ recs'[I].to = recs[I].to
        /\ hub.op = "stop" => /\ recs'[I].state = recs[I].state /\ ~recs'[I].second
                              /\ recs'[I].from = recs[I].from /\ recs'[I].to = recs[I].to
  BY <1>1, <1>5 DEF Noted, MoveRecord, TypeInv, HubType
<1>8. /\ hub.op \in {"clean", "unpack"} => hub.action = "move" /\ I <= moves
      /\ hub.op = "start" => hub.action = "rollback"
      /\ hub.op = "remove" => hub.action = "remove"
      /\ hub.op = "stop" => hub.action = "stopnew"
  BY <1>1 DEF TypeInv, HubType, OneInv, PlaceInv, MoveInv, StartInv
<1>9. \A m \in Move :
        /\ recs'[m].state = "moved" \/ recs'[m].second => m <= moves /\ recs'[m].from # recs'[m].to
        /\ recs'[m].state \in {"none", "moved"} => ~recs'[m].second
  <2>1. ASSUME NEW m \in Move, m # I
        PROVE  /\ recs'[m].state = "moved" \/ recs'[m].second =>
                    m <= moves /\ recs'[m].from # recs'[m].to
               /\ recs'[m].state \in {"none", "moved"} => ~recs'[m].second
    BY <1>6, <2>1 DEF OneInv, MarkInv
  <2>2. /\ recs'[I].state = "moved" \/ recs'[I].second => I <= moves /\ recs'[I].from # recs'[I].to
        /\ recs'[I].state \in {"none", "moved"} => ~recs'[I].second
    <3>1. CASE recs' = recs
      BY <1>1, <3>1 DEF OneInv, MarkInv
    <3>2. CASE recs' # recs
      BY <1>1, <1>7, <1>8, <3>2 DEF OneInv, MarkInv
    <3>3. QED
      BY <3>1, <3>2
  <2>3. QED
    BY <2>1, <2>2
<1>10. hub.action = "move" => ~recs'[I].second
  <2>1. hub.action = "move" => ~recs[I].second
    BY <1>1 DEF OneInv, MarkInv
  <2>2. CASE recs' = recs
    BY <2>1, <2>2
  <2>3. CASE recs' # recs
    BY <1>1, <1>7, <1>8, <2>1, <2>3
  <2>4. QED
    BY <2>2, <2>3
\* Both run only if a record says so; the mark of this one is set or removed with cause.
<1>11. ASSUME NEW g \in Host, NEW k \in Host, cont[g] = "up", cont[k] = "up", g # k
       PROVE  Marked'
  <2>1. Marked \/ (hub.action = "rollback" /\ hub.skip)
    BY <1>11 DEF OneInv, BothInv
  <2>2. hub.op # "stop"
    <3>1. cont[T] = "up" /\ cont[F] = "up"
      BY <1>1, <1>11 DEF TwoHosts
    <3>2. QED
      BY <1>1, <3>1 DEF OneInv, StopInv
  <2>3. CASE hub.action = "rollback" /\ hub.skip
    <3>1. ~hub.canceled /\ hub.op = "start"
      BY <1>1, <1>8, <2>3 DEF OneInv, PlaceInv
    <3>2. recs'[I].second
      <4>1. recs' = [recs EXCEPT ![I].state = "rolled_back", ![I].second = hub.skip]
        BY <1>5, <3>1 DEF Noted
      <4>2. QED
        BY <1>1, <2>3, <4>1 DEF MoveRecord
    <3>3. QED
      BY <1>1, <3>2 DEF Marked
  <2>4. CASE ~(hub.action = "rollback" /\ hub.skip)
    <3>1. PICK m \in Move : recs[m].second
      BY <2>1, <2>4 DEF Marked
    <3>2. m # I
      BY <1>1, <1>8, <2>2, <3>1 DEF OneInv, MarkInv
    <3>3. QED
      BY <1>6, <3>1, <3>2 DEF Marked
  <2>5. QED
    BY <2>3, <2>4
<1>12. BothInv'
  BY <1>1, <1>11 DEF BothInv
<1>13. CASE hub.op = "clean"
  <2>1. hub' = [hub EXCEPT !.at = "post", !.op = "pack"]
    BY <1>13 DEF Note
  <2>2. SameJob /\ hub'.at = "post" /\ hub'.op = "pack" /\ hub'.canceled = hub.canceled
    BY <1>1, <2>1 DEF HubRecord, SameJob
  <2>3. AwaitInv'
    <3>1. result["pack"][I] = "none"
      BY <1>1, <1>8, <1>13 DEF MoveInv, StartInv
    <3>2. \A g \in Host : \A i \in DOMAIN queue[g] : ~Is(queue[g][i], "pack", I)
      BY <3>1 DEF MoveInv, QueueInv, Is
    <3>3. TaskId' = I
      BY <2>2 DEF TaskId, SameJob
    <3>4. QED
      BY <1>1, <2>2, <3>2, <3>3 DEF AwaitInv, Absent, Is
  <2>4. PlaceInv'
    BY <1>1, <1>8, <1>13, <2>2 DEF OneInv, PlaceInv, SameJob
  <2>5. MarkInv'
    BY <1>1, <1>8, <1>9, <1>10, <1>13, <2>2 DEF MarkInv, SameJob
  <2>6. UnpackersInv' /\ UndoInv' /\ StopInv'
    BY <1>3, <2>2 DEF UnpackersInv, UndoInv, StopInv
  <2>7. PackersInv'
    <3>1. cont[T] = "none" /\ NonePacks(T)
      BY <1>1, <1>13 DEF OneInv, PackersInv
    <3>2. QED
      BY <1>1, <1>2, <1>4, <2>2, <3>1 DEF PackersInv, NonePacks, SameJob
  <2>8. QED
    BY <1>2, <1>12, <2>3, <2>4, <2>5, <2>6, <2>7 DEF OneInv
<1>14. CASE hub.op # "clean"
  <2>1. \/ hub' = Idle
        \/ hub' = [hub EXCEPT !.at = "sweep"] /\ hub.op = "unpack"
    BY <1>14 DEF Note
  <2>2. \/ /\ hub'.at = "idle" /\ hub'.op = "none" /\ hub'.action = "none"
           /\ hub'.canceled = FALSE
        \/ /\ SameJob /\ hub'.at = "sweep" /\ hub'.op = "unpack" /\ hub.op = "unpack"
           /\ hub'.canceled = hub.canceled
    BY <1>1, <2>1 DEF HubRecord, SameJob, Idle
  <2>3. PlaceInv'
    BY <1>1, <1>8, <2>2 DEF OneInv, PlaceInv, SameJob
  <2>4. MarkInv'
    BY <1>1, <1>8, <1>9, <1>10, <2>2 DEF MarkInv, SameJob
  <2>5. QED
    BY <1>2, <1>3, <1>4, <1>12, <2>2, <2>3, <2>4, ElsewhereOne
<1>15. QED
  BY <1>13, <1>14

\* A job of the hub starts.
LEMMA MoveStartsOne ==
  ASSUME TypeInv, MoveInv, OneInv,
         NEW from \in Host, NEW to \in Host, NEW clean \in BOOLEAN, StartMove(from, to, clean)
  PROVE  OneInv'
<1>1. /\ hub.at = "idle" /\ UNCHANGED <<cont, queue, result, recs>> /\ cont[from] # "none"
      /\ moves \in Int /\ from # to
  BY Bounds DEF StartMove, hosts, TypeInv, CountType
<1>2. PICK old \in Move \cup {NoMove} :
        /\ old = NoMove => NothingThere(to)
        /\ old # NoMove => result["clean"][old] # "pending"
        /\ hub' = [Idle EXCEPT !.at = "post", !.op = IF old = NoMove THEN "pack" ELSE "clean",
                               !.action = "move", !.id = moves + 1, !.from = from, !.to = to,
                               !.old = old, !.wipe = (old # NoMove)]
  BY DEF StartMove
<1>3. /\ hub'.at = "post" /\ hub'.op = (IF old = NoMove THEN "pack" ELSE "clean")
      /\ hub'.action = "move" /\ hub'.id = moves + 1 /\ hub'.from = from /\ hub'.to = to
      /\ hub'.old = old
  BY <1>2 DEF Idle
<1>4. moves' = moves + 1 /\ moves' \in Move
  BY StartMoveTo
<1>5. LineInv' /\ \A g, o, m : Waits(g, o, m)' <=> Waits(g, o, m)
  BY <1>1, SameLine DEF OneInv
<1>6. \A h \in Host, m \in Move : ~Waits(h, "unpack", m)' /\ ~Waits(h, "undo", m)'
  BY <1>1, <1>5 DEF OneInv, UnpackersInv
<1>7. AwaitInv'
  <2>1. ASSUME old = NoMove
        PROVE  AwaitInv'
    <3>1. result["pack"][moves'] = "none" /\ TaskId' = moves' /\ hub'.op = "pack"
      BY <1>1, <1>3, <1>4, <2>1 DEF MoveInv, FreshInv, TaskId
    <3>2. \A g \in Host : \A i \in DOMAIN queue[g] : ~Is(queue[g][i], "pack", moves')
      BY <3>1 DEF MoveInv, QueueInv, Is
    <3>3. QED
      BY <1>1, <1>3, <3>1, <3>2 DEF AwaitInv, Absent, Is
  <2>2. ASSUME old # NoMove
        PROVE  AwaitInv'
    <3>1. result["clean"][old] # "pending" /\ TaskId' = old /\ hub'.op = "clean"
      BY <1>2, <1>3, <2>2 DEF TaskId
    <3>2. \A g \in Host : \A i \in DOMAIN queue[g] : ~Is(queue[g][i], "clean", old)
      BY <3>1 DEF OneInv, LineInv, Is
    <3>3. QED
      BY <1>1, <1>3, <3>1, <3>2 DEF AwaitInv, Absent, Is
  <2>3. QED
    BY <2>1, <2>2
<1>8. PlaceInv'
  BY <1>1, <1>3 DEF PlaceInv
<1>9. MarkInv'
  <2>1. \A m \in Move : m \in Int
    BY Bounds DEF Move
  <2>2. ~recs[moves'].second
    BY <1>1, <1>4 DEF OneInv, MarkInv
  <2>3. QED
    BY <1>1, <1>3, <1>4, <2>1, <2>2 DEF OneInv, MarkInv
<1>10. UnpackersInv' /\ UndoInv' /\ StopInv'
  BY <1>3, <1>6 DEF UnpackersInv, UndoInv, StopInv
<1>11. PackersInv'
  <2>1. NonePacks(to)
    BY <1>1 DEF OneInv, PackersInv
  <2>2. old = NoMove => cont[to] = "none"
    BY <1>2 DEF NothingThere
  <2>3. QED
    BY <1>1, <1>3, <1>5, <2>1, <2>2 DEF OneInv, PackersInv, NonePacks
<1>12. BothInv'
  BY <1>1 DEF OneInv, BothInv, Marked
<1>13. QED
  BY <1>5, <1>7, <1>8, <1>9, <1>10, <1>11, <1>12 DEF OneInv

LEMMA OtherStartsOne ==
  ASSUME TypeInv, MoveInv, OneInv, NEW m \in Move, NEW b \in BOOLEAN,
         StartRollback(m, b) \/ StartRemove(m, b) \/ StartStopNew(m)
  PROVE  OneInv'
<1>1. hub.at = "idle" /\ UNCHANGED <<cont, queue, result, recs, moves>>
  BY DEF StartRollback, StartRemove, StartStopNew, hosts, ghosts
<1>2. \/ /\ hub'.at = "call" /\ hub'.op = (IF b THEN "start" ELSE "stop")
         /\ hub'.action = "rollback" /\ hub'.skip = b /\ recs[m].state = "moved"
      \/ /\ hub'.at = "post" /\ hub'.op = "remove" /\ hub'.action = "remove"
         /\ recs[m].state = "moved" /\ result["remove"][m] # "pending"
      \/ /\ hub'.at = "call" /\ hub'.op = "stop" /\ hub'.action = "stopnew" /\ recs[m].second
  BY DEF StartRollback, StartRemove, StartStopNew, Idle
<1>3. /\ hub'.id = m /\ hub'.from = recs[m].from /\ hub'.to = recs[m].to
      /\ hub'.canceled = FALSE
  BY DEF StartRollback, StartRemove, StartStopNew, Idle
<1>4. LineInv' /\ \A g, o, k : Waits(g, o, k)' <=> Waits(g, o, k)
  BY <1>1, SameLine DEF OneInv
<1>5. \A h \in Host, k \in Move : ~Waits(h, "unpack", k)' /\ ~Waits(h, "undo", k)'
  BY <1>1, <1>4 DEF OneInv, UnpackersInv
<1>6. AwaitInv'
  <2>1. hub'.at = "post" =>
          \A g \in Host : \A i \in DOMAIN queue[g] : ~Is(queue[g][i], "remove", m)
    BY <1>2 DEF OneInv, LineInv, Is
  <2>2. hub'.at = "post" => TaskId' = m
    BY <1>2, <1>3 DEF TaskId
  <2>3. QED
    BY <1>1, <1>2, <2>1, <2>2 DEF AwaitInv, Absent, Is
<1>7. recs[m].from # recs[m].to /\ m <= moves
  BY <1>2 DEF OneInv, MarkInv
<1>8. PlaceInv'
  BY <1>2, <1>3, <1>7 DEF PlaceInv
<1>9. MarkInv'
  BY <1>1, <1>2, <1>3, <1>7 DEF OneInv, MarkInv
<1>10. UnpackersInv' /\ UndoInv' /\ StopInv'
  BY <1>2, <1>5 DEF UnpackersInv, UndoInv, StopInv
<1>11. PackersInv'
  BY <1>1, <1>2, <1>4 DEF OneInv, PackersInv, NonePacks
<1>12. BothInv'
  BY <1>1 DEF OneInv, BothInv, Marked
<1>13. QED
  BY <1>4, <1>6, <1>8, <1>9, <1>10, <1>11, <1>12 DEF OneInv

\* Neither the cancelation nor what the clients write touches the containers.
LEMMA QuietOne ==
  ASSUME OneInv, UNCHANGED <<cont, staged, queue, result, recs, moves>>,
         UNCHANGED <<hub.at, hub.op, hub.action, hub.from, hub.to, hub.id, hub.old, hub.skip>>,
         hub'.action = "rollback" => ~hub'.canceled
  PROVE  OneInv'
<1>1. LineInv' /\ \A g, o, m : Waits(g, o, m)' <=> Waits(g, o, m)
  BY SameLine DEF OneInv
<1>2. OnHost' = OnHost /\ TaskId' = TaskId
  BY DEF OnHost, TaskId
<1>3. AwaitInv'
  BY <1>2 DEF OneInv, AwaitInv, Absent, LastIn
<1>4. PlaceInv' /\ MarkInv' /\ UnpackersInv' /\ StopInv' /\ BothInv'
  BY <1>1 DEF OneInv, PlaceInv, MarkInv, UnpackersInv, StopInv, BothInv, Marked
<1>5. PackersInv'
  BY <1>1 DEF OneInv, PackersInv, NonePacks
<1>6. UndoInv'
  BY DEF OneInv, UndoInv, AtRest, Absent, Waits
<1>7. QED
  BY <1>1, <1>3, <1>4, <1>5, <1>6 DEF OneInv

LEMMA OneInit == Init => OneInv
<1> SUFFICES ASSUME Init PROVE OneInv
  OBVIOUS
<1>1. /\ hub.at = "idle" /\ hub.op = "none" /\ hub.action = "none"
      /\ \A h \in Host : queue[h] = <<>>
      /\ \A m \in Move : recs[m].state = "none" /\ ~recs[m].second
  BY DEF Init, Idle, NoRecord
<1>2. LineInv /\ \A g \in Host : \A o, m : ~Waits(g, o, m)
  BY <1>1 DEF LineInv, Waits
<1>3. AwaitInv /\ PlaceInv /\ MarkInv /\ UndoInv /\ StopInv
  BY <1>1 DEF AwaitInv, PlaceInv, MarkInv, UndoInv, StopInv
<1>4. UnpackersInv /\ PackersInv
  BY <1>1, <1>2 DEF UnpackersInv, PackersInv, NonePacks
<1>5. BothInv
  BY DEF Init, BothInv
<1>6. QED
  BY <1>2, <1>3, <1>4, <1>5 DEF OneInv

LEMMA OneStep ==
  ASSUME TwoHosts, "rollback" \notin Cancelable
  PROVE  TypeInv /\ MoveInv /\ (faults = 0 => OneInv) /\ [Next]_vars => (faults' = 0 => OneInv')
<1> SUFFICES ASSUME TypeInv, MoveInv, faults = 0 => OneInv, [Next]_vars, faults' = 0
             PROVE  OneInv'
  OBVIOUS
<1>1. ~Fault
  BY Bounds DEF Fault, TypeInv, FaultType
<1>2. ASSUME NoFault
      PROVE  OneInv
  BY <1>2 DEF NoFault
<1>3. ASSUME HubStep
      PROVE  OneInv'
  <2>1. NoFault
    BY <1>1, <1>3 DEF HubStep, Post, Wait, Copy, CallHost, Switch, Note, Sweep
  <2>2. QED
    BY <1>2, <1>3, <2>1, PostOne, WaitOne, CopyOne, CallOne, SwitchOne, NoteOne, SweepOne
       DEF HubStep
<1>4. ASSUME NEW h \in Host, HostStep(h)
      PROVE  OneInv'
  <2>1. NoFault
    BY <1>4 DEF HostStep, NoFault
  <2>2. QED
    BY <1>2, <1>4, <2>1, OneHost
<1>5. ASSUME NEW from \in Host, NEW to \in Host, NEW clean \in BOOLEAN, StartMove(from, to, clean)
      PROVE  OneInv'
  <2>1. NoFault
    BY <1>5 DEF StartMove, NoFault
  <2>2. QED
    BY <1>2, <1>5, <2>1, MoveStartsOne
<1>6. ASSUME NEW m \in Move, NEW b \in BOOLEAN,
             StartRollback(m, b) \/ StartRemove(m, b) \/ StartStopNew(m)
      PROVE  OneInv'
  <2>1. NoFault
    BY <1>6 DEF StartRollback, StartRemove, StartStopNew, NoFault
  <2>2. QED
    BY <1>2, <1>6, <2>1, OtherStartsOne
<1>7. CASE Cancel
  <2>1. NoFault /\ UNCHANGED <<cont, staged, queue, result, recs, moves>>
    BY <1>7 DEF Cancel, NoFault, hosts
  <2>2. /\ UNCHANGED <<hub.at, hub.op, hub.action, hub.from, hub.to, hub.id, hub.old, hub.skip>>
        /\ hub'.action # "rollback"
    BY <1>7 DEF Cancel, TypeInv, HubType, HubRecord
  <2>3. QED
    BY <1>2, <2>1, <2>2, QuietOne
<1>8. CASE Write \/ UNCHANGED vars
  <2>1. NoFault /\ UNCHANGED <<cont, staged, queue, result, recs, moves, hub>>
    BY <1>8 DEF Write, NoFault, vars, hosts, ghosts
  <2>2. hub'.action = "rollback" => ~hub'.canceled
    BY <1>2, <2>1 DEF OneInv, PlaceInv
  <2>3. QED
    BY <1>2, <2>1, <2>2, QuietOne
<1>9. ~HubRestarts /\ \A h \in Host : ~DockerFails(h) /\ ~HostRestarts(h)
  BY <1>1 DEF HubRestarts, DockerFails, HostRestarts
<1>10. QED
  BY <1>3, <1>4, <1>5, <1>6, <1>7, <1>8, <1>9 DEF Next

\* OneCopyRuns for every number of moves, changes and cancelations, whatever of
\* the steps fails by itself: two copies of the stack run at the same time only
\* where a rollback left the new one running (hub/migrate.go), and until it makes
\* its record the job of the hub, then the record says so.
THEOREM OneCopy == Spec => []OneCopyRuns
<1>1. CASE TwoHosts /\ "rollback" \notin Cancelable
  <2>1. Init => TypeInv /\ MoveInv /\ (faults = 0 => OneInv)
    BY TypeInit, MoveInit, OneInit
  <2>2. TypeInv /\ MoveInv /\ (faults = 0 => OneInv) /\ [Next]_vars
          => TypeInv' /\ MoveInv' /\ (faults = 0 => OneInv)'
    BY <1>1, TypeStep, MoveStep, OneStep
  <2>3. (faults = 0 => OneInv) => OneCopyRuns
    BY DEF OneInv, BothInv, OneCopyRuns, SkippingNow
  <2>4. QED
    BY <2>1, <2>2, <2>3, PTL DEF Spec
<1>2. CASE ~(TwoHosts /\ "rollback" \notin Cancelable)
  <2>1. OneCopyRuns
    BY <1>2 DEF OneCopyRuns
  <2>2. QED
    BY <2>1, PTL
<1>3. QED
  BY <1>1, <1>2
-----------------------------------------------------------------------------
(* Why the clients are served: two hosts, no call lost and nothing canceled *)

\* The records that still say something of the copies of the stack.
Live(m) == recs[m].state = "moved" \/ recs[m].second
HubOn(action) == hub.at # "idle" /\ hub.action = action

\* Nothing is left on a host but the job the hub waits for.
AloneInv ==
  /\ ~hub.canceled
  /\ \A h \in Host : \A i \in DOMAIN queue[h] :
       hub.at = "wait" /\ Is(queue[h][i], hub.op, TaskId) /\ ~queue[h][i].canceled
  /\ hub.at = "wait" /\ hub.op \in {"clean", "remove"} => result[hub.op][TaskId] # "failed"

\* A record of a move is of the way the routes lead, one of a rollback of the
\* other; there is no second one of either, and no later move has a record.
LiveInv ==
  /\ \A m \in Move :
       /\ recs[m].state # "none" => m <= moves
       /\ recs[m].state = "moved" =>
            /\ route = recs[m].to \/ HubOn("rollback")
            /\ cont[recs[m].from] # "none" \/ HubOn("remove")
               \/ (HubOn("move") /\ hub.op = "clean" /\ hub.at \in {"wait", "note"})
            /\ \A k \in Move : k > m => recs[k].state = "none"
       /\ recs[m].second =>
            route = recs[m].from /\ (cont[recs[m].to] = "up" \/ HubOn("stopnew"))
  /\ \A m, k \in Move : Live(m) /\ Live(k) => m = k

\* Which host runs the stack while the hub moves it.
MovingInv ==
  /\ hub.at = "sweep" => hub.action = "move" /\ hub.op \in {"unpack", "restart"}
  /\ HubOn("move") =>
       /\ hub.id = moves
       /\ hub.op = "clean" => recs[hub.old].state # "none"
       /\ route = IF hub.op = "unpack" /\ hub.at \in {"note", "sweep"} THEN hub.to ELSE hub.from
       /\ \/ hub.op = "clean"
          \/ hub.op = "pack" /\ hub.at = "post"
          \/ hub.op = "pack" /\ hub.at = "wait" /\ LastAt(hub.from, {"queued", "stopping"})
          \/ hub.op = "pack" /\ hub.at = "wait" /\ result["pack"][hub.id] = "failed"
          \/ hub.op = "restart" /\ hub.at = "sweep"
          => cont[hub.from] = "up"
       /\ \/ hub.op = "unpack" /\ hub.at \in {"switch", "note", "sweep"}
          \/ hub.op = "unpack" /\ hub.at = "wait" /\ LastAt(hub.to, {"waiting"})
          \/ hub.op = "unpack" /\ hub.at = "wait" /\ result["unpack"][hub.id] = "succeeded"
          => cont[hub.to] = "up"
       /\ hub.op = "unpack" /\ hub.at = "note" => cont[hub.from] # "none"
       /\ \A m \in Move : Live(m) => \/ hub.op = "clean" /\ m = hub.old /\ ~recs[m].second
                                     \/ hub.op = "unpack" /\ hub.at = "sweep" /\ m = hub.id

\* Which one runs it while the hub rolls a move back, removes its old copy or
\* stops its new one.
RevertingInv ==
  /\ hub.at # "idle" /\ hub.action # "move" =>
       hub.from = recs[hub.id].from /\ hub.to = recs[hub.id].to
  /\ HubOn("rollback") =>
       /\ recs[hub.id].state = "moved"
       /\ route = IF hub.at = "note" THEN hub.from ELSE hub.to
       /\ IF hub.at = "call" THEN cont[hub.from] # "none" ELSE cont[hub.from] = "up"
       /\ hub.op = "stop" \/ hub.skip => cont[hub.to] = "up"
       /\ hub.op = "stop" => ~hub.skip
  /\ HubOn("remove") => recs[hub.id].state = "moved" /\ cont[route] = "up"
  /\ HubOn("stopnew") =>
       /\ recs[hub.id].second /\ cont[route] = "up"
       /\ hub.at = "call" => cont[hub.to] = "up"

ServedInv ==
  /\ AloneInv /\ LiveInv /\ MovingInv /\ RevertingInv
  /\ hub.at = "idle" => cont[route] = "up"
  /\ ~Astray

\* What a job that is not canceled does where docker stop does not fail.
CalmStep(h) ==
  \/ /\ GoesOn(h) /\ ~queue'[h][1].canceled /\ queue[h][1].op \in {"pack", "unpack"}
     /\ queue[h][1].op = "pack" /\ queue'[h][1].at \in {"queued", "stopping"} =>
          queue[h][1].at = "queued" /\ cont'[h] = cont[h]
     /\ queue[h][1].op = "unpack" /\ queue'[h][1].at = "waiting" => cont'[h] = "up"
  \/ /\ Ends(h, "succeeded")
     /\ queue[h][1].op = "unpack" => queue[h][1].at = "waiting" /\ cont'[h] = cont[h]
  \/ /\ Ends(h, "failed") /\ queue[h][1].op \in {"pack", "unpack", "undo"}
     /\ queue[h][1].op = "pack" =>
          cont'[h] = "up" \/ (cont[h] = "none" /\ queue[h][1].at = "queued")

LEMMA AdvancesTo ==
  ASSUME TypeInv, NEW h \in Host, queue[h] # <<>>, NEW stage \in Stage, Advance(h, stage)
  PROVE  /\ GoesOn(h) /\ queue'[h][1].at = stage
         /\ queue'[h][1].canceled = queue[h][1].canceled
<1> DEFINE t == [queue[h][1] EXCEPT !.at = stage]
           q == [queue[h] EXCEPT ![1] = t]
<1>1. t.canceled = queue[h][1].canceled
  BY HeadFacts DEF Task
<1> HIDE DEF t
<1>2. q[1] = t
  BY HeadFacts
<1>3. queue' = [queue EXCEPT ![h] = q]
  BY DEF Advance, t
<1> HIDE DEF q
<1>4. queue'[h] = q
  BY <1>3 DEF TypeInv, QueueType
<1>5. QED
  BY <1>1, <1>2, <1>4, AdvanceFacts

LEMMA CalmSteps ==
  ASSUME TypeInv, NEW h \in Host, HostStep(h), ~queue[h][1].canceled, "stop" \notin Breakable
  PROVE  CalmStep(h)
<1>1. queue[h] # <<>> /\ Running(h) = queue[h][1]
  BY HostEffects, HeadFacts DEF HostEffect
<1>2. {"stopping", "packing", "filling", "raising", "waiting"} \subseteq Stage
  BY DEF Stage
<1> USE DEF TypeInv, CopyType
<1>3. CASE PackBegin(h)
  <2>1. queue[h][1].op = "pack" /\ queue[h][1].at = "queued" /\ UNCHANGED cont
    BY <1>3, AtFacts DEF PackBegin
  <2>2. CASE Advance(h, "stopping")
    BY <1>1, <1>2, <2>1, <2>2, AdvancesTo DEF CalmStep
  <2>3. CASE End(h, "failed") /\ cont[h] = "none"
    BY <1>1, <2>1, <2>3, EndFacts DEF CalmStep
  <2>4. QED
    BY <1>3, <2>2, <2>3 DEF PackBegin
<1>4. CASE PackStop(h)
  <2>1. queue[h][1].op = "pack" /\ Advance(h, "packing")
    BY <1>1, <1>4, AtFacts DEF PackStop, Fails, Breaks
  <2>2. QED
    BY <1>1, <1>2, <2>1, AdvancesTo DEF CalmStep
<1>5. CASE PackFiles(h)
  <2>1. queue[h][1].op = "pack"
    BY <1>5, AtFacts DEF PackFiles
  <2>2. CASE End(h, "succeeded")
    BY <1>1, <2>1, <2>2, EndFacts DEF CalmStep
  <2>3. CASE End(h, "failed") /\ cont' = [cont EXCEPT ![h] = "up"]
    <3>1. cont'[h] = "up"
      BY <2>3
    <3>2. QED
      BY <1>1, <2>1, <2>3, <3>1, EndFacts DEF CalmStep
  <2>4. QED
    BY <1>5, <2>2, <2>3 DEF PackFiles
<1>6. CASE UnpackBegin(h) \/ UnpackFill(h)
  <2>1. queue[h][1].op = "unpack"
    BY <1>6, AtFacts DEF UnpackBegin, UnpackFill
  <2>2. CASE Advance(h, "filling") \/ Advance(h, "raising")
    BY <1>1, <1>2, <2>1, <2>2, AdvancesTo DEF CalmStep
  <2>3. CASE End(h, "failed")
    BY <1>1, <2>1, <2>3, EndFacts DEF CalmStep
  <2>4. QED
    BY <1>6, <2>2, <2>3 DEF UnpackBegin, UnpackFill
<1>7. CASE UnpackRaise(h) \/ UnpackWait(h)
  <2>1. /\ queue[h][1].op = "unpack"
        /\ UnpackWait(h) => queue[h][1].at = "waiting" /\ UNCHANGED cont
    BY <1>7, AtFacts DEF UnpackRaise, UnpackWait
  <2>2. CASE Advance(h, "waiting") /\ cont' = [cont EXCEPT ![h] = "up"]
    <3>1. cont'[h] = "up"
      BY <2>2
    <3>2. QED
      BY <1>1, <1>2, <2>1, <2>2, <3>1, AdvancesTo DEF CalmStep
  <2>3. CASE End(h, "failed")
    BY <1>1, <2>1, <2>3, EndFacts DEF CalmStep
  <2>4. CASE UnpackWait(h) /\ End(h, "succeeded")
    BY <1>1, <2>1, <2>4, EndFacts DEF CalmStep
  <2>5. QED
    BY <1>7, <2>2, <2>3, <2>4 DEF UnpackRaise, UnpackWait
<1>8. CASE Undo(h)
  <2>1. queue[h][1].op = "undo" /\ (End(h, "failed") \/ End(h, "succeeded"))
    BY <1>8, AtFacts DEF Undo
  <2>2. QED
    BY <1>1, <2>1, EndFacts DEF CalmStep
<1>9. CASE RemoveCopy(h)
  <2>1. queue[h][1].op \in {"remove", "clean"} /\ End(h, "succeeded")
    BY <1>9, AtFacts DEF RemoveCopy
  <2>2. QED
    BY <1>1, <2>1, EndFacts DEF CalmStep
<1>10. QED
  BY <1>3, <1>4, <1>5, <1>6, <1>7, <1>8, <1>9 DEF HostStep

\* A queue that is not empty holds the one job the hub waits for.
LEMMA AloneLine ==
  ASSUME TypeInv, OneInv, AloneInv, NEW h \in Host, queue[h] # <<>>
  PROVE  /\ Len(queue[h]) = 1 /\ 1 \in DOMAIN queue[h] /\ hub.at = "wait" /\ h = OnHost
         /\ Is(queue[h][1], hub.op, TaskId) /\ ~queue[h][1].canceled
         /\ result[hub.op][TaskId] = "pending"
<1>1. /\ 1 \in DOMAIN queue[h] /\ DOMAIN queue[h] = 1..Len(queue[h])
      /\ Len(queue[h]) \in Nat /\ Len(queue[h]) >= 1
  BY HeadFacts, LineFacts
<1>2. /\ hub.at = "wait" /\ ~queue[h][1].canceled
      /\ \A i \in DOMAIN queue[h] : Is(queue[h][i], hub.op, TaskId)
  BY <1>1 DEF AloneInv
<1>3. LastIn(OnHost, hub.op, TaskId)
  BY <1>2 DEF OneInv, AwaitInv
<1>4. h = OnHost /\ 1 = Len(queue[h])
  BY <1>1, <1>2, <1>3 DEF LastIn
<1>5. QED
  BY <1>1, <1>2, <1>3, <1>4 DEF LastIn

LEMMA HostServed ==
  ASSUME TypeInv, MoveInv, OneInv, ServedInv, TwoHosts, "stop" \notin Breakable,
         NEW h \in Host, HostStep(h), ~Astray'
  PROVE  ServedInv'
<1> DEFINE F == hub.from
           T == hub.to
           I == hub.id
<1>1. /\ HostEffect(h) /\ UNCHANGED <<hub, recs, route, moves>>
      /\ queue[h] # <<>>
      /\ \A g \in Host : g # h => cont'[g] = cont[g] /\ queue'[g] = queue[g]
  BY HostEffects DEF HostStep, HostEffect, OnlyHere, ghosts
<1>2. /\ Len(queue[h]) = 1 /\ 1 \in DOMAIN queue[h] /\ hub.at = "wait" /\ h = OnHost
      /\ Is(queue[h][1], hub.op, TaskId) /\ ~queue[h][1].canceled
      /\ result[hub.op][TaskId] = "pending"
  BY <1>1, AloneLine DEF ServedInv
<1>3. /\ F \in Host /\ T \in Host /\ I \in Move /\ TaskId \in Move /\ hub.op \in Op /\ F # T
      /\ Op = {"clean", "pack", "unpack", "undo", "remove"} /\ queue[h][1].op = hub.op
  BY <1>2, HubFacts DEF OneInv, PlaceInv, Op, Is
<1>4. CalmStep(h)
  BY <1>2, CalmSteps
<1>5. \A g \in Host : g # h => queue[g] = <<>> /\ queue'[g] = <<>>
  BY <1>1, <1>2, AloneLine DEF ServedInv
\* It goes on, or it leaves an empty queue and its result.
<1>6. \/ /\ GoesOn(h) /\ Len(queue'[h]) = 1 /\ Is(queue'[h][1], hub.op, TaskId)
         /\ queue'[h] # <<>> /\ DOMAIN queue'[h] = {1} /\ result' = result
         /\ ~Ends(h, "succeeded") /\ ~Ends(h, "failed")
      \/ /\ ~GoesOn(h) /\ queue'[h] = <<>> /\ Ends(h, "succeeded") /\ ~Ends(h, "failed")
         /\ result'[hub.op][TaskId] = "succeeded"
      \/ /\ ~GoesOn(h) /\ queue'[h] = <<>> /\ Ends(h, "failed") /\ ~Ends(h, "succeeded")
         /\ result'[hub.op][TaskId] = "failed"
  <2>1. ASSUME NEW r \in {"succeeded", "failed"}, Ends(h, r)
        PROVE  /\ Len(queue'[h]) = 0 /\ queue'[h] = <<>>
               /\ result'[hub.op][TaskId] = r
    <3>1. Len(queue'[h]) = Len(queue[h]) - 1
      BY <1>1, <2>1, HeadFacts, TailLemma DEF Ends
    <3>2. queue'[h] = <<>> /\ Len(queue'[h]) = 0
      BY <1>1, <1>2, <3>1, LineStep
    <3>3. result \in Results
      BY DEF TypeInv, QueueType
    <3>4. QED
      BY <1>2, <1>3, <2>1, <3>2, <3>3 DEF Ends, Is, Results
  <2>2. CASE GoesOn(h)
    <3>1. Len(queue'[h]) = 1 /\ DOMAIN queue'[h] = 1..1 /\ queue'[h] # <<>>
      BY <1>1, <1>2, <2>2, LineStep DEF GoesOn
    <3>2. QED
      BY <1>2, <2>1, <2>2, <3>1 DEF GoesOn, Is
  <2>3. CASE ~GoesOn(h)
    <3>1. Ends(h, "succeeded") \/ Ends(h, "failed")
      BY <1>4, <2>3 DEF CalmStep
    <3>2. ~(Ends(h, "succeeded") /\ Ends(h, "failed"))
      BY <2>1
    <3>3. QED
      BY <2>1, <2>3, <3>1, <3>2
  <2>4. QED
    BY <2>2, <2>3
<1>7. AloneInv'
  <2>1. ASSUME NEW g \in Host, NEW i \in DOMAIN queue'[g]
        PROVE  Is(queue'[g][i], hub.op, TaskId) /\ ~queue'[g][i].canceled
    <3>1. g = h
      BY <1>5, <2>1
    <3>2. GoesOn(h) /\ i = 1 /\ Is(queue'[h][1], hub.op, TaskId)
      BY <1>6, <2>1, <3>1
    <3>3. QED
      BY <1>4, <1>6, <3>1, <3>2 DEF CalmStep
  <2>2. hub.op \in {"clean", "remove"} => result'[hub.op][TaskId] # "failed"
    <3>1. hub.op \in {"clean", "remove"} /\ ~Ends(h, "succeeded") => FALSE
      BY <1>3, <1>4 DEF CalmStep
    <3>2. Ends(h, "succeeded") => result'[hub.op][TaskId] = "succeeded"
      <4>1. result \in Results
        BY DEF TypeInv, QueueType
      <4>2. QED
        BY <1>2, <1>3, <4>1 DEF Ends, Is, Results
    <3>3. QED
      BY <3>1, <3>2
  <2>3. TaskId' = TaskId
    BY <1>1 DEF TaskId
  <2>4. QED
    BY <1>1, <1>2, <2>1, <2>2, <2>3 DEF AloneInv, ServedInv
\* Only what the job is about changes: the routes lead elsewhere.
<1>8. hub.action \in {"move", "remove"}
  BY <1>2, <1>3 DEF TypeInv, HubType, OneInv, PlaceInv
<1>9. /\ hub.action = "move" => route = F
      /\ hub.action = "remove" => h = F /\ route = T /\ cont[T] = "up"
  <2>1. hub.action = "remove" => hub.op = "remove"
    BY <1>3 DEF TypeInv, HubType
  <2>2. hub.action = "remove" => route = recs[I].to /\ T = recs[I].to /\ cont[route] = "up"
    BY <1>2, <1>3 DEF ServedInv, RevertingInv, LiveInv, HubOn
  <2>3. QED
    BY <1>2, <2>1, <2>2 DEF ServedInv, MovingInv, HubOn, OnHost
<1>10. LiveInv'
  <2>1. ASSUME NEW m \in Move, recs[m].state = "moved"
        PROVE  cont'[recs[m].from] # "none" \/ hub.action = "remove"
                  \/ (hub.action = "move" /\ hub.op = "clean")
    <3>1. hub.action = "move" => hub.op = "clean"
      BY <1>2, <2>1 DEF ServedInv, MovingInv, HubOn, Live
    <3>2. QED
      BY <1>8, <3>1
  <2>2. ASSUME NEW m \in Move, recs[m].second
        PROVE  cont'[recs[m].to] = "up"
    <3>1. ~(hub.action = "move")
      BY <1>2, <2>2 DEF ServedInv, MovingInv, HubOn, Live
    <3>2. hub.action = "remove" /\ recs[I].state = "moved" /\ I # m
      BY <1>2, <1>3, <1>8, <2>2, <3>1 DEF ServedInv, RevertingInv, HubOn, OneInv, MarkInv
    <3>3. FALSE
      BY <1>3, <2>2, <3>2 DEF ServedInv, LiveInv, Live
    <3>4. QED
      BY <3>3
  <2>3. QED
    BY <1>1, <1>2, <2>1, <2>2 DEF ServedInv, LiveInv, HubOn, Live
<1>11. ASSUME hub.action = "move"
       PROVE  MovingInv'
  <2>1. ASSUME hub.op = "clean"
        PROVE  cont'[F] = "up"
    <3>1. cont[F] = "up" /\ h = T
      BY <1>2, <1>11, <2>1 DEF ServedInv, MovingInv, HubOn, OnHost
    <3>2. QED
      BY <1>1, <1>3, <3>1
  <2>2. ASSUME hub.op = "pack", LastAt(F, {"queued", "stopping"})' \/ result'["pack"][I] = "failed"
        PROVE  cont'[F] = "up"
    <3>1. h = F /\ TaskId = I /\ queue[F][1].op = "pack" /\ queue[F] # <<>>
          /\ (LastAt(F, {"queued", "stopping"}) => cont[F] = "up")
          /\ (LastAt(F, {"packing"}) => cont[F] = "stopped")
      BY <1>1, <1>2, <1>3, <1>11, <2>2
         DEF ServedInv, MovingInv, HubOn, OnHost, TaskId, MoveInv, PackInv
    <3>2. CASE GoesOn(h)
      <4>1. result' = result /\ Len(queue'[F]) = 1 /\ ~Ends(h, "failed") /\ ~Ends(h, "succeeded")
        BY <1>6, <3>1, <3>2
      <4>2. queue'[F][1].at \in {"queued", "stopping"}
        BY <1>1, <1>2, <2>2, <3>1, <4>1 DEF LastAt
      <4>3. queue[F][1].at = "queued" /\ cont'[F] = cont[F]
        BY <1>4, <3>1, <4>1, <4>2 DEF CalmStep
      <4>4. QED
        BY <1>2, <3>1, <4>3 DEF LastAt
    <3>3. CASE ~GoesOn(h)
      <4>1. queue'[F] = <<>>
        BY <1>6, <3>1, <3>3
      <4>2. result'["pack"][I] = "failed"
        BY <1>1, <2>2, <4>1 DEF LastAt
      <4>3. Ends(h, "failed") /\ ~Ends(h, "succeeded")
        BY <1>6, <2>2, <3>1, <3>3, <4>2
      <4>4. cont'[F] = "up" \/ (cont[F] = "none" /\ queue[F][1].at = "queued")
        BY <1>4, <3>1, <3>3, <4>3 DEF CalmStep
      <4>5. queue[F][1].at = "queued" => cont[F] = "up"
        BY <1>2, <3>1 DEF LastAt
      <4>6. QED
        BY <4>4, <4>5
    <3>4. QED
      BY <3>2, <3>3
  <2>3. ASSUME hub.op = "unpack", LastAt(T, {"waiting"})' \/ result'["unpack"][I] = "succeeded"
        PROVE  cont'[T] = "up"
    <3>1. h = T /\ TaskId = I /\ queue[T][1].op = "unpack" /\ queue[T] # <<>>
          /\ (LastAt(T, {"waiting"}) => cont[T] = "up")
      BY <1>1, <1>2, <1>3, <1>11, <2>3 DEF ServedInv, MovingInv, HubOn, OnHost, TaskId
    <3>2. CASE GoesOn(h)
      <4>1. result' = result /\ Len(queue'[T]) = 1 /\ ~Ends(h, "failed") /\ ~Ends(h, "succeeded")
        BY <1>6, <3>1, <3>2
      <4>2. queue'[T][1].at = "waiting"
        BY <1>1, <1>2, <2>3, <3>1, <4>1 DEF LastAt
      <4>3. QED
        BY <1>4, <3>1, <4>1, <4>2 DEF CalmStep
    <3>3. CASE ~GoesOn(h)
      <4>1. queue'[T] = <<>>
        BY <1>6, <3>1, <3>3
      <4>2. result'["unpack"][I] = "succeeded"
        BY <1>1, <2>3, <4>1 DEF LastAt
      <4>3. Ends(h, "succeeded") /\ ~Ends(h, "failed")
        BY <1>6, <2>3, <3>1, <3>3, <4>2
      <4>4. queue[T][1].at = "waiting" /\ cont'[T] = cont[T]
        BY <1>4, <3>1, <3>3, <4>3 DEF CalmStep
      <4>5. QED
        BY <1>2, <3>1, <4>4 DEF LastAt
    <3>4. QED
      BY <3>2, <3>3
  <2>4. \A m \in Move : Live(m)' => hub.op = "clean" /\ m = hub.old /\ ~recs[m].second
    BY <1>1, <1>2, <1>11 DEF ServedInv, MovingInv, HubOn, Live
  <2>5. hub.id = moves /\ (hub.op = "clean" => recs[hub.old].state # "none")
    BY <1>2, <1>11 DEF ServedInv, MovingInv, HubOn
  <2>6. QED
    BY <1>1, <1>2, <1>9, <1>11, <2>1, <2>2, <2>3, <2>4, <2>5 DEF MovingInv, HubOn, LastAt, Live
<1>12. ASSUME hub.action = "remove"
       PROVE  MovingInv'
  BY <1>1, <1>2, <1>12 DEF MovingInv, HubOn
<1>13. RevertingInv'
  BY <1>1, <1>2, <1>3, <1>8, <1>9 DEF ServedInv, RevertingInv, HubOn
<1>14. QED
  BY <1>1, <1>2, <1>7, <1>8, <1>10, <1>11, <1>12, <1>13 DEF ServedInv

\* Where the hub waits for no host, nothing is left on any.
LEMMA NoLines ==
  ASSUME TypeInv, OneInv, AloneInv, hub.at # "wait" \/ result[hub.op][TaskId] # "pending"
  PROVE  \A h \in Host : queue[h] = <<>>
BY AloneLine

LEMMA QuietAlone ==
  ASSUME \A h \in Host : queue'[h] = <<>>, hub'.at # "wait", ~hub'.canceled
  PROVE  AloneInv'
BY DEF AloneInv

LEMMA IdleServed ==
  ASSUME \A h \in Host : queue'[h] = <<>>, hub' = Idle, LiveInv', cont'[route'] = "up", ~Astray'
  PROVE  ServedInv'
<1>1. hub'.at = "idle" /\ hub'.op = "none" /\ hub'.action = "none" /\ ~hub'.canceled
  BY DEF Idle
<1>2. AloneInv'
  BY <1>1, QuietAlone
<1>3. MovingInv' /\ RevertingInv'
  BY <1>1 DEF MovingInv, RevertingInv, HubOn
<1>4. QED
  BY <1>1, <1>2, <1>3 DEF ServedInv

LEMMA PostServed ==
  ASSUME TypeInv, MoveInv, OneInv, ServedInv, Post, NoFault, ~Astray'
  PROVE  ServedInv'
<1>1. /\ hub.at = "post" /\ ~Fault /\ ~Aborted
      /\ OnHost \in Host /\ TaskId \in Move /\ hub.op \in Op /\ hub.from \in Host /\ hub.to \in Host
      /\ UNCHANGED <<cont, recs, route, moves>>
  BY HubFacts, NoneLost DEF Post, ghosts, ServedInv, AloneInv, Aborted
<1>2. Submit(OnHost) /\ hub' = [hub EXCEPT !.at = "wait"]
  BY <1>1 DEF Post
<1>3. /\ hub'.at = "wait" /\ SameJob /\ hub'.op = hub.op /\ hub'.canceled = hub.canceled
      /\ hub'.skip = hub.skip
  BY <1>2 DEF TypeInv, HubType, HubRecord, SameJob
<1>4. OnHost' = OnHost /\ TaskId' = TaskId
  BY <1>3 DEF OnHost, TaskId, SameJob
<1>5. \A h \in Host : queue[h] = <<>>
  BY <1>1, NoLines DEF ServedInv
<1>6. /\ \A h \in Host : h # OnHost => queue'[h] = <<>>
      /\ DOMAIN queue'[OnHost] = {1} /\ Len(queue'[OnHost]) = 1 /\ queue'[OnHost][1] = NewTask
      /\ result'[hub.op][TaskId] = "pending"
  <2>1. /\ queue'[OnHost] = Append(queue[OnHost], NewTask) /\ queue[OnHost] \in Seq(Task)
        /\ \A h \in Host : h # OnHost => queue'[h] = queue[h]
        /\ result' = [result EXCEPT ![hub.op][TaskId] = "pending"] /\ NewTask \in Task
    BY <1>1, <1>2, SubmitFacts DEF TypeInv, QueueType
  <2>2. Len(queue[OnHost]) = 0
    BY <1>1, <1>5, EmptySeq
  <2>3. Len(queue'[OnHost]) = 1 /\ DOMAIN queue'[OnHost] = 1..1 /\ queue'[OnHost][1] = NewTask
    BY <2>1, <2>2, AppendProperties
  <2>4. result'[hub.op][TaskId] = "pending"
    BY <1>1, <2>1 DEF TypeInv, QueueType, Results
  <2>5. QED
    BY <1>5, <2>1, <2>3, <2>4
<1>7. NewTask.op = hub.op /\ NewTask.id = TaskId /\ NewTask.at = "queued" /\ ~NewTask.canceled
  BY DEF NewTask
<1>8. AloneInv'
  <2>1. ASSUME NEW h \in Host, NEW i \in DOMAIN queue'[h]
        PROVE  Is(queue'[h][i], hub.op, TaskId) /\ ~queue'[h][i].canceled
    <3>1. h = OnHost
      BY <1>6, <2>1
    <3>2. queue'[h][i] = NewTask
      BY <1>6, <2>1, <3>1
    <3>3. QED
      BY <1>7, <3>2 DEF Is
  <2>2. ~hub'.canceled /\ result'[hub'.op][TaskId'] = "pending"
    BY <1>3, <1>4, <1>6 DEF ServedInv, AloneInv
  <2>3. QED
    BY <1>3, <1>4, <2>1, <2>2 DEF AloneInv
<1>9. LiveInv'
  BY <1>1, <1>3 DEF ServedInv, LiveInv, HubOn, Live, SameJob
<1>10. MovingInv'
  <2>1. hub.op = "unpack" /\ hub.action = "move" =>
          ~LastAt(hub.to, {"waiting"})' /\ result'["unpack"][hub.id] = "pending"
    <3>1. hub.op = "unpack" => OnHost = hub.to /\ TaskId = hub.id
      BY DEF OnHost, TaskId
    <3>2. hub.op = "unpack" => queue'[hub'.to][Len(queue'[hub'.to])].at = "queued"
      BY <1>3, <1>6, <1>7, <3>1 DEF SameJob
    <3>3. QED
      BY <1>3, <1>6, <3>1, <3>2 DEF LastAt, SameJob
  <2>2. QED
    BY <1>1, <1>3, <2>1 DEF ServedInv, MovingInv, HubOn, Live, SameJob, LastAt
<1>11. RevertingInv'
  BY <1>1, <1>3 DEF ServedInv, RevertingInv, HubOn, SameJob
<1>12. QED
  BY <1>3, <1>8, <1>9, <1>10, <1>11 DEF ServedInv

LEMMA WaitServed ==
  ASSUME TypeInv, MoveInv, OneInv, ServedInv, Wait, NoFault, ~Astray'
  PROVE  ServedInv'
<1> DEFINE r == result[hub.op][TaskId]
<1>1. /\ hub.at = "wait" /\ ~Fault /\ ~Aborted
      /\ hub.op \in {"clean", "pack", "unpack", "undo", "remove"}
      /\ hub.from \in Host /\ hub.to \in Host /\ hub.id \in Move
      /\ UNCHANGED <<cont, recs, route, moves>>
  BY HubFacts, NoneLost DEF Wait, ghosts, ServedInv, AloneInv, Aborted, Op
<1>2. r \in {"succeeded", "failed"} /\ Proceed(r = "succeeded") /\ UNCHANGED <<queue, result>>
  BY <1>1 DEF Wait
<1>3. \A h \in Host : queue'[h] = <<>>
  BY <1>1, <1>2, NoLines DEF ServedInv
<1>4. /\ hub.op # "remove" => hub.action = "move"
      /\ hub.op = "remove" => hub.action = "remove"
  BY <1>1 DEF TypeInv, HubType, OneInv, PlaceInv
<1>5. r = "failed" => hub.op \notin {"clean", "remove"}
  BY <1>1 DEF ServedInv, AloneInv
<1>6. hub.action = "move" /\ hub.op # "clean" => \A m \in Move : ~Live(m)
  BY <1>1 DEF ServedInv, MovingInv, HubOn
\* Packing failed: the old copy runs, as it did.
<1>7. CASE hub.op = "pack" /\ r = "failed"
  <2>1. hub' = Idle
    BY <1>2, <1>7 DEF Proceed
  <2>2. TaskId = hub.id
    BY <1>7 DEF TaskId
  <2>3. cont'[route'] = "up"
    BY <1>1, <1>4, <1>7, <2>2 DEF ServedInv, MovingInv, HubOn
  <2>4. LiveInv'
    BY <1>1, <1>4, <1>6, <1>7 DEF ServedInv, LiveInv, Live
  <2>5. QED
    BY <1>3, <2>1, <2>3, <2>4, IdleServed
\* The hub goes on in the same job.
<1>8. CASE ~(hub.op = "pack" /\ r = "failed")
  <2>1. \/ hub.op \in {"clean", "remove"} /\ hub' = [hub EXCEPT !.at = "note"]
        \/ hub.op = "pack" /\ hub' = [hub EXCEPT !.at = "copy"]
        \/ hub.op = "unpack" /\ r = "succeeded" /\ hub' = [hub EXCEPT !.at = "switch"]
        \/ hub.op = "unpack" /\ hub' = [hub EXCEPT !.at = "post", !.op = "undo"]
        \/ hub.op = "undo" /\ hub' = [hub EXCEPT !.at = "call", !.op = "restart"]
    BY <1>1, <1>2, <1>5, <1>8 DEF Proceed
  <2>2. /\ SameJob /\ hub'.canceled = hub.canceled /\ hub'.skip = hub.skip
        /\ \/ hub'.at = "note" /\ hub'.op = hub.op /\ hub.op \in {"clean", "remove"}
           \/ hub'.at = "copy" /\ hub'.op = "pack" /\ hub.op = "pack"
           \/ hub'.at = "switch" /\ hub'.op = "unpack" /\ hub.op = "unpack" /\ r = "succeeded"
           \/ hub'.at = "post" /\ hub'.op = "undo" /\ hub.op = "unpack"
           \/ hub'.at = "call" /\ hub'.op = "restart" /\ hub.op = "undo"
    BY <2>1 DEF TypeInv, HubType, HubRecord, SameJob
  <2>3. AloneInv'
    BY <1>3, <2>2, QuietAlone DEF ServedInv, AloneInv
  <2>4. LiveInv'
    BY <1>1, <1>4, <1>6, <2>2 DEF ServedInv, LiveInv, HubOn, Live, SameJob
  <2>5. hub.op = "unpack" /\ r = "succeeded" => cont[hub.to] = "up"
    BY <1>1, <1>4 DEF ServedInv, MovingInv, HubOn, TaskId
  <2>6. MovingInv'
    BY <1>1, <1>4, <1>6, <2>2, <2>5 DEF ServedInv, MovingInv, HubOn, Live, SameJob
  <2>7. RevertingInv'
    BY <1>1, <1>4, <2>2 DEF ServedInv, RevertingInv, HubOn, SameJob
  <2>8. QED
    BY <2>2, <2>3, <2>4, <2>6, <2>7 DEF ServedInv
<1>9. QED
  BY <1>7, <1>8

LEMMA CopyServed ==
  ASSUME TypeInv, MoveInv, OneInv, ServedInv, Copy, ~Astray'
  PROVE  ServedInv'
<1>1. /\ hub.at = "copy" /\ hub.op = "pack" /\ hub.action = "move"
      /\ UNCHANGED <<cont, queue, recs, route, moves>>
  BY DEF Copy, ghosts, TypeInv, HubType
<1>2. SameJob /\ hub'.at = "post" /\ hub'.op \in {"unpack", "undo"} /\ hub'.canceled = hub.canceled
  <2>1. CASE hub' = [hub EXCEPT !.at = "post", !.op = "unpack"]
    BY <2>1 DEF TypeInv, HubType, HubRecord, SameJob
  <2>2. CASE hub' = [hub EXCEPT !.at = "post", !.op = "undo"]
    BY <2>2 DEF TypeInv, HubType, HubRecord, SameJob
  <2>3. QED
    BY <2>1, <2>2 DEF Copy
<1>3. AloneInv'
  BY <1>1, <1>2, NoLines, QuietAlone DEF ServedInv, AloneInv
<1>4. \A m \in Move : ~Live(m)
  BY <1>1 DEF ServedInv, MovingInv, HubOn
<1>5. LiveInv'
  BY <1>1, <1>2, <1>4 DEF ServedInv, LiveInv, HubOn, Live
<1>6. MovingInv' /\ RevertingInv'
  BY <1>1, <1>2, <1>4 DEF ServedInv, MovingInv, RevertingInv, HubOn, Live, SameJob
<1>7. QED
  BY <1>2, <1>3, <1>5, <1>6 DEF ServedInv

LEMMA CallServed ==
  ASSUME TypeInv, MoveInv, OneInv, ServedInv, TwoHosts, CallHost, NoFault, ~Astray'
  PROVE  ServedInv'
<1> DEFINE F == hub.from
           T == hub.to
           I == hub.id
<1>1. /\ hub.at = "call" /\ ~Fault /\ ~Aborted /\ hub.op \in {"stop", "start", "restart"}
      /\ F \in Host /\ T \in Host /\ I \in Move /\ F # T /\ hub \in HubRecord
      /\ cont \in [Host -> {"none", "stopped", "up"}]
      /\ UNCHANGED <<queue, result, recs, route, moves>>
  BY HubFacts, NoneLost DEF CallHost, ghosts, ServedInv, AloneInv, Aborted, OneInv, PlaceInv,
     TypeInv, HubType, CopyType
<1>2. \A h \in Host : queue'[h] = <<>>
  BY <1>1, NoLines DEF ServedInv
<1>3. ~hub.canceled /\ LiveInv
  BY DEF ServedInv, AloneInv
\* The old copy, which was stopped for the packing, starts again.
<1>4. CASE hub.op = "restart"
  <2>1. hub.action = "move" /\ cont[F] = "stopped"
    BY <1>1, <1>4 DEF OneInv, PlaceInv, UndoInv, AtRest
  <2>2. cont' = [cont EXCEPT ![F] = "up"] /\ hub' = [hub EXCEPT !.at = "sweep"]
    BY <1>1, <1>4, <2>1 DEF CallHost, Answered
  <2>3. /\ SameJob /\ hub'.at = "sweep" /\ hub'.op = "restart" /\ ~hub'.canceled
        /\ cont'[F] = "up"
    BY <1>1, <1>3, <1>4, <2>2 DEF HubRecord, SameJob
  <2>4. route = F /\ hub.id = moves /\ \A m \in Move : ~Live(m)
    BY <1>1, <1>4, <2>1 DEF ServedInv, MovingInv, HubOn
  <2>5. LiveInv'
    BY <1>1, <1>3, <2>4 DEF LiveInv, Live
  <2>6. AloneInv'
    BY <1>2, <2>3, QuietAlone
  <2>7. MovingInv' /\ RevertingInv'
    BY <1>1, <2>1, <2>3, <2>4 DEF MovingInv, RevertingInv, HubOn, Live, SameJob
  <2>8. QED
    BY <2>3, <2>5, <2>6, <2>7 DEF ServedInv
<1>5. ASSUME hub.action = "rollback"
      PROVE  /\ F = recs[I].from /\ T = recs[I].to /\ recs[I].state = "moved" /\ route = T
             /\ cont[F] # "none" /\ (hub.op = "stop" \/ hub.skip => cont[T] = "up")
             /\ hub.op = "stop" => ~hub.skip
             /\ \A m \in Move : Live(m) => m = I /\ ~recs[m].second
  <2>1. ~recs[I].second
    BY <1>1, <1>5 DEF OneInv, MarkInv
  <2>2. /\ F = recs[I].from /\ T = recs[I].to /\ recs[I].state = "moved" /\ route = T
        /\ cont[F] # "none" /\ (hub.op = "stop" \/ hub.skip => cont[T] = "up")
        /\ hub.op = "stop" => ~hub.skip
    BY <1>1, <1>5 DEF ServedInv, RevertingInv, HubOn
  <2>3. QED
    BY <1>1, <1>3, <2>1, <2>2 DEF LiveInv, Live
\* A rollback stops the new copy, then it starts the old one.
<1>6. CASE hub.op = "stop" /\ hub.action = "rollback"
  <2>1. cont' = [cont EXCEPT ![T] = "stopped"] /\ hub' = [hub EXCEPT !.op = "start"]
    BY <1>1, <1>5, <1>6 DEF CallHost, Answered
  <2>2. /\ SameJob /\ hub'.at = "call" /\ hub'.op = "start" /\ ~hub'.canceled /\ hub'.skip = hub.skip
        /\ cont'[F] = cont[F] /\ \A h \in Host : cont[h] # "none" => cont'[h] # "none"
    BY <1>1, <1>3, <2>1 DEF HubRecord, SameJob
  <2>3. LiveInv'
    BY <1>1, <1>3, <1>5, <1>6, <2>2 DEF LiveInv, HubOn, Live, SameJob, TypeInv, RecordType, MoveRecord
  <2>4. AloneInv'
    BY <1>2, <2>2, QuietAlone
  <2>5. MovingInv' /\ RevertingInv'
    BY <1>1, <1>5, <1>6, <2>2 DEF MovingInv, RevertingInv, HubOn, Live, SameJob
  <2>6. QED
    BY <2>2, <2>3, <2>4, <2>5 DEF ServedInv
\* The new copy that a rollback left running stops; the routes lead to the old one.
<1>7. CASE hub.op = "stop" /\ hub.action # "rollback"
  <2>1. hub.action = "stopnew"
    BY <1>7 DEF OneInv, PlaceInv
  <2>2. /\ F = recs[I].from /\ T = recs[I].to /\ recs[I].second /\ cont[route] = "up"
        /\ cont[T] = "up" /\ route = F
        /\ \A m \in Move : Live(m) => m = I /\ recs[m].state # "moved"
    <3>1. F = recs[I].from /\ T = recs[I].to /\ recs[I].second /\ cont[route] = "up" /\ cont[T] = "up"
      BY <1>1, <2>1 DEF ServedInv, RevertingInv, HubOn
    <3>2. recs[I].state # "moved"
      BY <1>1, <3>1 DEF OneInv, MarkInv
    <3>3. QED
      BY <1>1, <1>3, <3>1, <3>2 DEF LiveInv, Live
  <2>3. cont' = [cont EXCEPT ![T] = "stopped"] /\ hub' = [hub EXCEPT !.at = "note"]
    BY <1>1, <1>7, <2>1, <2>2 DEF CallHost, Answered
  <2>4. /\ SameJob /\ hub'.at = "note" /\ hub'.op = "stop" /\ ~hub'.canceled
        /\ cont'[route] = "up"
    BY <1>1, <1>3, <1>7, <2>2, <2>3 DEF HubRecord, SameJob
  <2>5. LiveInv'
    BY <1>1, <1>3, <2>1, <2>2, <2>4 DEF LiveInv, HubOn, Live, SameJob
  <2>6. AloneInv'
    BY <1>2, <2>4, QuietAlone
  <2>7. MovingInv' /\ RevertingInv'
    BY <1>1, <2>1, <2>2, <2>4 DEF MovingInv, RevertingInv, HubOn, Live, SameJob
  <2>8. QED
    BY <2>4, <2>5, <2>6, <2>7 DEF ServedInv
<1>8. CASE hub.op = "start"
  <2>1. hub.action = "rollback"
    BY <1>8 DEF TypeInv, HubType
  <2>2. cont' = [cont EXCEPT ![F] = "up"] /\ hub' = [hub EXCEPT !.at = "switch"]
    BY <1>1, <1>5, <1>8, <2>1 DEF CallHost, Answered
  <2>3. /\ SameJob /\ hub'.at = "switch" /\ hub'.op = "start" /\ ~hub'.canceled
        /\ hub'.skip = hub.skip /\ cont'[F] = "up" /\ cont'[T] = cont[T]
        /\ \A h \in Host : cont[h] # "none" => cont'[h] # "none"
    BY <1>1, <1>3, <1>8, <2>2 DEF HubRecord, SameJob
  <2>4. LiveInv'
    BY <1>1, <1>3, <1>5, <2>1, <2>3 DEF LiveInv, HubOn, Live, SameJob, TypeInv, RecordType, MoveRecord
  <2>5. AloneInv'
    BY <1>2, <2>3, QuietAlone
  <2>6. MovingInv' /\ RevertingInv'
    BY <1>1, <1>5, <2>1, <2>3 DEF MovingInv, RevertingInv, HubOn, Live, SameJob
  <2>7. QED
    BY <2>3, <2>4, <2>5, <2>6 DEF ServedInv
<1>9. QED
  BY <1>1, <1>4, <1>6, <1>7, <1>8

LEMMA SwitchServed ==
  ASSUME TypeInv, MoveInv, OneInv, ServedInv, TwoHosts, Switch, NoFault, "switch" \notin Breakable,
         ~Astray'
  PROVE  ServedInv'
<1> DEFINE F == hub.from
           T == hub.to
           I == hub.id
<1>1. /\ hub.at = "switch" /\ ~Fault /\ ~Aborted /\ ~hub.canceled
      /\ F \in Host /\ T \in Host /\ I \in Move /\ F # T /\ hub \in HubRecord
      /\ hub.op \in {"unpack", "start"} /\ hub.action \in {"move", "rollback"}
      /\ hub.action = "move" => hub.op = "unpack"
      /\ UNCHANGED <<cont, queue, result, recs, moves>>
  BY HubFacts, NoneLost DEF Switch, hosts, ServedInv, AloneInv, Aborted, OneInv, PlaceInv,
     TypeInv, HubType
<1>2. \A h \in Host : queue'[h] = <<>>
  BY <1>1, NoLines DEF ServedInv
<1>3. /\ SameJob /\ hub'.at = "note" /\ hub'.op = hub.op /\ ~hub'.canceled /\ hub'.skip = hub.skip
  <2>1. hub' = [hub EXCEPT !.at = "note"]
    BY DEF Switch
  <2>2. QED
    BY <1>1, <2>1 DEF HubRecord, SameJob
<1>4. route' = IF hub.action = "move" THEN (IF route = F THEN T ELSE route)
               ELSE IF route = T THEN F ELSE route
  BY <1>1 DEF Switch, Breaks
<1>5. AloneInv'
  BY <1>2, <1>3, QuietAlone
<1>6. CASE hub.action = "move"
  <2>1. /\ route = F /\ hub.id = moves /\ cont[T] = "up" /\ \A m \in Move : ~Live(m)
    BY <1>1, <1>6 DEF ServedInv, MovingInv, HubOn
  <2>2. cont[F] = "stopped"
    BY <1>1, <1>6 DEF MoveInv, SwitchInv, AtRest
  <2>3. LiveInv'
    BY <1>1, <2>1 DEF ServedInv, LiveInv, Live
  <2>4. MovingInv' /\ RevertingInv'
    BY <1>1, <1>3, <1>4, <1>6, <2>1, <2>2 DEF MovingInv, RevertingInv, HubOn, Live, SameJob
  <2>5. QED
    BY <1>3, <1>5, <2>3, <2>4 DEF ServedInv
<1>7. CASE hub.action = "rollback"
  <2>1. /\ F = recs[I].from /\ T = recs[I].to /\ recs[I].state = "moved" /\ route = T
        /\ cont[F] = "up" /\ (hub.op = "stop" \/ hub.skip => cont[T] = "up")
        /\ hub.op = "stop" => ~hub.skip
    BY <1>1, <1>7 DEF ServedInv, RevertingInv, HubOn
  <2>2. \A m \in Move : Live(m) => m = I /\ ~recs[m].second
    <3>1. ~recs[I].second
      BY <1>1, <1>7 DEF OneInv, MarkInv
    <3>2. QED
      BY <1>1, <2>1, <3>1 DEF ServedInv, LiveInv, Live
  <2>3. LiveInv'
    BY <1>1, <1>3, <1>7, <2>1, <2>2 DEF ServedInv, LiveInv, HubOn, Live, SameJob
  <2>4. MovingInv' /\ RevertingInv'
    BY <1>1, <1>3, <1>4, <1>7, <2>1 DEF MovingInv, RevertingInv, HubOn, SameJob
  <2>5. QED
    BY <1>3, <1>5, <2>3, <2>4 DEF ServedInv
<1>8. QED
  BY <1>1, <1>6, <1>7

LEMMA SweepServed ==
  ASSUME TypeInv, OneInv, ServedInv, Sweep, ~Astray'
  PROVE  ServedInv'
<1>1. /\ hub.at = "sweep" /\ UNCHANGED <<cont, queue, recs, route, moves>> /\ hub' = Idle
  BY DEF Sweep, ghosts
<1>2. \A h \in Host : queue'[h] = <<>>
  BY <1>1, NoLines DEF ServedInv
<1>3. hub.action = "move" /\ hub.op \in {"unpack", "restart"}
  BY <1>1 DEF ServedInv, MovingInv
<1>4. cont'[route'] = "up"
  BY <1>1, <1>3 DEF ServedInv, MovingInv, HubOn
<1>5. LiveInv'
  BY <1>1, <1>3 DEF ServedInv, LiveInv, HubOn, Live
<1>6. QED
  BY <1>1, <1>2, <1>4, <1>5, IdleServed

LEMMA NoteServed ==
  ASSUME TypeInv, MoveInv, OneInv, ServedInv, TwoHosts, Note, NoFault, ~Astray'
  PROVE  ServedInv'
<1> DEFINE F == hub.from
           T == hub.to
           I == hub.id
           O == hub.old
<1>1. /\ hub.at = "note" /\ ~Fault /\ ~Aborted /\ ~hub.canceled
      /\ F \in Host /\ T \in Host /\ I \in Move /\ F # T /\ hub \in HubRecord
      /\ hub.op \in {"clean", "unpack", "remove", "start", "stop"}
      /\ hub.op = "clean" => O \in Move
      /\ UNCHANGED <<cont, queue, result, route, moves>> /\ recs \in [Move -> MoveRecord]
  BY HubFacts, NoneLost DEF Note, hosts, ghosts, ServedInv, AloneInv, Aborted, OneInv, PlaceInv,
     TypeInv, HubType, RecordType
<1>2. \A h \in Host : queue'[h] = <<>>
  BY <1>1, NoLines DEF ServedInv
<1>3. recs' = Noted
  BY <1>1 DEF Note
<1>4. /\ hub.op \in {"clean", "unpack"} => hub.action = "move"
      /\ hub.op = "start" => hub.action = "rollback"
      /\ hub.op = "remove" => hub.action = "remove"
      /\ hub.op = "stop" => hub.action = "stopnew"
  BY <1>1 DEF TypeInv, HubType, OneInv, PlaceInv
<1>5. LiveInv /\ MarkInv /\ (hub.id <= moves \/ hub.action # "move")
  BY <1>1 DEF ServedInv, OneInv, MoveInv, StartInv
\* The leftovers are gone, and with them the record of the move that left them.
<1>6. CASE hub.op = "clean"
  <2>1. hub' = [hub EXCEPT !.at = "post", !.op = "pack"]
        /\ recs' = [recs EXCEPT ![O].state = "returned"]
    BY <1>3, <1>6 DEF Note, Noted
  <2>2. /\ SameJob /\ hub'.at = "post" /\ hub'.op = "pack" /\ ~hub'.canceled
    BY <1>1, <2>1 DEF HubRecord, SameJob
  <2>3. /\ route = F /\ hub.id = moves /\ cont[F] = "up" /\ recs[O].state # "none"
        /\ \A m \in Move : Live(m) => m = O /\ ~recs[m].second
    BY <1>1, <1>4, <1>6 DEF ServedInv, MovingInv, HubOn
  <2>4. \A m \in Move : /\ m # O => recs'[m] = recs[m]
                        /\ m = O => recs'[m].state = "returned" /\ recs'[m].second = recs[m].second
    BY <1>1, <1>6, <2>1 DEF MoveRecord
  <2>5. \A m \in Move : ~Live(m)'
    BY <1>1, <2>3, <2>4 DEF Live
  <2>6. LiveInv'
    BY <1>1, <1>6, <2>3, <2>4, <2>5 DEF ServedInv, LiveInv, Live
  <2>7. AloneInv'
    BY <1>2, <2>2, QuietAlone
  <2>8. MovingInv' /\ RevertingInv'
    BY <1>1, <1>4, <1>6, <2>2, <2>3, <2>5 DEF MovingInv, RevertingInv, HubOn, SameJob
  <2>9. QED
    BY <2>2, <2>6, <2>7, <2>8 DEF ServedInv
\* The move gets its record.
<1>7. CASE hub.op = "unpack"
  <2>1. hub' = [hub EXCEPT !.at = "sweep"]
        /\ recs' = [recs EXCEPT ![I] = [state |-> "moved", from |-> F, to |-> T, second |-> FALSE]]
    BY <1>3, <1>7 DEF Note, Noted
  <2>2. /\ SameJob /\ hub'.at = "sweep" /\ hub'.op = "unpack" /\ ~hub'.canceled
    BY <1>1, <1>7, <2>1 DEF HubRecord, SameJob
  <2>3. /\ route = T /\ I = moves /\ cont[T] = "up" /\ cont[F] # "none"
        /\ \A m \in Move : ~Live(m)
    BY <1>1, <1>4, <1>7 DEF ServedInv, MovingInv, HubOn
  <2>4. /\ recs'[I].state = "moved" /\ ~recs'[I].second /\ recs'[I].from = F /\ recs'[I].to = T
        /\ \A m \in Move : m # I => recs'[m] = recs[m]
    BY <1>1, <2>1
  <2>5. \A m \in Move : Live(m)' => m = I
    BY <2>3, <2>4 DEF Live
  <2>6. /\ \A k \in Move : k > I => recs'[k].state = "none"
        /\ \A m \in Move : recs'[m].state # "none" => m <= moves
    <3>1. moves \in Int /\ Move \subseteq Int
      BY Bounds DEF TypeInv, CountType, Move
    <3>2. \A m \in Move : recs[m].state # "none" => m <= moves
      BY DEF ServedInv, LiveInv
    <3>3. QED
      BY <1>1, <2>3, <2>4, <3>1, <3>2
  <2>7. LiveInv'
    BY <1>1, <2>3, <2>4, <2>5, <2>6 DEF LiveInv, Live
  <2>8. AloneInv'
    BY <1>2, <2>2, QuietAlone
  <2>9. MovingInv' /\ RevertingInv'
    BY <1>1, <1>4, <1>7, <2>2, <2>3, <2>5 DEF MovingInv, RevertingInv, HubOn, SameJob
  <2>10. QED
    BY <2>2, <2>7, <2>8, <2>9 DEF ServedInv
<1>8. CASE hub.op \in {"remove", "start", "stop"}
  <2>1. hub' = Idle
    BY <1>8 DEF Note
  <2>2. F = recs[I].from /\ T = recs[I].to
    BY <1>1, <1>4, <1>8 DEF ServedInv, RevertingInv
  <2>3. /\ cont[route] = "up"
        /\ hub.op \in {"remove", "start"} => recs[I].state = "moved"
        /\ hub.op = "start" => route = F /\ (hub.skip => cont[T] = "up")
        /\ hub.op = "stop" => recs[I].second
    BY <1>1, <1>4, <1>8 DEF ServedInv, RevertingInv, HubOn
  <2>4. \A m \in Move : Live(m) => m = I
    BY <1>1, <1>8, <2>3 DEF ServedInv, LiveInv, Live
  <2>5. /\ \A m \in Move : m # I => recs'[m] = recs[m]
        /\ recs'[I].from = F /\ recs'[I].to = T /\ recs'[I].state # "moved"
        /\ recs'[I].second => hub.op = "start" /\ hub.skip
    <3>1. hub.op = "stop" => recs[I].state # "moved"
      <4>1. recs[I].state = "moved" => ~recs[I].second
        BY <1>1 DEF OneInv, MarkInv
      <4>2. QED
        BY <2>3, <4>1
    <3>2. CASE hub.op = "remove"
      <4>1. recs' = [recs EXCEPT ![I].state = "removed", ![I].second = FALSE]
        BY <1>3, <3>2 DEF Noted
      <4>2. QED
        BY <1>1, <2>2, <4>1 DEF MoveRecord
    <3>3. CASE hub.op = "start"
      <4>1. recs' = [recs EXCEPT ![I].state = "rolled_back", ![I].second = hub.skip]
        BY <1>3, <3>3 DEF Noted
      <4>2. QED
        BY <1>1, <2>2, <3>3, <4>1 DEF MoveRecord
    <3>4. CASE hub.op = "stop"
      <4>1. recs' = [recs EXCEPT ![I].second = FALSE]
        BY <1>3, <3>4 DEF Noted
      <4>2. QED
        BY <1>1, <2>2, <3>1, <3>4, <4>1 DEF MoveRecord
    <3>5. QED
      BY <1>8, <3>2, <3>3, <3>4
  <2>6. I <= moves
    BY <1>1, <1>8, <2>3 DEF OneInv, MarkInv
  <2>7. LiveInv'
    BY <1>1, <1>8, <2>3, <2>4, <2>5, <2>6 DEF ServedInv, LiveInv, Live
  <2>8. QED
    BY <1>1, <1>2, <2>1, <2>3, <2>7, IdleServed
<1>9. QED
  BY <1>1, <1>6, <1>7, <1>8

LEMMA MoveStartServed ==
  ASSUME TypeInv, MoveInv, OneInv, ServedInv, TwoHosts,
         NEW from \in Host, NEW to \in Host, NEW clean \in BOOLEAN, StartMove(from, to, clean),
         ~Astray'
  PROVE  ServedInv'
<1>1. /\ hub.at = "idle" /\ UNCHANGED <<cont, queue, result, recs, route>>
      /\ from # to /\ cont[route] = "up" /\ route \in Host
      /\ recs \in [Move -> MoveRecord] /\ Move \subseteq Int
  BY Bounds DEF StartMove, hosts, TypeInv, RecordType, ServedInv, Move
<1>2. PICK old \in Move \cup {NoMove} :
        /\ old # NoMove => Leftover(old, from, to)
        /\ old = NoMove => NothingThere(to)
        /\ hub' = [Idle EXCEPT !.at = "post", !.op = IF old = NoMove THEN "pack" ELSE "clean",
                               !.action = "move", !.id = moves + 1, !.from = from, !.to = to,
                               !.old = old, !.wipe = (old # NoMove)]
  BY DEF StartMove
<1>3. /\ hub'.at = "post" /\ hub'.op = (IF old = NoMove THEN "pack" ELSE "clean")
      /\ hub'.action = "move" /\ hub'.id = moves + 1 /\ hub'.from = from /\ hub'.to = to
      /\ hub'.old = old /\ ~hub'.canceled
  BY <1>2 DEF Idle
<1>4. moves' = moves + 1 /\ moves \in Int
  BY StartMoveTo, Bounds DEF TypeInv, CountType
<1>5. \A h \in Host : queue'[h] = <<>>
  BY <1>1, NoLines DEF ServedInv
<1>6. to # route /\ route = from
  BY <1>1, <1>3 DEF Astray, TwoHosts
<1>7. old # NoMove => cont[to] # "up"
  BY <1>1, <1>3 DEF Astray
\* A record that still says something is the one of the leftovers.
<1>8. ASSUME NEW m \in Move, Live(m)
      PROVE  m = old /\ ~recs[m].second
  <2>1. recs[m].from # recs[m].to /\ recs[m].from \in Host /\ recs[m].to \in Host
    BY <1>1, <1>8 DEF OneInv, MarkInv, Live, MoveRecord
  <2>2. cont[to] # "up"
    BY <1>2, <1>7 DEF NothingThere
  <2>3. ~recs[m].second
    <3>1. recs[m].second => route = recs[m].from /\ cont[recs[m].to] = "up"
      BY <1>1 DEF ServedInv, LiveInv, HubOn
    <3>2. recs[m].second => recs[m].to = to
      BY <1>1, <1>6, <2>1, <3>1 DEF TwoHosts
    <3>3. QED
      BY <2>2, <3>1, <3>2
  <2>4. /\ recs[m].state = "moved" /\ route = recs[m].to /\ cont[recs[m].from] # "none"
        /\ \A k \in Move : k > m => recs[k].state = "none"
    BY <1>1, <1>8, <2>3 DEF ServedInv, LiveInv, HubOn, Live
  <2>5. recs[m].from = to /\ recs[m].to = from
    BY <1>1, <1>6, <2>1, <2>4 DEF TwoHosts
  <2>6. old # NoMove
    BY <1>2, <2>4, <2>5 DEF NothingThere
  <2>7. m \in Leftovers(from, to)
    BY <2>4, <2>5 DEF Leftovers
  <2>8. old \in Leftovers(from, to) /\ m <= old
    BY <1>2, <2>6, <2>7 DEF Leftover
  <2>9. old \in Move /\ recs[old].state # "none"
    BY <2>8 DEF Leftovers
  <2>10. ~(old > m)
    BY <2>4, <2>9
  <2>11. QED
    BY <1>1, <2>3, <2>8, <2>9, <2>10
<1>9. old # NoMove => recs[old].state # "none"
  BY <1>2 DEF Leftover, Leftovers
<1>10. AloneInv'
  BY <1>3, <1>5, QuietAlone
<1>11. LiveInv'
  <2>1. \A m \in Move : recs[m].state # "none" => m <= moves'
    BY <1>1, <1>4 DEF ServedInv, LiveInv
  <2>2. QED
    BY <1>1, <2>1 DEF ServedInv, LiveInv, HubOn, Live
<1>12. MovingInv' /\ RevertingInv'
  <2>1. \A m \in Move : Live(m)' => old # NoMove /\ m = old /\ ~recs[m].second
    <3>1. \A m \in Move : m # NoMove
      BY Bounds DEF Move, NoMove
    <3>2. QED
      BY <1>1, <1>8, <3>1 DEF Live
  <2>2. QED
    BY <1>1, <1>3, <1>4, <1>6, <1>9, <2>1 DEF MovingInv, RevertingInv, HubOn, Live
<1>13. QED
  BY <1>3, <1>10, <1>11, <1>12 DEF ServedInv

LEMMA OtherStartServed ==
  ASSUME TypeInv, OneInv, ServedInv, NEW m \in Move, NEW b \in BOOLEAN,
         StartRollback(m, b) \/ StartRemove(m, b) \/ StartStopNew(m), ~Astray'
  PROVE  ServedInv'
<1>1. hub.at = "idle" /\ cont[route] = "up" /\ UNCHANGED <<cont, queue, result, recs, moves, route>>
  BY DEF StartRollback, StartRemove, StartStopNew, hosts, ghosts, ServedInv
<1>2. \/ /\ hub'.at = "call" /\ hub'.op = (IF b THEN "start" ELSE "stop")
         /\ hub'.action = "rollback" /\ hub'.skip = b /\ recs[m].state = "moved"
      \/ /\ hub'.at = "post" /\ hub'.op = "remove" /\ hub'.action = "remove"
         /\ recs[m].state = "moved"
      \/ /\ hub'.at = "call" /\ hub'.op = "stop" /\ hub'.action = "stopnew" /\ recs[m].second
  BY DEF StartRollback, StartRemove, StartStopNew, Idle
<1>3. /\ hub'.id = m /\ hub'.from = recs[m].from /\ hub'.to = recs[m].to
      /\ hub'.canceled = FALSE
  BY DEF StartRollback, StartRemove, StartStopNew, Idle
<1>4. /\ recs[m].state = "moved" => route = recs[m].to /\ cont[recs[m].from] # "none"
      /\ recs[m].second => route = recs[m].from /\ cont[recs[m].to] = "up"
  BY <1>1 DEF ServedInv, LiveInv, HubOn
<1>5. AloneInv'
  BY <1>1, <1>2, <1>3, NoLines, QuietAlone DEF ServedInv
<1>6. LiveInv'
  BY <1>1, <1>2, <1>4 DEF ServedInv, LiveInv, HubOn, Live
<1>7. MovingInv'
  BY <1>2 DEF MovingInv, HubOn
<1>8. RevertingInv'
  BY <1>1, <1>2, <1>3, <1>4 DEF RevertingInv, HubOn
<1>9. QED
  BY <1>2, <1>5, <1>6, <1>7, <1>8 DEF ServedInv

LEMMA QuietServed ==
  ASSUME ServedInv, UNCHANGED <<cont, queue, result, hub, recs, route, moves>>, ~Astray'
  PROVE  ServedInv'
<1>1. TaskId' = TaskId
  BY DEF TaskId
<1>2. AloneInv'
  BY <1>1 DEF ServedInv, AloneInv
<1>3. LiveInv'
  BY DEF ServedInv, LiveInv, HubOn, Live
<1>4. MovingInv' /\ RevertingInv'
  BY DEF ServedInv, MovingInv, RevertingInv, HubOn, Live, LastAt
<1>5. QED
  BY <1>2, <1>3, <1>4 DEF ServedInv

LEMMA ServedInit == Init => ServedInv
<1> SUFFICES ASSUME Init PROVE ServedInv
  OBVIOUS
<1>1. /\ hub.at = "idle" /\ hub.op = "none" /\ hub.action = "none" /\ ~hub.canceled
      /\ \A h \in Host : queue[h] = <<>> /\ DOMAIN queue[h] = {}
      /\ \A m \in Move : recs[m].state = "none" /\ ~recs[m].second
      /\ cont[route] = "up"
  BY Bounds DEF Init, Idle, NoRecord
<1>2. AloneInv /\ LiveInv /\ MovingInv /\ RevertingInv
  BY <1>1 DEF AloneInv, LiveInv, MovingInv, RevertingInv, HubOn, Live
<1>3. ~Astray
  BY <1>1 DEF Astray
<1>4. QED
  BY <1>1, <1>2, <1>3 DEF ServedInv

\* With no call lost and nothing canceled, the first invariant needs no assumption
\* on what is canceled.
LEMMA CalmOne ==
  ASSUME TypeInv, MoveInv, OneInv, TwoHosts, [Next]_vars, ~Fault, UNCHANGED cancels
  PROVE  OneInv'
<1>1. ASSUME HubStep
      PROVE  OneInv'
  <2>1. NoFault
    BY <1>1 DEF HubStep, Post, Wait, Copy, CallHost, Switch, Note, Sweep
  <2>2. QED
    BY <1>1, <2>1, PostOne, WaitOne, CopyOne, CallOne, SwitchOne, NoteOne, SweepOne DEF HubStep
<1>2. ASSUME Cancel
      PROVE  FALSE
  BY <1>2 DEF Cancel, TypeInv, CountType
<1>3. ASSUME Write \/ UNCHANGED vars
      PROVE  OneInv'
  <2>1. UNCHANGED <<cont, staged, queue, result, recs, moves, hub>>
    BY <1>3 DEF Write, vars, hosts, ghosts
  <2>2. QED
    BY <2>1, QuietOne DEF OneInv, PlaceInv
<1>4. ~HubRestarts /\ \A h \in Host : ~DockerFails(h) /\ ~HostRestarts(h)
  BY DEF HubRestarts, DockerFails, HostRestarts
<1>5. QED
  BY <1>1, <1>2, <1>3, <1>4, OneHost, MoveStartsOne, OtherStartsOne DEF Next

LEMMA CalmServed ==
  ASSUME TypeInv, MoveInv, OneInv, ServedInv, TwoHosts, Breakable \cap {"stop", "switch"} = {},
         [Next]_vars, ~Fault, UNCHANGED cancels, ~Astray'
  PROVE  ServedInv'
<1>1. ASSUME HubStep
      PROVE  ServedInv'
  <2>1. NoFault
    BY <1>1 DEF HubStep, Post, Wait, Copy, CallHost, Switch, Note, Sweep
  <2>2. QED
    BY <1>1, <2>1, PostServed, WaitServed, CopyServed, CallServed, SwitchServed, NoteServed,
       SweepServed DEF HubStep
<1>2. ASSUME Cancel
      PROVE  FALSE
  BY <1>2 DEF Cancel, TypeInv, CountType
<1>3. ASSUME Write \/ UNCHANGED vars
      PROVE  ServedInv'
  <2>1. UNCHANGED <<cont, queue, result, hub, recs, route, moves>>
    BY <1>3 DEF Write, vars, hosts, ghosts
  <2>2. QED
    BY <2>1, QuietServed
<1>4. ~HubRestarts /\ \A h \in Host : ~DockerFails(h) /\ ~HostRestarts(h)
  BY DEF HubRestarts, DockerFails, HostRestarts
<1>5. QED
  BY <1>1, <1>2, <1>3, <1>4, HostServed, MoveStartServed, OtherStartServed DEF Next

\* What holds while no call is lost, nothing canceled and nothing gone astray.
CalmInv == (Calm => OneInv) /\ (Calm /\ ~astray => ServedInv)

LEMMA CalmIsKept ==
  ASSUME TwoHosts, Breakable \cap {"stop", "switch"} = {}
  PROVE  TypeInv /\ MoveInv /\ CalmInv /\ [Next]_vars => CalmInv'
<1> SUFFICES ASSUME TypeInv, MoveInv, CalmInv, [Next]_vars, Calm'
             PROVE  OneInv' /\ (~astray' => ServedInv')
  BY DEF CalmInv, Calm
<1>1. faults' = 0 /\ cancels' = 0 /\ faults \in Nat /\ cancels \in Nat
  BY Bounds DEF Calm, TypeInv, FaultType, CountType
<1>2. ~Fault
  BY <1>1 DEF Fault
<1>3. /\ UNCHANGED vars \/ cancels' = cancels \/ cancels' = cancels + 1
      /\ UNCHANGED vars \/ Watch
      /\ UNCHANGED vars \/ NoFault
  BY <1>2 DEF Next, HubStep, Post, Wait, Copy, CallHost, Switch, Note, Sweep, Cancel, Write,
     HubRestarts, DockerFails, HostRestarts, HostStep, StartMove, StartRollback, StartRemove,
     StartStopNew, ghosts, NoFault
<1>4. UNCHANGED cancels /\ cancels = 0 /\ faults = 0
  BY <1>1, <1>3 DEF vars, ghosts, NoFault
<1>5. OneInv /\ OneInv'
  BY <1>2, <1>4, CalmOne DEF CalmInv, Calm
<1>6. ASSUME ~astray'
      PROVE  ServedInv'
  <2>1. UNCHANGED vars \/ (~astray /\ ~Astray')
    BY <1>3, <1>6 DEF Watch
  <2>2. CASE UNCHANGED vars
    <3>1. ~astray /\ UNCHANGED <<cont, queue, result, hub, recs, route, moves>>
      BY <1>6, <2>2 DEF vars, hosts, ghosts
    <3>2. ServedInv
      BY <1>4, <3>1 DEF CalmInv, Calm
    <3>3. ~Astray'
      BY <3>1, <3>2 DEF ServedInv, Astray, TaskId
    <3>4. QED
      BY <3>1, <3>2, <3>3, QuietServed
  <2>3. CASE ~astray /\ ~Astray'
    BY <1>2, <1>4, <1>5, <2>3, CalmServed DEF CalmInv, Calm
  <2>4. QED
    BY <2>1, <2>2, <2>3
<1>7. QED
  BY <1>5, <1>6

\* ServedWhenIdle for every number of moves and of clients' changes, whichever of
\* the steps that are undone fail by themselves: when the hub has done with a
\* move, a rollback or a removal (hub/migrate.go), the host the routes lead to
\* runs the stack.
THEOREM ClientsServed == Spec => []ServedWhenIdle
<1>1. CASE TwoHosts /\ Breakable \cap {"stop", "switch"} = {}
  <2>1. Init => TypeInv /\ MoveInv /\ CalmInv
    BY TypeInit, MoveInit, OneInit, ServedInit DEF CalmInv
  <2>2. TypeInv /\ MoveInv /\ CalmInv /\ [Next]_vars => TypeInv' /\ MoveInv' /\ CalmInv'
    BY <1>1, TypeStep, MoveStep, CalmIsKept
  <2>3. CalmInv => ServedWhenIdle
    BY DEF CalmInv, ServedInv, ServedWhenIdle
  <2>4. QED
    BY <2>1, <2>2, <2>3, PTL DEF Spec
<1>2. CASE ~(TwoHosts /\ Breakable \cap {"stop", "switch"} = {})
  <2>1. ServedWhenIdle
    BY <1>2 DEF ServedWhenIdle
  <2>2. QED
    BY <2>1, PTL
<1>3. QED
  BY <1>1, <1>2
-----------------------------------------------------------------------------
(* Why what clients wrote last is kept: any hosts, whatever is lost *)

\* Data that are being unpacked are not whole.
FillInv ==
  \A h \in Host : \A i \in DOMAIN queue[h] : queue[h][i].at = "filling" => data[h] = Part
SwitchesInv == hub.at = "switch" => hub.op \in {"unpack", "start"}
\* The hub waits for whatever is going to delete a copy.
DeleteInv ==
  \A h \in Host : \A i \in DOMAIN queue[h] :
    queue[h][i].op \in {"remove", "clean", "undo"} =>
      hub.at = "wait" /\ h = OnHost /\ hub.op = queue[h][i].op
\* Neither the copy to be removed nor the one to be made is the clients'.
AwayInv ==
  /\ hub.op = "remove" => hub.from # route
  /\ hub.action = "move" /\ hub.at \in {"post", "wait", "copy", "switch"} => hub.to # route
\* The new copy equals the old one until the routes are switched.
ExactInv ==
  /\ hub.op = "unpack" /\ hub.at = "wait" =>
       /\ LastAt(hub.to, {"raising", "waiting"}) => data[hub.to] = data[hub.from]
       /\ result["unpack"][hub.id] = "succeeded" => data[hub.to] = data[hub.from]
  /\ hub.at = "switch" /\ hub.action = "move" => data[hub.to] = data[hub.from]
RoutedInv == data[route] = newest /\ DeleteInv /\ AwayInv /\ ExactInv
KeptInv ==
  /\ FillInv /\ SwitchesInv
  /\ ~stale /\ ~astray => ~Stale /\ ~Astray /\ RoutedInv

LEMMA KeptInit == Init => KeptInv
<1> SUFFICES ASSUME Init PROVE KeptInv
  OBVIOUS
<1>1. /\ hub.at = "idle" /\ hub.op = "none" /\ hub.action = "none"
      /\ \A h \in Host : queue[h] = <<>>
  BY DEF Init, Idle
<1>2. \A h \in Host : DOMAIN queue[h] = {}
  BY <1>1
<1>3. ~Stale
  BY <1>1 DEF Init, Stale, NoRecord
<1>4. ~Astray
  BY <1>1, <1>2 DEF Astray
<1>5. data[route] = newest
  BY Bounds DEF Init
<1>6. QED
  BY <1>1, <1>2, <1>3, <1>4, <1>5
     DEF KeptInv, FillInv, SwitchesInv, RoutedInv, DeleteInv, AwayInv, ExactInv

\* What every step does with the history.
LEMMA Watched ==
  ASSUME Watch, KeptInv, ~stale', ~astray'
  PROVE  ~stale /\ ~astray /\ ~Stale /\ ~Astray /\ RoutedInv /\ ~Stale' /\ ~Astray'
BY Zenon DEF Watch, KeptInv

\* Jobs of the queues after a step, from those before.
FromBefore ==
  \A g \in Host : \A i \in DOMAIN queue'[g] : \E k \in DOMAIN queue[g] :
    queue'[g][i].op = queue[g][k].op

\* Where the hub waits for nothing, no deletion is left to be done.
LEMMA DeleteKept ==
  ASSUME TypeInv, DeleteInv, ~Astray',
         \/ hub'.at # "wait"
         \/ /\ FromBefore /\ hub'.at = hub.at /\ hub'.op = hub.op
            /\ hub'.from = hub.from /\ hub'.to = hub.to
  PROVE  DeleteInv'
<1>1. CASE hub'.at # "wait"
  <2>1. \A h \in Host : \A i \in DOMAIN queue'[h] :
          queue'[h][i].op \notin {"remove", "clean", "undo"}
    BY <1>1 DEF Astray
  <2>2. QED
    BY <2>1 DEF DeleteInv
<1>2. CASE /\ FromBefore /\ hub'.at = hub.at /\ hub'.op = hub.op
           /\ hub'.from = hub.from /\ hub'.to = hub.to
  <2>1. OnHost' = OnHost
    BY <1>2 DEF OnHost
  <2>2. ASSUME NEW h \in Host, NEW i \in DOMAIN queue'[h],
               queue'[h][i].op \in {"remove", "clean", "undo"}
        PROVE  hub.at = "wait" /\ h = OnHost /\ hub.op = queue'[h][i].op
    <3>1. PICK k \in DOMAIN queue[h] : queue'[h][i].op = queue[h][k].op
      BY <1>2 DEF FromBefore
    <3>2. QED
      BY <2>2, <3>1 DEF DeleteInv
  <2>3. QED
    BY <1>2, <2>1, <2>2 DEF DeleteInv
<1>3. QED
  BY <1>1, <1>2

\* The job at the head of a line is not one that deletes the clients' copy.
LEMMA RouteIsSafe ==
  ASSUME TypeInv, RoutedInv, ~Astray, queue[route] # <<>>
  PROVE  queue[route][1].op \notin {"remove", "clean", "undo"}
<1>1. route \in Host
  BY DEF TypeInv, RecordType
<1>2. 1 \in DOMAIN queue[route]
  BY <1>1, HeadFacts
<1>3. SUFFICES ASSUME queue[route][1].op \in {"remove", "clean", "undo"}
               PROVE  FALSE
  OBVIOUS
<1>4. hub.at = "wait" /\ route = OnHost /\ hub.op = queue[route][1].op
  BY <1>1, <1>2, <1>3 DEF RoutedInv, DeleteInv
<1>5. CASE hub.op = "remove"
  BY <1>4, <1>5 DEF RoutedInv, AwayInv, OnHost
<1>6. CASE hub.op \in {"clean", "undo"}
  <2>1. route = hub.to /\ hub.action = "move"
    BY <1>4, <1>6 DEF OnHost, TypeInv, HubType
  <2>2. QED
    BY <1>4, <2>1 DEF RoutedInv, AwayInv
<1>7. QED
  BY <1>3, <1>4, <1>5, <1>6

\* A host changes whole data only to delete them.
LEMMA WholeDataStay ==
  ASSUME TypeInv, FillInv, NEW h \in Host, HostStep(h) \/ DockerFails(h),
         data[h] \in 0..MaxWrites, queue[h][1].op \notin {"remove", "clean", "undo"}
  PROVE  UNCHANGED data
<1>1. data[h] # NoCopy /\ data[h] # Part
  BY Bounds DEF NoCopy, Part
<1>2. CASE PackBegin(h) \/ PackStop(h) \/ PackFiles(h) \/ UnpackRaise(h) \/ UnpackWait(h)
  BY <1>2 DEF PackBegin, PackStop, PackFiles, UnpackRaise, UnpackWait
<1>3. CASE UnpackBegin(h)
  BY <1>1, <1>3 DEF UnpackBegin
<1>4. CASE UnpackFill(h)
  <2>1. queue[h] # <<>> /\ queue[h][1].at = "filling"
    BY <1>4, AtFacts DEF UnpackFill
  <2>2. 1 \in DOMAIN queue[h]
    BY <2>1, HeadFacts
  <2>3. QED
    BY <1>1, <2>1, <2>2 DEF FillInv
<1>5. CASE Undo(h) \/ RemoveCopy(h) \/ DockerFails(h)
  <2>1. PICK o \in {"undo", "remove", "clean"} : At(h, o, "queued")
    BY <1>5 DEF Undo, RemoveCopy, DockerFails
  <2>2. queue[h][1].op = o
    BY <2>1, AtFacts
  <2>3. QED
    BY <2>2
<1>6. QED
  BY <1>2, <1>3, <1>4, <1>5 DEF HostStep

\* Jobs that are queued or advance by a step of a host were there before.
LEMMA HostFromBefore ==
  ASSUME TypeInv, NEW h \in Host, HostEffect(h)
  PROVE  FromBefore
<1>1. \A g \in Host : g # h => queue'[g] = queue[g]
  BY DEF HostEffect, OnlyHere
<1>2. ASSUME NEW i \in DOMAIN queue'[h]
      PROVE  \E k \in DOMAIN queue[h] : queue'[h][i].op = queue[h][k].op
  <2>1. CASE /\ Len(queue'[h]) = Len(queue[h])
             /\ \A k \in DOMAIN queue[h] : queue'[h][k].op = queue[h][k].op
    <3>1. i \in DOMAIN queue[h]
      BY <1>2, <2>1, LineStep, LineFacts
    <3>2. QED
      BY <2>1, <3>1
  <2>2. CASE \A k \in DOMAIN queue'[h] : k + 1 \in DOMAIN queue[h]
                                      /\ queue'[h][k] = queue[h][k + 1]
    BY <1>2, <2>2
  <2>3. QED
    BY <2>1, <2>2, LineStep
<1>3. QED
  BY <1>1, <1>2 DEF FromBefore

\* A host fills only what it marked as part.
LEMMA FillStep ==
  ASSUME TypeInv, MoveInv, FillInv, NEW h \in Host, HostStep(h) \/ DockerFails(h)
  PROVE  FillInv'
<1>1. HostEffect(h) /\ queue[h] # <<>> /\ CopyType
  BY HostEffects DEF HostEffect, TypeInv
<1>2. \A g \in Host : g # h => queue'[g] = queue[g] /\ data'[g] = data[g]
  BY <1>1 DEF HostEffect, OnlyHere
<1>3. QueueInv'
  BY <1>1, QueueKept
<1>4. ASSUME NEW i \in DOMAIN queue'[h], queue'[h][i].at = "filling"
      PROVE  data'[h] = Part
  <2>1. i = 1
    <3>1. i \in Nat /\ i >= 1
      BY <1>1, <1>4, LineStep
    <3>2. ~(i > 1)
      BY <1>3, <1>4 DEF QueueInv
    <3>3. QED
      BY <3>1, <3>2
  <2>2. ASSUME NEW r \in {"succeeded", "failed"}, End(h, r)
        PROVE  FALSE
    <3>1. queue'[h] = Tail(queue[h]) /\ queue[h] \in Seq(Task)
      BY <1>1, <2>2, EndFacts, HeadFacts DEF Ends
    <3>2. 2 \in DOMAIN queue[h] /\ queue'[h][1] = queue[h][2]
      BY <1>1, <1>4, <2>1, <3>1, TailLemma
    <3>3. QED
      BY <1>4, <2>1, <3>2 DEF MoveInv, QueueInv
  <2>3. ASSUME NEW stage \in Stage, Advance(h, stage)
        PROVE  stage = "filling"
    BY <1>1, <1>4, <2>1, <2>3, AdvanceFacts
  <2>4. UnpackBegin(h)
    <3>1. {"stopping", "packing", "raising", "waiting"} \subseteq Stage
      BY DEF Stage
    <3>2. QED
      BY <2>2, <2>3, <3>1
         DEF HostStep, DockerFails, PackBegin, PackStop, PackFiles, UnpackFill, UnpackRaise,
             UnpackWait, Undo, RemoveCopy
  <2>5. data' = [data EXCEPT ![h] = Part]
    BY <2>2, <2>4 DEF UnpackBegin
  <2>6. QED
    BY <1>1, <2>5 DEF CopyType
<1>5. QED
  BY <1>2, <1>4 DEF FillInv

\* The copy stays exact while the host unpacks it.
LEMMA HostExact ==
  ASSUME TypeInv, MoveInv, ExactInv, NEW h \in Host, HostEffect(h), UNCHANGED hub
  PROVE  ExactInv'
<1> DEFINE F == hub.from
           T == hub.to
           I == hub.id
<1>1. /\ queue[h] # <<>> /\ 1 \in DOMAIN queue[h] /\ "unpack" \in Op
      /\ \A g \in Host : g # h => data'[g] = data[g] /\ queue'[g] = queue[g]
  BY HeadFacts DEF HostEffect, OnlyHere, Op
<1>2. ASSUME hub.op = "unpack", hub.at = "wait"
      PROVE  /\ LastAt(T, {"raising", "waiting"})' => data'[T] = data'[F]
             /\ result'["unpack"][I] = "succeeded" => data'[T] = data'[F]
  <2>1. /\ F \in Host /\ T \in Host /\ I \in Move
        /\ queue[F] = <<>> /\ staged[T][I] = data[F] /\ LastIn(T, "unpack", I)
        /\ LastAt(T, {"raising", "waiting"}) => data[T] = data[F]
        /\ result["unpack"][I] = "succeeded" => data[T] = data[F]
    BY <1>2, HubFacts DEF MoveInv, UnpackInv, AtRest, ExactInv
  <2>2. h # F /\ data'[F] = data[F]
    BY <1>1, <2>1
  <2>3. ASSUME LastAt(T, {"raising", "waiting"})'
        PROVE  data'[T] = data'[F]
    <3>1. CASE h # T
      BY <1>1, <2>1, <2>2, <2>3, <3>1 DEF LastAt
    <3>2. CASE h = T
      <4>1. /\ Len(queue[h]) = 1 /\ GoesOn(h) /\ StageReached(h)
            /\ queue'[h][1].at \in {"raising", "waiting"}
        BY <2>3, <3>2, LastMoves
      <4>2. Is(queue[h][1], "unpack", I)
        BY <1>1, <2>1, <3>2, <4>1 DEF LastIn
      <4>3. CASE queue'[h][1].at = "raising"
        BY <2>1, <2>2, <3>2, <4>1, <4>2, <4>3 DEF StageReached, Is
      <4>4. CASE queue'[h][1].at = "waiting"
        <5>1. data'[h] = data[h] /\ queue[h][1].at = "raising"
          BY <4>1, <4>4 DEF StageReached
        <5>2. LastAt(T, {"raising", "waiting"})
          BY <1>1, <3>2, <4>1, <5>1 DEF LastAt
        <5>3. QED
          BY <2>1, <2>2, <3>2, <5>1, <5>2
      <4>5. QED
        BY <4>1, <4>3, <4>4
    <3>3. QED
      BY <3>1, <3>2
  <2>4. ASSUME result'["unpack"][I] = "succeeded"
        PROVE  data'[T] = data'[F]
    <3>1. queue'[T] = <<>>
      BY <1>1, <2>1, <2>4, LastKept DEF LastIn
    <3>2. CASE h # T
      <4>1. ~Is(queue[h][1], "unpack", I)
        BY <1>1, <2>1, <3>2 DEF LastIn
      <4>2. result["unpack"][I] = "succeeded"
        BY <1>1, <2>1, <2>4, <4>1, LineStep
      <4>3. QED
        BY <1>1, <2>1, <2>2, <3>2, <4>2
    <3>3. CASE h = T
      <4>1. result["unpack"][I] = "pending" /\ Len(queue[h]) = 1
        BY <1>1, <2>1, <3>1, <3>3, OnlyOne DEF LastIn
      <4>2. Is(queue[h][1], "unpack", I)
        BY <1>1, <2>1, <3>3, <4>1 DEF LastIn
      <4>3. ~GoesOn(h) /\ ~Ends(h, "failed")
        <5>1. result \in Results
          BY DEF TypeInv, QueueType
        <5>2. QED
          BY <1>1, <2>1, <2>4, <4>1, <4>2, <5>1 DEF GoesOn, Ends, Is, Results
      <4>4. EndReached(h)
        BY <4>3 DEF HostEffect
      <4>5. LastAt(T, {"raising", "waiting"}) /\ data'[h] = data[h]
        BY <1>1, <3>3, <4>1, <4>2, <4>4 DEF LastAt, EndReached, Is
      <4>6. QED
        BY <2>1, <2>2, <3>3, <4>5
    <3>4. QED
      BY <3>2, <3>3
  <2>5. QED
    BY <2>3, <2>4
<1>3. ASSUME hub.at = "switch", hub.action = "move"
      PROVE  data'[T] = data'[F]
  <2>1. F \in Host /\ T \in Host /\ queue[F] = <<>> /\ queue[T] = <<>> /\ data[T] = data[F]
    BY <1>3, HubFacts DEF MoveInv, SwitchInv, AtRest, ExactInv
  <2>2. QED
    BY <1>1, <2>1
<1>4. QED
  BY <1>2, <1>3 DEF ExactInv

LEMMA HostKept ==
  ASSUME TypeInv, MoveInv, KeptInv, NEW h \in Host, HostStep(h) \/ DockerFails(h)
  PROVE  KeptInv'
<1>1. HostEffect(h) /\ UNCHANGED <<hub, recs, route, newest>> /\ Watch
  BY HostEffects DEF ghosts
<1>2. FillInv' /\ SwitchesInv'
  BY <1>1, FillStep DEF KeptInv, SwitchesInv
<1>3. ASSUME ~stale', ~astray'
      PROVE  ~Stale' /\ ~Astray' /\ RoutedInv'
  <2>1. ~Stale' /\ ~Astray' /\ ~Astray /\ RoutedInv
    BY <1>1, <1>3, Watched
  <2>2. data'[route] = newest
    <3>1. CASE h # route
      BY <1>1, <2>1, <3>1 DEF HostEffect, OnlyHere, RoutedInv, TypeInv, RecordType
    <3>2. CASE h = route
      <4>1. data[h] = newest /\ newest \in 0..MaxWrites
        BY <2>1, <3>2 DEF RoutedInv, TypeInv, CountType
      <4>2. queue[h][1].op \notin {"remove", "clean", "undo"}
        BY <1>1, <2>1, <3>2, RouteIsSafe DEF HostEffect
      <4>3. UNCHANGED data
        BY <4>1, <4>2, WholeDataStay DEF KeptInv
      <4>4. QED
        BY <3>2, <4>1, <4>3
    <3>3. QED
      BY <3>1, <3>2
  <2>3. DeleteInv'
    BY <1>1, <2>1, HostFromBefore, DeleteKept DEF RoutedInv
  <2>4. AwayInv'
    BY <1>1, <2>1 DEF RoutedInv, AwayInv
  <2>5. ExactInv'
    BY <1>1, <2>1, HostExact DEF RoutedInv
  <2>6. QED
    BY <1>1, <2>1, <2>2, <2>3, <2>4, <2>5 DEF RoutedInv
<1>4. QED
  BY <1>2, <1>3 DEF KeptInv
-----------------------------------------------------------------------------
(* The hub keeps it *)

\* No job starts to fill and no data change.
LEMMA FillKept ==
  ASSUME FillInv, UNCHANGED data,
         \A g \in Host : \A i \in DOMAIN queue'[g] :
           \/ queue'[g][i].at = "queued"
           \/ \E k \in DOMAIN queue[g] : queue'[g][i].at = queue[g][k].at
  PROVE  FillInv'
BY DEF FillInv

LEMMA SubmitFill ==
  ASSUME TypeInv, FillInv, hub.at = "post", NEW h \in Host, Submit(h), UNCHANGED data
  PROVE  FillInv'
<1>1. /\ queue'[h] = Append(queue[h], NewTask) /\ NewTask \in Task
      /\ \A g \in Host : g # h => queue'[g] = queue[g]
  BY SubmitFacts
<1>2. queue[h] \in Seq(Task) /\ NewTask.at = "queued"
  BY DEF TypeInv, QueueType, NewTask
<1>3. \A i \in DOMAIN queue'[h] :
        queue'[h][i] = NewTask \/ (i \in DOMAIN queue[h] /\ queue'[h][i] = queue[h][i])
  BY <1>1, <1>2
<1>4. QED
  BY <1>1, <1>2, <1>3, FillKept

LEMMA CancelFill ==
  ASSUME TypeInv, FillInv, hub.at = "wait", NEW h \in Host, CancelTask(h), UNCHANGED data
  PROVE  FillInv'
<1>1. /\ queue[h] \in Seq(Task) /\ queue \in [Host -> Seq(Task)]
      /\ DOMAIN queue[h] = 1..Len(queue[h]) /\ Len(queue[h]) \in Nat
  BY LineFacts DEF TypeInv, QueueType
<1>2. CASE UNCHANGED queue
  BY <1>2, FillKept
<1>3. ASSUME NEW i \in DOMAIN queue[h], queue' = [queue EXCEPT ![h] = RemoveAt(queue[h], i)]
      PROVE  FillInv'
  <2>1. /\ queue'[h] = RemoveAt(queue[h], i) /\ queue'[h] \in Seq(Task)
        /\ Len(queue'[h]) = Len(queue[h]) - 1
        /\ \A k \in 1..(Len(queue[h]) - 1) :
             queue'[h][k] = queue[h][IF k < i THEN k ELSE k + 1]
    BY <1>1, <1>3, RemoveAtLemma
  <2>2. DOMAIN queue'[h] = 1..(Len(queue[h]) - 1)
    BY <2>1
  <2>3. \A j \in DOMAIN queue'[h] : \E k \in DOMAIN queue[h] : queue'[h][j] = queue[h][k]
    <3>1. \A j \in 1..(Len(queue[h]) - 1) : j \in DOMAIN queue[h] /\ j + 1 \in DOMAIN queue[h]
      BY <1>1
    <3>2. QED
      BY <2>1, <2>2, <3>1
  <2>4. \A g \in Host : g # h => queue'[g] = queue[g]
    BY <1>1, <1>3
  <2>5. QED
    BY <2>3, <2>4, FillKept
<1>4. ASSUME NEW i \in DOMAIN queue[h], queue' = [queue EXCEPT ![h][i].canceled = TRUE]
      PROVE  FillInv'
  <2> DEFINE t == [queue[h][i] EXCEPT !.canceled = TRUE]
  <2>1. t.at = queue[h][i].at
    <3>1. queue[h][i] \in Task
      BY <1>1
    <3>2. QED
      BY <3>1 DEF Task
  <2> HIDE DEF t
  <2>2. queue' = [queue EXCEPT ![h] = [queue[h] EXCEPT ![i] = t]]
    BY <1>4 DEF t
  <2>3. \A g \in Host : /\ DOMAIN queue'[g] = DOMAIN queue[g]
                        /\ \A j \in DOMAIN queue[g] : queue'[g][j].at = queue[g][j].at
    BY <1>1, <2>1, <2>2
  <2>4. QED
    BY <2>3, FillKept
<1>5. QED
  BY <1>2, <1>3, <1>4 DEF CancelTask

\* Only where the hub waits for the unpacking or switches has the copy to be exact.
LEMMA QuietExact ==
  ASSUME ~(hub'.op = "unpack" /\ hub'.at = "wait"),
         ~(hub'.at = "switch" /\ hub'.action = "move")
  PROVE  ExactInv'
BY DEF ExactInv

\* Wherever a move is on its way, the history says that the new host is another
\* one than the clients'; only the switch itself is not covered by it.
LEMMA AwayKept ==
  ASSUME ~Astray', hub'.op = "remove" => hub'.from # route',
         hub'.at = "switch" /\ hub'.action = "move" => hub'.to # route'
  PROVE  AwayInv'
BY DEF AwayInv, Astray

LEMMA PostKept ==
  ASSUME TypeInv, MoveInv, KeptInv, Post
  PROVE  KeptInv'
<1>1. /\ hub.at = "post" /\ UNCHANGED <<data, route, newest>> /\ Watch
      /\ OnHost \in Host /\ TaskId \in Move /\ hub.op \in Op /\ hub.to \in Host
      /\ hub.id \in Move /\ hub \in HubRecord
  BY HubFacts DEF Post, ghosts, TypeInv, HubType
<1>2. \/ Submit(OnHost) /\ hub' = [hub EXCEPT !.at = "wait"]
      \/ Proceed(FALSE) /\ (Submit(OnHost) \/ UNCHANGED <<queue, result>>)
  BY DEF Post
<1>3. FillInv'
  BY <1>1, <1>2, SubmitFill, FillKept DEF KeptInv
<1>4. \/ /\ Submit(OnHost) /\ hub'.at = "wait" /\ SameJob /\ hub'.op = hub.op
      \/ hub'.at = "idle" /\ hub'.op = "none"
      \/ SameJob /\ hub'.at \in {"post", "call"} /\ hub'.op \in {"undo", "restart"}
  BY <1>1, <1>2, ProceedTo, IdleType DEF SameJob, HubRecord
<1>5. SwitchesInv'
  BY <1>4 DEF SwitchesInv
<1>6. ASSUME ~stale', ~astray'
      PROVE  ~Stale' /\ ~Astray' /\ RoutedInv'
  <2>1. ~Stale' /\ ~Astray' /\ ~Astray /\ RoutedInv
    BY <1>1, <1>6, Watched
  <2>2. data'[route'] = newest'
    BY <1>1, <2>1 DEF RoutedInv
  <2>3. AwayInv'
    BY <1>1, <1>4, <2>1, AwayKept DEF RoutedInv, AwayInv, SameJob
  <2>4. DeleteInv'
    <3>1. CASE hub'.at # "wait"
      BY <2>1, <3>1, DeleteKept DEF RoutedInv
    <3>2. CASE Submit(OnHost) /\ hub'.at = "wait" /\ SameJob /\ hub'.op = hub.op
      <4>1. /\ queue'[OnHost] = Append(queue[OnHost], NewTask) /\ NewTask.op = hub.op
            /\ \A g \in Host : g # OnHost => queue'[g] = queue[g]
        BY <1>1, <3>2, SubmitFacts DEF NewTask
      <4>2. queue[OnHost] \in Seq(Task) /\ NewTask \in Task
        BY <1>1, <3>2, SubmitFacts DEF TypeInv, QueueType
      <4>3. \A i \in DOMAIN queue'[OnHost] :
              \/ queue'[OnHost][i] = NewTask
              \/ i \in DOMAIN queue[OnHost] /\ queue'[OnHost][i] = queue[OnHost][i]
        BY <4>1, <4>2
      <4>4. \A g \in Host : \A i \in DOMAIN queue[g] :
              queue[g][i].op \notin {"remove", "clean", "undo"}
        BY <1>1, <2>1 DEF RoutedInv, DeleteInv
      <4>5. OnHost' = OnHost
        BY <3>2 DEF OnHost, SameJob
      <4>6. ASSUME NEW g \in Host, NEW i \in DOMAIN queue'[g],
                   queue'[g][i].op \in {"remove", "clean", "undo"}
            PROVE  g = OnHost /\ hub.op = queue'[g][i].op
        BY <1>1, <4>1, <4>3, <4>4, <4>6
      <4>7. QED
        BY <3>2, <4>5, <4>6 DEF DeleteInv
    <3>3. QED
      BY <1>4, <3>1, <3>2
  <2>5. ExactInv'
    <3>1. CASE hub'.op = "unpack" /\ hub'.at = "wait"
      <4>1. hub.op = "unpack" /\ Submit(OnHost) /\ SameJob
        BY <1>4, <3>1
      <4>2. OnHost = hub.to /\ TaskId = hub.id
        BY <4>1 DEF OnHost, TaskId
      <4>3. /\ queue'[hub.to] # <<>> /\ queue'[hub.to][Len(queue'[hub.to])].at = "queued"
            /\ result'["unpack"][hub.id] = "pending"
        BY <1>1, <4>1, <4>2, SubmitKept DEF Post, ghosts
      <4>4. QED
        BY <3>1, <4>1, <4>3 DEF ExactInv, LastAt, SameJob
    <3>2. CASE ~(hub'.op = "unpack" /\ hub'.at = "wait")
      BY <1>4, <3>2, QuietExact
    <3>3. QED
      BY <3>1, <3>2
  <2>6. QED
    BY <2>1, <2>2, <2>3, <2>4, <2>5 DEF RoutedInv
<1>7. QED
  BY <1>3, <1>5, <1>6 DEF KeptInv

LEMMA WaitKept ==
  ASSUME TypeInv, MoveInv, KeptInv, Wait
  PROVE  KeptInv'
<1>1. /\ hub.at = "wait" /\ UNCHANGED <<data, route, newest>> /\ Watch
      /\ OnHost \in Host /\ hub.op \in Op
  BY HubFacts DEF Wait, ghosts
<1>2. /\ CancelTask(OnHost) \/ UNCHANGED queue
      /\ \/ Proceed(FALSE)
         \/ Proceed(TRUE) /\ result[hub.op][TaskId] = "succeeded"
  BY DEF Wait
<1>3. FillInv'
  BY <1>1, <1>2, CancelFill, FillKept DEF KeptInv
<1>4. \/ hub'.at = "idle" /\ hub'.op = "none"
      \/ /\ SameJob /\ hub'.at # "wait" /\ (hub'.op = "remove" => hub.op = "remove")
         /\ hub'.at = "switch" => /\ hub.op = "unpack" /\ hub'.op = "unpack"
                                  /\ result["unpack"][TaskId] = "succeeded"
  BY <1>1, <1>2, ProceedTo, IdleType
<1>5. SwitchesInv'
  BY <1>4 DEF SwitchesInv
<1>6. ASSUME ~stale', ~astray'
      PROVE  ~Stale' /\ ~Astray' /\ RoutedInv'
  <2>1. ~Stale' /\ ~Astray' /\ ~Astray /\ RoutedInv
    BY <1>1, <1>6, Watched
  <2>2. data'[route'] = newest'
    BY <1>1, <2>1 DEF RoutedInv
  <2>3. AwayInv'
    BY <1>1, <1>4, <2>1, AwayKept DEF RoutedInv, AwayInv, SameJob
  <2>4. DeleteInv'
    BY <1>4, <2>1, DeleteKept DEF RoutedInv
  <2>5. ExactInv'
    <3>1. CASE hub'.at = "switch"
      <4>1. /\ hub.op = "unpack" /\ result["unpack"][hub.id] = "succeeded" /\ SameJob
        BY <1>4, <3>1 DEF TaskId
      <4>2. data[hub.to] = data[hub.from]
        BY <1>1, <2>1, <4>1 DEF RoutedInv, ExactInv
      <4>3. QED
        BY <1>1, <3>1, <4>1, <4>2 DEF ExactInv, SameJob
    <3>2. CASE hub'.at # "switch"
      BY <1>4, <3>2, QuietExact
    <3>3. QED
      BY <3>1, <3>2
  <2>6. QED
    BY <2>1, <2>2, <2>3, <2>4, <2>5 DEF RoutedInv
<1>7. QED
  BY <1>3, <1>5, <1>6 DEF KeptInv

\* Whatever the hub does without waiting, deleting or switching.
LEMMA QuietKept ==
  ASSUME TypeInv, KeptInv, Watch, UNCHANGED <<data, route, newest>>, FillInv', SwitchesInv',
         hub'.at # "wait", ~(hub'.at = "switch" /\ hub'.action = "move"),
         ~stale' /\ ~astray' => (hub'.op = "remove" => hub'.from # route)
  PROVE  KeptInv'
<1>1. ASSUME ~stale', ~astray'
      PROVE  ~Stale' /\ ~Astray' /\ RoutedInv'
  <2>1. ~Stale' /\ ~Astray' /\ RoutedInv
    BY <1>1, Watched
  <2>2. AwayInv'
    BY <1>1, <2>1, AwayKept
  <2>3. DeleteInv'
    BY <2>1, DeleteKept DEF RoutedInv
  <2>4. ExactInv'
    BY QuietExact
  <2>5. QED
    BY <2>1, <2>2, <2>3, <2>4 DEF RoutedInv
<1>2. QED
  BY <1>1 DEF KeptInv

LEMMA CallKept ==
  ASSUME TypeInv, MoveInv, KeptInv, CallHost \/ Copy
  PROVE  KeptInv'
<1>1. UNCHANGED <<data, queue, route, newest>> /\ Watch
  BY DEF CallHost, Copy, ghosts
<1>2. FillInv'
  BY <1>1 DEF KeptInv, FillInv
<1>3. CASE CallHost
  <2>1. /\ hub'.at \in {"idle", "sweep", "call", "note", "switch"}
        /\ hub'.at = "switch" => hub'.action = "rollback"
        /\ hub'.at # "idle" => hub'.op \in Call
    BY <1>3, CallTo
  <2>2. SwitchesInv' /\ hub'.op # "remove"
    <3>1. PICK ok \in BOOLEAN : hub.at = "call" /\ Answered(ok)
      BY <1>3 DEF CallHost
    <3>2. \/ hub' = Idle
          \/ hub' = [hub EXCEPT !.at = "sweep"]
          \/ hub' = [hub EXCEPT !.op = "start"]
          \/ hub' = [hub EXCEPT !.at = "note"]
          \/ hub' = [hub EXCEPT !.at = "switch"] /\ hub.op = "start"
      BY <3>1 DEF Answered
    <3>3. hub \in HubRecord /\ hub.op \in Call
      BY <3>1 DEF TypeInv, HubType
    <3>4. QED
      BY <3>1, <3>2, <3>3, IdleType DEF SwitchesInv, HubRecord, Call
  <2>3. QED
    BY <1>1, <1>2, <2>1, <2>2, QuietKept
<1>4. CASE Copy
  <2>1. hub'.at = "post" /\ hub'.op \in {"unpack", "undo"}
    BY <1>4, CopyTo
  <2>2. QED
    BY <1>1, <1>2, <2>1, QuietKept DEF SwitchesInv
<1>5. QED
  BY <1>3, <1>4

\* The routes follow the exact copy, or go back to the whole one.
LEMMA SwitchKept ==
  ASSUME TypeInv, MoveInv, KeptInv, Switch
  PROVE  KeptInv'
<1>1. /\ hub.at = "switch" /\ UNCHANGED <<data, queue>> /\ Watch
      /\ hub'.at = "note" /\ hub'.op = hub.op
  BY DEF Switch, hosts, TypeInv, HubType, HubRecord
<1>2. FillInv' /\ SwitchesInv'
  BY <1>1 DEF KeptInv, FillInv, SwitchesInv
<1>3. \/ hub.op = "unpack" /\ hub.action = "move"
      \/ hub.op = "start" /\ hub.action = "rollback"
  BY <1>1 DEF KeptInv, SwitchesInv, TypeInv, HubType
<1>4. ASSUME ~stale', ~astray'
      PROVE  ~Stale' /\ ~Astray' /\ RoutedInv'
  <2>1. ~Stale' /\ ~Astray' /\ ~Stale /\ RoutedInv
    BY <1>1, <1>4, Watched
  <2>2. data[route'] = newest'
    <3>1. CASE UNCHANGED <<route, newest>>
      BY <2>1, <3>1 DEF RoutedInv
    <3>2. CASE /\ hub.action = "move"
               /\ route' = (IF route = hub.from THEN hub.to ELSE route)
               /\ newest' = (IF route = hub.from THEN GivenUp(hub.to) ELSE newest)
      BY <1>1, <2>1, <3>2 DEF RoutedInv, ExactInv, GivenUp
    <3>3. CASE /\ hub.action = "rollback"
               /\ route' = (IF route = hub.to THEN hub.from ELSE route)
               /\ newest' = (IF route = hub.to THEN GivenUp(hub.from) ELSE newest)
      <4>1. data[hub.from] \in 0..newest
        BY <1>1, <2>1, <3>3 DEF Stale
      <4>2. QED
        BY <2>1, <3>3, <4>1 DEF RoutedInv, GivenUp
    <3>4. QED
      BY <1>3, <3>1, <3>2, <3>3 DEF Switch
  <2>3. AwayInv' /\ ExactInv'
    BY <1>1, <1>3, <2>1, AwayKept, QuietExact
  <2>4. DeleteInv'
    BY <1>1, <2>1, DeleteKept DEF RoutedInv
  <2>5. QED
    BY <1>1, <2>1, <2>2, <2>3, <2>4 DEF RoutedInv
<1>5. QED
  BY <1>2, <1>4 DEF KeptInv

LEMMA RecordKept ==
  ASSUME TypeInv, MoveInv, KeptInv, Note \/ Sweep
  PROVE  KeptInv'
<1>1. UNCHANGED <<data, queue, route, newest>> /\ Watch
  BY DEF Note, Sweep, hosts, ghosts
<1>2. FillInv'
  BY <1>1 DEF KeptInv, FillInv
<1>3. \/ hub' = Idle
      \/ hub' = [hub EXCEPT !.at = "sweep"] /\ hub.op = "unpack"
      \/ hub' = [hub EXCEPT !.at = "post", !.op = "pack"]
  BY DEF Note, Sweep
<1>4. hub'.at \in {"idle", "sweep", "post"} /\ hub'.op # "remove"
  BY <1>3, IdleType DEF TypeInv, HubType, HubRecord
<1>5. QED
  BY <1>1, <1>2, <1>4, QuietKept DEF SwitchesInv
-----------------------------------------------------------------------------
(* The operator, the clients and the restarts keep it *)

LEMMA StartsKept ==
  ASSUME TypeInv, MoveInv, KeptInv,
         \/ \E from \in Host, to \in Host, clean \in BOOLEAN : StartMove(from, to, clean)
         \/ \E m \in Move, b \in BOOLEAN : StartRollback(m, b) \/ StartRemove(m, b)
         \/ \E m \in Move : StartStopNew(m)
  PROVE  KeptInv'
<1>1. UNCHANGED <<data, queue, route, newest>> /\ Watch
  BY DEF StartMove, StartRollback, StartRemove, StartStopNew, hosts, ghosts
<1>2. FillInv'
  BY <1>1 DEF KeptInv, FillInv
<1>3. ASSUME NEW from \in Host, NEW to \in Host, NEW clean \in BOOLEAN,
             StartMove(from, to, clean)
      PROVE  KeptInv'
  <2>1. hub'.at = "post" /\ hub'.op \in {"pack", "clean"}
    BY <1>3, StartMoveTo
  <2>2. QED
    BY <1>1, <1>2, <2>1, QuietKept DEF SwitchesInv
<1>4. ASSUME NEW m \in Move, NEW b \in BOOLEAN, StartRollback(m, b) \/ StartStopNew(m)
      PROVE  KeptInv'
  <2>1. hub'.at = "call" /\ hub'.op \in Call
    BY <1>4 DEF StartRollback, StartStopNew, Idle, Call
  <2>2. QED
    BY <1>1, <1>2, <2>1, QuietKept DEF SwitchesInv, Call
<1>5. ASSUME NEW m \in Move, NEW b \in BOOLEAN, StartRemove(m, b)
      PROVE  KeptInv'
  <2>1. /\ hub.at = "idle" /\ recs[m].state = "moved"
        /\ hub'.at = "post" /\ hub'.op = "remove" /\ hub'.from = recs[m].from
    BY <1>5 DEF StartRemove, Idle
  <2>2. ASSUME ~stale', ~astray'
        PROVE  recs[m].from # route
    <3>1. ~Stale
      BY <1>1, <2>2, Watched
    <3>2. QED
      BY <2>1, <3>1 DEF Stale
  <2>3. QED
    BY <1>1, <1>2, <2>1, <2>2, QuietKept DEF SwitchesInv
<1>6. QED
  BY <1>3, <1>4, <1>5

\* Nothing that the invariant speaks of changes.
LEMMA SameKept ==
  ASSUME TypeInv, KeptInv, Watch \/ UNCHANGED <<stale, astray, recs>>,
         UNCHANGED <<cont, data, queue, result, route, newest>>,
         hub'.at = hub.at, hub'.op = hub.op, hub'.action = hub.action, hub'.id = hub.id,
         hub'.from = hub.from, hub'.to = hub.to, hub'.old = hub.old
  PROVE  KeptInv'
<1>1. FillInv' /\ SwitchesInv'
  BY DEF KeptInv, FillInv, SwitchesInv
<1>2. RoutedInv => RoutedInv'
  BY DEF RoutedInv, DeleteInv, AwayInv, ExactInv, LastAt, OnHost
<1>3. ASSUME ~stale', ~astray'
      PROVE  ~Stale' /\ ~Astray' /\ RoutedInv
  <2>1. CASE Watch
    BY <1>3, <2>1, Watched
  <2>2. CASE UNCHANGED <<stale, astray, recs>>
    <3>1. ~Stale /\ ~Astray /\ RoutedInv
      BY <1>3, <2>2 DEF KeptInv
    <3>2. ~Stale'
      BY <2>2, <3>1 DEF Stale
    <3>3. TaskId' = TaskId
      BY DEF TaskId
    <3>4. ~Astray'
      BY <3>1, <3>3 DEF Astray
    <3>5. QED
      BY <3>1, <3>2, <3>4
  <2>3. QED
    BY <2>1, <2>2
<1>4. QED
  BY <1>1, <1>2, <1>3 DEF KeptInv

LEMMA WriteKept ==
  ASSUME TypeInv, MoveInv, KeptInv, Write
  PROVE  KeptInv'
<1> DEFINE now == IF data[route] > newest THEN data[route] ELSE newest
<1>1. /\ cont[route] = "up" /\ data[route] # Part /\ UNCHANGED <<queue, result, hub, recs, route>>
      /\ newest' = now + 1 /\ data' = [data EXCEPT ![route] = now + 1] /\ Watch
  BY DEF Write
<1> HIDE DEF now
<1>2. /\ data'[route] = newest'
      /\ \A h \in Host : h # route => data'[h] = data[h]
  BY <1>1 DEF TypeInv, CopyType, RecordType
<1>3. FillInv' /\ SwitchesInv'
  BY <1>1, <1>2 DEF KeptInv, FillInv, SwitchesInv
<1>4. ASSUME ~stale', ~astray'
      PROVE  ~Stale' /\ ~Astray' /\ RoutedInv'
  <2>1. ~Stale' /\ ~Astray' /\ RoutedInv
    BY <1>1, <1>4, Watched
  <2>2. DeleteInv' /\ AwayInv'
    BY <1>1, <2>1 DEF RoutedInv, DeleteInv, AwayInv, OnHost
  <2>3. ASSUME \/ hub.op = "unpack" /\ hub.at = "wait"
               \/ hub.at = "switch" /\ hub.action = "move"
        PROVE  data'[hub.to] = data[hub.to] /\ data'[hub.from] = data[hub.from]
    <3>1. hub.to \in Host /\ hub.from \in Host /\ hub.action = "move"
      BY <2>3, HubFacts DEF TypeInv, HubType
    <3>2. cont[hub.from] = "stopped"
      BY <2>3 DEF MoveInv, UnpackInv, SwitchInv, AtRest
    <3>3. hub.to # route
      BY <2>1, <2>3, <3>1 DEF RoutedInv, AwayInv
    <3>4. QED
      BY <1>1, <1>2, <3>1, <3>2, <3>3
  <2>4. ExactInv'
    BY <1>1, <2>1, <2>3 DEF RoutedInv, ExactInv, LastAt
  <2>5. QED
    BY <1>1, <1>2, <2>1, <2>2, <2>4 DEF RoutedInv
<1>5. QED
  BY <1>3, <1>4 DEF KeptInv

LEMMA RestartKept ==
  ASSUME TypeInv, MoveInv, KeptInv, NEW h \in Host, HostRestarts(h)
  PROVE  KeptInv'
<1>1. Interrupt(h) /\ UNCHANGED <<data, hub, recs, route, newest>> /\ Watch
  BY DEF HostRestarts, ghosts
<1>2. /\ \A g \in Host : queue'[g] = IF g = h THEN <<>> ELSE queue[g]
      /\ \A o \in Op, m \in Move : result'[o][m] = "failed" \/ result'[o][m] = result[o][m]
  BY <1>1, InterruptKept, InterruptFacts
<1>3. \A g \in Host : \A i \in DOMAIN queue'[g] :
        i \in DOMAIN queue[g] /\ queue'[g][i] = queue[g][i]
  BY <1>2
<1>4. FillInv' /\ SwitchesInv'
  BY <1>1, <1>3, FillKept DEF KeptInv, SwitchesInv
<1>5. ASSUME ~stale', ~astray'
      PROVE  ~Stale' /\ ~Astray' /\ RoutedInv'
  <2>1. ~Stale' /\ ~Astray' /\ RoutedInv
    BY <1>1, <1>5, Watched
  <2>2. DeleteInv'
    BY <1>1, <1>3, <2>1, DeleteKept DEF RoutedInv, FromBefore
  <2>3. AwayInv'
    BY <1>1, <2>1 DEF RoutedInv, AwayInv
  <2>4. ExactInv'
    <3>1. ASSUME hub.op = "unpack", hub.at = "wait"
          PROVE  /\ LastAt(hub.to, {"raising", "waiting"})' =>
                      LastAt(hub.to, {"raising", "waiting"})
                 /\ result'["unpack"][hub.id] = "succeeded" =>
                      result["unpack"][hub.id] = "succeeded"
      <4>1. hub.to \in Host /\ hub.id \in Move /\ "unpack" \in Op
        BY <3>1, HubFacts DEF Op
      <4>2. QED
        BY <1>1, <1>2, <4>1 DEF LastAt
    <3>2. QED
      BY <1>1, <2>1, <3>1 DEF RoutedInv, ExactInv
  <2>5. QED
    BY <1>1, <2>1, <2>2, <2>3, <2>4 DEF RoutedInv
<1>6. QED
  BY <1>4, <1>5 DEF KeptInv

LEMMA HubRestartKept ==
  ASSUME TypeInv, MoveInv, KeptInv, HubRestarts
  PROVE  KeptInv'
<1>1. /\ hub' = Idle /\ Interrupt(HubMachine) /\ UNCHANGED <<data, route, newest>> /\ Watch
  BY DEF HubRestarts, ghosts
<1>2. \A g \in Host : queue'[g] = IF g = HubMachine THEN <<>> ELSE queue[g]
  BY <1>1, InterruptKept
<1>3. FillInv'
  BY <1>1, <1>2, FillKept DEF KeptInv
<1>4. QED
  BY <1>1, <1>3, IdleType, QuietKept DEF SwitchesInv

LEMMA KeptStep == TypeInv /\ MoveInv /\ KeptInv /\ [Next]_vars => KeptInv'
<1> SUFFICES ASSUME TypeInv, MoveInv, KeptInv, [Next]_vars
             PROVE  KeptInv'
  OBVIOUS
<1>1. CASE HubStep
  BY <1>1, PostKept, WaitKept, CallKept, SwitchKept, RecordKept DEF HubStep
<1>2. CASE Cancel
  <2>1. /\ hub'.at = hub.at /\ hub'.op = hub.op /\ hub'.action = hub.action
        /\ hub'.from = hub.from /\ hub'.to = hub.to /\ hub'.id = hub.id /\ hub'.old = hub.old
    BY <1>2 DEF Cancel, TypeInv, HubType, HubRecord
  <2>2. UNCHANGED <<cont, data, queue, result, route, newest>> /\ Watch
    BY <1>2 DEF Cancel, hosts
  <2>3. QED
    BY <2>1, <2>2, SameKept
<1>3. CASE UNCHANGED vars
  <2>1. UNCHANGED <<cont, data, queue, result, route, newest, hub, stale, astray, recs>>
    BY <1>3 DEF vars, hosts, ghosts
  <2>2. QED
    BY <2>1, SameKept
<1>4. QED
  BY <1>1, <1>2, <1>3, StartsKept, WriteKept, HubRestartKept, HostKept, RestartKept DEF Next

\* NewestKept for every number of hosts, moves, changes and faults, whatever is
\* canceled: no undo, removal, cleaning or late job of a host deletes or replaces
\* the data the clients of a stack are led to (hub/migrate.go, api/migrate_ops.go),
\* as long as no removal goes unwatched and the records agree with the routes.
THEOREM NewestStays == Spec => []NewestKept
<1>1. Init => TypeInv /\ MoveInv /\ KeptInv
  BY TypeInit, MoveInit, KeptInit
<1>2. TypeInv /\ MoveInv /\ KeptInv /\ [Next]_vars => TypeInv' /\ MoveInv' /\ KeptInv'
  BY TypeStep, MoveStep, KeptStep
<1>3. TypeInv /\ KeptInv => NewestKept
  BY Zenon DEF KeptInv, RoutedInv, NewestKept
<1>4. QED
  BY <1>1, <1>2, <1>3, PTL DEF Spec
=============================================================================
