------------------------- MODULE HostInstallProofs -------------------------
(***************************************************************************)
(* Proofs about HostInstall for any hosts, requests, slots and bounds: the *)
(* slots are as many as the installs at work, and with one request at a    *)
(* time a host that is being installed has somebody who will end that.     *)
(***************************************************************************)
EXTENDS HostInstall, FiniteSetTheorems, TLAPS

Holders == {j \in Job : pc[j] \in Holding}

\* What the steps of a runner rely on: it exists only while the row of its job
\* says "running", and it has an entry.
RunnersRight ==
  /\ \A j \in Job : pc[j] # "none" => job[j].state = "running" /\ held[j] \in Entry
  /\ \A r \in Request : req[r].at = "started" => req[r].job \in Job
  /\ op.at = "stop" => op.entry \in Entry

IInv == TypeOK /\ SlotsRight /\ RunnersRight

Row == [host : Host, state : {"none", "queued", "running"} \cup Ended]
Asked == [at : {"idle", "checked", "started"}, host : Host, job : Job \cup {NoJob}]
Order == [at : {"idle", "stop", "write"}, host : Host, entry : Entry \cup {NoEntry}]
-----------------------------------------------------------------------------
(* Records and counting *)

LEMMA SomeHostType == SomeHost \in Host
BY ConstantsAssumption DEF SomeHost

LEMMA NothingType == NoRequest \in Asked /\ NoOp \in Order
BY SomeHostType DEF NoRequest, NoOp, Asked, Order

LEMMA EntryType == ASSUME NEW j \in Job, NEW by \in {"request", "runner"}
                   PROVE  [job |-> j, by |-> by] \in Entry
BY DEF Entry

LEMMA NoEntryApart == NoEntry \notin Entry
BY DEF NoEntry, Entry, Job, NoJob

LEMMA HoldersFinite == IsFiniteSet(Holders) /\ Cardinality(Holders) \in Nat
<1>1. IsFiniteSet(Job)
  BY FS_Interval, ConstantsAssumption DEF Job
<1>2. Holders \in SUBSET Job
  BY DEF Holders
<1>3. IsFiniteSet(Holders)
  BY <1>1, <1>2, FS_Subset
<1>4. QED
  BY <1>3, FS_CardinalityType

LEMMA SlotsCount == SlotsRight <=> slots = Cardinality(Holders)
BY DEF SlotsRight, Holders

\* A step from one place of an install to another needs no slot and frees none.
LEMMA SameHolders ==
  ASSUME TypeOK, NEW j \in Job, NEW to \in Place, pc' = [pc EXCEPT ![j] = to],
         pc[j] \in Holding <=> to \in Holding
  PROVE  Holders' = Holders
BY DEF TypeOK, Holders

LEMMA OneMore ==
  ASSUME IInv, NEW j \in Job, NEW to \in Holding, pc[j] \notin Holding,
         pc' = [pc EXCEPT ![j] = to], slots' = slots + 1
  PROVE  SlotsRight'
<1>1. Holders' = Holders \cup {j} /\ j \notin Holders
  BY DEF IInv, TypeOK, Holders
<1>2. Cardinality(Holders \cup {j}) = Cardinality(Holders) + 1
  BY <1>1, HoldersFinite, FS_AddElement
<1>3. slots' = Cardinality(Holders')
  BY <1>1, <1>2, SlotsCount DEF IInv
<1>4. QED
  BY <1>3 DEF SlotsRight, Holders

LEMMA OneLess ==
  ASSUME IInv, NEW j \in Job, NEW to \in Place \ Holding, pc[j] \in Holding,
         pc' = [pc EXCEPT ![j] = to], slots' = slots - 1
  PROVE  SlotsRight' /\ slots' \in 0..Slots
<1>1. Holders' = Holders \ {j} /\ j \in Holders
  BY DEF IInv, TypeOK, Holders
<1>2. Cardinality(Holders \ {j}) = Cardinality(Holders) - 1
  BY <1>1, HoldersFinite, FS_RemoveElement
<1>3. slots' = Cardinality(Holders')
  BY <1>1, <1>2, SlotsCount DEF IInv
<1>4. IsFiniteSet(Holders \ {j})
  BY HoldersFinite, FS_RemoveElement
<1>5. Cardinality(Holders \ {j}) \in Nat
  BY <1>4, FS_CardinalityType
<1>6. slots' \in 0..Slots
  BY <1>1, <1>3, <1>5, ConstantsAssumption DEF IInv, TypeOK
<1>7. QED
  BY <1>3, <1>6 DEF SlotsRight, Holders

LEMMA SlotsKept ==
  ASSUME SlotsRight, Holders' = Holders, slots' = slots
  PROVE  SlotsRight'
BY DEF SlotsRight, Holders

LEMMA InitInv == Init => IInv
<1> SUFFICES ASSUME Init PROVE IInv
  OBVIOUS
<1> USE ConstantsAssumption DEF Init
<1>1. job \in [Job -> Row] /\ req \in [Request -> Asked] /\ op \in Order
  BY SomeHostType, NothingType DEF Row
<1>2. TypeOK
  BY <1>1 DEF TypeOK, Row, Asked, Order, Place
<1>3. SlotsRight
  <2>1. Holders = {}
    BY DEF Holders, Holding
  <2>2. QED
    BY <2>1, FS_EmptySet, SlotsCount
<1>4. RunnersRight
  BY DEF RunnersRight, NoRequest, NoOp
<1>5. QED
  BY <1>2, <1>3, <1>4 DEF IInv
-----------------------------------------------------------------------------
(* The steps *)

LEMMA RequestStep ==
  ASSUME IInv, NEW r \in Request,
         (\E h \in Host : Check(r, h)) \/ Refuse(r) \/ StartJob(r) \/ MakeEntry(r)
  PROVE  IInv'
<1>1. UNCHANGED <<status, done, pc, held, ctxDone, ok, slots, op, bounds>>
  BY DEF Check, Refuse, StartJob, MakeEntry
<1>2. SlotsRight'
  <2>1. Holders' = Holders
    BY <1>1 DEF Holders
  <2>2. QED
    BY <1>1, <2>1, SlotsKept DEF IInv
<1>3. req \in [Request -> Asked] /\ job \in [Job -> Row] /\ entry \in [Host -> Entry \cup {NoEntry}]
  BY DEF IInv, TypeOK, Asked, Row
<1>4. req' \in [Request -> Asked] /\ job' \in [Job -> Row]
      /\ entry' \in [Host -> Entry \cup {NoEntry}] /\ RunnersRight'
  <2>1. CASE \E h \in Host : Check(r, h)
    <3>1. PICK h \in Host : Check(r, h)
      BY <2>1
    <3>2. [at |-> "checked", host |-> h, job |-> NoJob] \in Asked
      BY DEF Asked
    <3>3. QED
      BY <1>1, <1>3, <3>1, <3>2 DEF Check, IInv, RunnersRight
  <2>2. CASE Refuse(r)
    BY <1>1, <1>3, <2>2, NothingType DEF Refuse, IInv, RunnersRight, NoRequest
  <2>3. CASE StartJob(r)
    <3>1. PICK j \in Job :
            /\ \A k \in Job : k < j <=> job[k].state # "none"
            /\ job' = [job EXCEPT ![j] = [host |-> req[r].host, state |-> "queued"]]
            /\ req' = [req EXCEPT ![r].at = "started", ![r].job = j]
      BY <2>3 DEF StartJob
    <3>2. [host |-> req[r].host, state |-> "queued"] \in Row
      BY <1>3 DEF Asked, Row
    <3>3. job' \in [Job -> Row]
      BY <1>3, <3>1, <3>2
    <3>4. [req[r] EXCEPT !.at = "started", !.job = j] \in Asked
      BY <1>3 DEF Asked
    <3>5. req' = [req EXCEPT ![r] = [req[r] EXCEPT !.at = "started", !.job = j]]
      BY <1>3, <3>1 DEF Asked
    <3>6. req' \in [Request -> Asked] /\ req'[r].job = j
      BY <1>3, <3>4, <3>5 DEF Asked
    <3>7. job[j].state = "none"
      BY <3>1 DEF Job
    <3>8. \A k \in Job : pc'[k] # "none" => job'[k].state = "running" /\ held'[k] \in Entry
      BY <1>1, <1>3, <3>1, <3>7 DEF IInv, RunnersRight
    <3>9. \A q \in Request : req'[q].at = "started" => req'[q].job \in Job
      BY <1>3, <3>5, <3>6 DEF IInv, RunnersRight
    <3>10. entry' = entry /\ op' = op
      BY <2>3 DEF StartJob
    <3>11. RunnersRight'
      BY <3>8, <3>9, <3>10 DEF IInv, RunnersRight
    <3>12. QED
      BY <1>3, <3>3, <3>6, <3>10, <3>11
  <2>4. CASE MakeEntry(r)
    <3>1. req[r].job \in Job /\ req[r].host \in Host
      BY <1>3, <2>4 DEF MakeEntry, IInv, RunnersRight, Asked
    <3>2. [job |-> req[r].job, by |-> "request"] \in Entry
      BY <3>1, EntryType
    <3>3. entry' \in [Host -> Entry \cup {NoEntry}]
      BY <1>3, <2>4, <3>1, <3>2 DEF MakeEntry
    <3>4. req' \in [Request -> Asked] /\ job' = job
      BY <1>3, <2>4, NothingType DEF MakeEntry
    <3>5. RunnersRight'
      BY <1>1, <1>3, <2>4, <3>4 DEF MakeEntry, IInv, RunnersRight, NoRequest
    <3>6. QED
      BY <1>3, <3>3, <3>4, <3>5
  <2>5. QED
    BY <2>1, <2>2, <2>3, <2>4
<1>5. TypeOK'
  BY <1>1, <1>4 DEF IInv, TypeOK, Asked, Row, bounds
<1>6. QED
  BY <1>2, <1>4, <1>5 DEF IInv

\* What every step inside an install has in common.
LEMMA InsideStep ==
  ASSUME IInv, NEW j \in Job, pc[j] # "none", NEW to \in Place,
         pc' = [pc EXCEPT ![j] = to], SameRest,
         pc[j] \in Holding <=> to \in Holding, slots' = slots,
         status' \in [Host -> {"new", "installing", "online", "error"}],
         done' \subseteq Entry, ok' \subseteq Job
  PROVE  IInv'
<1>1. Holders' = Holders
  BY SameHolders DEF IInv
<1>2. SlotsRight'
  BY <1>1, SlotsKept DEF IInv
<1>3. pc' \in [Job -> Place]
  BY DEF IInv, TypeOK
<1>4. TypeOK'
  BY <1>3 DEF IInv, TypeOK, SameRest, bounds
<1>5. RunnersRight'
  BY DEF IInv, TypeOK, RunnersRight, SameRest
<1>6. QED
  BY <1>2, <1>4, <1>5 DEF IInv

LEMMA StatusWritten ==
  ASSUME TypeOK, NEW h \in Host, NEW word \in {"installing", "online", "error"},
         status' = [status EXCEPT ![h] = word]
  PROVE  status' \in [Host -> {"new", "installing", "online", "error"}]
BY DEF TypeOK

LEMMA HostOfJob == ASSUME TypeOK, NEW j \in Job PROVE job[j].host \in Host
BY DEF TypeOK

LEMMA RunStep ==
  ASSUME IInv, NEW j \in Job, Run(j)
  PROVE  IInv'
<1> DEFINE h == job[j].host
           mine == IF entry[h].job = j THEN entry[h] ELSE [job |-> j, by |-> "runner"]
<1>1. h \in Host /\ pc[j] = "none"
  BY HostOfJob DEF IInv, Run, RunnersRight
<1>2. mine \in Entry
  <2>1. entry[h] \in Entry \cup {NoEntry}
    BY <1>1 DEF IInv, TypeOK
  <2>2. entry[h].job = j => entry[h] \in Entry
    BY <2>1, ConstantsAssumption DEF NoEntry, Job, NoJob
  <2>3. QED
    BY <2>2, EntryType
<1>3. /\ job' = [job EXCEPT ![j].state = "running"] /\ pc' = [pc EXCEPT ![j] = "slot"]
      /\ held' = [held EXCEPT ![j] = mine] /\ entry' = [entry EXCEPT ![h] = mine]
      /\ UNCHANGED <<status, done, ok, slots, req, op, bounds>>
  BY DEF Run
<1>4. ctxDone' \subseteq Job
  <2>1. entry[h] \in Entry => entry[h].job \in Job
    BY DEF Entry
  <2>2. entry[h] \in Entry \cup {NoEntry}
    BY <1>1 DEF IInv, TypeOK
  <2>3. CancelNow(entry[h]) \subseteq Job
    BY <2>1, <2>2 DEF CancelNow
  <2>4. QED
    BY <2>3 DEF Run, IInv, TypeOK
<1> HIDE DEF h, mine
<1>5. SlotsRight'
  <2>1. Holders' = Holders
    BY <1>1, <1>3, SameHolders DEF IInv, Place, Holding
  <2>2. QED
    BY <1>3, <2>1, SlotsKept DEF IInv
<1>6. TypeOK'
  <2>1. [job[j] EXCEPT !.state = "running"] \in Row
    BY DEF IInv, TypeOK, Row
  <2>2. job' \in [Job -> Row]
    BY <1>3, <2>1 DEF IInv, TypeOK, Row
  <2>3. pc' \in [Job -> Place] /\ held' \in [Job -> Entry \cup {NoEntry}]
        /\ entry' \in [Host -> Entry \cup {NoEntry}]
    BY <1>1, <1>2, <1>3 DEF IInv, TypeOK, Place
  <2>4. QED
    BY <1>3, <1>4, <2>2, <2>3 DEF IInv, TypeOK, Row, bounds
<1>7. RunnersRight'
  <2>1. job'[j].state = "running" /\ held'[j] \in Entry
    BY <1>2, <1>3 DEF IInv, TypeOK
  <2>2. \A k \in Job \ {j} : pc'[k] = pc[k] /\ job'[k] = job[k] /\ held'[k] = held[k]
    BY <1>3 DEF IInv, TypeOK
  <2>3. QED
    BY <1>3, <2>1, <2>2 DEF IInv, RunnersRight
<1>8. QED
  BY <1>5, <1>6, <1>7 DEF IInv

LEMMA AcquireStep ==
  ASSUME IInv, NEW j \in Job, Acquire(j)
  PROVE  IInv'
<1>1. pc[j] = "slot" /\ held[j] \in Entry
  BY DEF Acquire, Step, IInv, RunnersRight
<1>2. CASE Step(j, "slot", "begin") /\ slots < Slots /\ slots' = slots + 1 /\ UNCHANGED done
  <2>1. SlotsRight'
    BY <1>1, <1>2, OneMore DEF Step, Holding
  <2>2. slots' \in 0..Slots
    BY <1>2, ConstantsAssumption DEF IInv, TypeOK
  <2>3. pc' \in [Job -> Place]
    BY <1>2 DEF IInv, TypeOK, Step, Place, Holding
  <2>4. TypeOK'
    BY <1>2, <2>2, <2>3 DEF IInv, TypeOK, Acquire, SameRest, bounds
  <2>5. RunnersRight'
    BY <1>1, <1>2 DEF IInv, TypeOK, RunnersRight, Acquire, SameRest, Step
  <2>6. QED
    BY <2>1, <2>4, <2>5 DEF IInv
<1>3. CASE Step(j, "slot", "end") /\ done' = done \cup {held[j]} /\ UNCHANGED slots
  <2>1. SameRest /\ UNCHANGED <<status, ok>> /\ pc' = [pc EXCEPT ![j] = "end"]
    BY <1>3 DEF Acquire, Step
  <2>2. status' \in [Host -> {"new", "installing", "online", "error"}] /\ ok' \subseteq Job
        /\ done' \subseteq Entry
    BY <1>1, <1>3, <2>1 DEF IInv, TypeOK
  <2>3. QED
    BY <1>1, <1>3, <2>1, <2>2, InsideStep DEF Place, Holding
<1>4. QED
  BY <1>2, <1>3 DEF Acquire

LEMMA ReleaseStep ==
  ASSUME IInv, NEW j \in Job, Release(j)
  PROVE  IInv'
<1>1. pc[j] = "release" /\ held[j] \in Entry /\ pc' = [pc EXCEPT ![j] = "end"]
      /\ slots' = slots - 1 /\ done' = done \cup {held[j]} /\ SameRest /\ UNCHANGED <<status, ok>>
  BY DEF Release, Step, IInv, RunnersRight
<1>2. SlotsRight' /\ slots' \in 0..Slots
  BY <1>1, OneLess DEF Place, Holding
<1>3. pc' \in [Job -> Place]
  BY <1>1 DEF IInv, TypeOK, Place
<1>4. TypeOK'
  BY <1>1, <1>2, <1>3 DEF IInv, TypeOK, SameRest, bounds
<1>5. RunnersRight'
  BY <1>1 DEF IInv, TypeOK, RunnersRight, SameRest
<1>6. QED
  BY <1>2, <1>4, <1>5 DEF IInv

LEMMA EndStep ==
  ASSUME IInv, NEW j \in Job, End(j)
  PROVE  IInv'
<1> DEFINE word == IF j \in ok THEN "succeeded" ELSE "failed"
<1>1. /\ pc[j] = "end" /\ pc' = [pc EXCEPT ![j] = "none"]
      /\ job' = [job EXCEPT ![j].state = word] /\ held' = [held EXCEPT ![j] = NoEntry]
      /\ ctxDone' = ctxDone \ {j} /\ ok' = ok \ {j}
      /\ UNCHANGED <<status, entry, done, slots, req, op, bounds>>
  BY DEF End, Step
<1>2. word \in Ended
  BY DEF Ended
<1> HIDE DEF word
<1>3. SlotsRight'
  <2>1. Holders' = Holders
    BY <1>1, SameHolders DEF IInv, Place, Holding
  <2>2. QED
    BY <1>1, <2>1, SlotsKept DEF IInv
<1>4. TypeOK'
  <2>1. [job[j] EXCEPT !.state = word] \in Row
    BY <1>2 DEF IInv, TypeOK, Row
  <2>2. job' \in [Job -> Row]
    BY <1>1, <2>1 DEF IInv, TypeOK, Row
  <2>3. pc' \in [Job -> Place] /\ held' \in [Job -> Entry \cup {NoEntry}]
    BY <1>1 DEF IInv, TypeOK, Place
  <2>4. QED
    BY <1>1, <2>2, <2>3 DEF IInv, TypeOK, Row, bounds
<1>5. RunnersRight'
  <2>1. pc'[j] = "none"
    BY <1>1 DEF IInv, TypeOK
  <2>2. \A k \in Job \ {j} : pc'[k] = pc[k] /\ job'[k] = job[k] /\ held'[k] = held[k]
    BY <1>1 DEF IInv, TypeOK
  <2>3. QED
    BY <1>1, <2>1, <2>2 DEF IInv, RunnersRight
<1>6. QED
  BY <1>3, <1>4, <1>5 DEF IInv

LEMMA InstallStep ==
  ASSUME IInv, NEW j \in Job,
         Begin(j) \/ Mark(j) \/ Work(j) \/ Failing(j) \/ FailMark(j) \/ Close(j) \/ Online(j)
  PROVE  IInv'
<1>1. SameRest /\ slots' = slots /\ done' = done
  BY DEF Begin, Mark, Work, Failing, FailMark, Close, Online
<1>2. done' \subseteq Entry
  BY <1>1 DEF IInv, TypeOK
<1>3. ok' \subseteq Job
  BY DEF Begin, Mark, Work, Failing, FailMark, Close, Online, IInv, TypeOK
<1>4. status' \in [Host -> {"new", "installing", "online", "error"}]
  <2>1. status' = status \/ \E word \in {"installing", "online", "error"} :
                              status' = [status EXCEPT ![job[j].host] = word]
    BY DEF Begin, Mark, Work, Failing, FailMark, Close, Online
  <2>2. QED
    BY <2>1, HostOfJob, StatusWritten DEF IInv, TypeOK
<1>5. \E to \in Holding : pc[j] \in Holding /\ pc' = [pc EXCEPT ![j] = to]
  BY DEF Begin, Mark, Work, Failing, FailMark, Close, Online, Step, Holding
<1>6. PICK to \in Holding : pc[j] \in Holding /\ pc' = [pc EXCEPT ![j] = to]
  BY <1>5
<1>7. pc[j] # "none" /\ to \in Place
  BY <1>6 DEF Holding, Place
<1>8. QED
  BY <1>1, <1>2, <1>3, <1>4, <1>6, <1>7, InsideStep

LEMMA RunnerStepInv ==
  ASSUME IInv, NEW j \in Job, RunnerStep(j)
  PROVE  IInv'
BY RunStep, AcquireStep, InstallStep, ReleaseStep, EndStep DEF RunnerStep

LEMMA CancelJobType ==
  ASSUME IInv, NEW j \in Job, CancelJob(j), UNCHANGED <<pc, held>>
  PROVE  /\ job' \in [Job -> Row] /\ ctxDone' \subseteq Job
         /\ \A k \in Job : pc'[k] # "none" => job'[k].state = "running" /\ held'[k] \in Entry
<1>1. CASE job[j].state = "queued"
  <2>1. job' = [job EXCEPT ![j].state = "canceled"] /\ ctxDone' = ctxDone
    BY <1>1 DEF CancelJob
  <2>2. [job[j] EXCEPT !.state = "canceled"] \in Row
    <3>1. job[j] \in Row /\ "canceled" \in Ended
      BY DEF IInv, TypeOK, Row, Ended
    <3>2. QED
      BY <3>1 DEF Row
  <2>3. job' \in [Job -> Row]
    BY <2>1, <2>2 DEF IInv, TypeOK, Row
  <2>4. pc[j] = "none"
    BY <1>1 DEF IInv, RunnersRight
  <2>5. \A k \in Job \ {j} : job'[k] = job[k]
    BY <2>1 DEF IInv, TypeOK
  <2>6. QED
    BY <2>1, <2>3, <2>4, <2>5 DEF IInv, TypeOK, RunnersRight
<1>2. CASE job[j].state # "queued"
  BY <1>2 DEF CancelJob, IInv, TypeOK, RunnersRight, Row
<1>3. QED
  BY <1>1, <1>2

LEMMA OperatorStep ==
  ASSUME IInv,
         (\E h \in Host : CancelInstall(h)) \/ CancelStop \/ CancelWrite \/ (\E j \in Job : Abort(j))
  PROVE  IInv'
<1>1. UNCHANGED <<entry, pc, held, ok, slots, req, restarts>>
  BY DEF CancelInstall, CancelStop, CancelWrite, Abort, bounds
<1>2. SlotsRight'
  <2>1. Holders' = Holders
    BY <1>1 DEF Holders
  <2>2. QED
    BY <1>1, <2>1, SlotsKept DEF IInv
<1>3. op \in Order /\ job \in [Job -> Row] /\ entry \in [Host -> Entry \cup {NoEntry}]
  BY DEF IInv, TypeOK, Order, Row
<1>4. CASE \E h \in Host : CancelInstall(h)
  <2>1. PICK h \in Host : CancelInstall(h)
    BY <1>4
  <2>2. op' \in Order /\ (op'.at = "stop" => op'.entry \in Entry)
    <3>1. Active(h) => entry[h] \in Entry
      BY <1>3 DEF Active
    <3>2. [at |-> "write", host |-> h, entry |-> NoEntry] \in Order
      BY DEF Order
    <3>3. entry[h] \in Entry => [at |-> "stop", host |-> h, entry |-> entry[h]] \in Order
      BY DEF Order
    <3>4. QED
      BY <2>1, <3>1, <3>2, <3>3 DEF CancelInstall
  <2>3. canceled' \in 0..MaxCancels /\ UNCHANGED <<status, job, done, ctxDone, aborted>>
    BY <2>1, ConstantsAssumption DEF CancelInstall, IInv, TypeOK
  <2>4. TypeOK'
    BY <1>1, <2>2, <2>3 DEF IInv, TypeOK, Order
  <2>5. RunnersRight'
    BY <1>1, <2>2, <2>3 DEF IInv, RunnersRight
  <2>6. QED
    BY <1>2, <2>4, <2>5 DEF IInv
<1>5. CASE CancelStop
  <2>1. op.entry \in Entry /\ op.entry.job \in Job
    BY <1>5 DEF CancelStop, IInv, RunnersRight, Entry
  <2>2. /\ job' \in [Job -> Row] /\ ctxDone' \subseteq Job
        /\ \A k \in Job : pc'[k] # "none" => job'[k].state = "running" /\ held'[k] \in Entry
    BY <1>1, <1>5, <2>1, CancelJobType DEF CancelStop
  <2>3. op' \in Order /\ op'.at = "write" /\ done' \subseteq Entry
    BY <1>3, <1>5, <2>1 DEF CancelStop, Order, IInv, TypeOK
  <2>4. TypeOK'
    BY <1>1, <1>5, <2>2, <2>3 DEF CancelStop, IInv, TypeOK, Order, Row, bounds
  <2>5. RunnersRight'
    BY <1>1, <2>2, <2>3 DEF IInv, RunnersRight
  <2>6. QED
    BY <1>2, <2>4, <2>5 DEF IInv
<1>6. CASE CancelWrite
  <2>1. op' \in Order /\ op'.at = "idle"
    BY <1>6, NothingType DEF CancelWrite, NoOp
  <2>2. op.host \in Host
    BY <1>3 DEF Order
  <2>3. status' \in [Host -> {"new", "installing", "online", "error"}]
    BY <1>6, <2>2, StatusWritten DEF CancelWrite, IInv
  <2>4. TypeOK'
    BY <1>1, <1>6, <2>1, <2>3 DEF CancelWrite, IInv, TypeOK, Order, bounds
  <2>5. RunnersRight'
    BY <1>1, <1>6, <2>1 DEF CancelWrite, IInv, RunnersRight
  <2>6. QED
    BY <1>2, <2>4, <2>5 DEF IInv
<1>7. CASE \E j \in Job : Abort(j)
  <2>1. PICK j \in Job : Abort(j)
    BY <1>7
  <2>2. /\ job' \in [Job -> Row] /\ ctxDone' \subseteq Job
        /\ \A k \in Job : pc'[k] # "none" => job'[k].state = "running" /\ held'[k] \in Entry
    BY <1>1, <2>1, CancelJobType DEF Abort
  <2>3. aborted' \subseteq Job
    BY <2>1 DEF Abort, IInv, TypeOK
  <2>4. TypeOK'
    BY <1>1, <2>1, <2>2, <2>3 DEF Abort, IInv, TypeOK, Row
  <2>5. RunnersRight'
    BY <1>1, <2>1, <2>2 DEF Abort, IInv, RunnersRight
  <2>6. QED
    BY <1>2, <2>4, <2>5 DEF IInv
<1>8. QED
  BY <1>4, <1>5, <1>6, <1>7

LEMMA RestartStep ==
  ASSUME IInv, Restart
  PROVE  IInv'
<1>1. Holders' = {} /\ slots' = 0
  BY DEF Restart, Holders, Holding
<1>2. SlotsRight'
  BY <1>1, FS_EmptySet DEF SlotsRight, Holders
<1>3. job' \in [Job -> Row]
  <2>1. \A j \in Job : job[j] \in Row /\ [job[j] EXCEPT !.state = "interrupted"] \in Row
    BY DEF IInv, TypeOK, Row, Ended
  <2>2. QED
    BY <2>1 DEF Restart
<1>4. req' \in [Request -> Asked] /\ op' \in Order
  BY NothingType DEF Restart
<1>5. status' \in [Host -> {"new", "installing", "online", "error"}]
  BY DEF Restart, ResetStuckInstalls, IInv, TypeOK
<1>6. restarts' \in 0..MaxRestarts /\ canceled' = canceled /\ aborted' = aborted
  BY ConstantsAssumption DEF Restart, IInv, TypeOK
<1>7. TypeOK'
  BY <1>1, <1>3, <1>4, <1>5, <1>6, ConstantsAssumption
     DEF Restart, IInv, TypeOK, Row, Asked, Order, Place
<1>8. RunnersRight'
  BY DEF Restart, RunnersRight, NoRequest, NoOp
<1>9. QED
  BY <1>2, <1>7, <1>8 DEF IInv
-----------------------------------------------------------------------------
(* The theorems *)

LEMMA StepInv == IInv /\ [Next]_vars => IInv'
<1> SUFFICES ASSUME IInv, [Next]_vars PROVE IInv'
  OBVIOUS
<1>1. CASE UNCHANGED vars
  <2>1. Holders' = Holders
    BY <1>1 DEF vars, memory, Holders
  <2>2. QED
    BY <1>1, <2>1, SlotsKept DEF vars, memory, bounds, IInv, TypeOK, RunnersRight
<1>2. CASE Next
  BY <1>2, RequestStep, RunnerStepInv, OperatorStep, RestartStep DEF Next
<1>3. QED
  BY <1>1, <1>2

LEMMA Invariance == Spec => []IInv
BY InitInv, StepInv, PTL DEF Spec

\* Every variable keeps its type: at no time are more than Slots slots taken,
\* however many hosts are updated and whatever is canceled.
THEOREM TypeCorrect == Spec => []TypeOK
<1>1. IInv => TypeOK
  BY DEF IInv
<1>2. QED
  BY <1>1, Invariance, PTL

\* The slots taken are those of the installs that work: none is lost or given
\* back twice (acquireInstallSlot, releaseInstallSlot).
THEOREM SlotsAreRight == Spec => []SlotsRight
<1>1. IInv => SlotsRight
  BY DEF IInv
<1>2. QED
  BY <1>1, Invariance, PTL
-----------------------------------------------------------------------------
(* One request at a time: who writes the status of a host *)

Queued(k) == job[k].state = "queued"
\* The runner of a job that may still write, unless it is superseded.
Working(k) == pc[k] \notin {"none", "end"} /\ k \notin ctxDone
\* A runner that has marked its host and will write again.
Writer(k) == pc[k] \in {"work", "failing", "failmark", "close", "online"} /\ k \notin ctxDone

\* Entries and orders are of jobs that were started, on the host they stand for;
\* an entry that is done is of a job that does not wait; the first job of a host
\* is the one that runs.
EntriesInv ==
  /\ \A h \in Host : entry[h] # NoEntry =>
       job[entry[h].job].host = h /\ job[entry[h].job].state # "none"
  /\ op.at = "stop" =>
       job[op.entry.job].host = op.host /\ job[op.entry.job].state # "none"
  /\ \A e \in done : job[e.job].state \notin {"none", "queued"}
  /\ \A k \in Job : /\ held[k] # NoEntry => held[k].job = k /\ pc[k] # "none"
                    /\ job[k].state = "running" => \A i \in Unfinished(job[k].host) : k <= i
  /\ \A r \in Request : req[r].at = "started" =>
       job[req[r].job].host = req[r].host /\ job[req[r].job].state # "none"
  /\ \A k \in aborted : job[k].state # "none"

Lone == \A r, s \in Request : r = s

\* The entry of a host is that of the job that runs there, or waits there.
CurrentInv ==
  \A k \in Job :
    /\ Working(k) => entry[job[k].host] = held[k] /\ held[k] \notin done
    /\ Queued(k) =>
         \/ Active(job[k].host) /\ entry[job[k].host].job = k
         \/ \E r \in Request : req[r].at = "started" /\ req[r].job = k

\* While a request is between its check and its entry, the host has no other job.
CheckedInv ==
  \A r \in Request : req[r].at # "idle" =>
    \A k \in Job : job[k].host = req[r].host /\ (req[r].at = "started" => k # req[r].job)
      => ~Queued(k) /\ ~Working(k)

MarkInv ==
  \A h \in Host : status[h] = "installing" =>
    \/ op.at # "idle" /\ op.host = h
    \/ \E j \in aborted : job[j].host = h
    \/ \E j \in Job : job[j].host = h /\ Writer(j)

LoneInv == EntriesInv /\ (Lone => CurrentInv /\ CheckedInv /\ MarkInv)

\* What the proofs below use of the types.
LEMMA Typed ==
  ASSUME IInv
  PROVE  /\ \A k \in Job : job[k].host \in Host /\ k \in Nat /\ held[k] \in Entry \cup {NoEntry}
         /\ \A h \in Host : entry[h] \in Entry \cup {NoEntry}
         /\ \A e \in Entry : e.job \in Job /\ e # NoEntry
         /\ done \subseteq Entry /\ aborted \subseteq Job
         /\ \A k \in Job : pc[k] # "none" => job[k].state = "running" /\ held[k] \in Entry
         /\ op.at = "stop" => op.entry \in Entry
         /\ \A r \in Request : req[r].at = "started" => req[r].job \in Job
<1>1. \A k \in Job : job[k].host \in Host /\ k \in Nat /\ held[k] \in Entry \cup {NoEntry}
  BY DEF IInv, TypeOK, Job
<1>2. \A e \in Entry : e.job \in Job /\ e # NoEntry
  BY NoEntryApart DEF Entry
<1>3. /\ \A h \in Host : entry[h] \in Entry \cup {NoEntry}
      /\ done \subseteq Entry /\ aborted \subseteq Job
  BY DEF IInv, TypeOK
<1>4. /\ \A k \in Job : pc[k] # "none" => job[k].state = "running" /\ held[k] \in Entry
      /\ op.at = "stop" => op.entry \in Entry
      /\ \A r \in Request : req[r].at = "started" => req[r].job \in Job
  BY DEF IInv, RunnersRight
<1>5. QED
  BY <1>1, <1>2, <1>3, <1>4

\* A step after which no job is queued or at work that was not before, and what
\* became done is not of such a job.
LEMMA CurrentKept ==
  ASSUME IInv, CurrentInv, UNCHANGED <<entry, req>>,
         \A k \in Job : /\ job'[k].host = job[k].host
                        /\ Queued(k)' => Queued(k)
                        /\ Working(k)' => Working(k) /\ held'[k] = held[k],
         \A e \in done' : e \in done \/ (~Queued(e.job)' /\ ~Working(e.job)'),
         EntriesInv
  PROVE  CurrentInv'
<1>1. ASSUME NEW k \in Job, Working(k)'
      PROVE  entry'[job'[k].host] = held'[k] /\ held'[k] \notin done'
  <2>1. entry[job[k].host] = held[k] /\ held[k] \notin done /\ held[k].job = k
    BY <1>1, Typed DEF CurrentInv, EntriesInv, Working
  <2>2. QED
    BY <1>1, <2>1
<1>2. ASSUME NEW k \in Job, Queued(k)'
      PROVE  \/ Active(job[k].host)' /\ entry'[job'[k].host].job = k
             \/ \E r \in Request : req'[r].at = "started" /\ req'[r].job = k
  <2>1. CASE Active(job[k].host) /\ entry[job[k].host].job = k
    <3>1. entry[job[k].host] \notin done'
      BY <1>2, <2>1 DEF Active
    <3>2. QED
      BY <2>1, <3>1 DEF Active
  <2>2. CASE \E r \in Request : req[r].at = "started" /\ req[r].job = k
    BY <2>2
  <2>3. QED
    BY <1>2, <2>1, <2>2 DEF CurrentInv
<1>3. QED
  BY <1>1, <1>2 DEF CurrentInv, Active

LEMMA CheckedKept ==
  ASSUME CheckedInv, UNCHANGED req,
         \A k \in Job : /\ job'[k].host = job[k].host
                        /\ Queued(k)' => Queued(k)
                        /\ Working(k)' => Working(k)
  PROVE  CheckedInv'
BY DEF CheckedInv

LEMMA LoneInit == Init => LoneInv
BY DEF Init, LoneInv, EntriesInv, CurrentInv, CheckedInv, MarkInv, Working, Queued, NoOp,
       NoRequest
-----------------------------------------------------------------------------
(* Steps of a runner *)

InsideRun(j) ==
  \/ Acquire(j) \/ Begin(j) \/ Mark(j) \/ Work(j) \/ Failing(j) \/ FailMark(j)
  \/ Close(j) \/ Online(j) \/ Release(j)

\* Inside an install only its own place changes, and it is done when it ends.
LEMMA InsideKeeps ==
  ASSUME IInv, NEW j \in Job, InsideRun(j)
  PROVE  /\ SameRest /\ pc[j] \notin {"none", "end"}
         /\ \A k \in Job \ {j} : pc'[k] = pc[k]
         /\ pc'[j] # "none" /\ held[j] \in Entry /\ job[j].state = "running"
         /\ done' = done \/ (done' = done \cup {held[j]} /\ pc'[j] = "end")
<1>1. SameRest
  BY DEF InsideRun, Acquire, Begin, Mark, Work, Failing, FailMark, Close, Online, Release
<1>2. \E from \in Place \ {"none", "end"}, to \in Place \ {"none"} :
        Step(j, from, to) /\ (done' = done \/ (done' = done \cup {held[j]} /\ to = "end"))
  <2>1. CASE Acquire(j)
    BY <2>1 DEF Acquire, Place, Holding
  <2>2. CASE Release(j)
    BY <2>2 DEF Release, Place, Holding
  <2>3. CASE Begin(j) \/ Mark(j) \/ Work(j) \/ Failing(j) \/ FailMark(j) \/ Close(j) \/ Online(j)
    BY <2>3 DEF Begin, Mark, Work, Failing, FailMark, Close, Online, Place, Holding
  <2>4. QED
    BY <2>1, <2>2, <2>3 DEF InsideRun
<1>3. QED
  BY <1>1, <1>2, Typed DEF Step, IInv, TypeOK

LEMMA InsideEntries ==
  ASSUME IInv, EntriesInv, NEW j \in Job, InsideRun(j)
  PROVE  EntriesInv'
<1>1. /\ UNCHANGED <<job, entry, held, req, op, aborted>> /\ pc'[j] # "none"
      /\ \A k \in Job \ {j} : pc'[k] = pc[k]
      /\ \A e \in done' : e \in done \/ e = held[j]
      /\ held[j] \in Entry /\ job[j].state = "running"
  BY InsideKeeps DEF SameRest, bounds
<1>2. held[j].job = j
  BY <1>1, NoEntryApart DEF EntriesInv
<1>3. \A e \in done' : job[e.job].state \notin {"none", "queued"}
  BY <1>1, <1>2 DEF EntriesInv
<1>4. QED
  BY <1>1, <1>3 DEF EntriesInv, Unfinished

\* Nobody stops being the one that will write without having written.
LEMMA InsideMark ==
  ASSUME IInv, EntriesInv, CurrentInv, MarkInv, NEW j \in Job, InsideRun(j)
  PROVE  MarkInv'
<1> DEFINE hj == job[j].host
<1>1. /\ UNCHANGED <<job, entry, held, ctxDone, req, op, aborted>>
      /\ \A k \in Job \ {j} : pc'[k] = pc[k]
  BY InsideKeeps DEF SameRest, bounds
<1>2. \A k \in Job \ {j} : Writer(k) => Writer(k)'
  BY <1>1 DEF Writer
<1>3. Writer(j) => Current(j)
  BY DEF Writer, Working, CurrentInv, Current
<1>4. CASE status' = status /\ (Writer(j) => Writer(j)')
  BY <1>1, <1>2, <1>4 DEF MarkInv
<1>5. CASE status' = [status EXCEPT ![hj] = "installing"] /\ Writer(j)'
  <2>1. \A h \in Host : status'[h] = "installing" => h = hj \/ status[h] = "installing"
    BY <1>5 DEF IInv, TypeOK
  <2>2. \A h \in Host : h # hj => \A k \in Job : job[k].host = h /\ Writer(k) => Writer(k)'
    BY <1>2
  <2>3. QED
    BY <1>1, <1>5, <2>1, <2>2 DEF MarkInv
<1>6. CASE \E word \in {"online", "error"} : status' = [status EXCEPT ![hj] = word]
  <2>1. \A h \in Host : status'[h] = "installing" => h # hj /\ status[h] = "installing"
    BY <1>6 DEF IInv, TypeOK
  <2>2. \A h \in Host : h # hj => \A k \in Job : job[k].host = h /\ Writer(k) => Writer(k)'
    BY <1>2
  <2>3. QED
    BY <1>1, <2>1, <2>2 DEF MarkInv
<1>7. \/ status' = status /\ (Writer(j) => Writer(j)')
      \/ status' = [status EXCEPT ![hj] = "installing"] /\ Writer(j)'
      \/ \E word \in {"online", "error"} : status' = [status EXCEPT ![hj] = word]
  <2>1. CASE Acquire(j) \/ Release(j)
    BY <2>1 DEF Acquire, Release, Step, Writer
  <2>2. CASE Begin(j)
    BY <2>2 DEF Begin, Step, Writer
  <2>3. CASE Mark(j)
    BY <1>1, <2>3 DEF Mark, Step, Writer, IInv, TypeOK
  <2>4. CASE Work(j)
    BY <1>1, <2>4 DEF Work, Step, Writer, IInv, TypeOK
  <2>5. CASE Failing(j)
    BY <1>1, <1>3, <2>5 DEF Failing, Step, Writer, IInv, TypeOK
  <2>6. CASE FailMark(j)
    <3>1. CASE j \in ctxDone
      BY <2>6, <3>1 DEF FailMark, Writer
    <3>2. CASE j \notin ctxDone
      BY <2>6, <3>2 DEF FailMark
    <3>3. QED
      BY <3>1, <3>2
  <2>7. CASE Close(j)
    BY <1>1, <1>3, <2>7 DEF Close, Step, Writer, IInv, TypeOK
  <2>8. CASE Online(j)
    BY <1>1, <2>8 DEF Online, Step, Writer
  <2>9. QED
    BY <2>1, <2>2, <2>3, <2>4, <2>5, <2>6, <2>7, <2>8 DEF InsideRun
<1>8. QED
  BY <1>4, <1>5, <1>6, <1>7

LEMMA InsideLone ==
  ASSUME IInv, LoneInv, NEW j \in Job, InsideRun(j)
  PROVE  LoneInv'
<1>1. EntriesInv'
  BY InsideEntries DEF LoneInv
<1> SUFFICES ASSUME Lone PROVE CurrentInv' /\ CheckedInv' /\ MarkInv'
  BY <1>1 DEF LoneInv
<1>2. EntriesInv /\ CurrentInv /\ CheckedInv /\ MarkInv
  BY DEF LoneInv
<1>3. UNCHANGED <<job, entry, held, ctxDone, req>>
  BY InsideKeeps DEF SameRest
<1>4. \A k \in Job : (Queued(k)' => Queued(k)) /\ (Working(k)' => Working(k))
  BY <1>3, InsideKeeps DEF Queued, Working
<1>5. held[j].job = j /\ job[j].state = "running"
  BY <1>2, InsideKeeps, NoEntryApart DEF EntriesInv
<1>6. \A e \in done' : e \in done \/ (~Queued(e.job)' /\ ~Working(e.job)')
  BY <1>3, <1>5, InsideKeeps DEF Queued, Working
<1>7. CurrentInv'
  BY <1>2, <1>3, <1>4, <1>6, CurrentKept
<1>8. CheckedInv'
  BY <1>2, <1>3, <1>4, CheckedKept
<1>9. QED
  BY <1>2, <1>7, <1>8, InsideMark

\* The job that begins is the only one of its host that runs: nobody is superseded.
LEMMA RunAlone ==
  ASSUME IInv, EntriesInv, NEW j \in Job, Run(j)
  PROVE  /\ \A k \in Job : job[k].host = job[j].host => job[k].state # "running"
         /\ ctxDone' = ctxDone
<1>1. ASSUME NEW k \in Job, job[k].host = job[j].host, job[k].state = "running" PROVE FALSE
  <2>1. j \in Unfinished(job[k].host) /\ k \in Unfinished(job[j].host)
    BY <1>1 DEF Run, Unfinished
  <2>2. k <= j /\ j <= k
    BY <1>1, <2>1 DEF Run, EntriesInv
  <2>3. k = j
    BY <2>2, Typed
  <2>4. QED
    BY <1>1, <2>3 DEF Run
<1>2. CancelNow(entry[job[j].host]) = {}
  <2>1. SUFFICES ASSUME entry[job[j].host] # NoEntry,
                        held[entry[job[j].host].job] = entry[job[j].host]
                 PROVE  FALSE
    BY DEF CancelNow
  <2> DEFINE k == entry[job[j].host].job
  <2>2. k \in Job /\ job[k].host = job[j].host
    BY <2>1, Typed DEF EntriesInv
  <2>3. job[k].state = "running"
    BY <2>1, <2>2, Typed DEF EntriesInv
  <2>4. QED
    BY <1>1, <2>2, <2>3
<1>3. ctxDone' = ctxDone
  BY <1>2 DEF Run
<1>4. QED
  BY <1>1, <1>3

LEMMA RunLone ==
  ASSUME IInv, LoneInv, NEW j \in Job, Run(j)
  PROVE  LoneInv'
<1> DEFINE h == job[j].host
           mine == IF entry[h].job = j THEN entry[h] ELSE [job |-> j, by |-> "runner"]
<1>1. /\ job[j].state = "queued" /\ \A k \in Unfinished(h) : j <= k
      /\ job' = [job EXCEPT ![j].state = "running"] /\ pc' = [pc EXCEPT ![j] = "slot"]
      /\ held' = [held EXCEPT ![j] = mine] /\ entry' = [entry EXCEPT ![h] = mine]
      /\ ctxDone' = ctxDone
      /\ UNCHANGED <<status, done, ok, slots, req, op, bounds>>
  BY RunAlone DEF Run, LoneInv
<1>2. EntriesInv /\ h \in Host
  BY Typed DEF LoneInv
<1>3. mine.job = j /\ mine # NoEntry
  <2>1. entry[h] \in Entry \cup {NoEntry} /\ NoEntry.job \notin Job
    BY <1>2, Typed DEF NoEntry, Job, NoJob
  <2>2. [job |-> j, by |-> "runner"] # NoEntry
    BY DEF NoEntry, Job, NoJob
  <2>3. QED
    BY <2>1, <2>2
<1>4. mine \notin done
  BY <1>1, <1>2, <1>3 DEF EntriesInv
<1> HIDE DEF mine
<1> HIDE DEF h
<1>5. \A k \in Job : job'[k].host = job[k].host
                     /\ job'[k].state = (IF k = j THEN "running" ELSE job[k].state)
                     /\ held'[k] = (IF k = j THEN mine ELSE held[k])
                     /\ pc'[k] = (IF k = j THEN "slot" ELSE pc[k])
  <2>1. \A k \in Job : job'[k].host = job[k].host
                       /\ job'[k].state = (IF k = j THEN "running" ELSE job[k].state)
    BY <1>1 DEF IInv, TypeOK
  <2>2. \A k \in Job : held'[k] = (IF k = j THEN mine ELSE held[k])
                       /\ pc'[k] = (IF k = j THEN "slot" ELSE pc[k])
    BY <1>1 DEF IInv, TypeOK
  <2>3. QED
    BY <2>1, <2>2
<1>6. \A g \in Host : entry'[g] = IF g = h THEN mine ELSE entry[g]
  BY <1>1 DEF IInv, TypeOK
<1>7. EntriesInv'
  <2>1. \A g \in Host : entry'[g] # NoEntry =>
          job'[entry'[g].job].host = g /\ job'[entry'[g].job].state # "none"
    <3> SUFFICES ASSUME NEW g \in Host, entry'[g] # NoEntry
                 PROVE  job'[entry'[g].job].host = g /\ job'[entry'[g].job].state # "none"
      OBVIOUS
    <3>1. CASE g = h
      BY <1>3, <1>5, <1>6, <3>1 DEF h
    <3>2. CASE g # h
      <4>1. entry'[g] = entry[g]
        BY <1>6, <3>2
      <4>2. entry[g].job \in Job
        BY <4>1, Typed
      <4>3. QED
        BY <1>2, <1>5, <4>1, <4>2 DEF EntriesInv
    <3>3. QED
      BY <3>1, <3>2
  <2>2. op'.at = "stop" =>
          job'[op'.entry.job].host = op'.host /\ job'[op'.entry.job].state # "none"
    BY <1>1, <1>2, <1>5, Typed DEF EntriesInv
  <2>3. \A e \in done' : job'[e.job].state \notin {"none", "queued"}
    BY <1>1, <1>2, <1>5, Typed DEF EntriesInv
  <2>4. \A k \in Job : held'[k] # NoEntry => held'[k].job = k /\ pc'[k] # "none"
    BY <1>2, <1>3, <1>5 DEF EntriesInv
  <2>5. ASSUME NEW k \in Job, job'[k].state = "running", NEW i \in Unfinished(job[k].host)'
        PROVE  k <= i
    <3>1. i \in Unfinished(job[k].host)
      BY <1>1, <1>5, <2>5 DEF Unfinished
    <3>2. QED
      BY <1>1, <1>2, <1>5, <2>5, <3>1 DEF EntriesInv, h
  <2>6. \A r \in Request : req'[r].at = "started" =>
          job'[req'[r].job].host = req'[r].host /\ job'[req'[r].job].state # "none"
    BY <1>1, <1>2, <1>5, Typed DEF EntriesInv
  <2>7. \A k \in aborted' : job'[k].state # "none"
    BY <1>1, <1>2, <1>5, Typed DEF EntriesInv, bounds
  <2>8. QED
    BY <1>5, <2>1, <2>2, <2>3, <2>4, <2>5, <2>6, <2>7 DEF EntriesInv
<1> SUFFICES ASSUME Lone PROVE CurrentInv' /\ CheckedInv' /\ MarkInv'
  BY <1>7 DEF LoneInv
<1>8. CurrentInv /\ CheckedInv /\ MarkInv
  BY DEF LoneInv
<1>9. CurrentInv'
  <2>1. ASSUME NEW k \in Job, Working(k)'
        PROVE  entry'[job'[k].host] = held'[k] /\ held'[k] \notin done'
    <3>1. CASE k = j
      BY <1>1, <1>2, <1>4, <1>5, <1>6, <3>1 DEF h
    <3>2. CASE k # j
      <4>1. Working(k) /\ job[k].state = "running"
        BY <1>1, <1>5, <2>1, <3>2, Typed DEF Working
      <4>2. job[k].host # h
        BY <1>2, <4>1, RunAlone DEF h
      <4>3. QED
        BY <1>1, <1>5, <1>6, <1>8, <3>2, <4>1, <4>2, Typed DEF CurrentInv
    <3>3. QED
      BY <3>1, <3>2
  <2>2. ASSUME NEW k \in Job, Queued(k)'
        PROVE  \/ Active(job[k].host)' /\ entry'[job'[k].host].job = k
               \/ \E r \in Request : req'[r].at = "started" /\ req'[r].job = k
    <3>0. job'[k].host = job[k].host /\ job[k].host \in Host
      BY <1>5, Typed
    <3>1. Queued(k) /\ k # j /\ Queued(j)
      BY <1>1, <1>5, <2>2 DEF Queued
    <3>2. CASE job[k].host # h
      <4>1. entry'[job'[k].host] = entry[job[k].host] /\ done' = done /\ req' = req
        BY <1>1, <1>6, <3>0, <3>2
      <4>2. QED
        BY <1>8, <3>1, <4>1 DEF CurrentInv, Active
    <3>3. CASE job[k].host = h
      <4>1. SUFFICES ASSUME entry[h].job = k
                     PROVE  \E r \in Request : req'[r].at = "started" /\ req'[r].job = k
        BY <1>1, <1>8, <3>1, <3>3 DEF CurrentInv
      <4>2. PICK r \in Request : req[r].at = "started" /\ req[r].job = j
        BY <1>8, <3>1, <4>1 DEF CurrentInv, h
      <4>3. req[r].host = h
        BY <1>2, <4>2 DEF EntriesInv, h
      <4>4. FALSE
        BY <1>8, <3>1, <3>3, <4>2, <4>3 DEF CheckedInv
      <4>5. QED
        BY <4>4
    <3>4. QED
      BY <3>2, <3>3
  <2>3. QED
    BY <2>1, <2>2 DEF CurrentInv, Active
<1>10. CheckedInv'
  <2> SUFFICES ASSUME NEW r \in Request, req'[r].at # "idle", NEW k \in Job,
                      job'[k].host = req'[r].host, req'[r].at = "started" => k # req'[r].job
               PROVE  ~Queued(k)' /\ ~Working(k)'
    BY DEF CheckedInv
  <2>1. ~Queued(k) /\ ~Working(k)
    BY <1>1, <1>5, <1>8 DEF CheckedInv
  <2>2. k # j
    BY <1>1, <2>1 DEF Queued
  <2>3. QED
    BY <1>1, <1>5, <2>1, <2>2 DEF Queued, Working
<1>11. MarkInv'
  <2>1. \A k \in Job : Writer(k) => Writer(k)'
    <3>1. pc[j] = "none"
      BY <1>1, Typed
    <3>2. QED
      BY <1>1, <1>5, <3>1 DEF Writer
  <2>2. QED
    BY <1>1, <1>5, <1>8, <2>1, Typed DEF MarkInv, bounds
<1>12. QED
  BY <1>9, <1>10, <1>11

LEMMA EndLone ==
  ASSUME IInv, LoneInv, NEW j \in Job, End(j)
  PROVE  LoneInv'
<1> DEFINE word == IF j \in ok THEN "succeeded" ELSE "failed"
<1>1. /\ pc[j] = "end" /\ pc' = [pc EXCEPT ![j] = "none"]
      /\ job' = [job EXCEPT ![j].state = word] /\ held' = [held EXCEPT ![j] = NoEntry]
      /\ ctxDone' = ctxDone \ {j}
      /\ UNCHANGED <<status, entry, done, req, op, aborted>>
      /\ word \in {"succeeded", "failed"}
  BY DEF End, Step, bounds
<1> HIDE DEF word
<1>2. EntriesInv /\ job[j].state = "running"
  BY <1>1, Typed DEF LoneInv
<1>3. \A k \in Job : job'[k].host = job[k].host
                     /\ job'[k].state = (IF k = j THEN word ELSE job[k].state)
                     /\ held'[k] = (IF k = j THEN NoEntry ELSE held[k])
                     /\ pc'[k] = (IF k = j THEN "none" ELSE pc[k])
  BY <1>1 DEF IInv, TypeOK
<1>4. EntriesInv'
  <2>1. \A k \in Job : Unfinished(job[k].host)' \subseteq Unfinished(job[k].host)
    BY <1>1, <1>3 DEF Unfinished
  <2>2. \A k \in Job : job'[k].state = "running" => \A i \in Unfinished(job[k].host)' : k <= i
    BY <1>1, <1>2, <1>3, <2>1 DEF EntriesInv
  <2>3. \A k \in Job : held'[k] # NoEntry => held'[k].job = k /\ pc'[k] # "none"
    BY <1>2, <1>3 DEF EntriesInv
  <2>4. \A k \in Job : (job[k].state # "none" => job'[k].state # "none")
                       /\ (job[k].state # "queued" => job'[k].state # "queued")
    BY <1>1, <1>3
  <2>5. QED
    BY <1>1, <1>2, <1>3, <2>2, <2>3, <2>4, Typed DEF EntriesInv, Unfinished
<1> SUFFICES ASSUME Lone PROVE CurrentInv' /\ CheckedInv' /\ MarkInv'
  BY <1>4 DEF LoneInv
<1>5. CurrentInv /\ CheckedInv /\ MarkInv
  BY DEF LoneInv
<1>6. \A k \in Job : /\ Queued(k)' => Queued(k)
                     /\ Working(k)' => Working(k) /\ held'[k] = held[k]
                     /\ Writer(k) => Writer(k)'
  BY <1>1, <1>3 DEF Queued, Working, Writer
<1>7. CurrentInv'
  BY <1>1, <1>2, <1>3, <1>5, <1>6, CurrentKept
<1>8. CheckedInv'
  BY <1>1, <1>3, <1>5, <1>6, CheckedKept
<1>9. MarkInv'
  BY <1>1, <1>3, <1>5, <1>6, Typed DEF MarkInv
<1>10. QED
  BY <1>7, <1>8, <1>9
-----------------------------------------------------------------------------
(* Steps of a request *)

LEMMA CheckLone ==
  ASSUME IInv, LoneInv, NEW r \in Request, NEW h \in Host, Check(r, h)
  PROVE  LoneInv'
<1>1. /\ req[r].at = "idle" /\ ~Active(h)
      /\ UNCHANGED <<status, job, entry, done, pc, held, ctxDone, op, aborted>>
      /\ req'[r].at = "checked" /\ req'[r].host = h
      /\ \A s \in Request \ {r} : req'[s] = req[s]
  BY DEF Check, IInv, TypeOK, bounds
<1>2. EntriesInv'
  BY <1>1 DEF LoneInv, EntriesInv, Unfinished
<1> SUFFICES ASSUME Lone PROVE CurrentInv' /\ CheckedInv' /\ MarkInv'
  BY <1>2 DEF LoneInv
<1>3. CurrentInv /\ CheckedInv /\ MarkInv /\ EntriesInv
  BY DEF LoneInv
<1>4. CurrentInv'
  BY <1>1, <1>3 DEF CurrentInv, Active, Working, Queued
<1>5. ASSUME NEW k \in Job, job[k].host = h PROVE ~Queued(k) /\ ~Working(k)
  <2>1. ~Queued(k)
    BY <1>1, <1>3, <1>5 DEF CurrentInv, Lone
  <2>2. ~Working(k)
    BY <1>1, <1>3, <1>5, Typed DEF CurrentInv, Active, Working
  <2>3. QED
    BY <2>1, <2>2
<1>6. CheckedInv'
  BY <1>1, <1>3, <1>5 DEF CheckedInv, Queued, Working
<1>7. MarkInv'
  BY <1>1, <1>3 DEF MarkInv, Writer
<1>8. QED
  BY <1>4, <1>6, <1>7

LEMMA RefuseLone ==
  ASSUME IInv, LoneInv, NEW r \in Request, Refuse(r)
  PROVE  LoneInv'
<1>1. /\ req[r].at = "checked" /\ req'[r].at = "idle"
      /\ UNCHANGED <<status, job, entry, done, pc, held, ctxDone, op, aborted>>
      /\ \A s \in Request \ {r} : req'[s] = req[s]
  BY DEF Refuse, IInv, TypeOK, bounds, NoRequest
<1>2. EntriesInv'
  BY <1>1 DEF LoneInv, EntriesInv, Unfinished
<1>3. Lone => CurrentInv' /\ CheckedInv' /\ MarkInv'
  BY <1>1 DEF LoneInv, CurrentInv, CheckedInv, MarkInv, Active, Working, Queued, Writer
<1>4. QED
  BY <1>2, <1>3 DEF LoneInv, Lone

LEMMA StartLone ==
  ASSUME IInv, LoneInv, NEW r \in Request, StartJob(r)
  PROVE  LoneInv'
<1>1. PICK j \in Job :
        /\ \A k \in Job : k < j <=> job[k].state # "none"
        /\ job' = [job EXCEPT ![j] = [host |-> req[r].host, state |-> "queued"]]
        /\ req' = [req EXCEPT ![r].at = "started", ![r].job = j]
  BY DEF StartJob
<1>2. /\ req[r].at = "checked" /\ job[j].state = "none" /\ req[r].host \in Host
      /\ UNCHANGED <<status, entry, done, pc, held, ctxDone, op, aborted>>
  BY <1>1 DEF StartJob, bounds, Job, IInv, TypeOK
<1>3. /\ job'[j].host = req[r].host /\ job'[j].state = "queued"
      /\ \A k \in Job \ {j} : job'[k] = job[k]
  BY <1>1 DEF IInv, TypeOK
<1>4. /\ req'[r].at = "started" /\ req'[r].job = j /\ req'[r].host = req[r].host
      /\ \A s \in Request \ {r} : req'[s] = req[s]
  BY <1>1 DEF IInv, TypeOK
<1>5. EntriesInv /\ pc[j] = "none"
  BY <1>2, Typed DEF LoneInv
<1>6. EntriesInv'
  <2>1. \A g \in Host : entry'[g] # NoEntry =>
          job'[entry'[g].job].host = g /\ job'[entry'[g].job].state # "none"
    BY <1>2, <1>3, <1>5, Typed DEF EntriesInv
  <2>2. op'.at = "stop" =>
          job'[op'.entry.job].host = op'.host /\ job'[op'.entry.job].state # "none"
    BY <1>2, <1>3, <1>5, Typed DEF EntriesInv
  <2>3. \A e \in done' : job'[e.job].state \notin {"none", "queued"}
    BY <1>2, <1>3, <1>5, Typed DEF EntriesInv
  <2>4. \A k \in Job : held'[k] # NoEntry => held'[k].job = k /\ pc'[k] # "none"
    BY <1>2, <1>5 DEF EntriesInv
  <2>5. ASSUME NEW k \in Job, job'[k].state = "running", NEW i \in Unfinished(job[k].host)'
        PROVE  k <= i
    <3>1. k # j /\ job[k].state = "running"
      BY <1>3, <2>5
    <3>2. CASE i = j
      BY <1>1, <3>1, <3>2, Typed DEF Job
    <3>3. CASE i # j
      <4>1. i \in Unfinished(job[k].host)
        BY <1>3, <2>5, <3>1, <3>3 DEF Unfinished
      <4>2. QED
        BY <1>5, <3>1, <4>1 DEF EntriesInv
    <3>4. QED
      BY <3>2, <3>3
  <2>7. \A s \in Request : req'[s].at = "started" =>
          job'[req'[s].job].host = req'[s].host /\ job'[req'[s].job].state # "none"
    BY <1>2, <1>3, <1>4, <1>5, Typed DEF EntriesInv
  <2>8. \A k \in aborted' : job'[k].state # "none"
    BY <1>2, <1>3, <1>5, Typed DEF EntriesInv
  <2>9. QED
    BY <2>1, <2>2, <2>3, <2>4, <2>5, <2>7, <2>8 DEF EntriesInv
<1> SUFFICES ASSUME Lone PROVE CurrentInv' /\ CheckedInv' /\ MarkInv'
  BY <1>6 DEF LoneInv
<1>7. CurrentInv /\ CheckedInv /\ MarkInv
  BY DEF LoneInv
<1>8. \A k \in Job \ {j} : /\ Queued(k)' <=> Queued(k)
                           /\ Working(k)' <=> Working(k)
                           /\ Writer(k)' <=> Writer(k)
  BY <1>2, <1>3 DEF Queued, Working, Writer
<1>9. ~Working(j)' /\ ~Writer(j)
  BY <1>2, <1>5 DEF Working, Writer
<1>10. CurrentInv'
  <2>1. ASSUME NEW k \in Job, Working(k)'
        PROVE  entry'[job'[k].host] = held'[k] /\ held'[k] \notin done'
    <3>1. k # j
      BY <1>9, <2>1
    <3>2. QED
      BY <1>2, <1>3, <1>7, <1>8, <2>1, <3>1 DEF CurrentInv
  <2>2. ASSUME NEW k \in Job, Queued(k)'
        PROVE  \/ Active(job[k].host)' /\ entry'[job'[k].host].job = k
               \/ \E s \in Request : req'[s].at = "started" /\ req'[s].job = k
    <3>1. CASE k = j
      BY <1>4, <3>1
    <3>2. CASE k # j
      BY <1>2, <1>3, <1>4, <1>7, <1>8, <2>2, <3>2 DEF CurrentInv, Active
    <3>3. QED
      BY <3>1, <3>2
  <2>3. QED
    BY <2>1, <2>2 DEF CurrentInv
<1>11. CheckedInv'
  BY <1>2, <1>3, <1>4, <1>7, <1>8 DEF CheckedInv, Lone
<1>12. MarkInv'
  <2>1. \A k \in aborted : job'[k].host = job[k].host
    BY <1>2, <1>3, <1>5, Typed DEF EntriesInv
  <2>2. QED
    BY <1>2, <1>3, <1>7, <1>8, <1>9, <2>1 DEF MarkInv
<1>13. QED
  BY <1>10, <1>11, <1>12

LEMMA EntryLone ==
  ASSUME IInv, LoneInv, NEW r \in Request, MakeEntry(r)
  PROVE  LoneInv'
<1> DEFINE h == req[r].host
           j == req[r].job
           new == [job |-> j, by |-> "request"]
<1>1. /\ req[r].at = "started" /\ j \in Job /\ job[j].host = h /\ job[j].state # "none"
      /\ UNCHANGED <<status, job, done, pc, held, ctxDone, op, aborted>>
      /\ req'[r].at = "idle" /\ \A s \in Request \ {r} : req'[s] = req[s]
      /\ h \in Host
  <2>1. j \in Job
    BY Typed DEF MakeEntry
  <2>2. /\ req[r].at = "started" /\ UNCHANGED <<status, job, done, pc, held, ctxDone, op, aborted>>
        /\ req' = [req EXCEPT ![r] = NoRequest]
    BY DEF MakeEntry, bounds
  <2>3. job[j].host = h /\ job[j].state # "none"
    BY <2>2 DEF LoneInv, EntriesInv
  <2>4. req'[r].at = "idle" /\ \A s \in Request \ {r} : req'[s] = req[s]
    BY <2>2 DEF IInv, TypeOK, NoRequest
  <2>5. QED
    BY <2>1, <2>2, <2>3, <2>4, Typed
<1>2. entry' = IF Active(h) /\ entry[h].job = j THEN entry ELSE [entry EXCEPT ![h] = new]
  BY DEF MakeEntry
<1>3. new.job = j
  OBVIOUS
<1> HIDE DEF h, j, new
<1>4. /\ \A g \in Host \ {h} : entry'[g] = entry[g]
      /\ entry'[h] = (IF Active(h) /\ entry[h].job = j THEN entry[h] ELSE new)
  BY <1>1, <1>2 DEF IInv, TypeOK
<1>5. EntriesInv
  BY DEF LoneInv
<1>6. EntriesInv'
  <2>1. \A g \in Host : entry'[g] # NoEntry =>
          job'[entry'[g].job].host = g /\ job'[entry'[g].job].state # "none"
    BY <1>1, <1>3, <1>4, <1>5 DEF EntriesInv
  <2>2. QED
    BY <1>1, <1>5, <2>1 DEF EntriesInv, Unfinished
<1> SUFFICES ASSUME Lone PROVE CurrentInv' /\ CheckedInv' /\ MarkInv'
  BY <1>6 DEF LoneInv
<1>7. CurrentInv /\ CheckedInv /\ MarkInv
  BY DEF LoneInv
<1>8. \A k \in Job : /\ Queued(k)' <=> Queued(k)
                     /\ Working(k)' <=> Working(k)
                     /\ Writer(k)' <=> Writer(k)
  BY <1>1 DEF Queued, Working, Writer
<1>9. \A k \in Job : job[k].host = h /\ (Queued(k) \/ Working(k)) => k = j
  BY <1>1, <1>7 DEF CheckedInv, h, j
<1>10. CurrentInv'
  <2>1. ASSUME NEW k \in Job, Working(k)
        PROVE  entry'[job[k].host] = held[k] /\ held[k] \notin done
    <3>1. entry[job[k].host] = held[k] /\ held[k] \notin done /\ held[k].job = k /\ held[k] # NoEntry
      BY <1>5, <1>7, <2>1, Typed DEF CurrentInv, EntriesInv, Working
    <3>2. CASE job[k].host = h
      BY <1>4, <1>9, <2>1, <3>1, <3>2 DEF Active
    <3>3. CASE job[k].host # h
      BY <1>4, <3>1, <3>3, Typed
    <3>4. QED
      BY <3>1, <3>2, <3>3
  <2>2. ASSUME NEW k \in Job, Queued(k)
        PROVE  \/ Active(job[k].host)' /\ entry'[job'[k].host].job = k
               \/ \E s \in Request : req'[s].at = "started" /\ req'[s].job = k
    <3>1. CASE job[k].host = h
      <4>1. k = j
        BY <1>9, <2>2, <3>1
      <4>2. CASE Active(h) /\ entry[h].job = j
        BY <1>1, <1>4, <3>1, <4>1, <4>2 DEF Active
      <4>3. CASE ~(Active(h) /\ entry[h].job = j)
        <5>1. entry'[h] = new /\ new # NoEntry
          BY <1>1, <1>3, <1>4, <4>3, Typed DEF NoEntry, Job, NoJob
        <5>2. new \notin done
          BY <1>3, <1>5, <2>2, <4>1 DEF EntriesInv, Queued
        <5>3. QED
          BY <1>1, <1>3, <3>1, <4>1, <5>1, <5>2 DEF Active
      <4>4. QED
        BY <4>2, <4>3
    <3>2. CASE job[k].host # h
      <4>1. entry'[job[k].host] = entry[job[k].host]
        BY <1>4, <3>2, Typed
      <4>2. CASE Active(job[k].host) /\ entry[job[k].host].job = k
        BY <1>1, <4>1, <4>2 DEF Active
      <4>3. CASE \E s \in Request : req[s].at = "started" /\ req[s].job = k
        BY <1>1, <3>2, <4>3 DEF j
      <4>4. QED
        BY <1>7, <2>2, <4>2, <4>3 DEF CurrentInv
    <3>3. QED
      BY <3>1, <3>2
  <2>3. QED
    BY <1>1, <1>8, <2>1, <2>2 DEF CurrentInv
<1>11. CheckedInv'
  BY <1>1, <1>7, <1>8 DEF CheckedInv
<1>12. MarkInv'
  BY <1>1, <1>7, <1>8 DEF MarkInv
<1>13. QED
  BY <1>10, <1>11, <1>12
-----------------------------------------------------------------------------
(* Cancelations, aborts, restarts *)

\* A canceled job neither waits nor writes again.
LEMMA CancelEffect ==
  ASSUME IInv, NEW j \in Job, CancelJob(j), pc' = pc
  PROVE  /\ \A k \in Job : /\ job'[k].host = job[k].host
                           /\ job[k].state # "none" => job'[k].state # "none"
                           /\ job[k].state # "queued" => job'[k].state = job[k].state
                           /\ job'[k].state = "queued" => job[k].state = "queued"
                           /\ job'[k].state \in {"running", "queued"} => job'[k].state = job[k].state
         /\ \A k \in Job : (Queued(k)' => Queued(k)) /\ (Working(k)' => Working(k))
         /\ ~Queued(j)' /\ ~Working(j)'
         /\ \A k \in Job \ {j} : Writer(k) => Writer(k)'
<1>1. CASE job[j].state = "queued"
  <2>1. job' = [job EXCEPT ![j].state = "canceled"] /\ ctxDone' = ctxDone /\ pc[j] = "none"
    BY <1>1, Typed DEF CancelJob
  <2>2. job'[j].state = "canceled" /\ job'[j].host = job[j].host
        /\ \A k \in Job \ {j} : job'[k] = job[k]
    BY <2>1 DEF IInv, TypeOK
  <2>3. QED
    BY <1>1, <2>1, <2>2 DEF Queued, Working, Writer
<1>2. CASE job[j].state # "queued"
  <2>1. /\ job' = job
        /\ ctxDone' = IF job[j].state = "running" THEN ctxDone \cup {j} ELSE ctxDone
    BY <1>2 DEF CancelJob
  <2>2. job[j].state # "running" => pc[j] = "none"
    BY Typed
  <2>3. QED
    BY <1>2, <2>1, <2>2 DEF Queued, Working, Writer
<1>3. QED
  BY <1>1, <1>2

LEMMA UnfinishedLess ==
  ASSUME EntriesInv,
         \A k \in Job : /\ job'[k].host = job[k].host
                        /\ job'[k].state \in {"running", "queued"} => job'[k].state = job[k].state
  PROVE  \A k \in Job : job'[k].state = "running" => \A i \in Unfinished(job[k].host)' : k <= i
<1> SUFFICES ASSUME NEW k \in Job, job'[k].state = "running", NEW i \in Unfinished(job[k].host)'
             PROVE  k <= i
  BY DEF Unfinished
<1>1. i \in Job /\ job'[i].host = job'[k].host /\ job'[i].state \in {"queued", "running"}
  BY DEF Unfinished
<1>2. i \in Unfinished(job[k].host) /\ job[k].state = "running"
  BY <1>1 DEF Unfinished
<1>3. QED
  BY <1>2 DEF EntriesInv

LEMMA InstallLone ==
  ASSUME IInv, LoneInv, NEW h \in Host, CancelInstall(h)
  PROVE  LoneInv'
<1>1. /\ op.at = "idle"
      /\ UNCHANGED <<status, job, entry, done, pc, held, ctxDone, req, aborted>>
      /\ op'.host = h /\ op'.at # "idle"
      /\ op'.at = "stop" => Active(h) /\ op'.entry = entry[h]
  BY DEF CancelInstall
<1>2. EntriesInv'
  BY <1>1 DEF LoneInv, EntriesInv, Unfinished, Active
<1>3. Lone => CurrentInv' /\ CheckedInv' /\ MarkInv'
  BY <1>1 DEF LoneInv, CurrentInv, CheckedInv, MarkInv, Active, Working, Queued, Writer
<1>4. QED
  BY <1>2, <1>3 DEF LoneInv, Lone

LEMMA StopLone ==
  ASSUME IInv, LoneInv, CancelStop
  PROVE  LoneInv'
<1>0. PICK j \in Job : j = op.entry.job
  BY Typed DEF CancelStop
<1>1. /\ op.at = "stop" /\ op.entry \in Entry
      /\ CancelJob(j) /\ done' = done \cup {op.entry}
      /\ UNCHANGED <<status, entry, pc, held, req, aborted>>
      /\ op'.at = "write" /\ op'.host = op.host
  BY <1>0, Typed DEF CancelStop, IInv, TypeOK, bounds
<1>2. EntriesInv /\ job[j].host = op.host /\ job[j].state # "none"
  BY <1>0, <1>1 DEF LoneInv, EntriesInv
<1>3. /\ \A k \in Job : /\ job'[k].host = job[k].host
                        /\ job[k].state # "none" => job'[k].state # "none"
                        /\ job[k].state # "queued" => job'[k].state = job[k].state
                        /\ job'[k].state \in {"running", "queued"} => job'[k].state = job[k].state
      /\ \A k \in Job : (Queued(k)' => Queued(k)) /\ (Working(k)' => Working(k))
      /\ ~Queued(j)' /\ ~Working(j)'
      /\ \A k \in Job \ {j} : Writer(k) => Writer(k)'
  <2>1. j \in Job /\ pc' = pc /\ CancelJob(j)
    BY <1>1
  <2>2. QED
    BY <2>1, CancelEffect
<1>4. \A e \in done' : e \in done \/ e.job = j
  BY <1>0, <1>1
<1>5. EntriesInv'
  <2>0. job'[j].state \notin {"none", "queued"}
    BY <1>1, <1>2, <1>3 DEF Queued
  <2>1. \A e \in done' : job'[e.job].state \notin {"none", "queued"}
    BY <1>2, <1>3, <1>4, <2>0, Typed DEF EntriesInv
  <2>2. \A k \in Job : job'[k].state = "running" => \A i \in Unfinished(job[k].host)' : k <= i
    BY <1>2, <1>3, UnfinishedLess
  <2>3. QED
    BY <1>1, <1>2, <1>3, <2>1, <2>2, Typed DEF EntriesInv, Unfinished
<1> SUFFICES ASSUME Lone PROVE CurrentInv' /\ CheckedInv' /\ MarkInv'
  BY <1>5 DEF LoneInv
<1>6. CurrentInv /\ CheckedInv /\ MarkInv
  BY DEF LoneInv
<1>7. CurrentInv'
  <2>1. \A e \in done' : e \in done \/ (~Queued(e.job)' /\ ~Working(e.job)')
    BY <1>3, <1>4
  <2>2. held' = held /\ entry' = entry /\ req' = req
    BY <1>1
  <2>3. QED
    BY <1>2, <1>3, <1>6, <2>1, <2>2, CurrentKept
<1>8. CheckedInv'
  <2>1. req' = req
    BY <1>1
  <2>2. QED
    BY <1>3, <1>6, <2>1, CheckedKept
<1>9. MarkInv'
  BY <1>1, <1>2, <1>3, <1>6, Typed DEF MarkInv
<1>10. QED
  BY <1>7, <1>8, <1>9

LEMMA WriteLone ==
  ASSUME IInv, LoneInv, CancelWrite
  PROVE  LoneInv'
<1>1. /\ status' = [status EXCEPT ![op.host] = "error"]
      /\ UNCHANGED <<job, entry, done, pc, held, ctxDone, req, aborted>>
      /\ op'.at = "idle"
  BY DEF CancelWrite, NoOp, bounds
<1>2. EntriesInv'
  BY <1>1 DEF LoneInv, EntriesInv, Unfinished
<1>3. \A g \in Host : status'[g] = "installing" => g # op.host /\ status[g] = "installing"
  BY <1>1 DEF IInv, TypeOK
<1>4. Lone => CurrentInv' /\ CheckedInv'
  BY <1>1 DEF LoneInv, CurrentInv, CheckedInv, Active, Working, Queued
<1>5. Lone => MarkInv'
  BY <1>1, <1>3 DEF LoneInv, MarkInv, Writer
<1>6. QED
  BY <1>2, <1>4, <1>5 DEF LoneInv, Lone

LEMMA AbortLone ==
  ASSUME IInv, LoneInv, NEW j \in Job, Abort(j)
  PROVE  LoneInv'
<1>1. /\ job[j].state \in {"queued", "running"} /\ aborted' = aborted \cup {j} /\ CancelJob(j)
      /\ UNCHANGED <<status, entry, done, pc, held, req, op>>
  BY DEF Abort
<1>2. EntriesInv
  BY DEF LoneInv
<1>3. /\ \A k \in Job : /\ job'[k].host = job[k].host
                        /\ job[k].state # "none" => job'[k].state # "none"
                        /\ job[k].state # "queued" => job'[k].state = job[k].state
                        /\ job'[k].state \in {"running", "queued"} => job'[k].state = job[k].state
      /\ \A k \in Job : (Queued(k)' => Queued(k)) /\ (Working(k)' => Working(k))
      /\ \A k \in Job \ {j} : Writer(k) => Writer(k)'
  BY <1>1, CancelEffect
<1>4. EntriesInv'
  <2>1. \A e \in done' : job'[e.job].state \notin {"none", "queued"}
    BY <1>1, <1>2, <1>3, Typed DEF EntriesInv
  <2>2. \A k \in Job : job'[k].state = "running" => \A i \in Unfinished(job[k].host)' : k <= i
    BY <1>2, <1>3, UnfinishedLess
  <2>3. QED
    BY <1>1, <1>2, <1>3, <2>1, <2>2, Typed DEF EntriesInv, Unfinished
<1> SUFFICES ASSUME Lone PROVE CurrentInv' /\ CheckedInv' /\ MarkInv'
  BY <1>4 DEF LoneInv
<1>5. CurrentInv /\ CheckedInv /\ MarkInv
  BY DEF LoneInv
<1>6. CurrentInv'
  BY <1>1, <1>2, <1>3, <1>5, CurrentKept
<1>7. CheckedInv'
  BY <1>1, <1>3, <1>5, CheckedKept
<1>8. MarkInv'
  BY <1>1, <1>3, <1>5, Typed DEF MarkInv
<1>9. QED
  BY <1>6, <1>7, <1>8

LEMMA RestartLone ==
  ASSUME IInv, LoneInv, Restart
  PROVE  LoneInv'
<1>1. /\ \A h \in Host : status'[h] # "installing" /\ entry'[h] = NoEntry
      /\ \A k \in Job : held'[k] = NoEntry /\ pc'[k] = "none"
      /\ done' = {} /\ aborted' = aborted
      /\ op'.at = "idle" /\ \A r \in Request : req'[r].at = "idle"
  BY DEF Restart, ResetStuckInstalls, NoOp, NoRequest
<1>2. \A k \in Job : job'[k].state \notin {"queued", "running"}
                     /\ (job[k].state # "none" => job'[k].state # "none")
  BY DEF Restart, IInv, TypeOK
<1>3. EntriesInv'
  BY <1>1, <1>2, Typed DEF LoneInv, EntriesInv
<1>4. CurrentInv' /\ CheckedInv' /\ MarkInv'
  BY <1>1, <1>2 DEF CurrentInv, CheckedInv, MarkInv, Queued, Working
<1>5. QED
  BY <1>3, <1>4 DEF LoneInv

LEMMA LoneStep ==
  ASSUME IInv, LoneInv, [Next]_vars
  PROVE  LoneInv'
<1>1. CASE UNCHANGED vars
  BY <1>1 DEF vars, memory, bounds, LoneInv, EntriesInv, CurrentInv, CheckedInv, MarkInv, Active,
              Unfinished, Working, Queued, Writer, Lone
<1>2. CASE Next
  <2>1. ASSUME NEW j \in Job, RunnerStep(j) PROVE LoneInv'
    BY <2>1, InsideLone, RunLone, EndLone DEF RunnerStep, InsideRun
  <2>2. ASSUME NEW r \in Request,
               (\E h \in Host : Check(r, h)) \/ Refuse(r) \/ StartJob(r) \/ MakeEntry(r)
        PROVE  LoneInv'
    BY <2>2, CheckLone, RefuseLone, StartLone, EntryLone
  <2>3. QED
    BY <1>2, <2>1, <2>2, InstallLone, StopLone, WriteLone, AbortLone, RestartLone DEF Next
<1>3. QED
  BY <1>1, <1>2

LEMMA LoneInvariance == Spec => [](IInv /\ LoneInv)
<1>1. Init => IInv /\ LoneInv
  BY InitInv, LoneInit
<1>2. IInv /\ LoneInv /\ [Next]_vars => (IInv /\ LoneInv)'
  BY StepInv, LoneStep
<1>3. QED
  BY <1>1, <1>2, PTL DEF Spec

\* With one request at a time, a host stays "installing" only while a job of it
\* is unfinished, its cancelation is under way, or after a job of it was aborted.
THEOREM InstallingEnds == Spec => []InstallingIsUnfinished
<1>1. IInv /\ LoneInv => InstallingIsUnfinished
  <2> SUFFICES ASSUME IInv, LoneInv, Lone, NEW h \in Host, status[h] = "installing"
               PROVE  \/ Unfinished(h) # {}
                      \/ op.at # "idle" /\ op.host = h
                      \/ \E j \in aborted : job[j].host = h
    BY DEF InstallingIsUnfinished, Lone
  <2>1. CASE \E j \in Job : job[j].host = h /\ Writer(j)
    <3>1. PICK j \in Job : job[j].host = h /\ Writer(j)
      BY <2>1
    <3>2. j \in Unfinished(h)
      BY <3>1, Typed DEF Writer, Unfinished
    <3>3. QED
      BY <3>2
  <2>2. QED
    BY <2>1 DEF LoneInv, MarkInv
<1>2. QED
  BY <1>1, LoneInvariance, PTL
=============================================================================
