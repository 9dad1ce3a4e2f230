---------------------------- MODULE UploadProofs ----------------------------
(***************************************************************************)
(* What Upload promises about archives and temporary files, for any number *)
(* of uploads, names and restarts.                                         *)
(***************************************************************************)
EXTENDS Upload, TLAPS

\* How far the request for the job, the job and the request with the file may
\* be apart.
BegunAt(u) ==
  /\ receiver[u] # "none" => handler[u] = "answered"
  /\ handler[u] \in {"no", "put"} => job[u] = "none"
  /\ handler[u] = "no" => u \notin transfers \cup shared
  /\ handler[u] \in {"put", "started"} => u \in transfers /\ u \notin bound
  /\ handler[u] = "started" => job[u] \in {"wait", "failed"}
BegunInv == \A u \in Upload : BegunAt(u)

\* A job at work has its session; a file that still comes has a session, or the
\* job has given it up, or it died with the service.
SessionAt(u) ==
  /\ job[u] \in {"watch", "stale", "work", "loaded"} => u \in transfers
  /\ u \in aborted => job[u] = "failed"
  /\ Receiving(u) => u \in transfers \cup aborted \/ restarts > 0
  /\ receiver[u] = "cut" => restarts > 0
  /\ job[u] \in {"work", "loaded"} => receiver[u] = "received"
  /\ job[u] = "work" => purpose[u] # "archive"
  /\ job[u] = "loaded" => purpose[u] = "load"
SessionInv == \A u \in Upload : SessionAt(u)

\* Where a request is that has made a temporary image and not removed it.
TempInv ==
  \A u \in temps :
    /\ purpose[u] = "image"
    /\ receiver[u] \in {"first", "second", "close", "undo", "saved", "received", "cut"}

\* An inode belongs to the upload that created it, and with it to one name; the
\* two paths of a name never lead to the same inode.
Made(i, n) ==
  i \in Upload /\ IsArchive(i) /\ name[i] = n /\ receiver[i] \notin {"none", "open"}
PathAt(n) ==
  /\ part[n] # Nobody => Made(part[n], n) /\ part[n] # final[n]
  /\ final[n] # Nobody => Made(final[n], n)
InodeInv ==
  /\ \A n \in Archive : PathAt(n)
  /\ \A u \in Upload : Writing(u) /\ IsArchive(u) => Made(fd[u], name[u])

\* Two uploads that use a name at the same time are known to have met.
InUse(u) == (u \in transfers \/ Receiving(u)) /\ IsArchive(u)
OverlapInv ==
  \A u, v \in Upload : u # v /\ InUse(u) /\ InUse(v) /\ name[u] = name[v] => u \in shared

\* An upload that met no other one of its name has its temporary file for itself,
\* and finds there what it wrote.
AloneAt(u) ==
  /\ Writing(u) => part[name[u]] = fd[u]
  /\ receiver[u] \in {"second", "close"} => bytes[fd[u]][1] = u
  /\ receiver[u] = "close" => bytes[fd[u]][2] = u
  /\ u \in transfers /\ receiver[u] \in {"saved", "received"} =>
       final[name[u]] # Nobody /\ bytes[final[name[u]]] = Whole(u)
  /\ job[u] = "loaded" => loaded[u] = Whole(u)
AloneInv == \A u \in Upload : IsArchive(u) /\ u \notin shared => AloneAt(u)

IInv == TypeOK /\ BegunInv /\ SessionInv /\ TempInv /\ InodeInv /\ OverlapInv

HandlerStep(u) ==
  (\E p \in Purpose, n \in Archive : Begin(u, p, n)) \/ StartJob(u) \/ Bind(u)
ReceiverStep(u) ==
  Receive(u) \/ Open(u) \/ Portion(u) \/ Break(u) \/ Publish(u) \/ Undo(u) \/ Finish(u)
JobStep(u) ==
  \/ Lookup(u) \/ GiveUp(u) \/ Done(u) \/ Cancel(u) \/ Tick(u) \/ Stall(u)
  \/ Load(u) \/ Loaded(u) \/ PutImage(u)
-----------------------------------------------------------------------------
(* Types *)

LEMMA EmptyType == Empty \in Portions
BY DEF Empty, Portions

LEMMA TypeInit == Init => TypeOK
<1> SUFFICES ASSUME Init PROVE TypeOK
  OBVIOUS
<1>1. name \in [Upload -> Archive]
  BY DEF Init
<1>2. QED
  BY <1>1, EmptyType, ConstantsAssumption
     DEF Init, TypeOK, Purpose, HandlerAt, JobAt, ReceiverAt, Writing

LEMMA HandlerTypes ==
  ASSUME TypeOK, BegunInv, NEW u \in Upload, HandlerStep(u)
  PROVE  TypeOK'
<1>1. ASSUME NEW p \in Purpose, NEW n \in Archive, Begin(u, p, n)
      PROVE  TypeOK'
  BY <1>1 DEF Begin, TypeOK, Others, disk, HandlerAt, BegunInv, BegunAt, Writing, IsArchive
<1>2. CASE StartJob(u)
  BY <1>2 DEF StartJob, Drop, TypeOK, disk, HandlerAt, JobAt, Writing, IsArchive
<1>3. CASE Bind(u)
  BY <1>3 DEF Bind, TypeOK, disk, HandlerAt, BegunInv, BegunAt, Writing, IsArchive
<1>4. QED
  BY <1>1, <1>2, <1>3 DEF HandlerStep

LEMMA ReceiverTypes ==
  ASSUME TypeOK, InodeInv, NEW u \in Upload, ReceiverStep(u)
  PROVE  TypeOK'
<1> USE DEF TypeOK, memory, disk, ReceiverAt, Writing, IsArchive
<1>1. CASE Receive(u)
  BY <1>1 DEF Receive
<1>2. CASE Open(u)
  BY <1>2, EmptyType DEF Open, Inode
<1>3. CASE Portion(u)
  BY <1>3 DEF Portion, OnError, Portions
<1>4. CASE Break(u)
  BY <1>4 DEF Break, OnError
<1>5. CASE Publish(u)
  BY <1>5 DEF Publish
<1>6. CASE Undo(u)
  BY <1>6 DEF Undo, WithoutTemp
<1>7. CASE Finish(u)
  BY <1>7 DEF Finish
<1>8. QED
  BY <1>1, <1>2, <1>3, <1>4, <1>5, <1>6, <1>7 DEF ReceiverStep

LEMMA JobTypes ==
  ASSUME TypeOK, NEW u \in Upload, JobStep(u)
  PROVE  TypeOK'
<1> USE DEF TypeOK, memory, disk, JobAt, Writing, IsArchive, End, Drop
<1>1. CASE Lookup(u)
  BY <1>1 DEF Lookup
<1>2. CASE GiveUp(u)
  BY <1>2 DEF GiveUp
<1>3. CASE Done(u)
  BY <1>3 DEF Done
<1>4. CASE Cancel(u)
  BY <1>4 DEF Cancel
<1>5. CASE Tick(u)
  BY <1>5 DEF Tick
<1>6. CASE Stall(u)
  BY <1>6 DEF Stall
<1>7. CASE Load(u)
  BY <1>7 DEF Load
<1>8. CASE Loaded(u)
  BY <1>8 DEF Loaded
<1>9. CASE PutImage(u)
  BY <1>9 DEF PutImage, WithoutTemp
<1>10. QED
  BY <1>1, <1>2, <1>3, <1>4, <1>5, <1>6, <1>7, <1>8, <1>9 DEF JobStep

LEMMA RestartTypes == TypeOK /\ Restart => TypeOK'
BY ConstantsAssumption
   DEF Restart, TypeOK, disk, HandlerAt, JobAt, ReceiverAt, Writing, Receiving, IsArchive,
   Ended
-----------------------------------------------------------------------------
(* The request for the job, the job and the request with the file *)

LEMMA BegunInit == Init => BegunInv
BY ConstantsAssumption DEF Init, BegunInv, BegunAt, TypeOK

LEMMA BegunHandler ==
  ASSUME TypeOK, BegunInv, NEW u \in Upload, HandlerStep(u)
  PROVE  BegunInv'
<1> USE DEF BegunInv, BegunAt, TypeOK, memory, disk
<1>1. ASSUME NEW p \in Purpose, NEW n \in Archive, Begin(u, p, n)
      PROVE  BegunInv'
  BY <1>1 DEF Begin, Others, Receiving, Writing
<1>2. CASE StartJob(u)
  BY <1>2 DEF StartJob, Drop
<1>3. CASE Bind(u)
  BY <1>3 DEF Bind
<1>4. QED
  BY <1>1, <1>2, <1>3 DEF HandlerStep

LEMMA BegunReceiver ==
  ASSUME TypeOK, BegunInv, NEW u \in Upload, ReceiverStep(u)
  PROVE  BegunInv'
<1> USE DEF BegunInv, BegunAt, TypeOK, memory, disk
<1>1. CASE Receive(u)
  BY <1>1 DEF Receive
<1>2. CASE Open(u)
  BY <1>2 DEF Open, Inode
<1>3. CASE Portion(u)
  BY <1>3 DEF Portion, OnError
<1>4. CASE Break(u)
  BY <1>4 DEF Break, OnError
<1>5. CASE Publish(u)
  BY <1>5 DEF Publish
<1>6. CASE Undo(u)
  BY <1>6 DEF Undo, WithoutTemp
<1>7. CASE Finish(u)
  BY <1>7 DEF Finish
<1>8. QED
  BY <1>1, <1>2, <1>3, <1>4, <1>5, <1>6, <1>7 DEF ReceiverStep

LEMMA BegunJob ==
  ASSUME TypeOK, BegunInv, NEW u \in Upload, JobStep(u)
  PROVE  BegunInv'
<1> USE DEF BegunInv, BegunAt, TypeOK, memory, disk
<1>1. CASE Lookup(u)
  BY <1>1 DEF Lookup
<1>2. CASE GiveUp(u)
  BY <1>2 DEF GiveUp
<1>3. CASE Done(u)
  BY <1>3 DEF Done, Failed, End, Drop
<1>4. CASE Cancel(u)
  BY <1>4 DEF Cancel, End, Drop
<1>5. CASE Tick(u)
  BY <1>5 DEF Tick
<1>6. CASE Stall(u)
  BY <1>6 DEF Stall, End, Drop
<1>7. CASE Load(u)
  BY <1>7 DEF Load, End, Drop
<1>8. CASE Loaded(u)
  BY <1>8 DEF Loaded, End, Drop
<1>9. CASE PutImage(u)
  BY <1>9 DEF PutImage, End, Drop, WithoutTemp
<1>10. QED
  BY <1>1, <1>2, <1>3, <1>4, <1>5, <1>6, <1>7, <1>8, <1>9 DEF JobStep

LEMMA BegunRestart ==
  ASSUME TypeOK, BegunInv, Restart
  PROVE  BegunInv'
BY DEF Restart, BegunInv, BegunAt, TypeOK, Ended, disk, Receiving, Writing
-----------------------------------------------------------------------------
(* Sessions *)

LEMMA SessionInit == Init => SessionInv
BY ConstantsAssumption DEF Init, SessionInv, SessionAt, BegunInv, BegunAt, TypeOK,
   Receiving, Writing

LEMMA SessionHandler ==
  ASSUME TypeOK, BegunInv, SessionInv, NEW u \in Upload, HandlerStep(u)
  PROVE  SessionInv'
<1> USE DEF SessionInv, SessionAt, BegunInv, BegunAt, TypeOK, Receiving, Writing, memory,
            disk
<1>1. ASSUME NEW p \in Purpose, NEW n \in Archive, Begin(u, p, n)
      PROVE  SessionInv'
  BY <1>1 DEF Begin, Others
<1>2. CASE StartJob(u)
  BY <1>2 DEF StartJob, Drop
<1>3. CASE Bind(u)
  BY <1>3 DEF Bind
<1>4. QED
  BY <1>1, <1>2, <1>3 DEF HandlerStep

LEMMA SessionReceiver ==
  ASSUME TypeOK, BegunInv, SessionInv, NEW u \in Upload, ReceiverStep(u)
  PROVE  SessionInv'
<1> USE DEF SessionInv, SessionAt, BegunInv, BegunAt, TypeOK, Receiving, Writing, memory,
            disk
<1>1. CASE Receive(u)
  BY <1>1 DEF Receive
<1>2. CASE Open(u)
  BY <1>2 DEF Open, Inode
<1>3. CASE Portion(u)
  BY <1>3 DEF Portion, OnError
<1>4. CASE Break(u)
  BY <1>4 DEF Break, OnError
<1>5. CASE Publish(u)
  BY <1>5 DEF Publish
<1>6. CASE Undo(u)
  BY <1>6 DEF Undo, WithoutTemp
<1>7. CASE Finish(u)
  BY <1>7 DEF Finish
<1>8. QED
  BY <1>1, <1>2, <1>3, <1>4, <1>5, <1>6, <1>7 DEF ReceiverStep

LEMMA SessionJob ==
  ASSUME TypeOK, BegunInv, SessionInv, NEW u \in Upload, JobStep(u)
  PROVE  SessionInv'
<1> USE DEF SessionInv, SessionAt, BegunInv, BegunAt, TypeOK, Receiving, Writing, memory,
            disk
<1>1. CASE Lookup(u)
  BY <1>1 DEF Lookup
<1>2. CASE GiveUp(u)
  BY <1>2 DEF GiveUp
<1>3. CASE Done(u)
  BY <1>3 DEF Done, Failed, End, Drop
<1>4. CASE Cancel(u)
  BY <1>4 DEF Cancel, End, Drop
<1>5. CASE Tick(u)
  BY <1>5 DEF Tick
<1>6. CASE Stall(u)
  BY <1>6 DEF Stall, End, Drop
<1>7. CASE Load(u)
  BY <1>7 DEF Load, End, Drop
<1>8. CASE Loaded(u)
  BY <1>8 DEF Loaded, End, Drop
<1>9. CASE PutImage(u)
  BY <1>9 DEF PutImage, End, Drop, WithoutTemp
<1>10. QED
  BY <1>1, <1>2, <1>3, <1>4, <1>5, <1>6, <1>7, <1>8, <1>9 DEF JobStep

LEMMA SessionRestart ==
  ASSUME TypeOK, BegunInv, SessionInv, Restart
  PROVE  SessionInv'
BY DEF Restart, SessionInv, SessionAt, BegunInv, BegunAt, TypeOK, Receiving, Writing, Ended,
   disk
-----------------------------------------------------------------------------
(* Where temporary images are *)

LEMMA TempInit == Init => TempInv
BY ConstantsAssumption DEF Init, TempInv, SessionInv, SessionAt, BegunInv, BegunAt, TypeOK,
   IsArchive

LEMMA TempHandler ==
  ASSUME TypeOK, BegunInv, SessionInv, TempInv, NEW u \in Upload, HandlerStep(u)
  PROVE  TempInv'
<1> USE DEF TempInv, SessionInv, SessionAt, BegunInv, BegunAt, TypeOK, IsArchive, memory,
            disk
<1>1. ASSUME NEW p \in Purpose, NEW n \in Archive, Begin(u, p, n)
      PROVE  TempInv'
  BY <1>1 DEF Begin, Others
<1>2. CASE StartJob(u)
  BY <1>2 DEF StartJob, Drop
<1>3. CASE Bind(u)
  BY <1>3 DEF Bind
<1>4. QED
  BY <1>1, <1>2, <1>3 DEF HandlerStep

LEMMA TempReceiver ==
  ASSUME TypeOK, BegunInv, SessionInv, TempInv, NEW u \in Upload, ReceiverStep(u)
  PROVE  TempInv'
<1> USE DEF TempInv, SessionInv, SessionAt, BegunInv, BegunAt, TypeOK, IsArchive, memory,
            disk
<1>1. CASE Receive(u)
  BY <1>1 DEF Receive
<1>2. CASE Open(u)
  BY <1>2 DEF Open, Inode
<1>3. CASE Portion(u)
  BY <1>3 DEF Portion, OnError
<1>4. CASE Break(u)
  BY <1>4 DEF Break, OnError
<1>5. CASE Publish(u)
  BY <1>5 DEF Publish
<1>6. CASE Undo(u)
  BY <1>6 DEF Undo, WithoutTemp
<1>7. CASE Finish(u)
  BY <1>7 DEF Finish
<1>8. QED
  BY <1>1, <1>2, <1>3, <1>4, <1>5, <1>6, <1>7 DEF ReceiverStep

LEMMA TempJob ==
  ASSUME TypeOK, BegunInv, SessionInv, TempInv, NEW u \in Upload, JobStep(u)
  PROVE  TempInv'
<1> USE DEF TempInv, SessionInv, SessionAt, BegunInv, BegunAt, TypeOK, IsArchive, memory,
            disk
<1>1. CASE Lookup(u)
  BY <1>1 DEF Lookup
<1>2. CASE GiveUp(u)
  BY <1>2 DEF GiveUp
<1>3. CASE Done(u)
  BY <1>3 DEF Done, Failed, End, Drop
<1>4. CASE Cancel(u)
  BY <1>4 DEF Cancel, End, Drop
<1>5. CASE Tick(u)
  BY <1>5 DEF Tick
<1>6. CASE Stall(u)
  BY <1>6 DEF Stall, End, Drop
<1>7. CASE Load(u)
  BY <1>7 DEF Load, End, Drop
<1>8. CASE Loaded(u)
  BY <1>8 DEF Loaded, End, Drop
<1>9. CASE PutImage(u)
  BY <1>9 DEF PutImage, End, Drop, WithoutTemp
<1>10. QED
  BY <1>1, <1>2, <1>3, <1>4, <1>5, <1>6, <1>7, <1>8, <1>9 DEF JobStep

LEMMA TempRestart ==
  ASSUME TypeOK, BegunInv, SessionInv, TempInv, Restart
  PROVE  TempInv'
BY DEF Restart, TempInv, SessionInv, SessionAt, BegunInv, BegunAt, TypeOK, IsArchive, Ended,
   disk, Receiving, Writing
-----------------------------------------------------------------------------
(* Paths and inodes *)

LEMMA InodeInit == Init => InodeInv
BY ConstantsAssumption DEF Init, InodeInv, PathAt, Made, BegunInv, BegunAt, TypeOK,
   IsArchive, Writing

LEMMA InodeHandler ==
  ASSUME TypeOK, BegunInv, InodeInv, NEW u \in Upload, HandlerStep(u)
  PROVE  InodeInv'
<1> USE DEF InodeInv, PathAt, Made, BegunInv, BegunAt, TypeOK, IsArchive, Writing, memory,
            disk
<1>1. ASSUME NEW p \in Purpose, NEW n \in Archive, Begin(u, p, n)
      PROVE  InodeInv'
  BY <1>1 DEF Begin, Others
<1>2. CASE StartJob(u)
  BY <1>2 DEF StartJob, Drop
<1>3. CASE Bind(u)
  BY <1>3 DEF Bind
<1>4. QED
  BY <1>1, <1>2, <1>3 DEF HandlerStep

LEMMA InodeReceiver ==
  ASSUME TypeOK, BegunInv, InodeInv, NEW u \in Upload, ReceiverStep(u)
  PROVE  InodeInv'
<1> USE DEF InodeInv, PathAt, Made, BegunInv, BegunAt, TypeOK, IsArchive, Writing, memory,
            disk
<1>1. CASE Receive(u)
  BY <1>1 DEF Receive
<1>2. CASE Open(u)
  BY <1>2 DEF Open, Inode
<1>3. CASE Portion(u)
  BY <1>3 DEF Portion, OnError
<1>4. CASE Break(u)
  BY <1>4 DEF Break, OnError
<1>5. CASE Publish(u)
  BY <1>5 DEF Publish
<1>6. CASE Undo(u)
  BY <1>6 DEF Undo, WithoutTemp
<1>7. CASE Finish(u)
  BY <1>7 DEF Finish
<1>8. QED
  BY <1>1, <1>2, <1>3, <1>4, <1>5, <1>6, <1>7 DEF ReceiverStep

LEMMA InodeJob ==
  ASSUME TypeOK, BegunInv, InodeInv, NEW u \in Upload, JobStep(u)
  PROVE  InodeInv'
<1> USE DEF InodeInv, PathAt, Made, BegunInv, BegunAt, TypeOK, IsArchive, Writing, memory,
            disk
<1>1. CASE Lookup(u)
  BY <1>1 DEF Lookup
<1>2. CASE GiveUp(u)
  BY <1>2 DEF GiveUp
<1>3. CASE Done(u)
  BY <1>3 DEF Done, Failed, End, Drop
<1>4. CASE Cancel(u)
  BY <1>4 DEF Cancel, End, Drop
<1>5. CASE Tick(u)
  BY <1>5 DEF Tick
<1>6. CASE Stall(u)
  BY <1>6 DEF Stall, End, Drop
<1>7. CASE Load(u)
  BY <1>7 DEF Load, End, Drop
<1>8. CASE Loaded(u)
  BY <1>8 DEF Loaded, End, Drop
<1>9. CASE PutImage(u)
  BY <1>9 DEF PutImage, End, Drop, WithoutTemp
<1>10. QED
  BY <1>1, <1>2, <1>3, <1>4, <1>5, <1>6, <1>7, <1>8, <1>9 DEF JobStep

LEMMA InodeRestart ==
  ASSUME TypeOK, BegunInv, InodeInv, Restart
  PROVE  InodeInv'
BY DEF Restart, InodeInv, PathAt, Made, BegunInv, BegunAt, TypeOK, IsArchive, Writing,
   Ended, disk, Receiving, Writing
-----------------------------------------------------------------------------
(* Who meets whom *)

LEMMA OverlapInit == Init => OverlapInv
BY ConstantsAssumption DEF Init, OverlapInv, InUse, BegunInv, BegunAt, TypeOK, IsArchive,
   Receiving, Writing

LEMMA OverlapHandler ==
  ASSUME TypeOK, BegunInv, OverlapInv, NEW u \in Upload, HandlerStep(u)
  PROVE  OverlapInv'
<1> USE DEF OverlapInv, InUse, BegunInv, BegunAt, TypeOK, IsArchive, Receiving, Writing,
            memory, disk
<1>1. ASSUME NEW p \in Purpose, NEW n \in Archive, Begin(u, p, n)
      PROVE  OverlapInv'
  BY <1>1 DEF Begin, Others
<1>2. CASE StartJob(u)
  BY <1>2 DEF StartJob, Drop
<1>3. CASE Bind(u)
  BY <1>3 DEF Bind
<1>4. QED
  BY <1>1, <1>2, <1>3 DEF HandlerStep

LEMMA OverlapReceiver ==
  ASSUME TypeOK, BegunInv, OverlapInv, NEW u \in Upload, ReceiverStep(u)
  PROVE  OverlapInv'
<1> USE DEF OverlapInv, InUse, BegunInv, BegunAt, TypeOK, IsArchive, Receiving, Writing,
            memory, disk
<1>1. CASE Receive(u)
  BY <1>1 DEF Receive
<1>2. CASE Open(u)
  BY <1>2 DEF Open, Inode
<1>3. CASE Portion(u)
  BY <1>3 DEF Portion, OnError
<1>4. CASE Break(u)
  BY <1>4 DEF Break, OnError
<1>5. CASE Publish(u)
  BY <1>5 DEF Publish
<1>6. CASE Undo(u)
  BY <1>6 DEF Undo, WithoutTemp
<1>7. CASE Finish(u)
  BY <1>7 DEF Finish
<1>8. QED
  BY <1>1, <1>2, <1>3, <1>4, <1>5, <1>6, <1>7 DEF ReceiverStep

LEMMA OverlapJob ==
  ASSUME TypeOK, BegunInv, OverlapInv, NEW u \in Upload, JobStep(u)
  PROVE  OverlapInv'
<1> USE DEF OverlapInv, InUse, BegunInv, BegunAt, TypeOK, IsArchive, Receiving, Writing,
            memory, disk
<1>1. CASE Lookup(u)
  BY <1>1 DEF Lookup
<1>2. CASE GiveUp(u)
  BY <1>2 DEF GiveUp
<1>3. CASE Done(u)
  BY <1>3 DEF Done, Failed, End, Drop
<1>4. CASE Cancel(u)
  BY <1>4 DEF Cancel, End, Drop
<1>5. CASE Tick(u)
  BY <1>5 DEF Tick
<1>6. CASE Stall(u)
  BY <1>6 DEF Stall, End, Drop
<1>7. CASE Load(u)
  BY <1>7 DEF Load, End, Drop
<1>8. CASE Loaded(u)
  BY <1>8 DEF Loaded, End, Drop
<1>9. CASE PutImage(u)
  BY <1>9 DEF PutImage, End, Drop, WithoutTemp
<1>10. QED
  BY <1>1, <1>2, <1>3, <1>4, <1>5, <1>6, <1>7, <1>8, <1>9 DEF JobStep

LEMMA OverlapRestart ==
  ASSUME TypeOK, BegunInv, OverlapInv, Restart
  PROVE  OverlapInv'
BY DEF Restart, OverlapInv, InUse, BegunInv, BegunAt, TypeOK, IsArchive, Receiving, Writing,
   Ended, disk
-----------------------------------------------------------------------------
(* An upload that met no other one of its name *)

LEMMA AloneInit == Init => AloneInv
BY DEF Init, AloneInv, AloneAt, Writing

\* Nobody else who uses a name uses that of an upload that met nobody.
LEMMA Apart ==
  ASSUME IInv, NEW u \in Upload, NEW v \in Upload, u # v,
         InUse(u), InUse(v), v \notin shared
  PROVE  name[u] # name[v]
BY DEF IInv, OverlapInv

\* What an upload relies on stays as it is.
Kept(v) ==
  /\ shared \subseteq shared'
  /\ purpose'[v] = purpose[v] /\ name'[v] = name[v] /\ fd'[v] = fd[v]
  /\ receiver'[v] = receiver[v]
  /\ v \in transfers' => v \in transfers
  /\ job'[v] = "loaded" => job[v] = "loaded" /\ loaded'[v] = loaded[v]
FileKept(v) ==
  /\ Writing(v) => part'[name[v]] = part[name[v]] /\ bytes'[fd[v]] = bytes[fd[v]]
  /\ v \in transfers /\ receiver[v] \in {"saved", "received"} =>
       final'[name[v]] = final[name[v]] /\ bytes'[final[name[v]]] = bytes[final[name[v]]]

LEMMA AloneKept ==
  ASSUME AloneInv, NEW v \in Upload, Kept(v), IsArchive(v) /\ v \notin shared => FileKept(v)
  PROVE  IsArchive(v)' /\ v \notin shared' => AloneAt(v)'
<1> SUFFICES ASSUME IsArchive(v)', v \notin shared'
             PROVE  AloneAt(v)'
  OBVIOUS
<1>1. IsArchive(v) /\ v \notin shared
  BY DEF Kept, IsArchive
<1>2. AloneAt(v) /\ FileKept(v)
  BY <1>1 DEF AloneInv
<1>3. QED
  BY <1>1, <1>2 DEF AloneAt, FileKept, Kept, Writing, Whole

LEMMA AloneHandler ==
  ASSUME IInv, AloneInv, NEW u \in Upload, HandlerStep(u)
  PROVE  AloneInv'
<1> SUFFICES ASSUME NEW v \in Upload
             PROVE  IsArchive(v)' /\ v \notin shared' => AloneAt(v)'
  BY DEF AloneInv
<1> USE DEF IInv, TypeOK, disk
<1>1. ASSUME NEW p \in Purpose, NEW n \in Archive, Begin(u, p, n)
      PROVE  IsArchive(v)' /\ v \notin shared' => AloneAt(v)'
  <2>1. CASE v = u
    <3>1. receiver'[u] = "none" /\ job'[u] = "none"
      BY <1>1 DEF Begin, BegunInv, BegunAt
    <3>2. QED
      BY <2>1, <3>1 DEF AloneAt, Writing
  <2>2. CASE v # u
    <3>1. Kept(v) /\ FileKept(v)
      BY <1>1, <2>2 DEF Begin, Kept, FileKept
    <3>2. QED
      BY <3>1, AloneKept
  <2>3. QED
    BY <2>1, <2>2
<1>2. CASE StartJob(u)
  <2>1. Kept(v) /\ FileKept(v)
    BY <1>2 DEF StartJob, Drop, Kept, FileKept
  <2>2. QED
    BY <2>1, AloneKept
<1>3. CASE Bind(u)
  <2>1. Kept(v) /\ FileKept(v)
    BY <1>3 DEF Bind, Kept, FileKept
  <2>2. QED
    BY <2>1, AloneKept
<1>4. QED
  BY <1>1, <1>2, <1>3 DEF HandlerStep

LEMMA AloneReceiver ==
  ASSUME IInv, AloneInv, NEW u \in Upload, ReceiverStep(u)
  PROVE  AloneInv'
<1> SUFFICES ASSUME NEW v \in Upload
             PROVE  IsArchive(v)' /\ v \notin shared' => AloneAt(v)'
  BY DEF AloneInv
<1> USE DEF IInv, TypeOK, memory, disk
<1>1. Receiving(u) /\ IsArchive(u) => InUse(u)
  BY DEF InUse
<1>2. CASE v # u
  <2>1. Kept(v)
    BY <1>2 DEF ReceiverStep, Receive, Open, Portion, Break, Publish, Undo, Finish, Kept
  <2>2. ASSUME IsArchive(v), v \notin shared
        PROVE  FileKept(v)
    <3>1. CASE UNCHANGED <<part, final, bytes>>
      BY <3>1 DEF FileKept
    <3>2. CASE ~IsArchive(u)
      <4>1. UNCHANGED <<part, final, bytes>>
        BY <3>2 DEF ReceiverStep, Receive, Open, Portion, Break, Publish, Undo, Finish
      <4>2. QED
        BY <3>1, <4>1
    <3>3. ASSUME IsArchive(u), Receiving(u)
          PROVE  FileKept(v)
      <4>1. InUse(v) => name[u] # name[v]
        BY <1>1, <1>2, <2>2, <3>3, Apart
      <4>2. Writing(v) => InUse(v) /\ Made(fd[v], name[v])
        BY <2>2 DEF InodeInv, InUse, Receiving
      <4>3. v \in transfers /\ receiver[v] \in {"saved", "received"} =>
              InUse(v) /\ Made(final[name[v]], name[v])
        BY <2>2 DEF AloneInv, AloneAt, InUse, InodeInv, PathAt
      <4>4. CASE Open(u)
        <5>1. Inode(u) \in Upload /\ (Made(Inode(u), name[u]) \/ receiver[Inode(u)] = "open")
          BY <4>4 DEF Open, Inode, InodeInv, PathAt, Made
        <5>2. \A i, n : Made(i, n) /\ n # name[u] => i # Inode(u)
          BY <5>1 DEF Made
        <5>3. \A i \in Upload : i # Inode(u) => bytes'[i] = bytes[i]
          BY <4>4, <5>1 DEF Open
        <5>4. UNCHANGED final /\ \A n \in Archive : n # name[u] => part'[n] = part[n]
          BY <4>4 DEF Open
        <5>5. QED
          BY <4>1, <4>2, <4>3, <5>2, <5>3, <5>4 DEF FileKept, Made
      <4>5. CASE Portion(u)
        <5>1. Made(fd[u], name[u])
          BY <3>3, <4>5 DEF Portion, InodeInv, Writing
        <5>2. UNCHANGED <<part, final>> /\ \A i \in Upload : i # fd[u] => bytes'[i] = bytes[i]
          BY <4>5, <5>1 DEF Portion, Made
        <5>3. QED
          BY <4>1, <4>2, <4>3, <5>1, <5>2 DEF FileKept, Made
      <4>6. CASE Publish(u)
        BY <4>1, <4>2, <4>3, <4>6 DEF Publish, FileKept
      <4>7. CASE Undo(u)
        BY <4>1, <4>2, <4>3, <4>7 DEF Undo, FileKept
      <4>8. QED
        BY <3>1, <4>4, <4>5, <4>6, <4>7 DEF ReceiverStep, Receive, Break, Finish
    <3>4. CASE ~Receiving(u)
      <4>1. Receive(u)
        BY <3>4 DEF ReceiverStep, Open, Portion, Break, Publish, Undo, Finish, Receiving,
   Writing
      <4>2. QED
        BY <3>1, <4>1 DEF Receive
    <3>5. QED
      BY <3>2, <3>3, <3>4
  <2>3. QED
    BY <2>1, <2>2, AloneKept
<1>3. CASE v = u
  <2> SUFFICES ASSUME IsArchive(u)', u \notin shared'
               PROVE  AloneAt(u)'
    BY <1>3
  <2>1. /\ IsArchive(u) /\ u \notin shared
        /\ UNCHANGED <<purpose, name, shared, transfers, job, loaded>>
    BY DEF ReceiverStep, Receive, Open, Portion, Break, Publish, Undo, Finish, IsArchive
  <2>2. AloneAt(u)
    BY <2>1 DEF AloneInv
  <2>3. job[u] = "loaded" => loaded'[u] = Whole(u)
    BY <2>1, <2>2 DEF AloneAt
  <2>4. Writing(u) => Made(fd[u], name[u])
    BY <2>1 DEF InodeInv
  <2>5. CASE Open(u)
    <3>1. receiver'[u] \in {"first", "undone"}
      BY <2>5 DEF Open
    <3>2. receiver'[u] = "first" => part'[name[u]] = fd'[u]
      BY <2>1, <2>5 DEF Open
    <3>3. QED
      BY <2>1, <2>3, <3>1, <3>2 DEF AloneAt, Writing, Whole
  <2>6. CASE Portion(u)
    <3>1. receiver[u] \in {"first", "second"} /\ UNCHANGED <<part, fd>>
      BY <2>6 DEF Portion
    <3>2. fd[u] \in Upload
      BY <2>4, <3>1 DEF Made, Writing
    <3>3. CASE receiver[u] = "first"
      <4>1. receiver'[u] \in {"second", "undo"} /\ bytes'[fd[u]][1] = u
        BY <2>1, <2>6, <3>2, <3>3 DEF Portion, OnError, Portions
      <4>2. QED
        BY <2>1, <2>2, <2>3, <3>1, <4>1 DEF AloneAt, Writing, Whole
    <3>4. CASE receiver[u] = "second"
      <4>1. receiver'[u] \in {"close", "undo"} /\ bytes'[fd[u]][2] = u
            /\ bytes'[fd[u]][1] = bytes[fd[u]][1]
        BY <2>1, <2>6, <3>2, <3>4 DEF Portion, OnError, Portions
      <4>2. QED
        BY <2>1, <2>2, <2>3, <3>1, <3>4, <4>1 DEF AloneAt, Writing, Whole
    <3>5. QED
      BY <3>1, <3>3, <3>4
  <2>7. CASE Publish(u)
    <3>1. receiver[u] = "close" /\ receiver'[u] \in {"saved", "undo"} /\ UNCHANGED bytes
      BY <2>7 DEF Publish
    <3>2. bytes[fd[u]] = Whole(u)
      BY <2>2, <2>4, <3>1 DEF AloneAt, Writing, Made, Portions, Whole
    <3>3. receiver'[u] = "saved" => final'[name[u]] = fd[u] /\ fd[u] # Nobody
      BY <2>1, <2>2, <2>7, <3>1 DEF Publish, AloneAt, Writing
    <3>4. QED
      BY <2>1, <2>3, <3>1, <3>2, <3>3 DEF AloneAt, Writing, Whole
  <2>8. CASE Receive(u) \/ Break(u) \/ Undo(u)
    <3>1. receiver'[u] \in {"open", "undo", "undone"}
      BY <2>8 DEF Receive, Break, Undo, OnError
    <3>2. QED
      BY <2>1, <2>3, <3>1 DEF AloneAt, Writing, Whole
  <2>9. CASE Finish(u)
    <3>1. /\ receiver[u] \in {"saved", "undone"} /\ UNCHANGED <<final, bytes>>
          /\ receiver'[u] = IF receiver[u] = "saved" THEN "received" ELSE "broken"
      BY <2>9 DEF Finish
    <3>2. QED
      BY <2>1, <2>2, <2>3, <3>1 DEF AloneAt, Writing, Whole
  <2>10. QED
    BY <2>5, <2>6, <2>7, <2>8, <2>9 DEF ReceiverStep
<1>4. QED
  BY <1>2, <1>3

LEMMA AloneJob ==
  ASSUME IInv, AloneInv, NEW u \in Upload, JobStep(u)
  PROVE  AloneInv'
<1> SUFFICES ASSUME NEW v \in Upload
             PROVE  IsArchive(v)' /\ v \notin shared' => AloneAt(v)'
  BY DEF AloneInv
<1> USE DEF IInv, TypeOK, memory, disk, End, Drop
<1>1. CASE Lookup(u) \/ GiveUp(u) \/ Done(u) \/ Cancel(u) \/ Tick(u) \/ Stall(u) \/ PutImage(u)
  <2>1. Kept(v) /\ FileKept(v)
    BY <1>1 DEF Lookup, GiveUp, Done, Cancel, Tick, Stall, PutImage, Kept, FileKept
  <2>2. QED
    BY <2>1, AloneKept
<1>2. CASE Load(u)
  <2>1. CASE v = u
    <3> SUFFICES ASSUME IsArchive(u)', u \notin shared'
                 PROVE  AloneAt(u)'
      BY <2>1
    <3>1. /\ IsArchive(u) /\ u \notin shared
          /\ UNCHANGED <<part, final, bytes, fd, receiver, name>>
      BY <1>2 DEF Load, IsArchive
    <3>2. AloneAt(u)
      BY <3>1 DEF AloneInv
    <3>3. u \in transfers /\ receiver[u] = "received"
      BY <1>2 DEF Load, SessionInv, SessionAt
    <3>4. bytes[final[name[u]]] = Whole(u)
      BY <3>2, <3>3 DEF AloneAt
    <3>5. job'[u] = "loaded" => loaded'[u] = Whole(u)
      BY <1>2, <3>4 DEF Load
    <3>6. QED
      BY <3>1, <3>2, <3>3, <3>5 DEF AloneAt, Writing, Whole
  <2>2. CASE v # u
    <3>1. Kept(v) /\ FileKept(v)
      BY <1>2, <2>2 DEF Load, Kept, FileKept
    <3>2. QED
      BY <3>1, AloneKept
  <2>3. QED
    BY <2>1, <2>2
<1>3. CASE Loaded(u)
  <2>1. u \in transfers /\ purpose[u] = "load" /\ receiver[u] = "received"
    BY <1>3 DEF Loaded, SessionInv, SessionAt
  <2>2. CASE v = u
    <3>1. u \notin transfers' /\ receiver'[u] = "received" /\ job'[u] = "succeeded"
      BY <1>3, <2>1 DEF Loaded
    <3>2. QED
      BY <2>2, <3>1 DEF AloneAt, Writing
  <2>3. CASE v # u
    <3>1. Kept(v)
      BY <1>3, <2>3 DEF Loaded, Kept
    <3>2. ASSUME IsArchive(v), v \notin shared
          PROVE  FileKept(v)
      <4>1. UNCHANGED <<part, bytes>> /\ \A n \in Archive : n # name[u] => final'[n] = final[n]
        BY <1>3 DEF Loaded
      <4>2. v \in transfers => name[u] # name[v]
        BY <2>1, <2>3, <3>2, Apart DEF InUse, IsArchive
      <4>3. QED
        BY <4>1, <4>2 DEF FileKept
    <3>3. QED
      BY <3>1, <3>2, AloneKept
  <2>4. QED
    BY <2>2, <2>3
<1>4. QED
  BY <1>1, <1>2, <1>3 DEF JobStep

LEMMA AloneRestart == IInv /\ AloneInv /\ Restart => AloneInv'
BY DEF Restart, AloneInv, AloneAt, Receiving, Writing, Ended, disk, IInv, TypeOK
-----------------------------------------------------------------------------
(* Archives *)

\* With the upload that wrote the file named.
WholeAt(n) ==
  final[n] # Nobody /\ (\A u \in shared : name[u] # n)
    => \E u \in Upload : handler[u] # "no" /\ name[u] = n /\ bytes[final[n]] = Whole(u)
WholeInv == \A n \in Archive : WholeAt(n)

LEMMA WholeInit == Init => WholeInv
BY DEF Init, WholeInv, WholeAt

\* A step that neither moves nor writes the file under the name.
LEMMA WholeKept ==
  ASSUME IInv, WholeInv, NEW n \in Archive,
         final[n] # Nobody => final'[n] = final[n] /\ bytes'[final[n]] = bytes[final[n]],
         final[n] = Nobody => final'[n] = Nobody,
         shared \subseteq shared',
         \A v \in Upload : handler[v] # "no" => handler'[v] # "no" /\ name'[v] = name[v]
  PROVE  WholeAt(n)'
<1> SUFFICES ASSUME final'[n] # Nobody, \A v \in shared' : name'[v] # n
             PROVE  \E v \in Upload : /\ handler'[v] # "no" /\ name'[v] = n
                                      /\ bytes'[final'[n]] = Whole(v)
  BY DEF WholeAt, Whole
<1>1. \A v \in shared : v \in Upload /\ handler[v] # "no"
  BY DEF IInv, TypeOK, BegunInv, BegunAt
<1>2. \A v \in shared : name[v] # n
  BY <1>1
<1>3. PICK v \in Upload : handler[v] # "no" /\ name[v] = n /\ bytes[final[n]] = Whole(v)
  BY <1>2 DEF WholeInv, WholeAt
<1>4. QED
  BY <1>3

LEMMA WholeHandler ==
  ASSUME IInv, WholeInv, NEW u \in Upload, HandlerStep(u)
  PROVE  WholeInv'
<1> SUFFICES ASSUME NEW n \in Archive PROVE WholeAt(n)'
  BY DEF WholeInv
<1>1. UNCHANGED <<final, bytes>> /\ shared \subseteq shared'
  BY DEF HandlerStep, Begin, StartJob, Bind, disk
<1>2. \A v \in Upload : handler[v] # "no" => handler'[v] # "no" /\ name'[v] = name[v]
  BY DEF HandlerStep, Begin, StartJob, Bind, IInv, TypeOK
<1>3. QED
  BY <1>1, <1>2, WholeKept

LEMMA WholeReceiver ==
  ASSUME IInv, AloneInv, WholeInv, NEW u \in Upload, ReceiverStep(u)
  PROVE  WholeInv'
<1> SUFFICES ASSUME NEW n \in Archive PROVE WholeAt(n)'
  BY DEF WholeInv
<1>1. UNCHANGED <<shared, handler, name>>
  BY DEF ReceiverStep, Receive, Open, Portion, Break, Publish, Undo, Finish
<1>2. CASE UNCHANGED <<final, bytes>>
  BY <1>1, <1>2, WholeKept
<1>3. CASE Open(u)
  <2>1. final[n] # Nobody => final[n] \in Upload /\ (final[n] # Inode(u) \/ ~IsArchive(u))
    BY <1>3 DEF Open, Inode, IInv, InodeInv, PathAt, Made, TypeOK
  <2>2. UNCHANGED final /\ (final[n] # Nobody => bytes'[final[n]] = bytes[final[n]])
    BY <1>3, <2>1 DEF Open, IInv, TypeOK
  <2>3. QED
    BY <1>1, <2>2, WholeKept
<1>4. CASE Portion(u)
  <2>1. UNCHANGED final
    BY <1>4 DEF Portion
  <2>2. CASE final[n] # Nobody /\ IsArchive(u) /\ fd[u] = final[n]
    <3>1. name[u] = n /\ Writing(u)
      BY <1>4, <2>2 DEF Portion, IInv, InodeInv, PathAt, Made, Writing
    <3>2. u \in shared
      BY <2>2, <3>1 DEF AloneInv, AloneAt, IInv, InodeInv, PathAt
    <3>3. QED
      BY <1>1, <3>1, <3>2 DEF WholeAt
  <2>3. CASE ~(final[n] # Nobody /\ IsArchive(u) /\ fd[u] = final[n])
    <3>1. final[n] # Nobody => bytes'[final[n]] = bytes[final[n]]
      BY <1>4, <2>3 DEF Portion, IInv, TypeOK
    <3>2. QED
      BY <1>1, <2>1, <3>1, WholeKept
  <2>4. QED
    BY <2>2, <2>3
<1>5. CASE Publish(u)
  <2>1. UNCHANGED bytes
    BY <1>5 DEF Publish
  <2>2. CASE final'[n] = final[n]
    BY <1>1, <2>1, <2>2, WholeKept
  <2>3. CASE final'[n] # final[n] /\ u \in shared
    <3>1. name'[u] = n /\ u \in shared'
      BY <1>1, <1>5, <2>3 DEF Publish, IInv, TypeOK
    <3>2. QED
      BY <3>1 DEF WholeAt
  <2>4. CASE final'[n] # final[n] /\ u \notin shared
    <3>1. /\ IsArchive(u) /\ name[u] = n /\ receiver[u] = "close"
          /\ final'[n] = part[n]
      BY <1>5, <2>4 DEF Publish, IInv, TypeOK
    <3>2. AloneAt(u)
      BY <2>4, <3>1 DEF AloneInv
    <3>3. final'[n] = fd[u] /\ fd[u] \in Upload
      BY <3>1, <3>2 DEF AloneAt, Writing, IInv, TypeOK
    <3>4. bytes[fd[u]] = Whole(u)
      BY <3>1, <3>2, <3>3 DEF AloneAt, IInv, TypeOK, Portions, Whole
    <3>5. handler[u] # "no"
      BY <3>1 DEF IInv, BegunInv, BegunAt
    <3>6. QED
      BY <1>1, <2>1, <3>1, <3>3, <3>4, <3>5 DEF WholeAt, Whole
  <2>5. QED
    BY <2>2, <2>3, <2>4
<1>6. CASE Receive(u) \/ Break(u) \/ Undo(u) \/ Finish(u)
  BY <1>2, <1>6 DEF Receive, Break, Undo, Finish, disk
<1>7. QED
  BY <1>3, <1>4, <1>5, <1>6 DEF ReceiverStep

LEMMA WholeJob ==
  ASSUME IInv, WholeInv, NEW u \in Upload, JobStep(u)
  PROVE  WholeInv'
<1> SUFFICES ASSUME NEW n \in Archive PROVE WholeAt(n)'
  BY DEF WholeInv
<1>1. UNCHANGED <<shared, handler, name, bytes>>
  BY DEF JobStep, Lookup, GiveUp, Done, Cancel, Tick, Stall, Load, Loaded, PutImage, disk
<1>2. final'[n] = final[n] \/ final'[n] = Nobody
  BY DEF JobStep, Lookup, GiveUp, Done, Cancel, Tick, Stall, Load, Loaded, PutImage, disk,
         IInv, TypeOK
<1>3. CASE final'[n] = final[n]
  BY <1>1, <1>3, WholeKept
<1>4. CASE final'[n] = Nobody
  BY <1>4 DEF WholeAt
<1>5. QED
  BY <1>2, <1>3, <1>4

LEMMA WholeRestart == IInv /\ WholeInv /\ Restart => WholeInv'
<1> SUFFICES ASSUME IInv, WholeInv, Restart, NEW n \in Archive PROVE WholeAt(n)'
  BY DEF WholeInv
<1>1. UNCHANGED <<shared, name, final, bytes>>
  BY DEF Restart, disk
<1>2. \A v \in Upload : handler[v] # "no" => handler'[v] # "no"
  BY DEF Restart
<1>3. QED
  BY <1>1, <1>2, WholeKept
-----------------------------------------------------------------------------
(* Temporary images *)

LEMMA OwnersInit == Init => TempsHaveOwners
BY DEF Init, TempsHaveOwners

LEMMA OwnersHandler ==
  ASSUME IInv, TempsHaveOwners, NEW u \in Upload, HandlerStep(u)
  PROVE  TempsHaveOwners'
<1> USE DEF IInv, TypeOK, BegunInv, BegunAt, TempInv, TempsHaveOwners, Receiving, Writing,
            disk
<1>1. ASSUME NEW p \in Purpose, NEW n \in Archive, Begin(u, p, n)
      PROVE  TempsHaveOwners'
  BY <1>1 DEF Begin
<1>2. CASE StartJob(u)
  BY <1>2 DEF StartJob, Drop
<1>3. CASE Bind(u)
  BY <1>3 DEF Bind
<1>4. QED
  BY <1>1, <1>2, <1>3 DEF HandlerStep

LEMMA OwnersReceiver ==
  ASSUME IInv, TempsHaveOwners, NEW u \in Upload, ReceiverStep(u)
  PROVE  TempsHaveOwners'
<1> USE DEF IInv, TypeOK, SessionInv, SessionAt, TempInv, TempsHaveOwners, Receiving,
            Writing,
            memory, disk, IsArchive
<1>1. CASE Receive(u)
  BY <1>1 DEF Receive
<1>2. CASE Open(u)
  BY <1>2 DEF Open
<1>3. CASE Portion(u)
  BY <1>3 DEF Portion, OnError
<1>4. CASE Break(u)
  BY <1>4 DEF Break, OnError
<1>5. CASE Publish(u)
  BY <1>5 DEF Publish
<1>6. CASE Undo(u)
  BY <1>6 DEF Undo, WithoutTemp
<1>7. CASE Finish(u)
  BY <1>7 DEF Finish
<1>8. QED
  BY <1>1, <1>2, <1>3, <1>4, <1>5, <1>6, <1>7 DEF ReceiverStep

LEMMA OwnersJob ==
  ASSUME IInv, TempsHaveOwners, NEW u \in Upload, JobStep(u)
  PROVE  TempsHaveOwners'
<1> USE DEF IInv, TypeOK, SessionInv, SessionAt, TempInv, TempsHaveOwners, Receiving,
            Writing,
            memory, disk, End, Drop
<1>1. CASE Lookup(u) \/ GiveUp(u) \/ Tick(u)
  BY <1>1 DEF Lookup, GiveUp, Tick
<1>2. CASE Done(u)
  BY <1>2 DEF Done, Failed
<1>3. CASE Cancel(u)
  BY <1>3 DEF Cancel
<1>4. CASE Stall(u)
  BY <1>4 DEF Stall
<1>5. CASE Load(u)
  BY <1>5 DEF Load
<1>6. CASE Loaded(u)
  BY <1>6 DEF Loaded
<1>7. CASE PutImage(u)
  BY <1>7 DEF PutImage, WithoutTemp
<1>8. QED
  BY <1>1, <1>2, <1>3, <1>4, <1>5, <1>6, <1>7 DEF JobStep

LEMMA OwnersRestart == IInv /\ TempsHaveOwners /\ Restart => TempsHaveOwners'
BY DEF IInv, TypeOK, TempsHaveOwners, Restart, disk
-----------------------------------------------------------------------------
(* Theorems *)

AllInv == IInv /\ AloneInv /\ WholeInv /\ TempsHaveOwners

LEMMA InvInit == Init => AllInv
BY TypeInit, BegunInit, SessionInit, TempInit, InodeInit, OverlapInit, AloneInit, WholeInit,
   OwnersInit
   DEF AllInv, IInv

LEMMA InvStep == AllInv /\ [Next]_vars => AllInv'
<1> SUFFICES ASSUME AllInv, [Next]_vars PROVE AllInv'
  OBVIOUS
<1> USE DEF AllInv, IInv
<1>1. CASE Restart
  BY <1>1, RestartTypes, BegunRestart, SessionRestart, TempRestart, InodeRestart,
     OverlapRestart, AloneRestart, WholeRestart, OwnersRestart
<1>2. ASSUME NEW u \in Upload, HandlerStep(u)
      PROVE  AllInv'
  BY <1>2, HandlerTypes, BegunHandler, SessionHandler, TempHandler, InodeHandler,
     OverlapHandler, AloneHandler, WholeHandler, OwnersHandler
<1>3. ASSUME NEW u \in Upload, ReceiverStep(u)
      PROVE  AllInv'
  BY <1>3, ReceiverTypes, BegunReceiver, SessionReceiver, TempReceiver, InodeReceiver,
     OverlapReceiver, AloneReceiver, WholeReceiver, OwnersReceiver
<1>4. ASSUME NEW u \in Upload, JobStep(u)
      PROVE  AllInv'
  BY <1>4, JobTypes, BegunJob, SessionJob, TempJob, InodeJob, OverlapJob, AloneJob, WholeJob,
     OwnersJob
<1>5. CASE UNCHANGED vars
  BY <1>5 DEF vars, memory, disk, places, TypeOK, BegunInv, BegunAt, SessionInv, SessionAt,
     TempInv, InodeInv, PathAt, Made, OverlapInv, InUse, AloneInv, AloneAt, WholeInv, WholeAt,
     TempsHaveOwners, IsArchive, Writing, Receiving, Whole
<1>6. QED
  BY <1>1, <1>2, <1>3, <1>4, <1>5 DEF Next, HandlerStep, ReceiverStep, JobStep

LEMMA Invariance == Spec => []AllInv
<1>1. Spec => []AllInv
  BY InvInit, InvStep, PTL DEF Spec
<1>2. QED
  BY <1>1

\* Every variable keeps its type.
THEOREM TypeCorrect == Spec => []TypeOK
<1>1. AllInv => TypeOK
  BY DEF AllInv, IInv
<1>2. QED
  BY <1>1, Invariance, PTL

\* writeArchive: what stands under a name that no two uploads used at a time is
\* the whole of one file.
THEOREM ArchivesStayWhole == Spec => []ArchivesAreWhole
<1>1. AllInv => ArchivesAreWhole
  BY DEF AllInv, WholeInv, WholeAt, ArchivesAreWhole
<1>2. QED
  BY <1>1, Invariance, PTL

\* SaveTemp, PutHostImage: a temporary image has somebody who removes it.
THEOREM TempsAreOwned == Spec => []TempsHaveOwners
<1>1. AllInv => TempsHaveOwners
  BY DEF AllInv
<1>2. QED
  BY <1>1, Invariance, PTL

\* uploadRunner.Run: a job succeeds only with its own file, received to the end.
SucceedsWhole ==
  \A u \in Upload : job[u] # "succeeded" /\ job'[u] = "succeeded" =>
    /\ receiver[u] = "received" /\ u \notin aborted
    /\ u \notin shared /\ purpose[u] = "archive" =>
         final[name[u]] # Nobody /\ bytes[final[name[u]]] = Whole(u)
    /\ u \notin shared /\ purpose[u] = "load" => loaded[u] = Whole(u)

LEMMA SuccessStep == AllInv /\ [Next]_vars => SucceedsWhole
<1> SUFFICES ASSUME AllInv, [Next]_vars, NEW u \in Upload,
                    job[u] # "succeeded", job'[u] = "succeeded"
             PROVE  /\ receiver[u] = "received" /\ u \notin aborted
                    /\ u \notin shared /\ purpose[u] = "archive" =>
                         final[name[u]] # Nobody /\ bytes[final[name[u]]] = Whole(u)
                    /\ u \notin shared /\ purpose[u] = "load" => loaded[u] = Whole(u)
  BY DEF SucceedsWhole
<1>1. Done(u) \/ Loaded(u) \/ PutImage(u)
  <2> USE DEF AllInv, IInv, TypeOK
  <2>1. ~Restart /\ job' # job
    BY DEF Restart, Ended
  <2>2. \A v \in Upload : ~ReceiverStep(v)
    BY <2>1 DEF ReceiverStep, Receive, Open, Portion, Break, Publish, Undo, Finish
  <2>3. \A v \in Upload : ~HandlerStep(v)
    BY <2>1 DEF HandlerStep, Begin, StartJob, Bind
  <2>4. PICK v \in Upload : JobStep(v)
    BY <2>1, <2>2, <2>3 DEF Next, vars, places, HandlerStep, ReceiverStep, JobStep
  <2>5. v = u
    BY <2>4 DEF JobStep, Lookup, GiveUp, Done, Cancel, Tick, Stall, Load, Loaded, PutImage,
   End
  <2>6. QED
    BY <2>4, <2>5 DEF JobStep, Lookup, GiveUp, Done, Cancel, Tick, Stall, Load, Loaded,
       PutImage, End
<1>2. SessionAt(u) /\ (IsArchive(u) /\ u \notin shared => AloneAt(u))
  BY DEF AllInv, IInv, SessionInv, AloneInv
<1>3. CASE Done(u)
  <2>1. receiver[u] = "received" /\ purpose[u] = "archive" /\ job[u] = "watch"
    BY <1>3 DEF Done, Failed, End, AllInv, IInv, TypeOK
  <2>2. QED
    BY <1>2, <2>1 DEF SessionAt, AloneAt, IsArchive
<1>4. CASE Loaded(u)
  BY <1>2, <1>4 DEF Loaded, SessionAt, AloneAt, IsArchive
<1>5. CASE PutImage(u)
  BY <1>2, <1>5 DEF PutImage, SessionAt
<1>6. QED
  BY <1>1, <1>3, <1>4, <1>5

THEOREM SuccessIsOwn == Spec => SuccessIsWhole
<1>1. AllInv /\ [Next]_vars => [SucceedsWhole]_vars
  BY SuccessStep
<1>2. Spec => [][SucceedsWhole]_vars
  BY <1>1, Invariance, PTL DEF Spec
<1>3. QED
  BY <1>2 DEF SuccessIsWhole, SucceedsWhole
=============================================================================
