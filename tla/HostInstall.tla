---------------------------- MODULE HostInstall ----------------------------
(***************************************************************************)
(* Installing and updating nkt on hosts (hub/manager.go,                   *)
(* hub/hostinstall.go): requests that start an install, the jobs that run  *)
(* it, operators that cancel it, and the status of the host in the         *)
(* database, which only these write.                                       *)
(*                                                                         *)
(* A host has an entry in memory for the install under way (installJob).   *)
(* It is made by whoever comes first, the request that started the job or  *)
(* the job itself, and only the job whose entry is current writes.  The    *)
(* jobs of a host run one after the other (JobManager), those of all hosts *)
(* share a number of slots.                                                *)
(***************************************************************************)
EXTENDS Integers, FiniteSets

CONSTANTS
  Host, Request,
  Slots,          \* maxParallelInstalls
  MaxJobs,        \* bound: installs ever started
  MaxCancels,     \* bound: calls of CancelInstall
  MaxAborts,      \* bound: jobs whose context ends otherwise: canceled on the
                  \* page of the jobs, or after installJobTimeout
  MaxRestarts     \* bound: restarts of the hub

Job == 1..MaxJobs
NoJob == 0
Entry == [job : Job, by : {"request", "runner"}]
NoEntry == [job |-> NoJob, by |-> "runner"]

Ended == {"succeeded", "failed", "canceled", "interrupted"}
Holding == {"begin", "mark", "work", "failing", "failmark", "close", "online", "release"}
Place == {"none", "slot", "end"} \cup Holding

ASSUME ConstantsAssumption ==
  /\ Host # {} /\ Slots \in Nat \ {0} /\ MaxJobs \in Nat
  /\ MaxCancels \in Nat /\ MaxAborts \in Nat /\ MaxRestarts \in Nat

VARIABLES
  status,     \* of a host, in the database
  job,        \* jobs: the host and the state of the row
  entry,      \* jobByHost
  done,       \* entries marked done
  pc,         \* where the runner of a job is
  held,       \* the entry a runner works with
  ctxDone,    \* jobs whose context is over
  ok,         \* jobs whose install came to its end without an error
  slots,      \* installSlots: how many are taken
  req,        \* requests to start an install
  op,         \* the operator's CancelInstall
  canceled, restarts,
  aborted     \* jobs aborted

memory == <<entry, done, pc, held, ctxDone, ok, slots, req, op>>
bounds == <<canceled, aborted, restarts>>
vars == <<status, job, memory, bounds>>

TypeOK ==
  /\ status \in [Host -> {"new", "installing", "online", "error"}]
  /\ job \in [Job -> [host : Host, state : {"none", "queued", "running"} \cup Ended]]
  /\ entry \in [Host -> Entry \cup {NoEntry}]
  /\ done \subseteq Entry
  /\ pc \in [Job -> Place]
  /\ held \in [Job -> Entry \cup {NoEntry}]
  /\ ctxDone \subseteq Job /\ ok \subseteq Job
  /\ slots \in 0..Slots
  /\ req \in [Request -> [at : {"idle", "checked", "started"}, host : Host,
                          job : Job \cup {NoJob}]]
  /\ op \in [at : {"idle", "stop", "write"}, host : Host, entry : Entry \cup {NoEntry}]
  /\ canceled \in 0..MaxCancels /\ aborted \subseteq Job /\ restarts \in 0..MaxRestarts

SomeHost == CHOOSE h \in Host : TRUE
NoRequest == [at |-> "idle", host |-> SomeHost, job |-> NoJob]
NoOp == [at |-> "idle", host |-> SomeHost, entry |-> NoEntry]

Init ==
  /\ status = [h \in Host |-> "new"]
  /\ job = [j \in Job |-> [host |-> SomeHost, state |-> "none"]]
  /\ req = [r \in Request |-> NoRequest]
  /\ op = NoOp
  /\ entry = [h \in Host |-> NoEntry] /\ done = {}
  /\ pc = [j \in Job |-> "none"] /\ held = [j \in Job |-> NoEntry]
  /\ ctxDone = {} /\ ok = {} /\ slots = 0
  /\ canceled = 0 /\ aborted = {} /\ restarts = 0

Unfinished(h) == {j \in Job : job[j].host = h /\ job[j].state \in {"queued", "running"}}

\* jobByHost has an entry of the host that is not done: InstallActive.
Active(h) == entry[h] # NoEntry /\ entry[h] \notin done
-----------------------------------------------------------------------------
(* StartInstallWith *)

\* Under the lock, which is given up before the host is probed for an nkt of
\* another hub and the job is started.  With an active entry the request is
\* answered with the number of that job and nothing changes.
Check(r, h) ==
  /\ req[r].at = "idle"
  /\ ~Active(h)
  /\ req' = [req EXCEPT ![r] = [at |-> "checked", host |-> h, job |-> NoJob]]
  /\ UNCHANGED <<status, job, entry, done, pc, held, ctxDone, ok, slots, op, bounds>>

\* ForeignInstallError, options that are refused.
Refuse(r) ==
  /\ req[r].at = "checked"
  /\ req' = [req EXCEPT ![r] = NoRequest]
  /\ UNCHANGED <<status, job, entry, done, pc, held, ctxDone, ok, slots, op, bounds>>

StartJob(r) ==
  /\ req[r].at = "checked"
  /\ \E j \in Job :
       /\ \A k \in Job : k < j <=> job[k].state # "none"
       /\ job' = [job EXCEPT ![j] = [host |-> req[r].host, state |-> "queued"]]
       /\ req' = [req EXCEPT ![r].at = "started", ![r].job = j]
  /\ UNCHANGED <<status, entry, done, pc, held, ctxDone, ok, slots, op, bounds>>

\* The entry is made after the job was started: by then the job may have made
\* its own, or even have ended.
MakeEntry(r) ==
  /\ req[r].at = "started"
  /\ LET h == req[r].host IN
       entry' = IF Active(h) /\ entry[h].job = req[r].job THEN entry
                ELSE [entry EXCEPT ![h] = [job |-> req[r].job, by |-> "request"]]
  /\ req' = [req EXCEPT ![r] = NoRequest]
  /\ UNCHANGED <<status, job, done, pc, held, ctxDone, ok, slots, op, bounds>>
-----------------------------------------------------------------------------
(* HostInstallRunner.Run and install *)

\* The context of the job of an entry, when its runner has put it there.
CancelNow(e) == IF e # NoEntry /\ held[e.job] = e THEN {e.job} ELSE {}

\* Jobs of a host run in the order they were started.
Run(j) ==
  LET h == job[j].host
      mine == IF entry[h].job = j THEN entry[h] ELSE [job |-> j, by |-> "runner"]
  IN /\ job[j].state = "queued"
     /\ \A k \in Unfinished(h) : j <= k
     /\ job' = [job EXCEPT ![j].state = "running"]
     /\ pc' = [pc EXCEPT ![j] = "slot"]
     /\ held' = [held EXCEPT ![j] = mine]
     /\ entry' = [entry EXCEPT ![h] = mine]
     /\ ctxDone' = IF entry[h].job # j /\ Active(h) THEN ctxDone \cup CancelNow(entry[h])
                   ELSE ctxDone
     /\ UNCHANGED <<status, done, ok, slots, req, op, bounds>>

Current(j) == entry[job[j].host] = held[j]
Step(j, from, to) == pc[j] = from /\ pc' = [pc EXCEPT ![j] = to]
SameRest == UNCHANGED <<job, entry, held, ctxDone, req, op, bounds>>

\* Mutant: the full channel is not waited for.
AcquireAnyway(j) ==
  /\ \/ Step(j, "slot", "begin") /\ slots' = slots + 1 /\ UNCHANGED done
     \/ Step(j, "slot", "end") /\ j \in ctxDone /\ done' = done \cup {held[j]} /\ UNCHANGED slots
  /\ UNCHANGED <<status, ok>> /\ SameRest

Acquire(j) ==
  /\ \/ Step(j, "slot", "begin") /\ slots < Slots /\ slots' = slots + 1 /\ UNCHANGED done
     \/ Step(j, "slot", "end") /\ j \in ctxDone /\ done' = done \cup {held[j]} /\ UNCHANGED slots
  /\ UNCHANGED <<status, ok>> /\ SameRest

\* The host is read, then whether the job is still current.
Begin(j) ==
  /\ \/ j \in ctxDone /\ Step(j, "begin", "release")
     \/ j \notin ctxDone /\ Step(j, "begin", IF Current(j) THEN "mark" ELSE "work")
  /\ UNCHANGED <<status, done, ok, slots>> /\ SameRest

\* Nothing is written once the context is over.
Mark(j) ==
  /\ \/ /\ j \notin ctxDone /\ Step(j, "mark", "work")
        /\ status' = [status EXCEPT ![job[j].host] = "installing"]
     \/ j \in ctxDone /\ Step(j, "mark", "failing") /\ UNCHANGED status
  /\ UNCHANGED <<done, ok, slots>> /\ SameRest

\* Connecting, over SSH or the fallback tunnel, copying, starting, logging in.
Work(j) ==
  /\ \/ Step(j, "work", "failing")
     \/ j \notin ctxDone /\ Step(j, "work", "close")
  /\ UNCHANGED <<status, done, ok, slots>> /\ SameRest

Failing(j) ==
  /\ Step(j, "failing", IF Current(j) THEN "failmark" ELSE "release")
  /\ UNCHANGED <<status, done, ok, slots>> /\ SameRest

\* Mutant: the error is left to the row of the job.
FailMarkNothing(j) ==
  /\ Step(j, "failmark", "release")
  /\ UNCHANGED <<status, done, ok, slots>> /\ SameRest

\* The error is written with the context of the job: not if that is over.
FailMark(j) ==
  /\ Step(j, "failmark", "release")
  /\ status' = IF j \in ctxDone THEN status ELSE [status EXCEPT ![job[j].host] = "error"]
  /\ UNCHANGED <<done, ok, slots>> /\ SameRest

Close(j) ==
  /\ Step(j, "close", IF Current(j) THEN "online" ELSE "release")
  /\ ok' = IF Current(j) THEN ok ELSE ok \cup {j}
  /\ UNCHANGED <<status, done, slots>> /\ SameRest

Online(j) ==
  /\ \/ /\ j \notin ctxDone /\ Step(j, "online", "release")
        /\ status' = [status EXCEPT ![job[j].host] = "online"]
        /\ ok' = ok \cup {j}
     \/ j \in ctxDone /\ Step(j, "online", "failing") /\ UNCHANGED <<status, ok>>
  /\ UNCHANGED <<done, slots>> /\ SameRest

\* Mutant: the slot is given back only by an install that went well.
ReleaseIfWell(j) ==
  /\ Step(j, "release", "end")
  /\ slots' = IF j \in ok THEN slots - 1 ELSE slots
  /\ done' = done \cup {held[j]}
  /\ UNCHANGED <<status, ok>> /\ SameRest

\* releaseInstallSlot, job.finish.
Release(j) ==
  /\ Step(j, "release", "end")
  /\ slots' = slots - 1
  /\ done' = done \cup {held[j]}
  /\ UNCHANGED <<status, ok>> /\ SameRest

\* The job manager records the outcome and goes on with the queue.
End(j) ==
  /\ Step(j, "end", "none")
  /\ job' = [job EXCEPT ![j].state =
       IF j \in ok THEN "succeeded" ELSE "failed"]    \* "failed": canceled ones, too
  /\ held' = [held EXCEPT ![j] = NoEntry]
  /\ ctxDone' = ctxDone \ {j} /\ ok' = ok \ {j}
  /\ UNCHANGED <<status, entry, done, slots, req, op, bounds>>

RunnerStep(j) ==
  \/ Run(j) \/ Acquire(j) \/ Begin(j) \/ Mark(j) \/ Work(j)
  \/ Failing(j) \/ FailMark(j) \/ Close(j) \/ Online(j) \/ Release(j) \/ End(j)
-----------------------------------------------------------------------------
(* CancelInstall, other ends of a context, restarts *)

CancelInstall(h) ==
  /\ op.at = "idle" /\ canceled < MaxCancels
  /\ canceled' = canceled + 1
  /\ op' = IF Active(h) THEN [at |-> "stop", host |-> h, entry |-> entry[h]]
           ELSE [at |-> "write", host |-> h, entry |-> NoEntry]
  /\ UNCHANGED <<status, job, entry, done, pc, held, ctxDone, ok, slots, req, aborted,
                 restarts>>

\* jobs.Cancel: a waiting job is taken out, a running one loses its context.
CancelJob(j) ==
  IF job[j].state = "queued"
  THEN job' = [job EXCEPT ![j].state = "canceled"] /\ UNCHANGED ctxDone
  ELSE /\ UNCHANGED job
       /\ ctxDone' = IF job[j].state = "running" THEN ctxDone \cup {j} ELSE ctxDone

CancelStop ==
  /\ op.at = "stop"
  /\ CancelJob(op.entry.job)
  /\ done' = done \cup {op.entry}
  /\ op' = [op EXCEPT !.at = "write"]
  /\ UNCHANGED <<status, entry, pc, held, ok, slots, req, bounds>>

\* With the context of the operator's request.
CancelWrite ==
  /\ op.at = "write"
  /\ status' = [status EXCEPT ![op.host] = "error"]
  /\ op' = NoOp
  /\ UNCHANGED <<job, entry, done, pc, held, ctxDone, ok, slots, req, bounds>>

Abort(j) ==
  /\ job[j].state \in {"queued", "running"} /\ Cardinality(aborted) < MaxAborts
  /\ aborted' = aborted \cup {j}
  /\ CancelJob(j)
  /\ UNCHANGED <<status, entry, done, pc, held, ok, slots, req, op, canceled, restarts>>

\* The jobs do not resume; hosts left "installing" are set to "error".
ResetStuckInstalls == [h \in Host |-> IF status[h] = "installing" THEN "error" ELSE status[h]]

Restart ==
  /\ restarts < MaxRestarts
  /\ restarts' = restarts + 1
  /\ status' = ResetStuckInstalls
  /\ job' = [j \in Job |-> IF job[j].state \in {"queued", "running"}
                           THEN [job[j] EXCEPT !.state = "interrupted"] ELSE job[j]]
  /\ entry' = [h \in Host |-> NoEntry] /\ done' = {}
  /\ pc' = [j \in Job |-> "none"] /\ held' = [j \in Job |-> NoEntry]
  /\ ctxDone' = {} /\ ok' = {} /\ slots' = 0
  /\ req' = [r \in Request |-> NoRequest]
  /\ op' = NoOp
  /\ UNCHANGED <<canceled, aborted>>

Next ==
  \/ \E r \in Request : (\E h \in Host : Check(r, h)) \/ Refuse(r) \/ StartJob(r) \/ MakeEntry(r)
  \/ \E j \in Job : RunnerStep(j) \/ Abort(j)
  \/ \E h \in Host : CancelInstall(h)
  \/ CancelStop \/ CancelWrite \/ Restart

\* Goroutines of the hub run.  Every step of an install ends, at the latest
\* with its context.
Fairness ==
  /\ \A j \in Job : WF_vars(RunnerStep(j))
  /\ \A r \in Request : WF_vars(Refuse(r) \/ StartJob(r)) /\ WF_vars(MakeEntry(r))
  /\ WF_vars(CancelStop) /\ WF_vars(CancelWrite)

Spec == Init /\ [][Next]_vars /\ Fairness
-----------------------------------------------------------------------------
(* Properties *)

\* No slot is lost and none is given back twice, whatever way the installs of
\* the hosts end: as many are taken as installs work.  With maxParallelInstalls
\* slots, a lost one would at last keep every install waiting.
SlotsRight == slots = Cardinality({j \in Job : pc[j] \in Holding})

\* A host is shown as "installing" only while an install of it, or the call
\* that cancels one, has still to write the outcome ("a status like that can
\* only mean the process that was running the install died",
\* store/hosts.go:541, of the start of a hub).  Not so after an abort: fail
\* writes with the context that was ended.  Nor when requests overlap: a late
\* MakeEntry of one takes the entry from the job of another, which then no
\* longer writes.
InstallingIsUnfinished ==
  (\A r, s \in Request : r = s) =>
    \A h \in Host : status[h] = "installing" =>
      \/ Unfinished(h) # {}
      \/ op.at # "idle" /\ op.host = h
      \/ \E j \in aborted : job[j].host = h

\* "If an install on this host is already running, the number of the running
\* job is returned: the second start starts nothing" (hub/manager.go:864).
SecondStartsNothing == \A h \in Host : Cardinality(Unfinished(h)) <= 1

\* Every install that was started ends: it leaves its queue, gets a slot,
\* and its end is recorded.
InstallsEnd == \A j \in Job : job[j].state = "queued" ~> job[j].state \in Ended
=============================================================================
