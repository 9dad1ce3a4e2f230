----------------------------- MODULE StackMove -----------------------------
(***************************************************************************)
(* Moving a compose stack between hosts: the hub's job (hub/migrate.go)    *)
(* over the steps it has the hosts carry out (api/migrate_ops.go).         *)
(*                                                                         *)
(* The hub runs one such job at a time (queue hub-migrate) and waits for   *)
(* the jobs it starts on the hosts; each host runs its own one at a time   *)
(* (queue migrate).  A host's job goes on when the hub gives up or dies.   *)
(***************************************************************************)
EXTENDS Integers, Sequences, SequencesExt

CONSTANTS
  Host,
  Home,         \* where the stack is at first
  PublishesPorts,  \* the stack binds ports of its host
  HubMachine,   \* the host the hub itself runs on, if it is one of them: one
                \* process, one job manager
  MaxMoves,     \* bound: moves ever started
  MaxWrites,    \* bound: changes clients make to the data
  MaxFaults,    \* bound: calls lost, waits timed out, processes killed
  MaxCancels,   \* bound: jobs canceled by an operator
  Cancelable,   \* which of the hub's jobs the operator cancels
  Breakable     \* which steps may fail by themselves

Move == 1..MaxMoves
NoMove == 0
NoCopy == -2     \* no data of the stack
Part == -1       \* data that were not unpacked to the end
Data == NoCopy..MaxWrites

Action == {"none", "move", "rollback", "remove", "stopnew"}
Op == {"clean", "pack", "unpack", "undo", "remove"}    \* jobs of a host
Call == {"stop", "start", "restart"}                   \* calls answered at once
Place == {"idle", "post", "wait", "copy", "call", "switch", "note", "sweep"}
Stage == {"queued", "stopping", "packing", "filling", "raising", "waiting"}

ASSUME ConstantsAssumption ==
  /\ Home \in Host /\ PublishesPorts \in BOOLEAN
  /\ MaxMoves \in Nat /\ MaxWrites \in Nat /\ MaxFaults \in Nat /\ MaxCancels \in Nat
  /\ Cancelable \subseteq Action
  /\ Breakable \subseteq {"stop", "pack", "copy", "unpack", "raise", "switch"}

VARIABLES
  \* on the hosts
  cont,       \* containers of the stack: "none", "stopped" or "up"
  data,       \* its volumes and directories: how many changes they contain
  staged,     \* staged[h][m]: the files of move m, the manifest with them
  queue,      \* jobs of the host, the first one runs
  result,     \* result[op][m]: what became of the job of a host
  \* at the hub
  hub,        \* the job it runs
  recs,       \* the records of moves, key "migrations"
  route,      \* the host the routes send clients to
  \* history and bounds
  moves, newest, faults, cancels,
  stale,      \* a move was recorded as "moved" while the routes led to its old host,
              \* or rolled back to data that are not there, or not whole
  astray      \* a removal or undo nobody waits for was left on a host, or a
              \* move was made to a host that served the stack already

hosts == <<cont, data, staged, queue, result>>
ghosts == <<moves, newest, cancels>>
vars == <<hosts, hub, recs, route, ghosts, faults, stale, astray>>

Idle == [at |-> "idle", op |-> "none", action |-> "none", id |-> NoMove, from |-> Home,
         to |-> Home, old |-> NoMove, skip |-> FALSE, wipe |-> FALSE, canceled |-> FALSE]
NoRecord == [state |-> "none", from |-> Home, to |-> Home, second |-> FALSE]

Task == [op : Op, id : Move, wipe : BOOLEAN, at : Stage, canceled : BOOLEAN]

TypeOK ==
  /\ cont \in [Host -> {"none", "stopped", "up"}]
  /\ data \in [Host -> Data]
  /\ staged \in [Host -> [Move -> Data]]
  /\ queue \in [Host -> Seq(Task)]
  /\ result \in [Op -> [Move -> {"none", "pending", "succeeded", "failed"}]]
  /\ hub \in [at : Place, op : Op \cup Call \cup {"none"}, action : Action,
              id : Move \cup {NoMove}, from : Host, to : Host, old : Move \cup {NoMove},
              skip : BOOLEAN, wipe : BOOLEAN, canceled : BOOLEAN]
  /\ recs \in [Move -> [state : {"none", "moved", "rolled_back", "removed", "returned"},
                        from : Host, to : Host, second : BOOLEAN]]
  /\ route \in Host
  /\ moves \in 0..MaxMoves /\ newest \in 0..MaxWrites
  /\ faults \in 0..MaxFaults /\ cancels \in 0..MaxCancels
  /\ stale \in BOOLEAN /\ astray \in BOOLEAN

Init ==
  /\ cont = [h \in Host |-> IF h = Home THEN "up" ELSE "none"]
  /\ data = [h \in Host |-> IF h = Home THEN 0 ELSE NoCopy]
  /\ staged = [h \in Host |-> [m \in Move |-> NoCopy]]
  /\ queue = [h \in Host |-> <<>>]
  /\ result = [o \in Op |-> [m \in Move |-> "none"]]
  /\ hub = Idle
  /\ recs = [m \in Move |-> NoRecord]
  /\ route = Home
  /\ moves = 0 /\ newest = 0 /\ faults = 0 /\ cancels = 0
  /\ stale = FALSE /\ astray = FALSE

OnHost == IF hub.op \in {"pack", "remove"} THEN hub.from ELSE hub.to
TaskId == IF hub.op = "clean" THEN hub.old ELSE hub.id

\* What NewestKept needs to know of the past: a record said "moved" while the routes
\* led to the old host, a rollback took a copy that is not whole.
Stale ==
  \/ hub.at = "idle" /\ \E m \in Move : recs[m].state = "moved" /\ recs[m].from = route
  \/ hub.at = "switch" /\ hub.action = "rollback" /\ data[hub.from] \notin 0..newest

Astray ==
  \/ hub.action = "move" /\ hub.to = route /\ hub.at \in {"post", "wait", "copy"}
  \/ hub.op = "clean" /\ cont[hub.to] = "up"
  \/ \E h \in Host : \E i \in DOMAIN queue[h] :
       /\ queue[h][i].op \in {"remove", "clean", "undo"}
       /\ ~(hub.at = "wait" /\ hub.op = queue[h][i].op /\ TaskId = queue[h][i].id)
Watch == stale' = (stale \/ Stale') /\ astray' = (astray \/ Astray')

Fault == faults < MaxFaults /\ faults' = faults + 1
NoFault == UNCHANGED faults
Breaks(step) == step \in Breakable
-----------------------------------------------------------------------------
(* The hub starts a job *)

\* The last record of a move the other way whose old copy lies on "to".
Leftovers(from, to) ==
  {m \in Move : /\ recs[m].from = to /\ recs[m].to = from
                /\ recs[m].state \in {"moved", "removed"}}
Leftover(m, from, to) ==
  IF Leftovers(from, to) = {} THEN m = NoMove
  ELSE m \in Leftovers(from, to) /\ \A k \in Leftovers(from, to) : k <= m

NothingThere(to) == cont[to] = "none" /\ data[to] = NoCopy

\* The plan of the old host and the check of the new one; a copy left there by
\* a move the other way is removed first when the operator asked for that.
StartMove(from, to, clean) ==
  /\ hub.at = "idle" /\ moves < MaxMoves
  /\ from # to
  /\ cont[from] # "none"
  /\ PublishesPorts => cont[to] # "up"
  /\ \E old \in Move \cup {NoMove} :
       /\ IF clean THEN Leftover(old, from, to) ELSE old = NoMove
       /\ old = NoMove => NothingThere(to)
       /\ old # NoMove => result["clean"][old] # "pending"
       /\ hub' = [Idle EXCEPT !.at = "post", !.op = IF old = NoMove THEN "pack" ELSE "clean",
                              !.action = "move", !.id = moves + 1, !.from = from, !.to = to,
                              !.old = old, !.wipe = (old # NoMove)]
  /\ moves' = moves + 1
  /\ UNCHANGED <<hosts, recs, route, newest, cancels, faults>>
  /\ Watch

\* migrateAfter: only of a move recorded as "moved".
StartRollback(m, skip) ==
  /\ hub.at = "idle"
  /\ recs[m].state = "moved"
  /\ hub' = [Idle EXCEPT !.at = "call", !.op = IF skip THEN "start" ELSE "stop",
                         !.action = "rollback", !.id = m, !.from = recs[m].from,
                         !.to = recs[m].to, !.skip = skip]
  /\ UNCHANGED <<hosts, recs, route, ghosts, faults>>
  /\ Watch

\* Mutant: of a move in any state, also one that was rolled back.
StartRemoveAny(m, wipe) ==
  /\ hub.at = "idle"
  /\ recs[m].state # "none"
  /\ result["remove"][m] # "pending"
  /\ hub' = [Idle EXCEPT !.at = "post", !.op = "remove", !.action = "remove", !.id = m,
                         !.from = recs[m].from, !.to = recs[m].to, !.wipe = wipe]
  /\ UNCHANGED <<hosts, recs, route, ghosts, faults>>
  /\ Watch

\* Bound: not again while the job of an earlier attempt is on the host.
StartRemove(m, wipe) ==
  /\ hub.at = "idle"
  /\ recs[m].state = "moved"
  /\ result["remove"][m] # "pending"
  /\ hub' = [Idle EXCEPT !.at = "post", !.op = "remove", !.action = "remove", !.id = m,
                         !.from = recs[m].from, !.to = recs[m].to, !.wipe = wipe]
  /\ UNCHANGED <<hosts, recs, route, ghosts, faults>>
  /\ Watch

StartStopNew(m) ==
  /\ hub.at = "idle"
  /\ recs[m].second
  /\ hub' = [Idle EXCEPT !.at = "call", !.op = "stop", !.action = "stopnew", !.id = m,
                         !.from = recs[m].from, !.to = recs[m].to]
  /\ UNCHANGED <<hosts, recs, route, ghosts, faults>>
  /\ Watch

Cancel ==
  /\ hub.at # "idle" /\ hub.action \in Cancelable /\ ~hub.canceled
  /\ cancels < MaxCancels
  /\ cancels' = cancels + 1
  /\ hub' = [hub EXCEPT !.canceled = TRUE]
  /\ UNCHANGED <<hosts, recs, route, moves, newest, faults>>
  /\ Watch
-----------------------------------------------------------------------------
(* The hub waits for jobs of the hosts *)

Remote(h) == h # HubMachine

\* The rolling back is done with a context of its own.
Aborted == hub.canceled /\ hub.op \notin {"undo", "restart"}

\* Mutant: the undo left out.
ProceedNoUndo(ok) ==
  hub' = CASE ok /\ hub.op \in {"clean", "remove"} -> [hub EXCEPT !.at = "note"]
           [] ok /\ hub.op = "pack" -> [hub EXCEPT !.at = "copy"]
           [] ok /\ hub.op = "unpack" -> [hub EXCEPT !.at = "switch"]
           [] hub.op \in {"unpack", "undo"} -> [hub EXCEPT !.at = "call", !.op = "restart"]
           [] OTHER -> Idle

\* Mutant: the old copy is not started again.
ProceedNoRestart(ok) ==
  hub' = CASE ok /\ hub.op \in {"clean", "remove"} -> [hub EXCEPT !.at = "note"]
           [] ok /\ hub.op = "pack" -> [hub EXCEPT !.at = "copy"]
           [] ok /\ hub.op = "unpack" -> [hub EXCEPT !.at = "switch"]
           [] ~ok /\ hub.op = "unpack" -> [hub EXCEPT !.at = "post", !.op = "undo"]
           [] hub.op = "undo" -> [hub EXCEPT !.at = "sweep"]
           [] OTHER -> Idle

\* What follows a job of a host that ended well, or not.  From the packing on
\* an error has the new host undo its part and the old one start again.
Proceed(ok) ==
  hub' = CASE ok /\ hub.op \in {"clean", "remove"} -> [hub EXCEPT !.at = "note"]
           [] ok /\ hub.op = "pack" -> [hub EXCEPT !.at = "copy"]
           [] ok /\ hub.op = "unpack" -> [hub EXCEPT !.at = "switch"]
           [] ~ok /\ hub.op = "unpack" -> [hub EXCEPT !.at = "post", !.op = "undo"]
           [] hub.op = "undo" -> [hub EXCEPT !.at = "call", !.op = "restart"]
           [] OTHER -> Idle

Submit(h) ==
  /\ queue' = [queue EXCEPT ![h] =
       Append(@, [op |-> hub.op, id |-> TaskId, wipe |-> hub.wipe, at |-> "queued",
                  canceled |-> FALSE])]
  /\ result' = [result EXCEPT ![hub.op][TaskId] = "pending"]

\* hostJob, the request: its answer may not come, whether it was carried out or not.
Post ==
  /\ hub.at = "post"
  /\ \/ /\ ~Aborted
        /\ Submit(OnHost)
        /\ hub' = [hub EXCEPT !.at = "wait"]
        /\ NoFault
     \/ /\ \/ Aborted /\ NoFault
           \/ Remote(OnHost) /\ Fault
        /\ Proceed(FALSE)
        /\ Submit(OnHost) \/ UNCHANGED <<queue, result>>
  /\ UNCHANGED <<cont, data, staged, recs, route, ghosts>>
  /\ Watch

\* The host's own Cancel: a job that waits is taken out, one that runs loses
\* its context, one that has ended stays as it is.
CancelTask(h) ==
  LET Mine(t) == t.op = hub.op /\ t.id = TaskId IN
  \/ /\ \E i \in DOMAIN queue[h] :
          /\ Mine(queue[h][i])
          /\ \/ /\ queue[h][i].at = "queued"
                /\ queue' = [queue EXCEPT ![h] = RemoveAt(@, i)]
                /\ result' = [result EXCEPT ![hub.op][TaskId] = "failed"]
             \/ /\ queue[h][i].at # "queued"
                /\ queue' = [queue EXCEPT ![h][i].canceled = TRUE]
                /\ UNCHANGED result
  \/ /\ \A i \in DOMAIN queue[h] : ~Mine(queue[h][i])
     /\ UNCHANGED <<queue, result>>

\* waitHostJobVia: the end of the job seen, the hub's own job canceled, or 30
\* minutes gone.
Wait ==
  /\ hub.at = "wait"
  /\ \/ /\ result[hub.op][TaskId] \in {"succeeded", "failed"}
        /\ Proceed(result[hub.op][TaskId] = "succeeded")
        /\ NoFault /\ UNCHANGED <<queue, result>>
     \/ /\ Aborted
        /\ Proceed(FALSE)
        /\ \/ NoFault /\ CancelTask(OnHost)
           \/ Remote(OnHost) /\ Fault /\ UNCHANGED <<queue, result>>
     \/ /\ Fault
        /\ Proceed(FALSE)
        /\ UNCHANGED <<queue, result>>
  /\ UNCHANGED <<cont, data, staged, recs, route, ghosts>>
  /\ Watch

\* The files through the hub, the manifest last.
Copy ==
  /\ hub.at = "copy"
  /\ \/ /\ ~Aborted /\ staged[hub.from][hub.id] # NoCopy
        /\ staged' = [staged EXCEPT ![hub.to][hub.id] = staged[hub.from][hub.id]]
        /\ hub' = [hub EXCEPT !.at = "post", !.op = "unpack"]
        /\ NoFault
     \/ /\ \/ (Aborted \/ Breaks("copy") \/ staged[hub.from][hub.id] = NoCopy) /\ NoFault
           \/ Fault
        /\ hub' = [hub EXCEPT !.at = "post", !.op = "undo"]
        /\ UNCHANGED staged
  /\ UNCHANGED <<cont, data, queue, result, recs, route, ghosts>>
  /\ Watch
-----------------------------------------------------------------------------
(* The hub calls docker on a host, switches the routes and keeps its record *)

Answered(ok) ==
  hub' = CASE hub.op = "restart" -> [hub EXCEPT !.at = "sweep"]
           [] ok /\ hub.op = "stop" /\ hub.action = "rollback" -> [hub EXCEPT !.op = "start"]
           [] ok /\ hub.op = "stop" /\ hub.action = "stopnew" -> [hub EXCEPT !.at = "note"]
           [] ok /\ hub.op = "start" -> [hub EXCEPT !.at = "switch"]
           [] OTHER -> Idle

\* docker start on the old host, docker stop on the new one.  Once the host has
\* the request it carries it out, whether the hub still waits or not.
CallHost ==
  /\ hub.at = "call"
  /\ LET h == IF hub.op = "stop" THEN hub.to ELSE hub.from
         Effect == /\ cont[h] # "none"
                   /\ cont' = [cont EXCEPT ![h] = IF hub.op = "stop" THEN "stopped" ELSE "up"]
     IN \/ ~Aborted /\ Effect /\ Answered(TRUE) /\ NoFault
        \/ ~Aborted /\ cont[h] = "none" /\ UNCHANGED cont /\ Answered(FALSE) /\ NoFault
        \/ /\ \/ Aborted /\ NoFault
              \/ Remote(h) /\ Fault
           /\ Effect \/ UNCHANGED cont
           /\ Answered(FALSE)
  /\ UNCHANGED <<data, staged, queue, result, recs, route, ghosts>>
  /\ Watch

\* A rollback gives up what clients changed since the move.
GivenUp(h) == IF hub.action = "rollback" /\ data[h] \in 0..newest THEN data[h] ELSE newest

\* migrateFlySwitch and migrateFlyRevert: an error is only logged.
Switch ==
  /\ hub.at = "switch"
  /\ LET old == IF hub.action = "move" THEN hub.from ELSE hub.to
         new == IF hub.action = "move" THEN hub.to ELSE hub.from
     IN \/ /\ ~Aborted /\ NoFault
           /\ route' = (IF route = old THEN new ELSE route)
           /\ newest' = IF route = old THEN GivenUp(new) ELSE newest
        \/ (Aborted \/ Breaks("switch")) /\ UNCHANGED <<route, newest>> /\ NoFault
        \/ Fault /\ UNCHANGED <<route, newest>>
  /\ hub' = [hub EXCEPT !.at = "note"]
  /\ UNCHANGED <<hosts, recs, moves, cancels>>
  /\ Watch

\* Mutant: the name of the step is recorded instead of the state.
NotedStep == [recs EXCEPT ![hub.id].state = hub.op]

Noted ==
  CASE hub.op = "clean" -> [recs EXCEPT ![hub.old].state = "returned"]
    [] hub.op = "unpack" -> [recs EXCEPT ![hub.id] =
         [state |-> "moved", from |-> hub.from, to |-> hub.to, second |-> FALSE]]
    [] hub.op = "remove" -> [recs EXCEPT ![hub.id].state = "removed", ![hub.id].second = FALSE]
    [] hub.op = "start" -> [recs EXCEPT ![hub.id].state = "rolled_back",
                                        ![hub.id].second = hub.skip]
    [] OTHER -> [recs EXCEPT ![hub.id].second = FALSE]

\* updateMigrations: reads the list and writes it back.  No error of either is
\* noticed: one of the write keeps the old list, one of the read alone makes
\* the list start anew.
Note ==
  /\ hub.at = "note"
  /\ \/ ~Aborted /\ recs' = Noted /\ NoFault
     \/ Aborted /\ UNCHANGED recs /\ NoFault
     \/ Fault /\ UNCHANGED recs
     \/ /\ Fault
        /\ recs' = [m \in Move |-> IF hub.op = "unpack" /\ m = hub.id THEN Noted[m]
                                   ELSE NoRecord]
  /\ hub' = CASE hub.op = "clean" -> [hub EXCEPT !.at = "post", !.op = "pack"]
              [] hub.op = "unpack" -> [hub EXCEPT !.at = "sweep"]
              [] OTHER -> Idle
  /\ UNCHANGED <<hosts, route, ghosts>>
  /\ Watch

\* The files of the move are deleted on both hosts.
Sweep ==
  /\ hub.at = "sweep"
  /\ \/ /\ staged' = [h \in Host |-> IF h \in {hub.from, hub.to}
                                     THEN [staged[h] EXCEPT ![hub.id] = NoCopy] ELSE staged[h]]
        /\ NoFault
     \/ UNCHANGED staged /\ Fault
  /\ hub' = Idle
  /\ UNCHANGED <<cont, data, queue, result, recs, route, ghosts>>
  /\ Watch

HubStep == Post \/ Wait \/ Copy \/ CallHost \/ Switch \/ Note \/ Sweep
-----------------------------------------------------------------------------
(* The hosts *)

\* Queue keys: the job manager of the hub's machine serves both.
MigrateHostQueue == "migrate"
SharedQueue == "migrate"    \* Mutant: as before v1.13.47
migrateHubQueue == "hub-migrate"
QueueFree(h) == h = HubMachine /\ MigrateHostQueue = migrateHubQueue => hub.at = "idle"

Running(h) == Head(queue[h])
At(h, op, stage) ==
  queue[h] # <<>> /\ Running(h).op = op /\ Running(h).at = stage /\ QueueFree(h)
Advance(h, stage) == queue' = [queue EXCEPT ![h][1].at = stage] /\ UNCHANGED result
End(h, r) ==
  /\ queue' = [queue EXCEPT ![h] = Tail(@)]
  /\ result' = [result EXCEPT ![Running(h).op][Running(h).id] = r]
Fails(h, step) == Running(h).canceled \/ Breaks(step)
Packed(h) == staged[h][Running(h).id]

\* Mutant: the files are packed while the containers run.
StopNothing(h) == UNCHANGED cont
StopContainers(h) == cont' = [cont EXCEPT ![h] = "stopped"]

PackBegin(h) ==
  /\ At(h, "pack", "queued")
  /\ IF cont[h] = "none" THEN End(h, "failed") ELSE Advance(h, "stopping")
  /\ UNCHANGED <<cont, data, staged>>

\* An error of docker stop, or its end by the cancelation, returns before the
\* deferred start is there: the containers may have stopped all the same.
PackStop(h) ==
  /\ At(h, "pack", "stopping")
  /\ \/ ~Running(h).canceled /\ StopContainers(h) /\ Advance(h, "packing")
     \/ /\ Fails(h, "stop")
        /\ StopContainers(h) \/ UNCHANGED cont
        /\ End(h, "failed")
  /\ UNCHANGED <<data, staged>>

PackFiles(h) ==
  /\ At(h, "pack", "packing")
  /\ \/ /\ ~Running(h).canceled
        /\ staged' = [staged EXCEPT ![h][Running(h).id] = data[h]]
        /\ End(h, "succeeded")
        /\ UNCHANGED cont
     \/ /\ Fails(h, "pack")
        /\ cont' = [cont EXCEPT ![h] = "up"]
        /\ staged' = [staged EXCEPT ![h][Running(h).id] = NoCopy]
        /\ End(h, "failed")
  /\ UNCHANGED data

UnpackBegin(h) ==
  /\ At(h, "unpack", "queued")
  /\ \/ /\ Packed(h) = NoCopy \/ data[h] # NoCopy
        /\ End(h, "failed")
        /\ UNCHANGED data
     \/ /\ Packed(h) # NoCopy /\ data[h] = NoCopy
        /\ data' = [data EXCEPT ![h] = Part]
        /\ Advance(h, "filling")
  /\ UNCHANGED <<cont, staged>>

\* Directories, images, containers that are not started, then the volumes.
UnpackFill(h) ==
  /\ At(h, "unpack", "filling")
  /\ \/ /\ ~Running(h).canceled /\ Packed(h) # NoCopy
        /\ data' = [data EXCEPT ![h] = Packed(h)]
        /\ cont' = [cont EXCEPT ![h] = "stopped"]
        /\ Advance(h, "raising")
     \/ /\ Fails(h, "unpack") \/ Packed(h) = NoCopy
        /\ \E c \in {"none", "stopped"} : cont' = [cont EXCEPT ![h] = c]
        /\ End(h, "failed")
        /\ UNCHANGED data
  /\ UNCHANGED staged

\* docker compose up --wait: the containers run before it is known that they do well.
UnpackRaise(h) ==
  /\ At(h, "unpack", "raising")
  /\ \/ /\ ~Running(h).canceled
        /\ cont' = [cont EXCEPT ![h] = "up"]
        /\ Advance(h, "waiting")
     \/ Fails(h, "raise") /\ End(h, "failed") /\ UNCHANGED cont
  /\ UNCHANGED <<data, staged>>

UnpackWait(h) ==
  /\ At(h, "unpack", "waiting")
  /\ \/ ~Running(h).canceled /\ End(h, "succeeded")
     \/ Fails(h, "raise") /\ End(h, "failed")
  /\ UNCHANGED <<cont, data, staged>>

\* Without the manifest there is nothing to go by.
Undo(h) ==
  /\ At(h, "undo", "queued")
  /\ \/ /\ Packed(h) = NoCopy
        /\ End(h, "failed")
        /\ UNCHANGED <<cont, data>>
     \/ /\ Packed(h) # NoCopy
        /\ cont' = [cont EXCEPT ![h] = "none"]
        /\ data' = [data EXCEPT ![h] = NoCopy]
        /\ End(h, "succeeded")
  /\ UNCHANGED staged

\* migrateRemove, of the old copy or of one left by a move the other way.
RemoveCopy(h) ==
  /\ At(h, "remove", "queued") \/ At(h, "clean", "queued")
  /\ cont' = [cont EXCEPT ![h] = "none"]
  /\ data' = [data EXCEPT ![h] = IF Running(h).wipe THEN NoCopy ELSE @]
  /\ End(h, "succeeded")
  /\ UNCHANGED staged

HostStep(h) ==
  /\ \/ PackBegin(h) \/ PackStop(h) \/ PackFiles(h)
     \/ UnpackBegin(h) \/ UnpackFill(h) \/ UnpackRaise(h) \/ UnpackWait(h)
     \/ Undo(h) \/ RemoveCopy(h)
  /\ UNCHANGED <<hub, recs, route, ghosts, faults>>
  /\ Watch

\* A removal or an undo whose docker commands fail: the one says so halfway
\* through, the other does not notice.
DockerFails(h) ==
  /\ Fault
  /\ \/ /\ At(h, "remove", "queued") \/ At(h, "clean", "queued")
        /\ cont' = [cont EXCEPT ![h] = "none"]
        /\ End(h, "failed")
     \/ /\ At(h, "undo", "queued")
        /\ End(h, "succeeded")
        /\ UNCHANGED cont
  /\ UNCHANGED <<data, staged, hub, recs, route, ghosts>>
  /\ Watch

\* Jobs of a host are not resumable: a restart marks them interrupted.
Interrupt(h) ==
  /\ queue' = [queue EXCEPT ![h] = <<>>]
  /\ result' = [o \in Op |-> [m \in Move |->
       IF h \in Host /\ \E i \in DOMAIN queue[h] : queue[h][i].op = o /\ queue[h][i].id = m
       THEN "failed" ELSE result[o][m]]]

HostRestarts(h) ==
  /\ Fault /\ Remote(h) /\ queue[h] # <<>>
  /\ Interrupt(h)
  /\ UNCHANGED <<cont, data, staged, hub, recs, route, ghosts>>
  /\ Watch

\* Neither is the job of the hub; what it had deferred is not done.
HubRestarts ==
  /\ Fault /\ hub.at # "idle"
  /\ hub' = Idle
  /\ Interrupt(HubMachine)
  /\ UNCHANGED <<cont, data, staged, recs, route, ghosts>>
  /\ Watch

\* Clients change the data of the copy the routes lead to, which then differ from
\* all that clients wrote before.
Write ==
  /\ cont[route] = "up" /\ data[route] # Part
  /\ LET now == IF data[route] > newest THEN data[route] ELSE newest IN
       /\ now < MaxWrites
       /\ newest' = now + 1
       /\ data' = [data EXCEPT ![route] = now + 1]
  /\ UNCHANGED <<cont, staged, queue, result, hub, recs, route, moves, faults, cancels>>
  /\ Watch

Next ==
  \/ \E from, to \in Host, clean \in BOOLEAN : StartMove(from, to, clean)
  \/ \E m \in Move, b \in BOOLEAN : StartRollback(m, b) \/ StartRemove(m, b)
  \/ \E m \in Move : StartStopNew(m)
  \/ Cancel \/ HubStep \/ Write \/ HubRestarts
  \/ \E h \in Host : HostStep(h) \/ DockerFails(h) \/ HostRestarts(h)

\* The hub's goroutine runs, its waits end, and the hosts work off their queues.
Fairness == WF_vars(HubStep) /\ \A h \in Host : WF_vars(HostStep(h))
Spec == Init /\ [][Next]_vars /\ Fairness
-----------------------------------------------------------------------------
(* Properties *)

Calm == faults = 0 /\ cancels = 0

\* Two hosts.  With a third one an old copy that is stopped can be moved on from
\* its host: nothing in migrateProblems (hub/migrate.go:194) asks whether the copy
\* to be moved is the one that runs, and then two of them do.
TwoHosts == \A f, g, h \in Host : f = g \/ g = h \/ f = h

\* The clients are served: whenever no job of the hub runs, and no call was
\* lost and nothing canceled, the host the routes lead to runs the stack,
\* however the steps of packing, copying and unpacking failed ("an error rolls
\* back by itself", WHATSNEW.en.md:1436).  Not so when docker stop of the packing
\* or the switch of the routes itself fails: neither is undone.
ServedWhenIdle ==
  TwoHosts /\ Calm /\ Breakable \cap {"stop", "switch"} = {} /\ hub.at = "idle" =>
    astray \/ cont[route] = "up"

\* Both copies run only where a rollback went on without the new host, and
\* then the record says so (NewNotStopped), so that it can be stopped.  Not so
\* when such a rollback is canceled before it makes its record.
Marked == \E m \in Move : recs[m].second
SkippingNow == hub.action = "rollback" /\ hub.skip
OneCopyRuns ==
  TwoHosts /\ faults = 0 /\ "rollback" \notin Cancelable =>
    \A g, h \in Host : cont[g] = "up" /\ cont[h] = "up" /\ g # h => Marked \/ SkippingNow

\* When the routes are about to be switched, the new host has every change the
\* clients made on the old one, which was stopped before its data were read.
NothingLeftBehind ==
  hub.at = "switch" /\ hub.action = "move" => data[hub.to] >= data[hub.from]

\* The host the routes lead to has what clients wrote last, whole: no undo, removal,
\* cleaning of leftovers or late job of a host deletes or replaces it, whatever is
\* canceled, lost or restarted - unless the record of a move and the routes fell out
\* of step, or a rollback went to a copy that is not whole (stale), a removal or undo
\* the hub gave up on is carried out after all, or the move was made to a host that
\* served the stack already (astray).
NewestKept == stale \/ astray \/ data[route] = newest

\* Every job of the hub ends.
MoveEnds == hub.at # "idle" ~> hub.at = "idle"

\* What a move cleans off the new host is what an earlier move left there
\* ("already there" is the leftovers of the old copy, hub/migrate.go:1105),
\* never a copy that runs.
CleansLeftovers == hub.op = "clean" => cont[hub.to] # "up"

\* A canceled move leaves the stack running where it ran, once the hosts have
\* done what was queued there: "cancelling a move rolls it back ... packing
\* starts the containers again by itself" (WHATSNEW.en.md:1406).
CanceledRollsBack ==
  faults = 0 /\ hub.at = "idle" /\ (\A h \in Host : queue[h] = <<>>) => cont[route] = "up"
=============================================================================
