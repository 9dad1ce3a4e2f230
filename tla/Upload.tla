------------------------------- MODULE Upload -------------------------------
(***************************************************************************)
(* Files sent from a browser as jobs of the host                           *)
(* (internal/api/upload_jobs.go): a session ties the request that carries  *)
(* the file to the job that waits for it and then uses it.                 *)
(*                                                                         *)
(* A file is two portions; what the disk holds is who wrote each of them.  *)
(* A step is what happens under one hold of a session's lock, or one call  *)
(* of the file system, the engine or the database.                         *)
(***************************************************************************)
EXTENDS Naturals

CONSTANTS
  Upload,       \* sessions: a token, a job and an inode each
  Archive,      \* names of archives
  Nobody,       \* no inode; nobody's portion
  MaxRestarts   \* bound: restarts of the service

ASSUME ConstantsAssumption ==
  /\ Nobody \notin Upload
  /\ MaxRestarts \in Nat

\* archive: kept; load: loaded into an engine, and perhaps removed then;
\* image: moved to the directory of libvirt.
Purpose == {"archive", "load", "image"}

\* The request for the job, the job, and the request that carries the file.
HandlerAt == {"no", "put", "started", "answered", "refused"}
JobAt == {"none", "wait", "watch", "stale", "work", "loaded", "succeeded", "failed"}
ReceiverAt == {"none", "open", "first", "second", "close", "undo",
               "saved", "undone", "received", "broken", "cut"}

VARIABLES
  purpose, name,   \* UploadParams of the session
  handler, job, receiver,
  aborted,         \* uploadSession.aborted
  transfers,       \* Server.transfers
  bound,           \* Server.transferJobs
  part,            \* the inode at the path of an archive with .part
  final,           \* the inode at the path of an archive
  bytes,           \* [inode -> who wrote its portions]
  fd,              \* the inode a receiver writes to
  temps,           \* uploads whose image lies in a temporary file
  loaded,          \* what the engine read from the archive of a job
  restarts,
  shared           \* history: uploads that met another one of the same archive

memory == <<transfers, bound, aborted>>
disk == <<part, final, bytes, temps>>
places == <<handler, job, receiver>>
vars == <<purpose, name, places, memory, disk, fd, loaded, restarts, shared>>

Portions == [1..2 -> Upload \cup {Nobody}]
Empty == [k \in 1..2 |-> Nobody]
Whole(u) == [k \in 1..2 |-> u]

IsArchive(u) == purpose[u] # "image"
Writing(u) == receiver[u] \in {"first", "second", "close"}
Receiving(u) == Writing(u) \/ receiver[u] \in {"open", "undo", "saved", "undone"}
Ended(u) == job[u] \in {"succeeded", "failed"}

TypeOK ==
  /\ purpose \in [Upload -> Purpose] /\ name \in [Upload -> Archive]
  /\ handler \in [Upload -> HandlerAt]
  /\ job \in [Upload -> JobAt]
  /\ receiver \in [Upload -> ReceiverAt]
  /\ aborted \subseteq Upload /\ transfers \subseteq Upload /\ bound \subseteq transfers
  /\ part \in [Archive -> Upload \cup {Nobody}]
  /\ final \in [Archive -> Upload \cup {Nobody}]
  /\ bytes \in [Upload -> Portions]
  /\ fd \in [Upload -> Upload \cup {Nobody}]
  /\ \A u \in Upload : Writing(u) /\ IsArchive(u) => fd[u] \in Upload
  /\ temps \subseteq Upload
  /\ loaded \in [Upload -> Portions]
  /\ restarts \in 0..MaxRestarts
  /\ shared \subseteq Upload

Init ==
  /\ purpose = [u \in Upload |-> "archive"]
  /\ name \in {[u \in Upload |-> n] : n \in Archive}   \* no session yet
  /\ handler = [u \in Upload |-> "no"]
  /\ job = [u \in Upload |-> "none"]
  /\ receiver = [u \in Upload |-> "none"]
  /\ aborted = {} /\ transfers = {} /\ bound = {}
  /\ part = [n \in Archive |-> Nobody]
  /\ final = [n \in Archive |-> Nobody]
  /\ bytes = [u \in Upload |-> Empty]
  /\ fd = [u \in Upload |-> Nobody]
  /\ temps = {}
  /\ loaded = [u \in Upload |-> Empty]
  /\ restarts = 0
  /\ shared = {}
-----------------------------------------------------------------------------
(* POST /uploads/begin *)

\* Uploads of the archive whose session or whose file is still in use.
Others(n) == {v \in transfers : IsArchive(v) /\ name[v] = n}
               \cup {v \in Upload : Receiving(v) /\ IsArchive(v) /\ name[v] = n}

\* The parameters are checked and the session is put into the map.  Nobody asks
\* whether the name is in use.
Begin(u, p, n) ==
  /\ handler[u] = "no"
  /\ handler' = [handler EXCEPT ![u] = "put"]
  /\ purpose' = [purpose EXCEPT ![u] = p]
  /\ name' = [name EXCEPT ![u] = n]
  /\ transfers' = transfers \cup {u}
  /\ shared' = IF p = "image" \/ Others(n) = {} THEN shared
               ELSE shared \cup Others(n) \cup {u}
  /\ UNCHANGED <<job, receiver, bound, aborted, disk, fd, loaded, restarts>>

\* dropUploadSession.
Drop(u) == transfers' = transfers \ {u} /\ bound' = bound \ {u}

\* jobs.Start: the row and, as every upload has a queue of its own, at once the
\* goroutine; or an error of the database.
StartJob(u) ==
  /\ handler[u] = "put"
  /\ \/ /\ handler' = [handler EXCEPT ![u] = "started"]
        /\ job' = [job EXCEPT ![u] = "wait"]
        /\ UNCHANGED <<transfers, bound>>
     \/ /\ handler' = [handler EXCEPT ![u] = "refused"]
        /\ Drop(u)
        /\ UNCHANGED job
  /\ UNCHANGED <<purpose, name, receiver, aborted, disk, fd, loaded, restarts, shared>>

\* bindUpload, and the answer with the token.
Bind(u) ==
  /\ handler[u] = "started"
  /\ handler' = [handler EXCEPT ![u] = "answered"]
  /\ bound' = bound \cup {u}
  /\ UNCHANGED <<purpose, name, job, receiver, transfers, aborted, disk, fd, loaded,
                 restarts, shared>>
-----------------------------------------------------------------------------
(* The request that carries the file *)

\* receiveUpload: the session is looked up and taken; a second request with the
\* token is refused, and so is one that comes after the job gave up waiting.
Receive(u) ==
  /\ handler[u] = "answered"
  /\ u \in transfers
  /\ receiver[u] = "none" /\ u \notin aborted
  /\ receiver' = [receiver EXCEPT ![u] = "open"]
  /\ UNCHANGED <<purpose, name, handler, job, memory, disk, fd, loaded, restarts, shared>>

\* Mutant: the file is not created when it is not there.
InodeThere(u) == part[name[u]]
\* O_CREATE: the inode that is at the path, or a new one.
Inode(u) == IF part[name[u]] = Nobody THEN u ELSE part[name[u]]

\* The temporary file: of an archive a fixed path, emptied (O_TRUNC); of an
\* image a new one.
Open(u) ==
  /\ receiver[u] = "open"
  /\ \/ /\ receiver' = [receiver EXCEPT ![u] = "first"]
        /\ \/ /\ IsArchive(u)
              /\ part' = [part EXCEPT ![name[u]] = Inode(u)]
              /\ bytes' = [bytes EXCEPT ![Inode(u)] = Empty]
              /\ fd' = [fd EXCEPT ![u] = Inode(u)]
              /\ UNCHANGED temps
           \/ /\ ~IsArchive(u)
              /\ temps' = temps \cup {u}
              /\ UNCHANGED <<part, bytes, fd>>
     \/ /\ receiver' = [receiver EXCEPT ![u] = "undone"]
        /\ UNCHANGED <<part, bytes, fd, temps>>
  /\ UNCHANGED <<purpose, name, handler, job, memory, final, loaded, restarts, shared>>

\* Mutant: the error of the copy is lost, and the file is taken for complete.
OnErrorPublish == "close"
OnError == "undo"

\* A portion is counted and written; add tells the reader that nobody waits for
\* the file any more, and the copy ends with an error.
Portion(u) ==
  LET k == IF receiver[u] = "first" THEN 1 ELSE 2 IN
  /\ receiver[u] \in {"first", "second"}
  /\ receiver' = [receiver EXCEPT ![u] = IF u \in aborted THEN OnError
                                         ELSE IF k = 1 THEN "second" ELSE "close"]
  /\ bytes' = IF IsArchive(u) THEN [bytes EXCEPT ![fd[u]][k] = u] ELSE bytes
  /\ UNCHANGED <<purpose, name, handler, job, memory, part, final, temps, fd, loaded,
                 restarts, shared>>

\* The connection breaks, its deadline passes, or the disk is full.
Break(u) ==
  /\ receiver[u] \in {"first", "second"}
  /\ receiver' = [receiver EXCEPT ![u] = OnError]
  /\ UNCHANGED <<purpose, name, handler, job, memory, disk, fd, loaded, restarts, shared>>

\* The file is closed; the rename takes whatever is at the path of the temporary
\* file.  An image stays where it is, unless it is empty.
Publish(u) ==
  /\ receiver[u] = "close"
  /\ \/ /\ IsArchive(u) /\ part[name[u]] # Nobody
        /\ final' = [final EXCEPT ![name[u]] = part[name[u]]]
        /\ part' = [part EXCEPT ![name[u]] = Nobody]
        /\ receiver' = [receiver EXCEPT ![u] = "saved"]
     \/ /\ ~IsArchive(u)
        /\ receiver' = [receiver EXCEPT ![u] = "saved"]
        /\ UNCHANGED <<final, part>>
     \/ /\ receiver' = [receiver EXCEPT ![u] = "undo"]   \* gone, empty, or an error
        /\ UNCHANGED <<final, part>>
  /\ UNCHANGED <<purpose, name, handler, job, memory, bytes, temps, fd, loaded, restarts,
                 shared>>

\* Mutant: the temporary image is left where it is.
LeftOf(u) == temps
WithoutTemp(u) == temps \ {u}

\* os.Remove of the temporary file: again whatever is at its path.
Undo(u) ==
  /\ receiver[u] = "undo"
  /\ receiver' = [receiver EXCEPT ![u] = "undone"]
  /\ \/ /\ IsArchive(u)
        /\ part' = [part EXCEPT ![name[u]] = Nobody]
        /\ UNCHANGED temps
     \/ /\ ~IsArchive(u)
        /\ temps' = WithoutTemp(u)
        /\ UNCHANGED part
  /\ UNCHANGED <<purpose, name, handler, job, memory, final, bytes, fd, loaded, restarts,
                 shared>>

\* finish: the session has its path or its error, and done is closed.
Finish(u) ==
  /\ receiver[u] \in {"saved", "undone"}
  /\ receiver' = [receiver EXCEPT ![u] = IF @ = "saved" THEN "received" ELSE "broken"]
  /\ UNCHANGED <<purpose, name, handler, job, memory, disk, fd, loaded, restarts, shared>>
-----------------------------------------------------------------------------
(* The job: uploadRunner.Run *)

\* The runner returns; the deferred dropUploadSession runs.
End(u, s) == job' = [job EXCEPT ![u] = s] /\ Drop(u)

\* uploadTokenFor finds the token.
Lookup(u) ==
  /\ job[u] = "wait"
  /\ u \in bound /\ u \in transfers
  /\ job' = [job EXCEPT ![u] = "watch"]
  /\ UNCHANGED <<purpose, name, handler, receiver, memory, disk, fd, loaded, restarts,
                 shared>>

\* It is not there after five seconds, or the job is canceled first: "lost".
\* The session stays in the maps.
GiveUp(u) ==
  /\ job[u] = "wait"
  /\ u \notin bound
  /\ job' = [job EXCEPT ![u] = "failed"]
  /\ UNCHANGED <<purpose, name, handler, receiver, memory, disk, fd, loaded, restarts,
                 shared>>

\* Mutant: the session's error is not looked at.
FailedNever(u) == FALSE
Failed(u) == receiver[u] = "broken"

\* done is closed: an error ends the job, an archive that is only kept is ready.
Done(u) ==
  /\ job[u] = "watch"
  /\ receiver[u] \in {"received", "broken"}
  /\ \/ Failed(u) /\ End(u, "failed")
     \/ ~Failed(u) /\ purpose[u] = "archive" /\ End(u, "succeeded")
     \/ /\ ~Failed(u) /\ purpose[u] # "archive"
        /\ job' = [job EXCEPT ![u] = "work"]
        /\ UNCHANGED <<transfers, bound>>
  /\ UNCHANGED <<purpose, name, handler, receiver, aborted, disk, fd, loaded, restarts,
                 shared>>

\* ctx.Done, by Cancel or by the stop of the service: also when done is closed
\* at the same time, as select takes either.
Cancel(u) ==
  /\ job[u] = "watch"
  /\ aborted' = aborted \cup {u}
  /\ End(u, "failed")
  /\ UNCHANGED <<purpose, name, handler, receiver, disk, fd, loaded, restarts, shared>>

\* Mutant: only a transfer that has begun can fall silent.
SilentBegun(u) == receiver[u] \in {"first", "second"}
\* Nothing has come for uploadIdleTimeout: no request, or no further portion.
Silent(u) == receiver[u] \in {"none", "first", "second"}

\* The tick reads the session, and aborts it in another hold of its lock.
Tick(u) ==
  /\ job[u] = "watch"
  /\ Silent(u)
  /\ job' = [job EXCEPT ![u] = "stale"]
  /\ UNCHANGED <<purpose, name, handler, receiver, memory, disk, fd, loaded, restarts,
                 shared>>

Stall(u) ==
  /\ job[u] = "stale"
  /\ aborted' = aborted \cup {u}
  /\ End(u, "failed")
  /\ UNCHANGED <<purpose, name, handler, receiver, disk, fd, loaded, restarts, shared>>

\* docker load of what is at the path now; it may fail, or be canceled.
Load(u) ==
  /\ job[u] = "work" /\ purpose[u] = "load"
  /\ \/ /\ final[name[u]] # Nobody
        /\ loaded' = [loaded EXCEPT ![u] = bytes[final[name[u]]]]
        /\ job' = [job EXCEPT ![u] = "loaded"]
        /\ UNCHANGED <<transfers, bound>>
     \/ /\ End(u, "failed")
        /\ UNCHANGED loaded
  /\ UNCHANGED <<purpose, name, handler, receiver, aborted, disk, fd, restarts, shared>>

\* removeLoadedArchive, when it was asked for and works.
Loaded(u) ==
  /\ job[u] = "loaded"
  /\ \/ final' = [final EXCEPT ![name[u]] = Nobody]
     \/ UNCHANGED final
  /\ End(u, "succeeded")
  /\ UNCHANGED <<purpose, name, handler, receiver, aborted, part, bytes, temps, fd, loaded,
                 restarts, shared>>

\* PutHostImage copies the image and removes the temporary file (a failure of
\* the removal is passed over); when it fails the runner removes it.
PutImage(u) ==
  /\ job[u] = "work" /\ purpose[u] = "image"
  /\ \/ End(u, "succeeded") /\ (temps' = temps \ {u} \/ UNCHANGED temps)
     \/ End(u, "failed") /\ temps' = WithoutTemp(u)
  /\ UNCHANGED <<purpose, name, handler, receiver, aborted, part, final, bytes, fd, loaded,
                 restarts, shared>>
-----------------------------------------------------------------------------
\* The service restarts: sessions and requests are gone, files stay; Recover
\* gives up the unfinished jobs (Resumable is false).
Restart ==
  /\ restarts < MaxRestarts
  /\ restarts' = restarts + 1
  /\ transfers' = {} /\ bound' = {} /\ aborted' = {}
  /\ handler' = [u \in Upload |-> IF handler[u] \in {"put", "started"} THEN "refused"
                                  ELSE handler[u]]
  /\ job' = [u \in Upload |-> IF job[u] = "none" \/ Ended(u) THEN job[u] ELSE "failed"]
  /\ receiver' = [u \in Upload |-> IF Receiving(u) THEN "cut" ELSE receiver[u]]
  /\ UNCHANGED <<purpose, name, disk, fd, loaded, shared>>

Next ==
  \/ Restart
  \/ \E u \in Upload :
       \/ \E p \in Purpose, n \in Archive : Begin(u, p, n)
       \/ StartJob(u) \/ Bind(u)
       \/ Receive(u) \/ Open(u) \/ Portion(u) \/ Break(u) \/ Publish(u) \/ Undo(u)
       \/ Finish(u)
       \/ Lookup(u) \/ GiveUp(u) \/ Done(u) \/ Cancel(u) \/ Tick(u) \/ Stall(u)
       \/ Load(u) \/ Loaded(u) \/ PutImage(u)

Spec == Init /\ [][Next]_vars

\* Goroutines run, timers tick and calls return; what the browser sends comes, or
\* the deadline of the request passes (extendUpload).  Nobody has to send a file,
\* cancel or restart.
Fairness ==
  \A u \in Upload :
    /\ WF_vars(StartJob(u)) /\ WF_vars(Bind(u))
    /\ WF_vars(Open(u)) /\ WF_vars(Portion(u) \/ Break(u))
    /\ WF_vars(Publish(u)) /\ WF_vars(Undo(u)) /\ WF_vars(Finish(u))
    /\ WF_vars(Lookup(u)) /\ WF_vars(Done(u)) /\ WF_vars(Tick(u)) /\ WF_vars(Stall(u))
    /\ WF_vars(Load(u)) /\ WF_vars(Loaded(u)) /\ WF_vars(PutImage(u))

FairSpec == Spec /\ Fairness
-----------------------------------------------------------------------------
(* Properties *)

\* "Written to a temporary file and renamed at the end" (writeArchive): what
\* stands under the name of an archive is the whole of one file, across broken
\* transfers, aborts and restarts, unless two uploads of that name overlapped:
\* they write to one temporary file.
ArchivesAreWhole ==
  \A n \in Archive :
    final[n] # Nobody /\ (\A u \in shared : name[u] # n)
      => \E u \in Upload : name[u] = n /\ bytes[final[n]] = Whole(u)

\* A job succeeds only with its own file: received to the end without an error,
\* and, when nobody else used its name meanwhile, in place or loaded whole.
SuccessIsWhole ==
  [][\A u \in Upload : job[u] # "succeeded" /\ job'[u] = "succeeded" =>
       /\ receiver[u] = "received" /\ u \notin aborted
       /\ u \notin shared /\ purpose[u] = "archive" =>
            final[name[u]] # Nobody /\ bytes[final[name[u]]] = Whole(u)
       /\ u \notin shared /\ purpose[u] = "load" => loaded[u] = Whole(u)]_vars

\* The temporary file of an image belongs to its request or its job. It stays
\* behind only when the service restarted, when the job gave up after the last
\* portion had come (abort does not look whether the file is there already),
\* when the job gave up before it knew of the session, or when the image is in
\* its place and the removal failed.
TempsHaveOwners ==
  \A u \in temps :
    \/ Receiving(u)
    \/ u \in transfers
    \/ restarts > 0
    \/ u \in aborted /\ receiver[u] = "received"
    \/ job[u] = "succeeded"

\* A job that was started ends, also when the browser never sends the file, when
\* it falls silent and when it goes on after the job gave it up.
UploadsEnd == \A u \in Upload : job[u] = "wait" ~> Ended(u)
=============================================================================
