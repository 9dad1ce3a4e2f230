---------------------------- MODULE ConfigWrite ----------------------------
(***************************************************************************)
(* The config editor (internal/control/configs.go, history.go): requests   *)
(* that replace one managed file, have the owning service check it, put    *)
(* the old bytes back when it refuses them, keep versions, reload the      *)
(* service and, for sshd, see whether it still answers.                    *)
(*                                                                         *)
(* Nothing here takes a lock: requests for the same file interleave at     *)
(* every read and write of the disk, the history and the database.         *)
(***************************************************************************)
EXTENDS Naturals, Sequences, SequencesExt

CONSTANTS
  Request,      \* requests that may be under way together
  Content,      \* texts of the file
  Torn,         \* what is read from a blob whose writing was cut off
  Absent,       \* no file
  Initial,      \* what the path may hold before the first edit
  Rejected,     \* texts the check of the service refuses
  Deaf,         \* texts it accepts, with which sshd answers nobody
  Probed,       \* is the service sshd
  Edits,        \* edits sent: [text, checks, applies]
  MaxRequests,  \* bound: requests ever sent
  MaxFaults     \* bound: crashes, clients gone, failures, edits by others

Text == Content \cup {Torn}
File == Text \cup {Absent}

ASSUME ConstantsAssumption ==
  /\ Torn \notin Content /\ Absent \notin Text
  /\ Initial \subseteq Content \cup {Absent}
  /\ Rejected \subseteq Text
  /\ Deaf \subseteq Text \ Rejected
  /\ Initial \cap (Rejected \cup Deaf) = {}
  /\ Probed \in BOOLEAN
  /\ Edits \subseteq [text : Content, checks : BOOLEAN, applies : BOOLEAN]
  /\ MaxRequests \in Nat /\ MaxFaults \in Nat

VARIABLES
  disk,      \* the file
  daemon,    \* the text the service runs with
  blob,      \* [Text -> ...], the history directory: a blob is named by its text
  versions,  \* config_versions of the file, oldest first
  req,       \* [Request -> ...], where a request is and what it holds
  gone,      \* requests whose client has left: their context is canceled
  \* history and bounds
  original,  \* the file before the first edit
  sent,      \* requests so far
  mixed,     \* two requests were once under way together
  cut,       \* the writing of a blob was once cut off
  faults

host == <<disk, daemon>>
store == <<blob, versions>>
ghosts == <<original, sent, mixed>>
vars == <<disk, daemon, blob, versions, req, gone, original, sent, mixed, cut, faults>>

\* "stat", "create", "fill" and "row" record a version: of the old text first,
\* of the new one later.
Step == {"idle", "editing", "sent", "current", "look", "stat", "create", "fill", "row",
         "ready", "go", "written", "refused", "saved", "probe", "reapply"}

Idle == [at |-> "idle", what |-> "old", checked |-> FALSE, base |-> Absent,
         new |-> Torn, prev |-> Absent, apply |-> FALSE, answered |-> FALSE]

Held == [at : Step, what : {"old", "new"}, checked : BOOLEAN, base : File, new : Text,
         prev : File, apply : BOOLEAN, answered : BOOLEAN]

TypeOK ==
  /\ disk \in File /\ daemon \in File /\ original \in File
  /\ blob \in [Text -> {"no", "partial", "whole"}]
  /\ versions \in Seq(Text)
  /\ req \in [Request -> Held]
  /\ gone \subseteq Request
  /\ sent \in 0..MaxRequests /\ faults \in 0..MaxFaults
  /\ mixed \in BOOLEAN /\ cut \in BOOLEAN

Init ==
  /\ disk \in Initial /\ daemon = disk /\ original = disk
  /\ blob = [t \in Text |-> "no"]
  /\ versions = <<>>
  /\ req = [r \in Request |-> Idle]
  /\ gone = {}
  /\ sent = 0 /\ mixed = FALSE /\ cut = FALSE /\ faults = 0

Fault == faults < MaxFaults /\ faults' = faults + 1
Resting == {"idle", "editing"}
AtRest == \A r \in Request : req[r].at \in Resting
Move(r, step) == req' = [req EXCEPT ![r].at = step]
\* The handler answers; what the request held is forgotten.
End(r) == req' = [req EXCEPT ![r] = Idle]
Leaves(r) == gone' = gone \ {r}
Answers(text) == text \notin Deaf
-----------------------------------------------------------------------------
(* Requests arrive *)

\* The editor reads the file, and may keep its text for long.
Load(r) ==
  /\ req[r].at = "idle"
  /\ req' = [req EXCEPT ![r] = [Idle EXCEPT !.at = "editing", !.base = disk]]
  /\ UNCHANGED <<host, store, gone, ghosts, cut, faults>>

Arrive(r, e) ==
  /\ sent < MaxRequests
  /\ sent' = sent + 1
  /\ mixed' = (mixed \/ \E s \in Request \ {r} : req[s].at \notin Resting)
  /\ req' = [req EXCEPT ![r] = [@ EXCEPT !.at = "sent", !.new = e.text,
                                         !.checked = e.checks, !.apply = e.applies]]
  /\ UNCHANGED <<host, store, gone, original, cut, faults>>

\* A new text, with the checksum of the loaded one unless there was no file;
\* a block edit makes it from the loaded text.  Writes of other parts of the
\* program carry no checksum.
Submit(r, e) ==
  /\ req[r].at = "editing"
  /\ e.checks => req[r].base # Absent
  /\ Arrive(r, e)

\* Mutant: a blob that is not whole is read as no text at all.
VersionContentNone(i) == IF blob[versions[i]] = "whole" THEN versions[i] ELSE Absent
\* Rollback: the text of a stored version, read from its blob.
VersionContent(i) == IF blob[versions[i]] = "whole" THEN versions[i] ELSE Torn

Rollback(r, i, applies) ==
  /\ req[r].at = "idle"
  /\ Arrive(r, [text |-> VersionContent(i), checks |-> FALSE, applies |-> applies])

\* Mutant: the checksum is not compared.
StaleNever(r) == FALSE
Stale(r) == req[r].checked /\ disk # req[r].base

\* The comparison of handleConfigWrite and WriteBlock.
Check(r) ==
  /\ req[r].at = "sent"
  /\ \/ Stale(r) /\ End(r) /\ Leaves(r)
     \/ ~Stale(r) /\ Move(r, "current") /\ UNCHANGED gone
  /\ UNCHANGED <<host, store, ghosts, cut, faults>>
-----------------------------------------------------------------------------
(* snapshotCurrent and recordVersion *)

\* ReadFile of the file to be replaced; an unreadable one counts as absent.
Snapshot(r) ==
  /\ req[r].at = "current"
  /\ \/ /\ disk # Absent
        /\ req' = [req EXCEPT ![r].prev = disk, ![r].at = "look"]
        /\ UNCHANGED faults
     \/ /\ disk = Absent
        /\ Move(r, "ready")
        /\ UNCHANGED faults
     \/ /\ disk # Absent /\ Fault
        /\ Move(r, "ready")
  /\ UNCHANGED <<host, store, gone, ghosts, cut>>

\* Mutant: the text is taken for known.
FirstEditNever == FALSE
FirstEdit == versions = <<>>

\* LatestVersion: only ErrNotFound makes the old text worth keeping.
Look(r) ==
  /\ req[r].at = "look"
  /\ \/ /\ FirstEdit /\ r \notin gone
        /\ req' = [req EXCEPT ![r].at = "stat", ![r].what = "old"]
        /\ UNCHANGED faults
     \/ /\ ~FirstEdit \/ r \in gone
        /\ Move(r, "ready")
        /\ UNCHANGED faults
     \/ Fault /\ Move(r, "ready")
  /\ UNCHANGED <<host, store, gone, ghosts, cut>>

Kept(r) == IF req[r].what = "old" THEN req[r].prev ELSE req[r].new
\* Recording failed: of the old text nobody asks, of the new one it is reported.
Skip(r) == IF req[r].what = "old" THEN Move(r, "ready") /\ UNCHANGED gone
           ELSE End(r) /\ Leaves(r)

\* Mutant: the blob is taken for written.
StoredAlways(text) == TRUE
Stored(text) == blob[text] # "no"

\* hist.put: the same bytes are not written twice.
PutStat(r) ==
  /\ req[r].at = "stat"
  /\ Move(r, IF Stored(Kept(r)) THEN "row" ELSE "create")
  /\ UNCHANGED <<host, store, gone, ghosts, cut, faults>>

\* os.WriteFile: the blob is there, and empty again, before it is whole.
PutCreate(r) ==
  /\ req[r].at = "create"
  /\ blob' = [blob EXCEPT ![Kept(r)] = "partial"]
  /\ Move(r, "fill")
  /\ UNCHANGED <<host, versions, gone, ghosts, cut, faults>>

PutFill(r) ==
  /\ req[r].at = "fill"
  /\ \/ /\ blob' = [blob EXCEPT ![Kept(r)] = "whole"]
        /\ Move(r, "row")
        /\ UNCHANGED <<gone, cut, faults>>
     \/ /\ Fault                         \* the disk is full
        /\ cut' = TRUE
        /\ Skip(r)
        /\ UNCHANGED blob
  /\ UNCHANGED <<host, versions, ghosts>>

\* AddVersion, with the context of the request.
AddVersion(r) ==
  /\ req[r].at = "row"
  /\ \/ /\ r \notin gone
        /\ versions' = Append(versions, Kept(r))
        /\ Move(r, IF req[r].what = "old" THEN "ready" ELSE "saved")
        /\ UNCHANGED <<gone, faults>>
     \/ /\ r \in gone /\ Skip(r)
        /\ UNCHANGED <<versions, faults>>
     \/ /\ Fault /\ Skip(r)
        /\ UNCHANGED versions
  /\ UNCHANGED <<host, blob, ghosts, cut>>
-----------------------------------------------------------------------------
(* Write *)

\* ProbeSSHD before the edit; a canceled context opens no connection.
ProbeBefore(r) ==
  /\ req[r].at = "ready"
  /\ req' = [req EXCEPT ![r].at = "go",
                        ![r].answered = Probed /\ Answers(daemon) /\ r \notin gone]
  /\ UNCHANGED <<host, store, gone, ghosts, cut, faults>>

WriteNew(r) ==
  /\ req[r].at = "go"
  /\ \/ /\ disk' = req[r].new
        /\ Move(r, "written")
        /\ UNCHANGED <<gone, faults>>
     \/ Fault /\ End(r) /\ Leaves(r) /\ UNCHANGED disk
  /\ UNCHANGED <<daemon, store, ghosts, cut>>

\* Validate: the service reads what the disk holds now.  A check that does not
\* start is no reason to refuse; one that is killed halfway is.
Validate(r) ==
  /\ req[r].at = "written"
  /\ \/ /\ disk \in Rejected \/ r \in gone
        /\ Move(r, "refused")
        /\ UNCHANGED faults
     \/ /\ disk \notin Rejected \/ r \in gone
        /\ req' = [req EXCEPT ![r].at = "stat", ![r].what = "new"]
        /\ UNCHANGED faults
     \/ /\ Fault                         \* it takes too long and is killed
        /\ Move(r, "refused")
     \/ /\ Fault                         \* no validator on this host
        /\ req' = [req EXCEPT ![r].at = "stat", ![r].what = "new"]
  /\ UNCHANGED <<host, store, gone, ghosts, cut>>

\* Mutant: nothing is done when there was no file before.
UndoneKeepsNew(r) == IF req[r].prev = Absent THEN disk ELSE req[r].prev
\* The old bytes, or DeleteFile when there were none.
Undone(r) == req[r].prev

Restore(r) ==
  /\ req[r].at = "refused"
  /\ \/ disk' = Undone(r) /\ UNCHANGED faults
     \/ Fault /\ UNCHANGED disk
  /\ End(r) /\ Leaves(r)
  /\ UNCHANGED <<daemon, store, ghosts, cut>>

\* A reload fails, and changes nothing, when the service refuses the file.
Reloaded == IF disk \in Rejected THEN daemon ELSE disk

\* The apply step.  A command that fails is followed by the probe all the same;
\* one that cannot be started, or whose client is gone, ends the request with a
\* message, and sshd is not asked.  A killed command may have taken effect.
Apply(r) ==
  /\ req[r].at = "saved"
  /\ \/ /\ ~req[r].apply
        /\ End(r) /\ Leaves(r)
        /\ UNCHANGED <<daemon, faults>>
     \/ /\ req[r].apply /\ r \in gone
        /\ daemon' \in {daemon, Reloaded}
        /\ End(r) /\ Leaves(r)
        /\ UNCHANGED faults
     \/ /\ req[r].apply /\ r \notin gone
        /\ \/ daemon' = Reloaded /\ UNCHANGED faults
           \/ Fault /\ UNCHANGED daemon
        /\ IF req[r].answered THEN Move(r, "probe") /\ UNCHANGED gone
           ELSE End(r) /\ Leaves(r)
     \/ /\ req[r].answered /\ Fault          \* the command does not start
        /\ req[r].apply /\ r \notin gone
        /\ End(r) /\ Leaves(r)
        /\ UNCHANGED daemon
  /\ UNCHANGED <<disk, store, ghosts, cut>>

\* ProbeSSHD after the reload: no answer, and the old file is put back.
ProbeAfter(r) ==
  /\ req[r].at = "probe"
  /\ \/ /\ Answers(daemon) /\ r \notin gone
        /\ End(r) /\ Leaves(r)
        /\ UNCHANGED <<disk, faults>>
     \/ /\ ~Answers(daemon) \/ r \in gone
        /\ \/ /\ req[r].prev = Absent
              /\ End(r) /\ Leaves(r)
              /\ UNCHANGED <<disk, faults>>
           \/ /\ req[r].prev # Absent
              /\ disk' = req[r].prev
              /\ Move(r, "reapply")
              /\ UNCHANGED <<gone, faults>>
           \/ /\ req[r].prev # Absent /\ Fault
              /\ End(r) /\ Leaves(r)
              /\ UNCHANGED disk
  /\ UNCHANGED <<daemon, store, ghosts, cut>>

\* Mutant: sshd is not told of the old file.
ReappliedNot(r) == daemon
\* applyCategory again: a canceled context starts no command.
Reapplied(r) == IF r \in gone THEN daemon ELSE Reloaded

Reapply(r) ==
  /\ req[r].at = "reapply"
  /\ daemon' = Reapplied(r)
  /\ End(r) /\ Leaves(r)
  /\ UNCHANGED <<disk, store, ghosts, cut, faults>>
-----------------------------------------------------------------------------
(* What else happens *)

\* The connection of the client closes: r.Context() is canceled.
ClientLeaves(r) ==
  /\ req[r].at \notin Resting
  /\ r \notin gone
  /\ Fault
  /\ gone' = gone \cup {r}
  /\ UNCHANGED <<host, store, req, ghosts, cut>>

\* Somebody edits the file without the program.
EditByOther(text) ==
  /\ text # disk
  /\ Fault
  /\ disk' = text
  /\ UNCHANGED <<daemon, store, req, gone, ghosts, cut>>

\* The process ends; the browser keeps what its editor has loaded.
Crash ==
  /\ ~AtRest
  /\ Fault
  /\ cut' = (cut \/ \E r \in Request : req[r].at = "fill")
  /\ req' = [r \in Request |-> IF req[r].at = "editing" THEN req[r] ELSE Idle]
  /\ gone' = {}
  /\ UNCHANGED <<host, store, ghosts>>

Next ==
  \/ \E r \in Request :
       \/ Load(r)
       \/ \E e \in Edits : Submit(r, e)
       \/ \E i \in DOMAIN versions, applies \in BOOLEAN : Rollback(r, i, applies)
       \/ Check(r) \/ Snapshot(r) \/ Look(r)
       \/ PutStat(r) \/ PutCreate(r) \/ PutFill(r) \/ AddVersion(r)
       \/ ProbeBefore(r) \/ WriteNew(r) \/ Validate(r) \/ Restore(r)
       \/ Apply(r) \/ ProbeAfter(r) \/ Reapply(r)
       \/ ClientLeaves(r)
  \/ \E text \in Content \cup {Absent} : EditByOther(text)
  \/ Crash

Spec == Init /\ [][Next]_vars
-----------------------------------------------------------------------------
(* Properties *)

Undisturbed == ~mixed /\ faults = 0
Filling(text) == \E r \in Request : req[r].at = "fill" /\ Kept(r) = text
Readable(text) == blob[text] = "whole" \/ Filling(text)

\* "a rollback target always exists" (snapshotCurrent): once the file is no
\* longer what it was before the first edit, that text can be read back from
\* the history, however requests interleave, unless something failed.
FirstContentKept ==
  faults = 0 /\ disk # original /\ original # Absent =>
    original \in ToSet(versions) /\ Readable(original)

\* A version that is listed has its text in the history, or somebody is writing
\* it: requests, crashes between the steps and failures do not part the two, as
\* long as no writing of a blob is cut off.
VersionsReadable == ~cut => \A i \in DOMAIN versions : Readable(versions[i])

\* "never left with a config it rejects" (Write), as far as it goes: requests
\* that do not overlap leave no file that the service refuses.
RefusedIsUndone ==
  Undisturbed /\ AtRest => disk \notin Rejected

\* What the disk holds between requests is in the history, also after a text
\* was refused or sshd went deaf: no state of the file is out of reach.
DiskIsInHistory ==
  Undisturbed /\ AtRest /\ versions # <<>> => disk \in ToSet(versions) \cup {Absent}

\* "if a connection could be made before the edit and not after it, the edit
\* is rolled back" (sshguard.go): an edit of a file with which sshd answered
\* does not leave it deaf.
SshdComesBack ==
  [][\A r \in Request :
       /\ req[r].at \notin Resting /\ req'[r].at = "idle"
       /\ req[r].answered /\ req[r].prev \notin Deaf \cup {Absent}
       /\ ~mixed /\ faults' = 0
       => Answers(daemon')]_vars

\* "refuse to silently overwrite a file that changed on disk after the editor
\* loaded it" (handleConfigWrite): so it is between requests that do not overlap.
StaleIsRefused ==
  [][\A r \in Request :
       /\ req[r].at = "go" /\ req'[r].at = "written"
       /\ req[r].checked /\ Undisturbed
       => disk = req[r].base]_vars
-----------------------------------------------------------------------------
(* The inductive invariant behind the first two (proved in ConfigWriteProofs) *)

Recording(r) == req[r].at \in {"stat", "create", "fill", "row"}
RecordsOld(r) == req[r].at = "look" \/ (Recording(r) /\ req[r].what = "old")
PastSnapshot(r) ==
  \/ req[r].at \in {"ready", "go", "written", "refused", "saved", "probe", "reapply"}
  \/ Recording(r) /\ req[r].what = "new"

\* A blob half written is being written, and one that is named is there.
BlobInv ==
  /\ ~cut => \A t \in Text : blob[t] = "partial" => Filling(t)
  /\ \A i \in DOMAIN versions : blob[versions[i]] # "no"
  /\ \A r \in Request : /\ RecordsOld(r) => req[r].prev # Absent
                        /\ req[r].at = "row" => blob[Kept(r)] # "no"

\* Nobody may write yet: the first text is on disk, and on its way to the history.
Untouched ==
  /\ disk = original /\ versions = <<>>
  /\ \A r \in Request : (RecordsOld(r) => req[r].prev = original) /\ ~PastSnapshot(r)

FirstInv ==
  /\ faults = 0 => gone = {} /\ ~cut
  /\ faults = 0 /\ original # Absent => original \in ToSet(versions) \/ Untouched

IInv == TypeOK /\ BlobInv /\ FirstInv
-----------------------------------------------------------------------------
(* What comments say and the code does not always do *)

\* "the host is never left with a config it rejects" (Write).
NeverLeftRejected == AtRest /\ faults = 0 => disk \notin Rejected
=============================================================================
