-------------------------- MODULE ConfigWriteProofs --------------------------
(***************************************************************************)
(* Proofs about ConfigWrite for any texts, requests, faults and bounds:    *)
(* the first text of a file and the versions listed of it are not lost;    *)
(* requests that do not overlap leave a file that is accepted, in the      *)
(* history and answered with.                                              *)
(***************************************************************************)
EXTENDS ConfigWrite, TLAPS

LEMMA InitInv == Init => IInv
<1> SUFFICES ASSUME Init PROVE IInv
  OBVIOUS
<1> USE ConstantsAssumption DEF Init
<1>1. Idle \in Held
  BY DEF Idle, Held, Step, Text, File
<1>2. TypeOK
  <2>1. disk \in File
    BY DEF File, Text
  <2>2. req \in [Request -> Held] /\ blob \in [Text -> {"no", "partial", "whole"}]
    BY <1>1
  <2>3. versions \in Seq(Text) /\ gone \subseteq Request
    OBVIOUS
  <2>4. sent \in 0..MaxRequests /\ faults \in 0..MaxFaults
    OBVIOUS
  <2>5. mixed \in BOOLEAN /\ cut \in BOOLEAN
    BY Zenon
  <2>6. daemon \in File /\ original \in File
    BY <2>1
  <2>7. QED
    BY <2>1, <2>2, <2>3, <2>4, <2>5, <2>6, Zenon DEF TypeOK
<1>3. \A r \in Request : req[r].at = "idle"
  BY DEF Idle
<1>4. BlobInv
  BY <1>3 DEF BlobInv, RecordsOld, Recording
<1>5. FirstInv
  BY <1>3 DEF FirstInv, Untouched, RecordsOld, Recording, PastSnapshot
<1>6. QED
  BY <1>2, <1>4, <1>5 DEF IInv
-----------------------------------------------------------------------------
(* Types *)

\* The text a version is recorded of is a text, whichever of the two it is.
LEMMA KeptText ==
  ASSUME TypeOK, BlobInv, NEW r \in Request, Recording(r)
  PROVE  Kept(r) \in Text
BY DEF TypeOK, Held, BlobInv, RecordsOld, Kept, File

LEMMA MoveType ==
  ASSUME TypeOK, NEW r \in Request, NEW step \in Step, Move(r, step)
  PROVE  req' \in [Request -> Held]
BY DEF TypeOK, Move, Held

LEMMA EndType ==
  ASSUME TypeOK, NEW r \in Request, End(r)
  PROVE  req' \in [Request -> Held]
<1>1. Idle \in Held
  BY DEF Idle, Held, Step, Text, File
<1>2. QED
  BY <1>1 DEF TypeOK, End

LEMMA AnswerType ==
  ASSUME TypeOK, NEW r \in Request, NEW ok \in BOOLEAN
  PROVE  [req EXCEPT ![r].at = "go", ![r].answered = ok] \in [Request -> Held]
<1> DEFINE h == [req[r] EXCEPT !.at = "go", !.answered = ok]
<1>1. req[r] \in Held
  BY DEF TypeOK
<1>2. h \in Held
  BY <1>1 DEF Held, Step
<1>3. [req EXCEPT ![r].at = "go", ![r].answered = ok] = [req EXCEPT ![r] = h]
  BY <1>1 DEF TypeOK, Held
<1> HIDE DEF h
<1>4. QED
  BY <1>2, <1>3 DEF TypeOK

LEMMA TypeStep ==
  ASSUME TypeOK, BlobInv, Next
  PROVE  TypeOK'
<1> USE ConstantsAssumption DEF host, store, ghosts, Fault
<1>0. Idle \in Held
  BY DEF Idle, Held, Step, Text, File
<1>1. ASSUME NEW r \in Request, Load(r) PROVE TypeOK'
  <2>1. [Idle EXCEPT !.at = "editing", !.base = disk] \in Held
    BY <1>0 DEF TypeOK, Held, Step
  <2>2. QED
    BY <1>1, <2>1 DEF Load, TypeOK
<1>2. ASSUME NEW r \in Request, NEW e \in [text : Text, checks : BOOLEAN, applies : BOOLEAN],
             Arrive(r, e)
      PROVE  TypeOK'
  <2>1. [req[r] EXCEPT !.at = "sent", !.new = e.text, !.checked = e.checks, !.apply = e.applies]
          \in Held
    <3>1. e.text \in Text /\ e.checks \in BOOLEAN /\ e.applies \in BOOLEAN
      OBVIOUS
    <3>2. req[r] \in Held
      BY DEF TypeOK
    <3>3. QED
      BY <3>1, <3>2 DEF Held, Step
  <2>2. sent' \in 0..MaxRequests
    BY <1>2 DEF Arrive, TypeOK
  <2>3. mixed' \in BOOLEAN
    BY <1>2, Zenon DEF Arrive
  <2>4. req' \in [Request -> Held]
    BY <1>2, <2>1 DEF Arrive, TypeOK
  <2>5. UNCHANGED <<disk, daemon, blob, versions, gone, original, cut, faults>>
    BY <1>2 DEF Arrive
  <2>6. QED
    BY <2>2, <2>3, <2>4, <2>5, Zenon DEF TypeOK
<1>3. ASSUME NEW r \in Request, NEW e \in Edits, Submit(r, e) PROVE TypeOK'
  BY <1>2, <1>3 DEF Submit, Text
<1>4. ASSUME NEW r \in Request, NEW i \in DOMAIN versions, NEW applies \in BOOLEAN,
             Rollback(r, i, applies)
      PROVE  TypeOK'
  <2>1. VersionContent(i) \in Text
    BY DEF VersionContent, TypeOK, Text
  <2>2. QED
    BY <1>2, <1>4, <2>1 DEF Rollback
<1>5. ASSUME NEW r \in Request,
             Check(r) \/ PutStat(r) \/ WriteNew(r) \/ Restore(r) \/ Apply(r)
             \/ ProbeAfter(r) \/ Reapply(r)
      PROVE  TypeOK'
  <2>1. req' \in [Request -> Held]
    BY <1>5, MoveType, EndType
       DEF Check, PutStat, WriteNew, Restore, Apply, ProbeAfter, Reapply, Step
  <2>2. req[r].new \in File /\ req[r].prev \in File /\ disk \in File
    BY DEF TypeOK, Held, File
  <2>3. disk' \in File /\ daemon' \in File
    BY <1>5, <2>2 DEF TypeOK, Check, PutStat, WriteNew, Restore, Undone, Apply,
                      ProbeAfter, Reapply, Reapplied, Reloaded
  <2>4. QED
    BY <1>5, <2>1, <2>3 DEF TypeOK, Check, PutStat, WriteNew, Restore, Apply, ProbeAfter,
                            Reapply, Leaves
<1>6. ASSUME NEW r \in Request, Snapshot(r) \/ Look(r) \/ ProbeBefore(r) \/ Validate(r)
      PROVE  TypeOK'
  <2>1. req' \in [Request -> Held]
    <3>1. CASE Snapshot(r)
      BY <3>1, MoveType DEF Snapshot, TypeOK, Held, Step
    <3>2. CASE Look(r)
      BY <3>2, MoveType DEF Look, TypeOK, Held, Step
    <3>3. CASE ProbeBefore(r)
      <4> DEFINE ok == Probed /\ Answers(daemon) /\ r \notin gone
      <4>1. ok \in BOOLEAN
        BY Zenon
      <4>2. req' = [req EXCEPT ![r].at = "go", ![r].answered = ok]
        BY <3>3, Zenon DEF ProbeBefore
      <4> HIDE DEF ok
      <4>3. QED
        BY <4>1, <4>2, AnswerType, Zenon
    <3>4. CASE Validate(r)
      <4> DEFINE h == [req[r] EXCEPT !.at = "stat", !.what = "new"]
      <4>1. req[r] \in Held
        BY DEF TypeOK
      <4>2. h \in Held
        BY <4>1 DEF Held, Step
      <4>3. [req EXCEPT ![r].at = "stat", ![r].what = "new"] = [req EXCEPT ![r] = h]
        BY <4>1 DEF TypeOK, Held
      <4> HIDE DEF h
      <4>4. [req EXCEPT ![r].at = "stat", ![r].what = "new"] \in [Request -> Held]
        BY <4>2, <4>3 DEF TypeOK
      <4>5. \/ Move(r, "refused")
            \/ req' = [req EXCEPT ![r].at = "stat", ![r].what = "new"]
        BY <3>4, Zenon DEF Validate
      <4>6. "refused" \in Step
        BY DEF Step
      <4>7. QED
        BY <4>4, <4>5, <4>6, MoveType, Zenon
    <3>5. QED
      BY <1>6, <3>1, <3>2, <3>3, <3>4
  <2>2. QED
    BY <1>6, <2>1 DEF TypeOK, Snapshot, Look, ProbeBefore, Validate
<1>7. ASSUME NEW r \in Request, PutCreate(r) \/ PutFill(r) \/ AddVersion(r)
      PROVE  TypeOK'
  <2>1. Kept(r) \in Text
    BY <1>7, KeptText DEF PutCreate, PutFill, AddVersion, Recording
  <2>2. req' \in [Request -> Held]
    BY <1>7, MoveType, EndType DEF PutCreate, PutFill, AddVersion, Skip, Step
  <2>3. gone' \subseteq Request
    BY <1>7 DEF TypeOK, PutCreate, PutFill, AddVersion, Skip, Leaves
  <2>4. blob' \in [Text -> {"no", "partial", "whole"}] /\ versions' \in Seq(Text)
    BY <1>7, <2>1 DEF TypeOK, PutCreate, PutFill, AddVersion
  <2>5. cut' \in BOOLEAN
    BY <1>7, Zenon DEF TypeOK, PutCreate, PutFill, AddVersion
  <2>6. faults' \in 0..MaxFaults
    BY <1>7 DEF TypeOK, PutCreate, PutFill, AddVersion
  <2>7. QED
    BY <1>7, <2>2, <2>3, <2>4, <2>5, <2>6, Zenon
       DEF TypeOK, PutCreate, PutFill, AddVersion
<1>8. ASSUME NEW r \in Request, ClientLeaves(r) PROVE TypeOK'
  BY <1>8 DEF ClientLeaves, TypeOK
<1>9. ASSUME NEW text \in Content \cup {Absent}, EditByOther(text) PROVE TypeOK'
  BY <1>9 DEF EditByOther, TypeOK, File, Text
<1>10. ASSUME Crash PROVE TypeOK'
  BY <1>0, <1>10 DEF Crash, TypeOK
<1>11. QED
  BY <1>1, <1>3, <1>4, <1>5, <1>6, <1>7, <1>8, <1>9, <1>10 DEF Next
-----------------------------------------------------------------------------
(* The history directory *)

\* A step of one request that touches neither blobs nor versions.
LEMMA StepAside ==
  ASSUME BlobInv, NEW r \in Request,
         req[r].at # "fill", \A s \in Request \ {r} : req'[s] = req[s],
         UNCHANGED <<blob, versions, cut>>,
         RecordsOld(r)' => req'[r].prev # Absent,
         req'[r].at = "row" => blob[Kept(r)'] # "no"
  PROVE  BlobInv'
<1>1. ASSUME NEW s \in Request \ {r}
      PROVE  Kept(s)' = Kept(s) /\ (RecordsOld(s)' <=> RecordsOld(s))
  BY <1>1 DEF Kept, RecordsOld, Recording
<1>2. \A t \in Text : Filling(t) => Filling(t)'
  BY <1>1 DEF Filling
<1>3. QED
  BY <1>1, <1>2 DEF BlobInv

\* A request that ends, or moves on to a step that records nothing.
LEMMA EndAside ==
  ASSUME TypeOK, BlobInv, NEW r \in Request, req[r].at # "fill", UNCHANGED <<blob, versions, cut>>,
         \/ End(r)
         \/ \E step \in Step \ {"look", "stat", "create", "fill", "row"} : Move(r, step)
  PROVE  BlobInv'
<1>1. \A s \in Request \ {r} : req'[s] = req[s]
  BY DEF End, Move, TypeOK
<1>2. req'[r].at \notin {"look", "stat", "create", "fill", "row"}
  BY DEF End, Move, TypeOK, Idle, Held
<1>3. QED
  BY <1>1, <1>2, StepAside DEF RecordsOld, Recording

LEMMA BlobStep ==
  ASSUME TypeOK, BlobInv, Next
  PROVE  BlobInv'
<1> USE DEF host, store, ghosts
<1>1. ASSUME NEW r \in Request,
             Load(r) \/ (\E e \in Edits : Submit(r, e))
             \/ (\E i \in DOMAIN versions, applies \in BOOLEAN : Rollback(r, i, applies))
             \/ ProbeBefore(r)
      PROVE  BlobInv'
  <2>1. /\ req[r].at \in {"idle", "editing", "ready"}
        /\ req'[r].at \in {"editing", "sent", "go"}
        /\ \A s \in Request \ {r} : req'[s] = req[s]
    <3>1. ASSUME NEW e, Arrive(r, e)
          PROVE  req'[r].at = "sent" /\ \A s \in Request \ {r} : req'[s] = req[s]
      BY <3>1 DEF Arrive, TypeOK, Held
    <3>2. CASE Load(r)
      BY <3>2 DEF Load, Idle, TypeOK
    <3>3. CASE \E e \in Edits : Submit(r, e)
      BY <3>1, <3>3 DEF Submit
    <3>4. CASE \E i \in DOMAIN versions, applies \in BOOLEAN : Rollback(r, i, applies)
      BY <3>1, <3>4 DEF Rollback
    <3>5. CASE ProbeBefore(r)
      BY <3>5 DEF ProbeBefore, TypeOK, Held
    <3>6. QED
      BY <1>1, <3>2, <3>3, <3>4, <3>5
  <2>2. UNCHANGED <<blob, versions, cut>>
    BY <1>1 DEF Load, Submit, Rollback, Arrive, ProbeBefore
  <2>3. QED
    BY <2>1, <2>2, StepAside DEF RecordsOld, Recording
<1>2. ASSUME NEW r \in Request,
             Check(r) \/ WriteNew(r) \/ Restore(r) \/ Apply(r) \/ ProbeAfter(r) \/ Reapply(r)
      PROVE  BlobInv'
  BY <1>2, EndAside
     DEF Check, WriteNew, Restore, Apply, ProbeAfter, Reapply, Step
<1>3. ASSUME NEW r \in Request, Snapshot(r) \/ Look(r) \/ Validate(r)
      PROVE  BlobInv'
  <2>1. /\ \A s \in Request \ {r} : req'[s] = req[s]
        /\ req[r].at # "fill" /\ req'[r].at # "row"
        /\ UNCHANGED <<blob, versions, cut>>
    BY <1>3 DEF Snapshot, Look, Validate, Move, TypeOK, Held
  <2>2. RecordsOld(r)' => req'[r].prev # Absent
    BY <1>3 DEF Snapshot, Look, Validate, Move, TypeOK, Held, RecordsOld, Recording, BlobInv
  <2>3. QED
    BY <2>1, <2>2, StepAside
<1>4. ASSUME NEW r \in Request, PutStat(r) PROVE BlobInv'
  <2>1. /\ \A s \in Request \ {r} : req'[s] = req[s]
        /\ req[r].at = "stat" /\ req'[r].at # "look" /\ Kept(r)' = Kept(r)
        /\ req'[r].at = "row" => Stored(Kept(r))
        /\ UNCHANGED <<blob, versions, cut>>
        /\ req'[r].what = req[r].what /\ req'[r].prev = req[r].prev
    BY <1>4 DEF PutStat, Move, TypeOK, Held, Kept
  <2>2. QED
    BY <2>1, StepAside DEF Stored, RecordsOld, Recording, BlobInv
<1>5. ASSUME NEW r \in Request, PutCreate(r) PROVE BlobInv'
  <2>1. Kept(r) \in Text
    BY <1>5, KeptText DEF PutCreate, Recording
  <2>2. /\ \A s \in Request : Kept(s)' = Kept(s) /\ req'[s].prev = req[s].prev
        /\ \A s \in Request \ {r} : req'[s] = req[s]
        /\ req'[r].at = "fill" /\ req[r].at = "create" /\ req'[r].what = req[r].what
        /\ blob' = [blob EXCEPT ![Kept(r)] = "partial"]
        /\ UNCHANGED <<versions, cut>>
    BY <1>5 DEF PutCreate, Move, TypeOK, Held, Kept
  <2>3. \A t \in Text : Filling(t) => Filling(t)'
    BY <2>2 DEF Filling
  <2>4. Filling(Kept(r))'
    BY <2>2 DEF Filling
  <2>5. \A t \in Text : blob'[t] = IF t = Kept(r) THEN "partial" ELSE blob[t]
    BY <2>2 DEF TypeOK
  <2>6. \A i \in DOMAIN versions : versions[i] \in Text
    BY DEF TypeOK
  <2>7. \A s \in Request : Recording(s) => Kept(s) \in Text
    BY KeptText
  <2>8. \A s \in Request : RecordsOld(s)' => RecordsOld(s)
    BY <2>2 DEF RecordsOld, Recording
  <2>9. QED
    BY <2>2, <2>3, <2>4, <2>5, <2>6, <2>7, <2>8 DEF BlobInv, Recording
<1>6. ASSUME NEW r \in Request, PutFill(r) PROVE BlobInv'
  <2>1. Kept(r) \in Text
    BY <1>6, KeptText DEF PutFill, Recording
  <2>2. \A i \in DOMAIN versions : versions[i] \in Text
    BY DEF TypeOK
  <2>3. \A s \in Request : Recording(s) => Kept(s) \in Text
    BY KeptText
  <2>4. CASE Skip(r) /\ cut' = TRUE /\ UNCHANGED <<blob, versions>>
    <3>1. /\ \A s \in Request \ {r} : req'[s] = req[s]
          /\ req'[r].at \in {"ready", "idle"}
      BY <2>4 DEF Skip, Move, End, TypeOK, Held, Idle
    <3>2. QED
      BY <2>4, <3>1 DEF BlobInv, RecordsOld, Recording, Kept
  <2>5. CASE blob' = [blob EXCEPT ![Kept(r)] = "whole"] /\ Move(r, "row") /\ UNCHANGED cut
    <3>1. /\ \A s \in Request : Kept(s)' = Kept(s) /\ req'[s].prev = req[s].prev
          /\ \A s \in Request \ {r} : req'[s] = req[s]
          /\ req'[r].at = "row" /\ req[r].at = "fill" /\ req'[r].what = req[r].what
          /\ UNCHANGED versions
      BY <1>6, <2>5 DEF PutFill, Move, TypeOK, Held, Kept
    <3>2. \A t \in Text : Filling(t) /\ t # Kept(r) => Filling(t)'
      BY <3>1 DEF Filling
    <3>3. \A t \in Text : blob'[t] = IF t = Kept(r) THEN "whole" ELSE blob[t]
      BY <2>5 DEF TypeOK
    <3>4. \A s \in Request : RecordsOld(s)' => RecordsOld(s)
      BY <3>1 DEF RecordsOld, Recording
    <3>5. QED
      BY <2>1, <2>2, <2>3, <2>5, <3>1, <3>2, <3>3, <3>4 DEF BlobInv, Recording
  <2>6. QED
    BY <1>6, <2>4, <2>5 DEF PutFill
<1>7. ASSUME NEW r \in Request, AddVersion(r) PROVE BlobInv'
  <2>1. /\ \A s \in Request \ {r} : req'[s] = req[s]
        /\ UNCHANGED <<blob, cut>> /\ req[r].at = "row"
        /\ req'[r].at \in {"ready", "saved", "idle"}
    BY <1>7 DEF AddVersion, Skip, Move, End, TypeOK, Held, Idle
  <2>2. CASE UNCHANGED versions
    BY <2>1, <2>2, StepAside DEF RecordsOld, Recording
  <2>3. CASE versions' = Append(versions, Kept(r))
    <3>1. \A i \in DOMAIN versions' : versions'[i] = Kept(r) \/ \E k \in DOMAIN versions : versions'[i] = versions[k]
      BY <2>3, KeptText, <2>1 DEF TypeOK, Recording
    <3>2. \A s \in Request \ {r} : Kept(s)' = Kept(s) /\ (RecordsOld(s)' <=> RecordsOld(s))
      BY <2>1 DEF Kept, RecordsOld, Recording
    <3>3. \A t \in Text : Filling(t) => Filling(t)'
      BY <2>1, <3>2 DEF Filling
    <3>4. ~RecordsOld(r)' /\ blob[Kept(r)] # "no"
      BY <2>1 DEF RecordsOld, Recording, BlobInv
    <3>5. QED
      BY <2>1, <3>1, <3>2, <3>3, <3>4 DEF BlobInv
  <2>4. QED
    BY <1>7, <2>2, <2>3 DEF AddVersion
<1>8. ASSUME \/ \E r \in Request : ClientLeaves(r)
             \/ \E text \in Content \cup {Absent} : EditByOther(text)
      PROVE  BlobInv'
  <2>1. UNCHANGED <<req, blob, versions, cut>>
    BY <1>8 DEF ClientLeaves, EditByOther
  <2>2. QED
    BY <2>1 DEF BlobInv, Filling, Kept, RecordsOld, Recording
<1>9. ASSUME Crash PROVE BlobInv'
  <2>1. \A s \in Request : req'[s].at \in {"idle", "editing"}
    BY <1>9 DEF Crash, Idle, TypeOK
  <2>2. UNCHANGED <<blob, versions>> /\ (cut' = (cut \/ \E s \in Request : req[s].at = "fill"))
    BY <1>9 DEF Crash
  <2>3. ~cut' => \A t \in Text : blob[t] # "partial"
    BY <2>2 DEF BlobInv, Filling
  <2>4. QED
    BY <2>1, <2>2, <2>3 DEF BlobInv, RecordsOld, Recording
<1>10. QED
  BY <1>1, <1>2, <1>3, <1>4, <1>5, <1>6, <1>7, <1>8, <1>9 DEF Next
-----------------------------------------------------------------------------
(* The first version *)

LEMMA AppendSet ==
  ASSUME NEW S, NEW s \in Seq(S), NEW x \in S
  PROVE  ToSet(Append(s, x)) = ToSet(s) \cup {x}
<1>1. ASSUME NEW y \in ToSet(s) PROVE y \in ToSet(Append(s, x))
  <2>1. PICK i \in 1..Len(s) : s[i] = y
    BY DEF ToSet
  <2>2. i \in 1..Len(Append(s, x)) /\ Append(s, x)[i] = y
    BY <2>1
  <2>3. QED
    BY <2>2 DEF ToSet
<1>2. Len(s) + 1 \in DOMAIN Append(s, x) /\ Append(s, x)[Len(s) + 1] = x
  OBVIOUS
<1>3. ASSUME NEW y \in ToSet(Append(s, x)) PROVE y \in ToSet(s) \cup {x}
  BY DEF ToSet
<1>4. QED
  BY <1>1, <1>2, <1>3 DEF ToSet

LEMMA FaultsStay ==
  ASSUME TypeOK, Next, faults' = 0
  PROVE  faults = 0
<1> USE DEF TypeOK, Fault
<1>1. ASSUME NEW r \in Request,
             Load(r) \/ (\E e \in Edits : Submit(r, e))
             \/ (\E i \in DOMAIN versions, applies \in BOOLEAN : Rollback(r, i, applies))
             \/ Check(r) \/ PutStat(r) \/ PutCreate(r) \/ ProbeBefore(r) \/ Reapply(r)
      PROVE  faults = 0
  BY <1>1 DEF Load, Submit, Rollback, Arrive, Check, PutStat, PutCreate, ProbeBefore, Reapply
<1>2. ASSUME NEW r \in Request,
             Snapshot(r) \/ Look(r) \/ PutFill(r) \/ AddVersion(r) \/ WriteNew(r) \/ Validate(r)
             \/ Restore(r) \/ Apply(r) \/ ProbeAfter(r) \/ ClientLeaves(r)
      PROVE  faults = 0
  BY <1>2 DEF Snapshot, Look, PutFill, AddVersion, WriteNew, Validate, Restore, Apply,
              ProbeAfter, ClientLeaves
<1>3. ASSUME (\E text \in Content \cup {Absent} : EditByOther(text)) \/ Crash
      PROVE  faults = 0
  BY <1>3 DEF EditByOther, Crash
<1>4. QED
  BY <1>1, <1>2, <1>3 DEF Next

\* As long as nothing failed, no client is gone and no blob is torn.
LEMMA NothingFailed ==
  ASSUME TypeOK, FirstInv, Next, faults' = 0
  PROVE  gone' = {} /\ ~cut'
<1>1. faults = 0 /\ gone = {} /\ ~cut
  BY FaultsStay DEF FirstInv
<1>2. ~Fault
  BY <1>1 DEF Fault
<1>3. gone' = {}
  <2>1. ASSUME NEW r \in Request,
               Load(r) \/ (\E e \in Edits : Submit(r, e))
               \/ (\E i \in DOMAIN versions, applies \in BOOLEAN : Rollback(r, i, applies))
               \/ Check(r) \/ PutStat(r) \/ PutCreate(r) \/ ProbeBefore(r) \/ Reapply(r)
        PROVE  gone' = {}
    BY <1>1, <2>1 DEF Load, Submit, Rollback, Arrive, Check, PutStat, PutCreate, ProbeBefore,
                      Reapply, Leaves
  <2>2. ASSUME NEW r \in Request,
               Snapshot(r) \/ Look(r) \/ PutFill(r) \/ AddVersion(r) \/ WriteNew(r)
               \/ Validate(r) \/ Restore(r) \/ Apply(r) \/ ProbeAfter(r)
        PROVE  gone' = {}
    BY <1>1, <2>2 DEF Snapshot, Look, PutFill, AddVersion, Skip, WriteNew, Validate, Restore,
                      Apply, ProbeAfter, Leaves
  <2>3. QED
    BY <1>1, <1>2, <2>1, <2>2 DEF Next, ClientLeaves, EditByOther, Crash
<1>4. ~cut'
  <2>1. ASSUME NEW r \in Request, PutFill(r) PROVE UNCHANGED cut
    BY <1>2, <2>1 DEF PutFill
  <2>2. ASSUME NEW r \in Request,
               Load(r) \/ (\E e \in Edits : Submit(r, e))
               \/ (\E i \in DOMAIN versions, applies \in BOOLEAN : Rollback(r, i, applies))
               \/ Check(r) \/ PutStat(r) \/ PutCreate(r) \/ ProbeBefore(r) \/ Reapply(r)
        PROVE  UNCHANGED cut
    BY <2>2 DEF Load, Submit, Rollback, Arrive, Check, PutStat, PutCreate, ProbeBefore, Reapply
  <2>3. ASSUME NEW r \in Request,
               Snapshot(r) \/ Look(r) \/ AddVersion(r) \/ WriteNew(r)
               \/ Validate(r) \/ Restore(r) \/ Apply(r) \/ ProbeAfter(r)
        PROVE  UNCHANGED cut
    BY <2>3 DEF Snapshot, Look, AddVersion, WriteNew, Validate, Restore, Apply, ProbeAfter
  <2>4. UNCHANGED cut
    BY <1>2, <2>1, <2>2, <2>3 DEF Next, ClientLeaves, EditByOther, Crash
  <2>5. QED
    BY <1>1, <2>4, Zenon
<1>5. QED
  BY <1>3, <1>4, Zenon

\* One request moves, and neither writes the file nor records a version.
LEMMA StillUntouched ==
  ASSUME Untouched, NEW r \in Request, \A s \in Request \ {r} : req'[s] = req[s],
         UNCHANGED <<disk, versions, original>>,
         RecordsOld(r)' => req'[r].prev = original, ~PastSnapshot(r)'
  PROVE  Untouched'
BY DEF Untouched, RecordsOld, PastSnapshot, Recording

LEMMA UntouchedStep ==
  ASSUME TypeOK, FirstInv, Untouched, Next, faults' = 0, original # Absent
  PROVE  original \in ToSet(versions') \/ Untouched'
<1> USE DEF host, store, ghosts
<1>1. faults = 0 /\ gone = {} /\ ~Fault
  BY FaultsStay DEF FirstInv, Fault
<1>2. ASSUME NEW r \in Request, PastSnapshot(r) PROVE FALSE
  BY <1>2 DEF Untouched
<1>3. ASSUME NEW r \in Request,
             Load(r) \/ (\E e \in Edits : Submit(r, e))
             \/ (\E i \in DOMAIN versions, applies \in BOOLEAN : Rollback(r, i, applies))
             \/ Check(r)
      PROVE  Untouched'
  <2>1. /\ \A s \in Request \ {r} : req'[s] = req[s]
        /\ req'[r].at \in {"editing", "sent", "idle", "current"}
    <3>1. ASSUME NEW e, Arrive(r, e)
          PROVE  req'[r].at = "sent" /\ \A s \in Request \ {r} : req'[s] = req[s]
      BY <3>1 DEF Arrive, TypeOK, Held
    <3>2. CASE Load(r)
      BY <3>2 DEF Load, Idle, TypeOK
    <3>3. CASE \E e \in Edits : Submit(r, e)
      BY <3>1, <3>3 DEF Submit
    <3>4. CASE \E i \in DOMAIN versions, applies \in BOOLEAN : Rollback(r, i, applies)
      BY <3>1, <3>4 DEF Rollback
    <3>5. CASE Check(r)
      BY <3>5 DEF Check, Move, End, Idle, TypeOK, Held
    <3>6. QED
      BY <1>3, <3>2, <3>3, <3>4, <3>5
  <2>2. UNCHANGED <<disk, versions, original>>
    BY <1>3 DEF Load, Submit, Rollback, Arrive, Check
  <2>3. QED
    BY <2>1, <2>2, StillUntouched DEF RecordsOld, Recording, PastSnapshot
<1>4. ASSUME NEW r \in Request, Snapshot(r) PROVE Untouched'
  <2>1. disk = original
    BY DEF Untouched
  <2>2. req' = [req EXCEPT ![r].prev = disk, ![r].at = "look"]
    BY <1>1, <1>4, <2>1 DEF Snapshot
  <2>3. /\ \A s \in Request \ {r} : req'[s] = req[s]
        /\ req'[r].at = "look" /\ req'[r].prev = original
    BY <2>1, <2>2 DEF TypeOK, Held
  <2>4. QED
    BY <1>4, <2>3, StillUntouched DEF Snapshot, RecordsOld, Recording, PastSnapshot
<1>5. ASSUME NEW r \in Request, Look(r) PROVE Untouched'
  <2>1. req[r].prev = original
    BY <1>5 DEF Look, Untouched, RecordsOld
  <2>2. req' = [req EXCEPT ![r].at = "stat", ![r].what = "old"]
    BY <1>1, <1>5 DEF Look, Untouched, FirstEdit
  <2>3. /\ \A s \in Request \ {r} : req'[s] = req[s]
        /\ req'[r].at = "stat" /\ req'[r].what = "old" /\ req'[r].prev = original
    BY <2>1, <2>2 DEF TypeOK, Held
  <2>4. QED
    BY <1>5, <2>3, StillUntouched DEF Look, RecordsOld, Recording, PastSnapshot
<1>6. ASSUME NEW r \in Request, PutStat(r) \/ PutCreate(r) \/ PutFill(r) PROVE Untouched'
  <2>1. Recording(r)
    BY <1>6 DEF PutStat, PutCreate, PutFill, Recording
  <2>2. req[r].what = "old" /\ req[r].prev = original
    BY <2>1 DEF Untouched, TypeOK, Held, RecordsOld, PastSnapshot
  <2>3. PICK step \in {"row", "create", "fill"} : Move(r, step)
    BY <1>1, <1>6 DEF PutStat, PutCreate, PutFill
  <2>4. /\ \A s \in Request \ {r} : req'[s] = req[s]
        /\ req'[r].at \in {"row", "create", "fill"}
        /\ req'[r].what = "old" /\ req'[r].prev = original
    BY <2>2, <2>3 DEF Move, TypeOK, Held
  <2>5. UNCHANGED <<disk, versions, original>>
    BY <1>6 DEF PutStat, PutCreate, PutFill
  <2>6. QED
    BY <2>4, <2>5, StillUntouched DEF RecordsOld, Recording, PastSnapshot
<1>7. ASSUME NEW r \in Request, AddVersion(r) PROVE original \in ToSet(versions')
  <2>1. req[r].what = "old" /\ req[r].prev = original
    BY <1>7 DEF AddVersion, Untouched, TypeOK, Held, RecordsOld, PastSnapshot, Recording
  <2>2. versions' = Append(versions, original)
    BY <1>1, <1>7, <2>1 DEF AddVersion, Kept
  <2>3. original \in Text /\ versions \in Seq(Text)
    BY DEF TypeOK, File
  <2>4. QED
    BY <2>2, <2>3, AppendSet
<1>8. ASSUME NEW r \in Request,
             ProbeBefore(r) \/ WriteNew(r) \/ Validate(r) \/ Restore(r) \/ Apply(r)
             \/ ProbeAfter(r) \/ Reapply(r)
      PROVE  FALSE
  BY <1>2, <1>8 DEF PastSnapshot, ProbeBefore, WriteNew, Validate, Restore, Apply, ProbeAfter,
                    Reapply
<1>9. QED
  BY <1>1, <1>3, <1>4, <1>5, <1>6, <1>7, <1>8 DEF Next, ClientLeaves, EditByOther, Crash

LEMMA FirstStep ==
  ASSUME TypeOK, FirstInv, BlobInv, Next
  PROVE  FirstInv'
<1>1. original' = original
  BY DEF Next, ghosts, Load, Submit, Rollback, Arrive, Check, Snapshot, Look, PutStat, PutCreate,
         PutFill, AddVersion, ProbeBefore, WriteNew, Validate, Restore, Apply, ProbeAfter, Reapply,
         ClientLeaves, EditByOther, Crash
<1>2. ASSUME original \in ToSet(versions) PROVE original \in ToSet(versions')
  <2>1. CASE \E r \in Request : AddVersion(r) /\ versions' = Append(versions, Kept(r))
    BY <1>2, <2>1, KeptText, AppendSet DEF AddVersion, Recording, TypeOK
  <2>2. CASE UNCHANGED versions
    BY <1>2, <2>2
  <2>3. QED
    BY <2>1, <2>2
       DEF Next, store, Load, Submit, Rollback, Arrive, Check, Snapshot, Look, PutStat, PutCreate,
           PutFill, AddVersion, ProbeBefore, WriteNew, Validate, Restore, Apply, ProbeAfter,
           Reapply, ClientLeaves, EditByOther, Crash
<1>3. ASSUME faults' = 0, original # Absent
      PROVE  original \in ToSet(versions') \/ Untouched'
  BY <1>2, <1>3, FaultsStay, UntouchedStep DEF FirstInv
<1>4. QED
  BY <1>1, <1>3, NothingFailed DEF FirstInv
-----------------------------------------------------------------------------
LEMMA StepInv ==
  ASSUME IInv, [Next]_vars
  PROVE  IInv'
<1>1. CASE Next
  BY <1>1, TypeStep, BlobStep, FirstStep DEF IInv
<1>2. CASE UNCHANGED vars
  <2>1. UNCHANGED <<disk, daemon, blob, versions, req, gone, original, sent, mixed, cut, faults>>
    BY <1>2 DEF vars
  <2>2. TypeOK'
    BY <2>1, Zenon DEF IInv, TypeOK
  <2>3. BlobInv'
    BY <2>1 DEF IInv, BlobInv, Filling, Kept, RecordsOld, Recording
  <2>4. FirstInv'
    BY <2>1 DEF IInv, FirstInv, Untouched, RecordsOld, PastSnapshot, Recording
  <2>5. QED
    BY <2>2, <2>3, <2>4 DEF IInv
<1>3. QED
  BY <1>1, <1>2

\* The inductive invariant holds in every state that edits, rollbacks, clients
\* that leave, failures, other editors and crashes can reach.
THEOREM Invariance == Spec => []IInv
<1>1. QED
  BY InitInv, StepInv, PTL DEF Spec

\* Every field of a request stays within its type: what reaches the history is
\* a text and never a missing file, though the old text may be one.
THEOREM TypeCorrect == Spec => []TypeOK
<1>1. IInv => TypeOK
  BY DEF IInv
<1>2. QED
  BY <1>1, Invariance, PTL

\* A listed version can be read back, or its blob is being written, unless the
\* writing of a blob was cut off (hist.put takes a torn blob for written).
THEOREM ListedIsReadable == Spec => []VersionsReadable
<1>1. IInv => VersionsReadable
  <2> SUFFICES ASSUME IInv, ~cut, NEW i \in DOMAIN versions PROVE Readable(versions[i])
    BY DEF VersionsReadable
  <2>1. versions[i] \in Text /\ blob[versions[i]] \in {"no", "partial", "whole"}
    BY DEF IInv, TypeOK
  <2>2. QED
    BY <2>1 DEF IInv, BlobInv, Readable
<1>2. QED
  BY <1>1, Invariance, PTL

\* The text a file had before the program first wrote it is in the history by
\* the time the file holds another, whoever else edits it through the program.
THEOREM FirstIsKept == Spec => []FirstContentKept
<1>1. IInv => FirstContentKept
  <2> SUFFICES ASSUME IInv, faults = 0, disk # original, original # Absent
               PROVE  original \in ToSet(versions) /\ Readable(original)
    BY DEF FirstContentKept
  <2>1. original \in ToSet(versions) /\ ~cut
    BY DEF IInv, FirstInv, Untouched
  <2>2. PICK i \in DOMAIN versions : versions[i] = original
    BY <2>1 DEF ToSet
  <2>3. versions[i] \in Text /\ blob[versions[i]] \in {"no", "partial", "whole"}
    BY DEF IInv, TypeOK
  <2>4. QED
    BY <2>1, <2>2, <2>3 DEF IInv, BlobInv, Readable
<1>2. QED
  BY <1>1, Invariance, PTL
-----------------------------------------------------------------------------
(* Requests that do not overlap *)

\* The next three say where a request is that will write the file, has written
\* it, or puts what it has written into the history.
BeforeWrite(r) == req[r].at \in {"current", "ready", "go"} \/ RecordsOld(r)
Unchecked(r) == req[r].at \in {"written", "refused"}
RecordsNew(r) == Recording(r) /\ req[r].what = "new"

\* What a request holds of the file, the history and the service, when nothing
\* failed and nobody else was under way.
SoloAt(r) ==
  /\ req[r].at \in Resting \cup {"sent", "current"} => req[r].prev = Absent /\ ~req[r].answered
  /\ RecordsOld(r) => req[r].prev = disk /\ ~req[r].answered
  /\ BeforeWrite(r) /\ req[r].checked => disk = req[r].base
  /\ PastSnapshot(r) => req[r].prev \in ToSet(versions) \cup {Absent}
  /\ req[r].prev \notin Rejected
  /\ req[r].answered /\ req[r].at \notin {"probe", "reapply"} => Answers(daemon)
  /\ Unchecked(r) \/ RecordsNew(r) => disk = req[r].new
  /\ req[r].at = "reapply" => disk = req[r].prev

\* The file is in the history, or nothing was written yet, or it is new.
DiskIsKnown ==
  \/ disk \in ToSet(versions) \cup {Absent}
  \/ versions = <<>> /\ \A r \in Request : ~PastSnapshot(r)
  \/ \E r \in Request : Unchecked(r) \/ RecordsNew(r)

OneAtATime ==
  ~mixed => \A r, s \in Request : req[r].at \notin Resting /\ req[s].at \notin Resting => r = s

SoloInv ==
  Undisturbed =>
    /\ \A r \in Request : SoloAt(r)
    /\ disk \in Rejected => \E r \in Request : Unchecked(r)
    /\ DiskIsKnown

\* The steps of a request that is under way.
WorkStep(r) ==
  \/ Check(r) \/ Snapshot(r) \/ Look(r)
  \/ PutStat(r) \/ PutCreate(r) \/ PutFill(r) \/ AddVersion(r)
  \/ ProbeBefore(r) \/ WriteNew(r) \/ Validate(r) \/ Restore(r)
  \/ Apply(r) \/ ProbeAfter(r) \/ Reapply(r)
ArriveStep(r) ==
  \/ \E e \in Edits : Submit(r, e)
  \/ \E i \in DOMAIN versions, applies \in BOOLEAN : Rollback(r, i, applies)

LEMMA StepKinds ==
  ASSUME Next
  PROVE  \/ \E r \in Request : Load(r) \/ ArriveStep(r) \/ WorkStep(r) \/ ClientLeaves(r)
         \/ \E text \in Content \cup {Absent} : EditByOther(text)
         \/ Crash
BY DEF Next, ArriveStep, WorkStep

LEMMA WorkKeeps ==
  ASSUME TypeOK, NEW r \in Request, WorkStep(r)
  PROVE  /\ req[r].at \notin Resting /\ mixed' = mixed
         /\ \A s \in Request \ {r} : req'[s] = req[s]
<1>1. CASE Check(r) \/ PutStat(r) \/ PutCreate(r) \/ WriteNew(r) \/ Restore(r) \/ Reapply(r)
  BY <1>1 DEF Check, PutStat, PutCreate, WriteNew, Restore, Reapply, Move, End, ghosts, Resting,
              TypeOK
<1>2. CASE Snapshot(r) \/ Look(r) \/ Validate(r) \/ ProbeBefore(r)
  BY <1>2 DEF Snapshot, Look, Validate, ProbeBefore, Move, ghosts, Resting, TypeOK
<1>3. CASE PutFill(r) \/ AddVersion(r) \/ Apply(r) \/ ProbeAfter(r)
  BY <1>3 DEF PutFill, AddVersion, Apply, ProbeAfter, Skip, Move, End, ghosts, Resting, TypeOK
<1>4. QED
  BY <1>1, <1>2, <1>3 DEF WorkStep

LEMMA ArriveKeeps ==
  ASSUME TypeOK, NEW r \in Request, ArriveStep(r)
  PROVE  /\ req[r].at \in Resting
         /\ mixed' = (mixed \/ \E s \in Request \ {r} : req[s].at \notin Resting)
         /\ \A s \in Request \ {r} : req'[s] = req[s]
         /\ req'[r].at = "sent" /\ req'[r].prev = req[r].prev
         /\ req'[r].answered = req[r].answered
         /\ UNCHANGED <<disk, daemon, versions, faults>>
<1>1. PICK e : Arrive(r, e) /\ req[r].at \in Resting
  BY DEF ArriveStep, Submit, Rollback, Resting
<1>2. req[r] \in Held
  BY DEF TypeOK
<1>3. req'[r] = [req[r] EXCEPT !.at = "sent", !.new = e.text, !.checked = e.checks,
                               !.apply = e.applies]
  BY <1>1 DEF Arrive, TypeOK
<1>4. req'[r].at = "sent" /\ req'[r].prev = req[r].prev /\ req'[r].answered = req[r].answered
  BY <1>2, <1>3 DEF Held
<1>5. \A s \in Request \ {r} : req'[s] = req[s]
  BY <1>1 DEF Arrive, TypeOK
<1>6. mixed' = (mixed \/ \E s \in Request \ {r} : req[s].at \notin Resting)
  BY <1>1, Zenon DEF Arrive
<1>7. QED
  BY <1>1, <1>4, <1>5, <1>6 DEF Arrive, host, store

LEMMA OneInit == Init => OneAtATime
BY DEF Init, OneAtATime, Idle, Resting

LEMMA OneStep ==
  ASSUME TypeOK, OneAtATime, Next
  PROVE  OneAtATime'
<1>1. ASSUME NEW r \in Request, Load(r) PROVE OneAtATime'
  <2>1. req'[r].at \in Resting /\ mixed' = mixed /\ \A s \in Request \ {r} : req'[s] = req[s]
    BY <1>1 DEF Load, TypeOK, Resting, ghosts, Idle
  <2>2. QED
    BY <2>1 DEF OneAtATime
<1>2. ASSUME NEW r \in Request, ArriveStep(r) PROVE OneAtATime'
  <2>1. ~mixed' => \A s \in Request \ {r} : req'[s].at \in Resting
    BY <1>2, ArriveKeeps
  <2>2. QED
    BY <2>1 DEF OneAtATime
<1>3. ASSUME NEW r \in Request, WorkStep(r) PROVE OneAtATime'
  <2>1. ~mixed' => ~mixed
    BY <1>3, WorkKeeps
  <2>2. ~mixed => \A s \in Request \ {r} : req[s].at \in Resting
    BY <1>3, WorkKeeps DEF OneAtATime
  <2>3. ~mixed' => \A s \in Request \ {r} : req'[s].at \in Resting
    BY <1>3, <2>1, <2>2, WorkKeeps
  <2>4. QED
    BY <2>3 DEF OneAtATime
<1>4. CASE \/ \E r \in Request : ClientLeaves(r)
           \/ \E text \in Content \cup {Absent} : EditByOther(text)
  BY <1>4 DEF ClientLeaves, EditByOther, OneAtATime, ghosts
<1>5. CASE Crash
  BY <1>5 DEF Crash, OneAtATime, ghosts, TypeOK, Idle, Resting
<1>6. QED
  BY <1>1, <1>2, <1>3, <1>4, <1>5, StepKinds

\* The request under way is the only one: of the others there is nothing to say.
LEMMA SoloKept ==
  ASSUME TypeOK, OneAtATime, SoloInv, Undisturbed, NEW r \in Request, WorkStep(r),
         SoloAt(r)', disk' \in Rejected => Unchecked(r)',
         \/ disk' \in ToSet(versions') \cup {Absent}
         \/ versions' = <<>> /\ ~PastSnapshot(r)'
         \/ Unchecked(r)' \/ RecordsNew(r)'
  PROVE  SoloInv'
<1>1. \A s \in Request \ {r} : req'[s] = req[s] /\ req[s].at \in Resting
  BY WorkKeeps DEF OneAtATime, Undisturbed
<1>2. ASSUME NEW s \in Request \ {r}
      PROVE  SoloAt(s)' /\ ~PastSnapshot(s)'
  <2>1. SoloAt(s) /\ req'[s] = req[s] /\ req[s].at \in {"idle", "editing"}
    BY <1>1 DEF SoloInv, Resting
  <2>2. req[s].prev = Absent /\ ~req[s].answered /\ req[s].prev \notin Rejected
    BY <2>1 DEF SoloAt, Resting
  <2>3. /\ ~RecordsOld(s)' /\ ~BeforeWrite(s)' /\ ~PastSnapshot(s)' /\ ~Unchecked(s)'
        /\ ~RecordsNew(s)'
    BY <2>1 DEF RecordsOld, Recording, BeforeWrite, PastSnapshot, Unchecked, RecordsNew
  <2>4. QED
    BY <2>1, <2>2, <2>3 DEF SoloAt
<1>3. DiskIsKnown'
  BY <1>2 DEF DiskIsKnown
<1>4. QED
  BY <1>2, <1>3 DEF SoloInv

LEMMA SoloInit == Init => SoloInv
<1> SUFFICES ASSUME Init PROVE SoloInv
  OBVIOUS
<1>1. \A r \in Request : req[r] = Idle
  BY DEF Init
<1>2. Absent \notin Rejected /\ disk \notin Rejected /\ versions = <<>>
  BY ConstantsAssumption DEF Init, File, Text
<1>3. \A r \in Request : SoloAt(r) /\ ~PastSnapshot(r)
  BY <1>1, <1>2 DEF SoloAt, Idle, RecordsOld, Recording, BeforeWrite, PastSnapshot, Unchecked,
                    RecordsNew
<1>4. QED
  BY <1>2, <1>3 DEF SoloInv, DiskIsKnown

\* When nothing has failed: of the choices a step has, one.
LEMMA Before ==
  ASSUME TypeOK, FirstInv, Next, Undisturbed'
  PROVE  Undisturbed /\ gone = {} /\ ~Fault
<1>1. faults = 0 /\ gone = {}
  BY FaultsStay DEF Undisturbed, FirstInv
<1>2. ~mixed' => ~mixed
  <2>1. ASSUME NEW r \in Request, Load(r) \/ ClientLeaves(r) PROVE mixed' = mixed
    BY <2>1 DEF Load, ClientLeaves, ghosts
  <2>2. ASSUME NEW text, EditByOther(text) PROVE mixed' = mixed
    BY <2>2 DEF EditByOther, ghosts
  <2>3. CASE Crash
    BY <2>3 DEF Crash, ghosts
  <2>4. QED
    BY <2>1, <2>2, <2>3, StepKinds, WorkKeeps, ArriveKeeps
<1>3. ~Fault
  BY <1>1 DEF Undisturbed, Fault
<1>4. QED
  BY <1>1, <1>2, <1>3 DEF Undisturbed

\* A request that ends leaves nothing to say of it.
LEMMA EndSolo ==
  ASSUME TypeOK, NEW r \in Request, End(r)
  PROVE  SoloAt(r)' /\ ~PastSnapshot(r)' /\ ~Unchecked(r)' /\ ~RecordsNew(r)'
<1>1. req'[r] = Idle
  BY DEF End, TypeOK
<1>2. Absent \notin Rejected
  BY ConstantsAssumption DEF File, Text
<1>3. req'[r].at = "idle" /\ req'[r].prev = Absent /\ ~req'[r].answered
  BY <1>1 DEF Idle
<1>4. ~RecordsOld(r)' /\ ~BeforeWrite(r)' /\ ~PastSnapshot(r)' /\ ~Unchecked(r)' /\ ~RecordsNew(r)'
  BY <1>3 DEF RecordsOld, Recording, BeforeWrite, PastSnapshot, Unchecked, RecordsNew
<1>5. QED
  BY <1>2, <1>3, <1>4 DEF SoloAt

\* What a request holds when it only moves on.
LEMMA MoveKeeps ==
  ASSUME TypeOK, NEW r \in Request, NEW step \in Step, Move(r, step)
  PROVE  req'[r].at = step /\ req'[r].prev = req[r].prev /\ req'[r].base = req[r].base
         /\ req'[r].checked = req[r].checked /\ req'[r].new = req[r].new
         /\ req'[r].answered = req[r].answered /\ req'[r].what = req[r].what
         /\ req'[r].apply = req[r].apply
BY DEF Move, TypeOK, Held

LEMMA RecordKeeps ==
  ASSUME TypeOK, NEW r \in Request, NEW w \in {"old", "new"},
         req' = [req EXCEPT ![r].at = "stat", ![r].what = w]
  PROVE  req'[r].at = "stat" /\ req'[r].what = w /\ req'[r].prev = req[r].prev
         /\ req'[r].base = req[r].base /\ req'[r].checked = req[r].checked
         /\ req'[r].new = req[r].new /\ req'[r].answered = req[r].answered
BY DEF TypeOK, Held

LEMMA SoloSnapshot ==
  ASSUME IInv, OneAtATime, SoloInv, Undisturbed, gone = {}, ~Fault, NEW r \in Request,
         Check(r) \/ Snapshot(r) \/ Look(r)
  PROVE  SoloInv'
<1> USE DEF IInv
<1>1. WorkStep(r) /\ SoloAt(r) /\ UNCHANGED <<disk, daemon, versions>>
  BY DEF WorkStep, SoloInv, Check, Snapshot, Look, host, store
<1>2. \A s \in Request \ {r} : ~Unchecked(s) /\ ~RecordsNew(s) /\ ~PastSnapshot(s)
  BY <1>1, WorkKeeps
     DEF OneAtATime, Undisturbed, Unchecked, RecordsNew, Recording, PastSnapshot, Resting
<1>3. ~Unchecked(r) /\ ~RecordsNew(r) /\ ~PastSnapshot(r)
  BY DEF Check, Snapshot, Look, Unchecked, RecordsNew, Recording, PastSnapshot
<1>4. disk \notin Rejected /\ (disk \in ToSet(versions) \cup {Absent} \/ versions = <<>>)
  BY <1>2, <1>3 DEF SoloInv, DiskIsKnown
<1>5. CASE End(r)
  BY <1>1, <1>4, <1>5, EndSolo, SoloKept
<1>6. CASE Check(r) /\ ~Stale(r) /\ Move(r, "current")
  <2>1. /\ req'[r].at = "current" /\ req'[r].prev = Absent /\ ~req'[r].answered
        /\ req'[r].checked => disk = req'[r].base
    BY <1>1, <1>6, MoveKeeps DEF Check, Stale, SoloAt, Step
  <2>2. SoloAt(r)' /\ ~PastSnapshot(r)'
    BY <1>1, <2>1, ConstantsAssumption
       DEF SoloAt, RecordsOld, Recording, BeforeWrite, PastSnapshot, Unchecked, RecordsNew, File,
           Text
  <2>3. QED
    BY <1>1, <1>4, <2>2, SoloKept
<1>7. CASE Snapshot(r)
  <2>1. req[r].prev = Absent /\ ~req[r].answered /\ (req[r].checked => disk = req[r].base)
    BY <1>1, <1>7 DEF Snapshot, SoloAt, BeforeWrite
  <2>2. CASE disk # Absent
    <3>1. req' = [req EXCEPT ![r].prev = disk, ![r].at = "look"]
      BY <1>7, <2>2 DEF Snapshot
    <3>2. /\ req'[r].at = "look" /\ req'[r].prev = disk /\ ~req'[r].answered
          /\ req'[r].checked => disk = req'[r].base
      BY <2>1, <3>1 DEF TypeOK, Held
    <3>3. SoloAt(r)' /\ ~PastSnapshot(r)'
      BY <1>1, <1>4, <3>2
         DEF SoloAt, RecordsOld, Recording, BeforeWrite, PastSnapshot, Unchecked, RecordsNew,
             Resting
    <3>4. QED
      BY <1>1, <1>4, <3>3, SoloKept
  <2>3. CASE disk = Absent
    <3>1. Move(r, "ready")
      BY <1>7, <2>3 DEF Snapshot
    <3>2. /\ req'[r].at = "ready" /\ req'[r].prev = Absent /\ ~req'[r].answered
          /\ req'[r].checked => disk = req'[r].base
      BY <2>1, <3>1, MoveKeeps DEF Step
    <3>3. SoloAt(r)'
      BY <1>1, <1>4, <2>3, <3>2
         DEF SoloAt, RecordsOld, Recording, BeforeWrite, PastSnapshot, Unchecked, RecordsNew,
             Resting
    <3>4. QED
      BY <1>1, <1>4, <2>3, <3>3, SoloKept
  <2>4. QED
    BY <2>2, <2>3
<1>8. CASE Look(r)
  <2>1. /\ req[r].prev = disk /\ ~req[r].answered /\ (req[r].checked => disk = req[r].base)
    BY <1>1, <1>8 DEF Look, SoloAt, BeforeWrite, RecordsOld
  <2>2. CASE FirstEdit
    <3>1. req' = [req EXCEPT ![r].at = "stat", ![r].what = "old"]
      BY <1>8, <2>2 DEF Look
    <3>2. /\ req'[r].at = "stat" /\ req'[r].what = "old" /\ req'[r].prev = disk
          /\ ~req'[r].answered /\ (req'[r].checked => disk = req'[r].base)
      BY <2>1, <3>1, RecordKeeps
    <3>3. SoloAt(r)' /\ ~PastSnapshot(r)'
      BY <1>1, <1>4, <3>2
         DEF SoloAt, RecordsOld, Recording, BeforeWrite, PastSnapshot, Unchecked, RecordsNew,
             Resting
    <3>4. QED
      BY <1>1, <1>4, <3>3, SoloKept
  <2>3. CASE ~FirstEdit
    <3>1. Move(r, "ready") /\ disk \in ToSet(versions) \cup {Absent}
      BY <1>4, <1>8, <2>3 DEF Look, FirstEdit
    <3>2. /\ req'[r].at = "ready" /\ req'[r].prev = disk /\ ~req'[r].answered
          /\ req'[r].checked => disk = req'[r].base
      BY <2>1, <3>1, MoveKeeps DEF Step
    <3>3. SoloAt(r)'
      BY <1>1, <1>4, <3>1, <3>2
         DEF SoloAt, RecordsOld, Recording, BeforeWrite, PastSnapshot, Unchecked, RecordsNew,
             Resting
    <3>4. QED
      BY <1>1, <1>4, <3>1, <3>3, SoloKept
  <2>4. QED
    BY <2>2, <2>3
<1>9. QED
  BY <1>5, <1>6, <1>7, <1>8 DEF Check

\* Recording: the blob is of no concern, only the row is.
LEMMA SoloRecord ==
  ASSUME IInv, OneAtATime, SoloInv, Undisturbed, gone = {}, ~Fault, NEW r \in Request,
         PutStat(r) \/ PutCreate(r) \/ PutFill(r) \/ AddVersion(r)
  PROVE  SoloInv'
<1> USE DEF IInv
<1>1. WorkStep(r) /\ SoloAt(r) /\ UNCHANGED <<disk, daemon>> /\ Recording(r)
  BY DEF WorkStep, SoloInv, PutStat, PutCreate, PutFill, AddVersion, Recording, host
<1>2. \A s \in Request \ {r} : ~Unchecked(s) /\ ~RecordsNew(s) /\ ~PastSnapshot(s)
  BY <1>1, WorkKeeps
     DEF OneAtATime, Undisturbed, Unchecked, RecordsNew, Recording, PastSnapshot, Resting
<1>3. ~Unchecked(r) /\ disk \notin Rejected
  BY <1>1, <1>2 DEF Unchecked, Recording, SoloInv
<1>4. RecordsNew(r) \/ (~PastSnapshot(r) /\ RecordsOld(r))
  BY <1>1 DEF RecordsNew, RecordsOld, PastSnapshot, Recording, TypeOK, Held
<1>5. CASE PutStat(r) \/ PutCreate(r) \/ PutFill(r)
  <2>1. versions' = versions
    BY <1>5 DEF PutStat, PutCreate, PutFill, store
  <2>2. PICK step \in {"row", "create", "fill"} : Move(r, step)
    BY <1>5 DEF PutStat, PutCreate, PutFill
  <2>3. /\ req'[r].at \in {"row", "create", "fill"} /\ req'[r].prev = req[r].prev
        /\ req'[r].what = req[r].what /\ req'[r].answered = req[r].answered
        /\ req'[r].checked = req[r].checked /\ req'[r].base = req[r].base
        /\ req'[r].new = req[r].new
    BY <2>2, MoveKeeps DEF Step
  <2>4. /\ RecordsOld(r)' <=> RecordsOld(r)
        /\ RecordsNew(r)' <=> RecordsNew(r)
        /\ PastSnapshot(r)' <=> PastSnapshot(r)
        /\ ~Unchecked(r)' /\ (BeforeWrite(r)' <=> BeforeWrite(r))
    BY <1>1, <2>3 DEF RecordsOld, RecordsNew, PastSnapshot, Recording, Unchecked, BeforeWrite
  <2>5. SoloAt(r)'
    BY <1>1, <2>1, <2>3, <2>4 DEF SoloAt, Resting, Recording
  <2>6. \/ disk' \in ToSet(versions') \cup {Absent}
        \/ versions' = <<>> /\ ~PastSnapshot(r)'
        \/ RecordsNew(r)'
    BY <1>1, <1>2, <1>3, <1>4, <2>1, <2>4 DEF SoloInv, DiskIsKnown
  <2>7. QED
    BY <1>1, <1>3, <2>5, <2>6, SoloKept
<1>6. CASE AddVersion(r)
  <2>1. /\ versions' = Append(versions, Kept(r))
        /\ Move(r, IF req[r].what = "old" THEN "ready" ELSE "saved")
    BY <1>6 DEF AddVersion
  <2>2. ToSet(versions') = ToSet(versions) \cup {Kept(r)}
    BY <1>1, <2>1, KeptText, AppendSet DEF TypeOK
  <2>3. Kept(r) = disk
    BY <1>1, <1>4 DEF Kept, RecordsNew, RecordsOld, Recording, SoloAt
  <2>4. /\ req'[r].at \in {"ready", "saved"} /\ req'[r].prev = req[r].prev
        /\ req'[r].answered = req[r].answered
        /\ req'[r].checked = req[r].checked /\ req'[r].base = req[r].base
        /\ req'[r].at = "ready" => RecordsOld(r)
        /\ req'[r].at = "saved" => RecordsNew(r)
    BY <1>1, <2>1, MoveKeeps DEF Step, RecordsOld, RecordsNew, Recording, TypeOK, Held
  <2>5. req[r].prev \in ToSet(versions') \cup {Absent}
    BY <1>1, <1>4, <2>2, <2>3 DEF SoloAt, RecordsNew, PastSnapshot, Recording, RecordsOld
  <2>6. SoloAt(r)'
    BY <1>1, <2>4, <2>5
       DEF SoloAt, Resting, RecordsOld, Recording, BeforeWrite, PastSnapshot, Unchecked, RecordsNew
  <2>7. QED
    BY <1>1, <1>3, <2>2, <2>3, <2>6, SoloKept
<1>7. QED
  BY <1>5, <1>6

LEMMA SoloWrite ==
  ASSUME IInv, OneAtATime, SoloInv, Undisturbed, gone = {}, ~Fault, NEW r \in Request,
         ProbeBefore(r) \/ WriteNew(r) \/ Validate(r) \/ Restore(r)
  PROVE  SoloInv'
<1> USE DEF IInv
<1>1. WorkStep(r) /\ SoloAt(r) /\ UNCHANGED <<daemon, versions>> /\ PastSnapshot(r)
  BY DEF WorkStep, SoloInv, ProbeBefore, WriteNew, Validate, Restore, host, store, PastSnapshot
<1>2. req[r].prev \in ToSet(versions) \cup {Absent} /\ req[r].prev \notin Rejected
  BY <1>1 DEF SoloAt
<1>3. \A s \in Request \ {r} : ~Unchecked(s) /\ ~RecordsNew(s)
  BY <1>1, WorkKeeps
     DEF OneAtATime, Undisturbed, Unchecked, RecordsNew, Recording, Resting
<1>4. CASE ProbeBefore(r)
  <2> DEFINE ok == Probed /\ Answers(daemon) /\ r \notin gone
  <2>1. req' = [req EXCEPT ![r].at = "go", ![r].answered = ok] /\ disk' = disk /\ req[r].at = "ready"
    BY <1>4, Zenon DEF ProbeBefore, host
  <2>2. ok => Answers(daemon)
    OBVIOUS
  <2> HIDE DEF ok
  <2>3. /\ req'[r].at = "go" /\ (req'[r].answered <=> ok) /\ req'[r].prev = req[r].prev
        /\ req'[r].checked = req[r].checked /\ req'[r].base = req[r].base
    BY <2>1 DEF TypeOK, Held
  <2>4. req[r].checked => disk = req[r].base
    BY <1>1, <2>1 DEF SoloAt, BeforeWrite
  <2>5. ~Unchecked(r) /\ ~RecordsNew(r)
    BY <2>1 DEF Unchecked, RecordsNew, Recording
  <2>6. disk \notin Rejected /\ disk \in ToSet(versions) \cup {Absent}
    BY <1>1, <1>3, <2>5 DEF SoloInv, DiskIsKnown
  <2>7. Answers(daemon)' <=> Answers(daemon)
    BY <1>1 DEF Answers
  <2>8. SoloAt(r)'
    BY <1>1, <1>2, <2>1, <2>2, <2>3, <2>4, <2>7
       DEF SoloAt, Resting, RecordsOld, Recording, BeforeWrite, Unchecked, RecordsNew
  <2>9. QED
    BY <1>1, <2>1, <2>6, <2>8, SoloKept
<1>5. CASE WriteNew(r)
  <2>1. disk' = req[r].new /\ Move(r, "written")
    BY <1>5 DEF WriteNew
  <2>2. /\ req'[r].at = "written" /\ req'[r].prev = req[r].prev
        /\ req'[r].answered = req[r].answered /\ disk' = req'[r].new
    BY <2>1, MoveKeeps DEF Step
  <2>3. req[r].answered => Answers(daemon)
    BY <1>1, <1>5 DEF WriteNew, SoloAt
  <2>4. SoloAt(r)' /\ Unchecked(r)'
    BY <1>1, <1>2, <2>2, <2>3
       DEF SoloAt, Resting, RecordsOld, Recording, BeforeWrite, Unchecked, RecordsNew, Answers
  <2>5. QED
    BY <1>1, <2>4, SoloKept
<1>6. CASE Validate(r)
  <2>1. disk' = disk /\ req[r].at = "written"
    BY <1>6 DEF Validate, host
  <2>2. req[r].answered => Answers(daemon)
    BY <1>1, <2>1 DEF SoloAt
  <2>3. disk = req[r].new
    BY <1>1, <2>1 DEF SoloAt, Unchecked
  <2>4. CASE Move(r, "refused")
    <3>1. /\ req'[r].at = "refused" /\ req'[r].prev = req[r].prev
          /\ req'[r].answered = req[r].answered /\ req'[r].new = req[r].new
      BY <2>4, MoveKeeps DEF Step
    <3>2. SoloAt(r)' /\ Unchecked(r)'
      BY <1>1, <1>2, <2>1, <2>2, <2>3, <3>1
         DEF SoloAt, Resting, RecordsOld, Recording, BeforeWrite, Unchecked, RecordsNew, Answers
    <3>3. QED
      BY <1>1, <3>2, SoloKept
  <2>5. CASE disk \notin Rejected /\ req' = [req EXCEPT ![r].at = "stat", ![r].what = "new"]
    <3>1. /\ req'[r].at = "stat" /\ req'[r].what = "new" /\ req'[r].prev = req[r].prev
          /\ req'[r].answered = req[r].answered /\ req'[r].new = req[r].new
      BY <2>5, RecordKeeps
    <3>2. SoloAt(r)' /\ RecordsNew(r)'
      BY <1>1, <1>2, <2>1, <2>2, <2>3, <3>1
         DEF SoloAt, Resting, RecordsOld, Recording, BeforeWrite, Unchecked, RecordsNew, Answers
    <3>3. QED
      BY <1>1, <2>1, <2>5, <3>2, SoloKept
  <2>6. QED
    BY <1>6, <2>4, <2>5, Zenon DEF Validate
<1>7. CASE Restore(r)
  <2>1. disk' = req[r].prev /\ End(r)
    BY <1>7 DEF Restore, Undone
  <2>2. QED
    BY <1>1, <1>2, <2>1, EndSolo, SoloKept
<1>8. QED
  BY <1>4, <1>5, <1>6, <1>7

LEMMA SoloApply ==
  ASSUME IInv, OneAtATime, SoloInv, Undisturbed, gone = {}, ~Fault, NEW r \in Request,
         Apply(r) \/ ProbeAfter(r) \/ Reapply(r)
  PROVE  SoloInv'
<1> USE DEF IInv
<1>1. WorkStep(r) /\ SoloAt(r) /\ versions' = versions /\ PastSnapshot(r)
  BY DEF WorkStep, SoloInv, Apply, ProbeAfter, Reapply, store, PastSnapshot
<1>2. req[r].prev \in ToSet(versions) \cup {Absent} /\ req[r].prev \notin Rejected
  BY <1>1 DEF SoloAt
<1>3. \A s \in Request \ {r} : ~Unchecked(s) /\ ~RecordsNew(s)
  BY <1>1, WorkKeeps
     DEF OneAtATime, Undisturbed, Unchecked, RecordsNew, Recording, Resting
<1>4. ~Unchecked(r) /\ ~RecordsNew(r)
  BY DEF Apply, ProbeAfter, Reapply, Unchecked, RecordsNew, Recording
<1>5. disk \notin Rejected /\ disk \in ToSet(versions) \cup {Absent}
  BY <1>1, <1>3, <1>4 DEF SoloInv, DiskIsKnown
<1>6. disk' = disk \/ disk' = req[r].prev
  BY DEF Apply, ProbeAfter, Reapply
<1>7. disk' \notin Rejected /\ disk' \in ToSet(versions') \cup {Absent}
  BY <1>1, <1>2, <1>5, <1>6
<1>8. CASE End(r)
  BY <1>1, <1>7, <1>8, EndSolo, SoloKept
<1>9. CASE Apply(r) /\ Move(r, "probe")
  <2>1. req'[r].at = "probe" /\ req'[r].prev = req[r].prev
    BY <1>9, MoveKeeps DEF Step
  <2>2. SoloAt(r)'
    BY <1>1, <1>2, <2>1
       DEF SoloAt, Resting, RecordsOld, Recording, BeforeWrite, Unchecked, RecordsNew
  <2>3. QED
    BY <1>1, <1>7, <2>2, SoloKept
<1>10. CASE ProbeAfter(r) /\ disk' = req[r].prev /\ Move(r, "reapply")
  <2>1. req'[r].at = "reapply" /\ req'[r].prev = req[r].prev
    BY <1>10, MoveKeeps DEF Step
  <2>2. SoloAt(r)'
    BY <1>1, <1>2, <1>10, <2>1
       DEF SoloAt, Resting, RecordsOld, Recording, BeforeWrite, Unchecked, RecordsNew
  <2>3. QED
    BY <1>1, <1>7, <2>2, SoloKept
<1>11. QED
  BY <1>8, <1>9, <1>10 DEF Apply, ProbeAfter, Reapply

LEMMA SoloArrive ==
  ASSUME IInv, SoloInv, Undisturbed, Undisturbed', NEW r \in Request, Load(r) \/ ArriveStep(r)
  PROVE  SoloInv'
<1> USE DEF IInv
<1>1. /\ req[r].at \in Resting /\ UNCHANGED <<disk, daemon, versions>>
      /\ \A s \in Request \ {r} : req'[s] = req[s]
      /\ req'[r].at \in {"editing", "sent"} /\ req'[r].prev = Absent /\ ~req'[r].answered
  <2>1. CASE Load(r)
    BY <2>1 DEF Load, Resting, host, store, TypeOK, Idle
  <2>2. CASE ArriveStep(r)
    BY <2>2, ArriveKeeps DEF SoloInv, SoloAt
  <2>3. QED
    BY <2>1, <2>2
<1>2. Absent \notin Rejected
  BY ConstantsAssumption DEF File, Text
<1>3. SoloAt(r)'
  BY <1>1, <1>2
     DEF SoloAt, Resting, RecordsOld, Recording, BeforeWrite, PastSnapshot, Unchecked, RecordsNew
<1>4. \A s \in Request \ {r} : SoloAt(s)'
  BY <1>1 DEF SoloInv, SoloAt, Resting, RecordsOld, Recording, BeforeWrite, PastSnapshot,
              Unchecked, RecordsNew, Answers
<1>5. ~PastSnapshot(r)' /\ ~Unchecked(r) /\ ~RecordsNew(r)
  BY <1>1 DEF PastSnapshot, Recording, Unchecked, RecordsNew, Resting
<1>6. \A s \in Request \ {r} : /\ PastSnapshot(s)' <=> PastSnapshot(s)
                               /\ Unchecked(s)' <=> Unchecked(s)
                               /\ RecordsNew(s)' <=> RecordsNew(s)
  BY <1>1 DEF PastSnapshot, Recording, Unchecked, RecordsNew
<1>7. disk' \in Rejected => \E s \in Request : Unchecked(s)'
  BY <1>1, <1>5, <1>6 DEF SoloInv
<1>8. DiskIsKnown'
  BY <1>1, <1>5, <1>6 DEF SoloInv, DiskIsKnown
<1>9. QED
  BY <1>3, <1>4, <1>7, <1>8 DEF SoloInv

LEMMA SoloStep ==
  ASSUME IInv, OneAtATime, SoloInv, [Next]_vars
  PROVE  SoloInv'
<1>1. CASE UNCHANGED vars
  <2>1. UNCHANGED <<disk, daemon, versions, req, mixed, faults>>
    BY <1>1 DEF vars
  <2>2. QED
    BY <2>1 DEF SoloInv, SoloAt, DiskIsKnown, Undisturbed, RecordsOld, Recording, BeforeWrite,
                PastSnapshot, Unchecked, RecordsNew, Answers
<1>2. CASE Next
  <2> SUFFICES ASSUME Undisturbed' PROVE SoloInv'
    BY DEF SoloInv
  <2>1. Undisturbed /\ gone = {} /\ ~Fault
    BY <1>2, Before DEF IInv
  <2>2. ASSUME NEW r \in Request, WorkStep(r) PROVE SoloInv'
    BY <2>1, <2>2, SoloSnapshot, SoloRecord, SoloWrite, SoloApply DEF WorkStep
  <2>3. QED
    BY <1>2, <2>1, <2>2, StepKinds, SoloArrive DEF ClientLeaves, EditByOther, Crash
<1>3. QED
  BY <1>1, <1>2

LEMMA SoloInvariance == Spec => [](IInv /\ OneAtATime /\ SoloInv)
<1>1. Init => IInv /\ OneAtATime /\ SoloInv
  BY InitInv, OneInit, SoloInit
<1>2. IInv /\ OneAtATime /\ SoloInv /\ [Next]_vars => (IInv /\ OneAtATime /\ SoloInv)'
  <2> SUFFICES ASSUME IInv, OneAtATime, SoloInv, [Next]_vars
               PROVE  IInv' /\ OneAtATime' /\ SoloInv'
    OBVIOUS
  <2>1. CASE UNCHANGED vars
    BY <2>1, StepInv, SoloStep DEF OneAtATime, vars
  <2>2. CASE Next
    BY <2>2, StepInv, OneStep, SoloStep DEF IInv
  <2>3. QED
    BY <2>1, <2>2
<1>3. QED
  BY <1>1, <1>2, PTL DEF Spec

\* Requests that do not overlap leave no file the service refuses (Write puts the
\* old bytes back, which it accepted).
THEOREM NothingRefusedStays == Spec => []RefusedIsUndone
<1>1. OneAtATime /\ SoloInv => RefusedIsUndone
  BY DEF SoloInv, RefusedIsUndone, AtRest, Resting, Unchecked
<1>2. QED
  BY <1>1, SoloInvariance, PTL

\* What the disk holds between such requests can be rolled back to: it is the last
\* text recorded, or one that was there before and was put back.
THEOREM DiskCanBeRestored == Spec => []DiskIsInHistory
<1>1. SoloInv => DiskIsInHistory
  BY DEF SoloInv, DiskIsInHistory, DiskIsKnown, AtRest, Resting, Unchecked, RecordsNew, Recording
<1>2. QED
  BY <1>1, SoloInvariance, PTL

\* An edit of the file with which sshd answered does not leave it deaf: the probe
\* after the reload has the old file put back, and the service accepts that one.
THEOREM SshdAnswersAgain == Spec => SshdComesBack
<1> DEFINE Back(r) ==
      /\ req[r].at \notin Resting /\ req'[r].at = "idle"
      /\ req[r].answered /\ req[r].prev \notin Deaf \cup {Absent}
      /\ ~mixed /\ faults' = 0
      => Answers(daemon')
<1>1. ASSUME IInv, OneAtATime, SoloInv, Next, NEW r \in Request PROVE Back(r)
  <2> SUFFICES ASSUME req[r].at \notin Resting, req'[r].at = "idle", req[r].answered,
                      req[r].prev \notin Deaf \cup {Absent}, ~mixed, faults' = 0
               PROVE  Answers(daemon')
    OBVIOUS
  <2>1. faults = 0 /\ gone = {} /\ ~Fault /\ Undisturbed
    BY <1>1, FaultsStay DEF IInv, FirstInv, Undisturbed, Fault
  <2>2. SoloAt(r) /\ TypeOK
    BY <1>1, <2>1 DEF SoloInv, IInv
  <2>3. WorkStep(r)
    <3>1. ASSUME NEW s \in Request, Load(s) \/ ArriveStep(s) PROVE req'[r].at # "idle"
      <4>1. CASE s = r
        BY <2>2, <3>1, <4>1, ArriveKeeps DEF Load, Resting
      <4>2. CASE s # r
        BY <2>2, <3>1, <4>2, ArriveKeeps DEF Load, Resting, TypeOK
      <4>3. QED
        BY <4>1, <4>2
    <3>2. ASSUME NEW s \in Request, WorkStep(s), s # r PROVE req'[r].at # "idle"
      BY <2>2, <3>2, WorkKeeps DEF Resting
    <3>3. QED
      BY <1>1, <2>1, <3>1, <3>2, StepKinds DEF ClientLeaves, EditByOther, Crash
  <2>4. ASSUME NEW step \in Step \ {"idle"}, Move(r, step) PROVE FALSE
    BY <2>2, <2>4, MoveKeeps
  <2>5. CASE Check(r) \/ Snapshot(r) \/ Look(r) \/ PutStat(r) \/ PutCreate(r) \/ PutFill(r)
             \/ AddVersion(r) \/ WriteNew(r) \/ Validate(r) \/ Restore(r)
    <3>1. daemon' = daemon
      BY <2>5 DEF Check, Snapshot, Look, PutStat, PutCreate, PutFill, AddVersion, WriteNew,
                  Validate, Restore, host
    <3>2. req[r].at \notin {"probe", "reapply"}
      BY <2>5 DEF Check, Snapshot, Look, PutStat, PutCreate, PutFill, AddVersion, WriteNew,
                  Validate, Restore
    <3>3. QED
      BY <2>2, <3>1, <3>2 DEF SoloAt
  <2>6. CASE ProbeBefore(r)
    BY <2>2, <2>6 DEF ProbeBefore, TypeOK, Held
  <2>7. CASE Apply(r)
    <3>1. CASE ~req[r].apply /\ UNCHANGED daemon
      BY <2>2, <2>7, <3>1 DEF Apply, SoloAt
    <3>2. CASE req[r].apply
      BY <2>1, <2>4, <2>7, <3>2 DEF Apply, Step
    <3>3. QED
      BY <2>7, <3>1, <3>2 DEF Apply
  <2>8. CASE ProbeAfter(r)
    <3>1. Answers(daemon) /\ daemon' = daemon
      BY <2>1, <2>4, <2>8 DEF ProbeAfter, Step
    <3>2. QED
      BY <3>1
  <2>9. CASE Reapply(r)
    <3>1. disk = req[r].prev /\ disk \notin Rejected
      BY <2>2, <2>9 DEF Reapply, SoloAt
    <3>2. daemon' = disk
      BY <2>1, <2>9, <3>1 DEF Reapply, Reapplied, Reloaded
    <3>3. QED
      BY <3>1, <3>2 DEF Answers
  <2>10. QED
    BY <2>3, <2>5, <2>6, <2>7, <2>8, <2>9 DEF WorkStep
<1>2. ASSUME IInv, OneAtATime, SoloInv, [Next]_vars
      PROVE  [\A r \in Request : Back(r)]_vars
  BY <1>1, <1>2
<1> HIDE DEF Back
<1>3. Spec => [][\A r \in Request : Back(r)]_vars
  BY <1>2, SoloInvariance, PTL DEF Spec
<1>4. QED
  BY <1>3 DEF SshdComesBack, Back

\* A request with a checksum writes over the text its editor had loaded, unless
\* another one came between the comparison and the write.
THEOREM NothingOverwritten == Spec => StaleIsRefused
<1> DEFINE Fresh(r) ==
      /\ req[r].at = "go" /\ req'[r].at = "written"
      /\ req[r].checked /\ Undisturbed
      => disk = req[r].base
<1>1. ASSUME SoloInv PROVE \A r \in Request : Fresh(r)
  BY <1>1 DEF SoloInv, SoloAt, BeforeWrite
<1>2. SoloInv => [\A r \in Request : Fresh(r)]_vars
  BY <1>1
<1> HIDE DEF Fresh
<1>3. Spec => [][\A r \in Request : Fresh(r)]_vars
  BY <1>2, SoloInvariance, PTL DEF Spec
<1>4. QED
  BY <1>3 DEF StaleIsRefused, Fresh
=============================================================================
