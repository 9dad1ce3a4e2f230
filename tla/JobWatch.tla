------------------------------ MODULE JobWatch ------------------------------
(***************************************************************************)
(* Following one job live: its goroutine tells watchers through channels   *)
(* (Watch, notify, closeWatchers in internal/jobs/jobs.go), a handler per  *)
(* connection forwards them to a WebSocket (handleJobWS), and the window   *)
(* of the browser rereads the log on every signal (JobLogModal).           *)
(*                                                                         *)
(* A signal carries nothing here: the window only uses that it came.  Log  *)
(* lines are their numbers.  A window is opened once and shows one job.    *)
(***************************************************************************)
EXTENDS Naturals, Sequences

CONSTANTS
  Viewer,      \* open windows, one connection each
  MaxLines,    \* bound: lines in the log of the job
  PageSize,    \* const jobLogLimit
  ChanCap,     \* capacity of a channel made by Watch
  WireCap,     \* messages a connection takes before a write blocks
  MaxMissed,   \* const wsKeepaliveMaxMissed
  MaxBoots,    \* bound: restarts of the service
  MaxLosses    \* bound: requests that fail and connections that break

ASSUME ConstantsAssumption ==
  /\ {MaxLines, PageSize, ChanCap, WireCap, MaxMissed, MaxBoots, MaxLosses} \subseteq Nat
  /\ PageSize > 0 /\ WireCap > 0 /\ MaxMissed > 0

VARIABLES
  \* the job
  row,       \* "open" or "done" (any outcome), in the database
  logLen,    \* lines in job_log
  jpc,       \* where the goroutine of the job is
  \* Manager, under mu
  watchers,  \* viewers whose channel is in Manager.watchers
  taken,     \* channels closeWatchers has taken out and not closed yet
  chan,      \* [Viewer -> 0..ChanCap], signals in the channel
  closed,    \* viewers whose channel is closed
  broken,    \* the process has panicked: a closed channel closed or sent to
  \* handleJobWS
  spc,       \* [Viewer -> ...], where the handler is
  snapshot,  \* [Viewer -> ...], the row as the handler read it first
  missed,    \* [Viewer -> Nat], pings without a pong in a row
  conn,      \* [Viewer -> ...], the server's end of the connection
  wire,      \* [Viewer -> 0..WireCap + 1], messages on their way
  \* JobLogModal
  listed,    \* [Viewer -> ...], status in the list the window was opened from;
             \* "none" before that, "shut" once the window is closed
  ws,        \* [Viewer -> ...], the browser's end of the connection
  seen,      \* [Viewer -> ...], status in the last answer rendered
  shown,     \* [Viewer -> Seq(1..MaxLines)], the lines of the window
  fetch,     \* [Viewer -> ...], the request in flight
  answer,    \* [Viewer -> ...], the answer React has not rendered yet
  \* bounds
  boots, losses

job == <<row, logLen, jpc>>
channels == <<watchers, taken, chan, closed, broken>>
handlers == <<spc, snapshot, missed, conn, wire>>
windows == <<listed, ws, seen, shown, fetch, answer>>
vars == <<row, logLen, jpc, watchers, taken, chan, closed, broken, spc, snapshot,
          missed, conn, wire, listed, ws, seen, shown, fetch, answer, boots, losses>>

Row == {"open", "done"}
Request == [at : {"no", "asked", "job", "lines"}, after : 0..MaxLines, row : Row,
            upto : 0..MaxLines]
NoRequest == [at |-> "no", after |-> 0, row |-> "open", upto |-> 0]

TypeOK ==
  /\ row \in Row
  /\ logLen \in 0..MaxLines
  /\ jpc \in {"work", "line", "last", "cut", "close", "closing", "over"}
  /\ watchers \subseteq Viewer
  /\ taken \subseteq Viewer
  /\ chan \in [Viewer -> 0..ChanCap]
  /\ closed \subseteq Viewer
  /\ broken \in BOOLEAN
  /\ spc \in [Viewer -> {"off", "read", "up", "check", "loop", "leaving", "gone"}]
  /\ snapshot \in [Viewer -> Row]
  /\ missed \in [Viewer -> 0..MaxMissed]
  /\ conn \in [Viewer -> {"none", "open", "ended"}]
  /\ wire \in [Viewer -> 0..(WireCap + 1)]
  /\ listed \in [Viewer -> {"none", "open", "done", "shut"}]
  /\ ws \in [Viewer -> {"none", "connecting", "open", "closed"}]
  /\ seen \in [Viewer -> {"none", "open", "done"}]
  /\ shown \in [Viewer -> Seq(1..MaxLines)]
  /\ fetch \in [Viewer -> Request]
  /\ answer \in [Viewer -> Request]
  /\ boots \in 0..MaxBoots
  /\ losses \in 0..MaxLosses

Init ==
  /\ row = "open" /\ logLen = 0 /\ jpc = "work"
  /\ watchers = {} /\ taken = {} /\ closed = {} /\ broken = FALSE
  /\ chan = [v \in Viewer |-> 0]
  /\ spc = [v \in Viewer |-> "off"]
  /\ snapshot = [v \in Viewer |-> "open"]
  /\ missed = [v \in Viewer |-> 0]
  /\ conn = [v \in Viewer |-> "none"]
  /\ wire = [v \in Viewer |-> 0]
  /\ listed = [v \in Viewer |-> "none"]
  /\ ws = [v \in Viewer |-> "none"]
  /\ seen = [v \in Viewer |-> "none"]
  /\ shown = [v \in Viewer |-> <<>>]
  /\ fetch = [v \in Viewer |-> NoRequest]
  /\ answer = [v \in Viewer |-> NoRequest]
  /\ boots = 0 /\ losses = 0
-----------------------------------------------------------------------------
(* The goroutine of the job *)

\* appendLogKey, first half; "cut" when it is the line about the stop.
AppendLine(why) ==
  /\ jpc = "work"
  /\ logLen < MaxLines
  /\ logLen' = logLen + 1
  /\ jpc' = why
  /\ UNCHANGED <<row, channels, handlers, windows, boots, losses>>

\* notify, under the lock: a full channel misses the signal.
Notify ==
  /\ jpc \in {"line", "last", "cut"}
  /\ jpc' = IF jpc = "line" THEN "work" ELSE "close"
  /\ chan' = [v \in Viewer |-> IF v \in watchers /\ v \notin closed /\ chan[v] < ChanCap
                               THEN chan[v] + 1 ELSE chan[v]]
  /\ broken' = (broken \/ watchers \cap closed # {})
  /\ UNCHANGED <<row, logLen, watchers, taken, closed, handlers, windows, boots,
                 losses>>

\* Mutant: the outcome is recorded before the last lines.
FinishFirst ==
  /\ jpc = "work"
  /\ row' = "done"
  /\ UNCHANGED <<logLen, jpc, channels, handlers, windows, boots, losses>>

\* FinishJob at the end of run.
Finish ==
  /\ jpc = "work"
  /\ row' = "done"
  /\ jpc' = "last"
  /\ UNCHANGED <<logLen, channels, handlers, windows, boots, losses>>

Take == taken' = watchers /\ watchers' = {}

\* closeWatchers, under the lock.
CloseTake ==
  /\ jpc = "close"
  /\ Take
  /\ jpc' = "closing"
  /\ UNCHANGED <<row, logLen, chan, closed, broken, handlers, windows, boots, losses>>

\* closeWatchers, after the lock is released: one close at a time.
CloseOne(v) ==
  /\ jpc = "closing"
  /\ v \in taken
  /\ taken' = taken \ {v}
  /\ broken' = (broken \/ v \in closed)
  /\ closed' = closed \cup {v}
  /\ UNCHANGED <<job, watchers, chan, handlers, windows, boots, losses>>

CloseEnd ==
  /\ jpc = "closing"
  /\ taken = {}
  /\ jpc' = "over"
  /\ UNCHANGED <<row, logLen, channels, handlers, windows, boots, losses>>

\* The service that cut the job off exits and starts again: connections and
\* requests end, Recover continues the job or concludes it as interrupted.
Reboot ==
  /\ jpc = "over"
  /\ row = "open"
  /\ boots < MaxBoots
  /\ boots' = boots + 1
  /\ \/ jpc' = "work" /\ UNCHANGED <<row, logLen>>
     \/ /\ row' = "done"
        /\ logLen' = IF logLen < MaxLines THEN logLen + 1 ELSE logLen
        /\ UNCHANGED jpc
  /\ watchers' = {} /\ taken' = {}
  /\ spc' = [v \in Viewer |-> IF listed[v] = "none" THEN "off" ELSE "gone"]
  /\ conn' = [v \in Viewer |-> IF conn[v] = "open" THEN "ended" ELSE conn[v]]
  /\ ws' = [v \in Viewer |-> IF ws[v] = "connecting" /\ conn[v] = "none" THEN "closed"
                             ELSE ws[v]]
  /\ fetch' = [v \in Viewer |-> NoRequest]
  /\ UNCHANGED <<chan, closed, broken, snapshot, missed, wire, listed, seen, shown,
                 answer, losses>>
-----------------------------------------------------------------------------
(* handleJobWS *)

ReadJob(v) ==
  /\ spc[v] = "off"
  /\ ws[v] = "connecting"
  /\ snapshot' = [snapshot EXCEPT ![v] = row]
  /\ spc' = [spc EXCEPT ![v] = "read"]
  /\ UNCHANGED <<job, channels, missed, conn, wire, windows, boots, losses>>

Accept(v) ==
  /\ spc[v] = "read"
  /\ spc' = [spc EXCEPT ![v] = "up"]
  /\ conn' = [conn EXCEPT ![v] = "open"]
  /\ UNCHANGED <<job, channels, snapshot, missed, wire, windows, boots, losses>>

Watch(v) ==
  /\ spc[v] = "up"
  /\ spc' = [spc EXCEPT ![v] = "check"]
  /\ watchers' = watchers \cup {v}
  /\ UNCHANGED <<job, taken, chan, closed, broken, snapshot, missed, conn, wire,
                 windows, boots, losses>>

\* A write that succeeds: nobody has closed the connection.
Write(v) ==
  wire' = [wire EXCEPT ![v] = IF conn[v] = "open" THEN @ + 1 ELSE @]

\* job.Done() of the row read at the start: one event and the end.
CheckDone(v) ==
  /\ spc[v] = "check"
  /\ \/ /\ snapshot[v] = "done"
        /\ Write(v)
        /\ conn' = [conn EXCEPT ![v] = "ended"]
        /\ spc' = [spc EXCEPT ![v] = "leaving"]
     \/ /\ snapshot[v] # "done"
        /\ spc' = [spc EXCEPT ![v] = "loop"]
        /\ UNCHANGED <<conn, wire>>
  /\ UNCHANGED <<job, channels, snapshot, missed, windows, boots, losses>>

\* A signal goes out, or the write fails: the connection is broken, or full
\* for too long.
Forward(v) ==
  /\ spc[v] = "loop"
  /\ chan[v] > 0
  /\ chan' = [chan EXCEPT ![v] = @ - 1]
  /\ \/ /\ conn[v] = "open" /\ wire[v] < WireCap
        /\ Write(v)
        /\ UNCHANGED spc
     \/ /\ conn[v] # "open" \/ wire[v] >= WireCap
        /\ spc' = [spc EXCEPT ![v] = "leaving"]
        /\ UNCHANGED wire
  /\ UNCHANGED <<job, watchers, taken, closed, broken, snapshot, missed, conn, windows,
                 boots, losses>>

\* The channel is closed and drained: the final event and the end.
SeeClosed(v) ==
  /\ spc[v] = "loop"
  /\ v \in closed
  /\ chan[v] = 0
  /\ Write(v)
  /\ conn' = [conn EXCEPT ![v] = "ended"]
  /\ spc' = [spc EXCEPT ![v] = "leaving"]
  /\ UNCHANGED <<job, channels, snapshot, missed, windows, boots, losses>>

\* handleJobWS reads nothing from the connection.
Reading(v) == FALSE

\* A ping of startWSKeepalive: its pong is noticed only by a concurrent read.
Ping(v) ==
  /\ spc[v] \in {"check", "loop"}
  /\ missed[v] < MaxMissed
  /\ missed' = [missed EXCEPT ![v] = IF Reading(v) /\ conn[v] = "open" /\ ws[v] # "closed"
                                     THEN 0 ELSE @ + 1]
  /\ UNCHANGED <<job, channels, spc, snapshot, conn, wire, windows, boots, losses>>

\* ctx.Done(): too many pings in a row went unanswered.
GiveUp(v) ==
  /\ spc[v] = "loop"
  /\ missed[v] = MaxMissed
  /\ spc' = [spc EXCEPT ![v] = "leaving"]
  /\ UNCHANGED <<job, channels, snapshot, missed, conn, wire, windows, boots, losses>>

\* Mutant: the channel is closed whether or not closeWatchers took it.
OursToCloseAlways(v) == TRUE
OursToClose(v) == v \in watchers

\* The deferred unwatch, under the lock, and CloseNow after it.
Unwatch(v) ==
  /\ spc[v] = "leaving"
  /\ \/ /\ OursToClose(v)
        /\ watchers' = watchers \ {v}
        /\ broken' = (broken \/ v \in closed)
        /\ closed' = closed \cup {v}
     \/ /\ ~OursToClose(v)
        /\ UNCHANGED <<watchers, closed, broken>>
  /\ spc' = [spc EXCEPT ![v] = "gone"]
  /\ conn' = [conn EXCEPT ![v] = "ended"]
  /\ UNCHANGED <<job, taken, chan, snapshot, missed, wire, windows, boots, losses>>
-----------------------------------------------------------------------------
(* JobLogModal *)

Live(v) == ws[v] = "open"
Current(v) == IF seen[v] = "none" THEN listed[v] ELSE seen[v]
LastSeq(v) == Len(shown[v])

\* fetchTail: nothing while an earlier one is in flight.
FetchTail(v) ==
  fetch' = IF fetch[v].at = "no"
           THEN [fetch EXCEPT ![v] = [NoRequest EXCEPT !.at = "asked", !.after = LastSeq(v)]]
           ELSE fetch

\* The window opens on a row of a list that may be out of date, reads the log
\* and, unless the job was done in the list, connects.
OpenWindow(v, s) ==
  /\ listed[v] = "none"
  /\ s \in {"open", row}
  /\ listed' = [listed EXCEPT ![v] = s]
  /\ ws' = [ws EXCEPT ![v] = IF s = "done" THEN "closed" ELSE "connecting"]
  /\ FetchTail(v)
  /\ UNCHANGED <<job, channels, handlers, seen, shown, answer, boots, losses>>

OnOpen(v) ==
  /\ ws[v] = "connecting"
  /\ conn[v] # "none"
  /\ ws' = [ws EXCEPT ![v] = "open"]
  /\ UNCHANGED <<job, channels, handlers, listed, seen, shown, fetch, answer, boots,
                 losses>>

OnMessage(v) ==
  /\ ws[v] = "open"
  /\ wire[v] > 0
  /\ wire' = [wire EXCEPT ![v] = @ - 1]
  /\ FetchTail(v)
  /\ UNCHANGED <<job, channels, spc, snapshot, missed, conn, listed, ws, seen, shown,
                 answer, boots, losses>>

OnClose(v) ==
  /\ ws[v] \in {"connecting", "open"}
  /\ conn[v] = "ended"
  /\ wire[v] = 0
  /\ ws' = [ws EXCEPT ![v] = "closed"]
  /\ UNCHANGED <<job, channels, handlers, listed, seen, shown, fetch, answer, boots,
                 losses>>

\* Mutant: the poll of a window that is live.
PollsLive(v) == Live(v)
Polls(v) == ~Live(v)

\* The spare poll: while the job goes on and there is no live stream.
Poll(v) ==
  /\ listed[v] \in Row
  /\ Polls(v)
  /\ Current(v) # "done"
  /\ fetch[v].at = "no"
  /\ FetchTail(v)
  /\ UNCHANGED <<job, channels, handlers, listed, ws, seen, shown, answer, boots, losses>>

\* handleJobLog: the row first, then the lines.
LogJob(v) ==
  /\ fetch[v].at = "asked"
  /\ fetch' = [fetch EXCEPT ![v].at = "job", ![v].row = row]
  /\ UNCHANGED <<job, channels, handlers, listed, ws, seen, shown, answer, boots, losses>>

\* Mutant: the limit alone decides.
PageEndPast(after) == after + PageSize
PageEnd(after) == IF logLen > after + PageSize THEN after + PageSize ELSE logLen

LogLines(v) ==
  /\ fetch[v].at = "job"
  /\ fetch' = [fetch EXCEPT ![v].at = "lines", ![v].upto = PageEnd(fetch[v].after)]
  /\ UNCHANGED <<job, channels, handlers, listed, ws, seen, shown, answer, boots, losses>>

\* The answer is handed to React and the next request may start.
Answered(v) ==
  /\ fetch[v].at = "lines"
  /\ answer[v].at = "no"
  /\ answer' = [answer EXCEPT ![v] = fetch[v]]
  /\ fetch' = [fetch EXCEPT ![v] = NoRequest]
  /\ UNCHANGED <<job, channels, handlers, listed, ws, seen, shown, boots, losses>>

Page(a) == [i \in 1..(a.upto - a.after) |-> a.after + i]

\* Mutant: all lines of the answer are added.
FreshAll(v, a) == Page(a)
\* The lines of the answer above the last one shown: as lines are numbered
\* without gaps, the rest of it after that one.
Fresh(v, a) ==
  LET last == IF a.after > LastSeq(v) THEN a.after ELSE LastSeq(v)
  IN [i \in 1..(a.upto - last) |-> last + i]

\* setCurrent and setLines take effect together.
Render(v) ==
  /\ answer[v].at # "no"
  /\ seen' = [seen EXCEPT ![v] = answer[v].row]
  /\ shown' = [shown EXCEPT ![v] = @ \o Fresh(v, answer[v])]
  /\ answer' = [answer EXCEPT ![v] = NoRequest]
  /\ UNCHANGED <<job, channels, handlers, listed, ws, fetch, boots, losses>>

\* The operator closes the window.  Nothing reads the connection at the server:
\* the handler learns of it from a write that blocks or from the keepalive.
CloseWindow(v) ==
  /\ listed[v] \in Row
  /\ listed' = [listed EXCEPT ![v] = "shut"]
  /\ ws' = [ws EXCEPT ![v] = "closed"]
  /\ seen' = [seen EXCEPT ![v] = "none"]
  /\ shown' = [shown EXCEPT ![v] = <<>>]
  /\ fetch' = [fetch EXCEPT ![v] = NoRequest]
  /\ answer' = [answer EXCEPT ![v] = NoRequest]
  /\ UNCHANGED <<job, channels, handlers, boots, losses>>

\* A request fails (fetchTail returns null), or a connection breaks.
LoseRequest(v) ==
  /\ fetch[v].at # "no"
  /\ losses < MaxLosses
  /\ losses' = losses + 1
  /\ fetch' = [fetch EXCEPT ![v] = NoRequest]
  /\ UNCHANGED <<job, channels, handlers, listed, ws, seen, shown, answer, boots>>

LoseConnection(v) ==
  /\ conn[v] = "open"
  /\ losses < MaxLosses
  /\ losses' = losses + 1
  /\ conn' = [conn EXCEPT ![v] = "ended"]
  /\ UNCHANGED <<job, channels, spc, snapshot, missed, wire, windows, boots>>
-----------------------------------------------------------------------------
Next ==
  \/ AppendLine("line") \/ AppendLine("cut") \/ Notify \/ Finish \/ CloseTake
  \/ CloseEnd \/ Reboot
  \/ \E v \in Viewer :
       \/ CloseOne(v)
       \/ ReadJob(v) \/ Accept(v) \/ Watch(v) \/ CheckDone(v) \/ Forward(v)
       \/ SeeClosed(v) \/ Ping(v) \/ GiveUp(v) \/ Unwatch(v)
       \/ \E s \in Row : OpenWindow(v, s)
       \/ OnOpen(v) \/ OnMessage(v) \/ OnClose(v) \/ Poll(v)
       \/ LogJob(v) \/ LogLines(v) \/ Answered(v) \/ Render(v)
       \/ CloseWindow(v) \/ LoseRequest(v) \/ LoseConnection(v)

Spec == Init /\ [][Next]_vars

\* Goroutines run, the browser handles its events, timers fire, requests are
\* served.  The job need not end, nor a window be opened, nor anything be lost.
Fairness ==
  /\ WF_vars(Notify) /\ WF_vars(CloseTake) /\ WF_vars(CloseEnd) /\ WF_vars(Reboot)
  /\ \A v \in Viewer :
       /\ WF_vars(CloseOne(v))
       /\ WF_vars(ReadJob(v) \/ Accept(v) \/ Watch(v) \/ CheckDone(v) \/ Unwatch(v))
       /\ WF_vars(Forward(v)) /\ WF_vars(SeeClosed(v))
       /\ WF_vars(Ping(v)) /\ WF_vars(GiveUp(v))
       /\ WF_vars(OnOpen(v)) /\ WF_vars(OnMessage(v)) /\ WF_vars(OnClose(v))
       /\ WF_vars(Poll(v))
       /\ WF_vars(LogJob(v) \/ LogLines(v) \/ Answered(v)) /\ WF_vars(Render(v))

FairSpec == Spec /\ Fairness
-----------------------------------------------------------------------------
(* Properties *)

\* "otherwise a send to a channel that closeWatchers is closing brings the
\* process down" (notify): no channel is sent to or closed once it is closed.
NoPanic == ~broken

\* Why nothing panics (checked by TLC, proved in JobWatchProofs): a channel is
\* closed by whoever takes it out of the map, each handler makes one channel,
\* and only a handler that has made it can find it in anybody's hands.
ChannelInv ==
  /\ NoPanic
  /\ closed \cap (watchers \cup taken) = {}
  /\ watchers \cap taken = {}
  /\ \A v \in Viewer :
       /\ spc[v] \in {"off", "read", "up"} => v \notin closed \cup watchers \cup taken
       /\ spc[v] # "off" => listed[v] # "none"
       /\ ws[v] # "none" => listed[v] # "none"

\* The log is shown from the first line on, in order, nothing left out and
\* nothing twice ("repeats like three Done in a row", JobLogModal).
LinesInOrder ==
  \A v \in Viewer : /\ shown[v] = [i \in 1..Len(shown[v]) |-> i]
                    /\ Len(shown[v]) <= logLen

\* A window that learned from the server that the job is done shows its whole
\* log: with nothing left to poll, what is missing would be missing for ever.
FinalIsWhole ==
  \A v \in Viewer : seen[v] = "done" => Len(shown[v]) = logLen

\* A window opened on a running job comes to show its end, whatever the
\* connection does.
SeesTheEnd ==
  \A v \in Viewer : (listed[v] = "open" /\ row = "done")
                       ~> (seen[v] = "done" \/ listed[v] = "shut")
=============================================================================
