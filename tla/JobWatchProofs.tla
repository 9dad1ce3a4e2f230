--------------------------- MODULE JobWatchProofs ---------------------------
(***************************************************************************)
(* Proofs about JobWatch for every number of windows, lines, losses and    *)
(* restarts: no channel is closed twice or sent to after it is closed, and *)
(* a window shows the log in order and, when it shows the end, whole.      *)
(***************************************************************************)
EXTENDS JobWatch, TLAPS

\* What the steps need to know of the types.
Places == [Viewer -> {"off", "read", "up", "check", "loop", "leaving", "gone"}]
Shape ==
  /\ watchers \subseteq Viewer
  /\ taken \subseteq Viewer
  /\ spc \in Places
  /\ listed \in [Viewer -> {"none", "open", "done", "shut"}]
  /\ ws \in [Viewer -> {"none", "connecting", "open", "closed"}]
PanicInv == Shape /\ ChannelInv

LEMMA PanicInit == Init => PanicInv
BY DEF Init, PanicInv, Shape, Places, ChannelInv, NoPanic

\* The goroutine of the job: what it appends, sends, takes out and closes.
LEMMA JobSteps ==
  ASSUME PanicInv,
         \/ AppendLine("line") \/ AppendLine("cut") \/ Notify \/ Finish
         \/ CloseTake \/ CloseEnd
  PROVE  PanicInv'
<1> USE DEF PanicInv, Shape, ChannelInv, NoPanic, channels, handlers, windows
<1>1. CASE AppendLine("line") \/ AppendLine("cut") \/ Finish \/ CloseEnd
  BY <1>1 DEF AppendLine, Finish, CloseEnd
<1>2. CASE Notify
  BY <1>2 DEF Notify
<1>3. CASE CloseTake
  BY <1>3 DEF CloseTake, Take
<1>4. QED
  BY <1>1, <1>2, <1>3

LEMMA CloseOneStep ==
  ASSUME NEW v \in Viewer, PanicInv, CloseOne(v)
  PROVE  PanicInv'
BY DEF PanicInv, Shape, ChannelInv, NoPanic, CloseOne, handlers, windows

\* A restart: whoever had made a channel is gone, whoever had not starts anew.
LEMMA RebootStep ==
  ASSUME PanicInv, Reboot
  PROVE  PanicInv'
<1> USE DEF PanicInv, Shape, ChannelInv, NoPanic, Reboot
<1>1. Shape'
  BY DEF Places
<1>2. \A v \in Viewer : spc'[v] = "off" => listed[v] = "none" /\ spc[v] = "off"
  OBVIOUS
<1>3. \A v \in Viewer : spc'[v] \in {"off", "gone"}
  OBVIOUS
<1>4. QED
  BY <1>1, <1>2, <1>3

\* The handler makes its channel once and gives it up once.
LEMMA HandlerSteps ==
  ASSUME NEW v \in Viewer, PanicInv,
         \/ ReadJob(v) \/ Accept(v) \/ Watch(v) \/ CheckDone(v) \/ Forward(v)
         \/ SeeClosed(v) \/ Ping(v) \/ GiveUp(v) \/ Unwatch(v)
  PROVE  PanicInv'
<1> USE DEF PanicInv, Shape, Places, ChannelInv, NoPanic, channels, windows
<1>1. CASE ReadJob(v)
  BY <1>1 DEF ReadJob
<1>2. CASE Accept(v)
  BY <1>2 DEF Accept
<1>3. CASE Watch(v)
  <2>1. v \notin closed \cup watchers \cup taken
    BY <1>3 DEF Watch
  <2>2. /\ spc'[v] = "check" /\ \A u \in Viewer : u # v => spc'[u] = spc[u]
        /\ spc[v] # "off"
    BY <1>3 DEF Watch
  <2>3. QED
    BY <1>3, <2>1, <2>2 DEF Watch
<1>4. CASE CheckDone(v)
  BY <1>4 DEF CheckDone
<1>5. CASE Forward(v)
  BY <1>5 DEF Forward
<1>6. CASE SeeClosed(v) \/ GiveUp(v)
  BY <1>6 DEF SeeClosed, GiveUp
<1>7. CASE Ping(v)
  BY <1>7 DEF Ping
<1>8. CASE Unwatch(v)
  <2>1. /\ spc'[v] = "gone" /\ \A u \in Viewer : u # v => spc'[u] = spc[u]
        /\ spc' \in Places /\ spc[v] = "leaving"
        /\ UNCHANGED <<taken, listed, ws>>
    BY <1>8 DEF Unwatch
  <2>2. CASE v \in watchers
    <3>1. /\ watchers' = watchers \ {v} /\ closed' = closed \cup {v}
          /\ broken' = (broken \/ v \in closed)
      BY <1>8, <2>2 DEF Unwatch, OursToClose
    <3>2. v \notin closed \cup taken
      BY <2>2
    <3>3. ~broken'
      BY <3>1, <3>2, Zenon
    <3>4. QED
      BY <2>1, <3>1, <3>2, <3>3
  <2>3. CASE v \notin watchers
    <3>1. UNCHANGED <<watchers, closed, broken>>
      BY <1>8, <2>3 DEF Unwatch, OursToClose
    <3>2. QED
      BY <2>1, <3>1
  <2>4. QED
    BY <2>2, <2>3
<1>9. QED
  BY <1>1, <1>2, <1>3, <1>4, <1>5, <1>6, <1>7, <1>8

\* The window never touches a channel.
LEMMA WindowSteps ==
  ASSUME NEW v \in Viewer, PanicInv,
         \/ \E s \in Row : OpenWindow(v, s)
         \/ OnOpen(v) \/ OnMessage(v) \/ OnClose(v) \/ Poll(v)
         \/ LogJob(v) \/ LogLines(v) \/ Answered(v) \/ Render(v)
         \/ CloseWindow(v) \/ LoseRequest(v) \/ LoseConnection(v)
  PROVE  PanicInv'
<1> USE DEF PanicInv, Shape, ChannelInv, NoPanic, channels, handlers, windows
<1>1. ASSUME NEW s \in Row, OpenWindow(v, s)
      PROVE  PanicInv'
  BY <1>1 DEF OpenWindow, Row
<1>2. CASE OnOpen(v) \/ OnClose(v)
  BY <1>2 DEF OnOpen, OnClose
<1>3. CASE CloseWindow(v)
  BY <1>3 DEF CloseWindow, Row
<1>4. CASE OnMessage(v) \/ Poll(v)
  BY <1>4 DEF OnMessage, Poll
<1>5. CASE LogJob(v) \/ LogLines(v) \/ Answered(v)
  BY <1>5 DEF LogJob, LogLines, Answered
<1>6. CASE Render(v)
  BY <1>6 DEF Render
<1>7. CASE LoseRequest(v) \/ LoseConnection(v)
  BY <1>7 DEF LoseRequest, LoseConnection
<1>8. QED
  BY <1>1, <1>2, <1>3, <1>4, <1>5, <1>6, <1>7

LEMMA PanicStep == PanicInv /\ [Next]_vars => PanicInv'
<1>1. PanicInv /\ UNCHANGED vars => PanicInv'
  BY DEF PanicInv, Shape, ChannelInv, NoPanic, vars
<1>2. PanicInv /\ Next => PanicInv'
  BY JobSteps, CloseOneStep, RebootStep, HandlerSteps, WindowSteps DEF Next
<1>3. QED
  BY <1>1, <1>2

-----------------------------------------------------------------------------
\* The channels stay in order: each is in one pair of hands until it is closed.
THEOREM ChannelsInOrder == Spec => []ChannelInv
<1>1. PanicInv => ChannelInv
  BY DEF PanicInv
<1>2. QED
  BY <1>1, PanicInit, PanicStep, PTL DEF Spec

\* The process does not panic, although closeWatchers closes channels after it
\* has let go of the lock.
THEOREM NothingPanics == Spec => []NoPanic
<1>1. ChannelInv => NoPanic
  BY DEF ChannelInv
<1>2. QED
  BY <1>1, ChannelsInOrder, PTL
-----------------------------------------------------------------------------
(* What windows show *)

\* A connection that is open has room for the messages still to be written, and
\* nothing is on its way before the handler has made it.
WireInv ==
  \A v \in Viewer : /\ conn[v] = "open" => wire[v] <= WireCap
                    /\ spc[v] \in {"off", "read"} => wire[v] = 0

\* Requests and answers start where the window ends, or before, and bring no
\* more than is there.
RequestInv ==
  \A v \in Viewer :
    /\ fetch[v].after <= Len(shown[v]) /\ fetch[v].upto <= logLen
    /\ answer[v].after <= Len(shown[v]) /\ answer[v].upto <= logLen

\* The type invariant, by owner.
JobType ==
  /\ row \in Row /\ logLen \in 0..MaxLines
  /\ jpc \in {"work", "line", "last", "cut", "close", "closing", "over"}
ChannelType ==
  /\ watchers \subseteq Viewer /\ taken \subseteq Viewer /\ closed \subseteq Viewer
  /\ chan \in [Viewer -> 0..ChanCap] /\ broken \in BOOLEAN
HandlerType ==
  /\ spc \in Places /\ snapshot \in [Viewer -> Row]
  /\ missed \in [Viewer -> 0..MaxMissed] /\ conn \in [Viewer -> {"none", "open", "ended"}]
  /\ wire \in [Viewer -> 0..(WireCap + 1)]
PageType ==
  /\ listed \in [Viewer -> {"none", "open", "done", "shut"}]
  /\ ws \in [Viewer -> {"none", "connecting", "open", "closed"}]
  /\ seen \in [Viewer -> {"none", "open", "done"}]
TailType ==
  /\ shown \in [Viewer -> Seq(1..MaxLines)]
  /\ fetch \in [Viewer -> Request] /\ answer \in [Viewer -> Request]
BoundType == boots \in 0..MaxBoots /\ losses \in 0..MaxLosses

LogInv == TailType /\ LinesInOrder /\ RequestInv
WindowInv == JobType /\ ChannelType /\ HandlerType /\ WireInv /\ PageType /\ LogInv /\ BoundType

LEMMA TypeByOwner ==
  JobType /\ ChannelType /\ HandlerType /\ PageType /\ TailType /\ BoundType => TypeOK
BY Zenon DEF JobType, ChannelType, HandlerType, PageType, TailType, BoundType, TypeOK, Places

LEMMA Bounds ==
  /\ MaxLines \in Nat /\ PageSize \in Nat /\ ChanCap \in Nat /\ WireCap \in Nat
  /\ MaxMissed \in Nat /\ MaxBoots \in Nat /\ MaxLosses \in Nat
  /\ PageSize > 0 /\ WireCap > 0 /\ MaxMissed > 0
BY ConstantsAssumption

LEMMA NoRequestType == NoRequest \in Request
BY Bounds DEF NoRequest, Request, Row

\* Lines that go on where others end.
LEMMA Appended ==
  ASSUME NEW n \in Nat, NEW k \in Nat, NEW s, s = [i \in 1..n |-> i]
  PROVE  /\ s \o [i \in 1..k |-> n + i] = [i \in 1..(n + k) |-> i]
         /\ Len([i \in 1..(n + k) |-> i]) = n + k
<1>1. n + k \in Nat
  OBVIOUS
<1>2. s \in Seq(Nat) /\ Len(s) = n
  OBVIOUS
<1>3. [i \in 1..k |-> n + i] \in Seq(Nat) /\ Len([i \in 1..k |-> n + i]) = k
  OBVIOUS
<1>4. [i \in 1..(n + k) |-> i] \in Seq(Nat) /\ Len([i \in 1..(n + k) |-> i]) = n + k
  BY <1>1
<1>5. QED
  BY <1>1, <1>2, <1>3, <1>4

\* A window that counts from 1 to the end of its lines.
LEMMA CountedType ==
  ASSUME NEW n \in 0..MaxLines
  PROVE  [i \in 1..n |-> i] \in Seq(1..MaxLines) /\ Len([i \in 1..n |-> i]) = n
BY Bounds

LEMMA WindowInit == Init => WindowInv
<1> SUFFICES ASSUME Init PROVE WindowInv
  OBVIOUS
<1> USE Bounds DEF Init
<1>1. \A v \in Viewer : shown[v] = <<>> /\ fetch[v] = NoRequest /\ answer[v] = NoRequest
  OBVIOUS
<1>2. JobType /\ BoundType
  BY DEF JobType, BoundType, Row
<1>3. ChannelType
  <2>1. broken \in BOOLEAN
    BY Zenon
  <2>2. QED
    BY <2>1 DEF ChannelType
<1>4. HandlerType /\ WireInv /\ PageType
  BY DEF HandlerType, WireInv, PageType, Places, Row
<1>5. TailType
  BY NoRequestType DEF TailType
<1>6. LinesInOrder /\ RequestInv
  BY <1>1 DEF LinesInOrder, RequestInv, NoRequest
<1>7. QED
  BY <1>2, <1>3, <1>4, <1>5, <1>6 DEF WindowInv, LogInv

\* What a step leaves alone stays in order, and a log may grow under a window.
LEMMA SameLog ==
  ASSUME WindowInv, UNCHANGED <<shown, fetch, answer>>, logLen' \in Nat, logLen' >= logLen
  PROVE  LogInv'
<1>1. \A v \in Viewer : /\ fetch[v].upto \in Nat /\ answer[v].upto \in Nat
                        /\ Len(shown[v]) \in Nat
  BY DEF WindowInv, LogInv, TailType, Request
<1>2. logLen \in Nat
  BY Bounds DEF WindowInv, JobType
<1>3. QED
  BY <1>1, <1>2 DEF WindowInv, LogInv, TailType, LinesInOrder, RequestInv

LEMMA SameRest ==
  ASSUME WindowInv
  PROVE  /\ UNCHANGED job => JobType'
         /\ UNCHANGED channels => ChannelType'
         /\ UNCHANGED handlers => HandlerType' /\ WireInv'
         /\ UNCHANGED <<listed, ws, seen>> => PageType'
         /\ UNCHANGED <<boots, losses>> => BoundType'
<1>1. UNCHANGED job => JobType'
  BY DEF WindowInv, job, JobType
<1>2. UNCHANGED channels => ChannelType'
  BY Zenon DEF WindowInv, channels, ChannelType
<1>3. UNCHANGED handlers => HandlerType' /\ WireInv'
  BY DEF WindowInv, handlers, HandlerType, WireInv
<1>4. UNCHANGED <<listed, ws, seen>> => PageType'
  BY DEF WindowInv, PageType
<1>5. UNCHANGED <<boots, losses>> => BoundType'
  BY DEF WindowInv, BoundType
<1>6. QED
  BY <1>1, <1>2, <1>3, <1>4, <1>5

LEMMA JobWindow ==
  ASSUME WindowInv,
         \/ AppendLine("line") \/ AppendLine("cut") \/ Notify \/ Finish
         \/ CloseTake \/ CloseEnd
  PROVE  WindowInv'
<1>1. JobType' /\ logLen' \in Nat /\ logLen' >= logLen
  BY Bounds DEF WindowInv, JobType, Row, AppendLine, Notify, Finish, CloseTake, CloseEnd
<1>2. UNCHANGED <<handlers, windows, boots, losses>>
  BY DEF AppendLine, Notify, Finish, CloseTake, CloseEnd
<1>3. ChannelType'
  <2>1. CASE Notify
    <3>1. chan' \in [Viewer -> 0..ChanCap]
      BY <2>1, Bounds DEF WindowInv, ChannelType, Notify
    <3>2. broken' \in BOOLEAN
      BY <2>1, Zenon DEF WindowInv, ChannelType, Notify
    <3>3. QED
      BY <2>1, <3>1, <3>2 DEF WindowInv, ChannelType, Notify
  <2>2. CASE CloseTake
    BY <2>2, Zenon DEF WindowInv, ChannelType, CloseTake, Take
  <2>3. CASE AppendLine("line") \/ AppendLine("cut") \/ Finish \/ CloseEnd
    BY <2>3, SameRest DEF AppendLine, Finish, CloseEnd
  <2>4. QED
    BY <2>1, <2>2, <2>3
<1>4. LogInv'
  BY <1>1, <1>2, SameLog DEF windows
<1>5. HandlerType' /\ WireInv' /\ PageType' /\ BoundType'
  BY <1>2, SameRest DEF windows
<1>6. QED
  BY <1>1, <1>3, <1>4, <1>5 DEF WindowInv

LEMMA CloseOneWindow ==
  ASSUME NEW v \in Viewer, WindowInv, CloseOne(v)
  PROVE  WindowInv'
<1>1. UNCHANGED <<job, handlers, windows, boots, losses>>
  BY DEF CloseOne
<1>2. ChannelType'
  <2>1. broken' \in BOOLEAN
    BY Zenon DEF WindowInv, ChannelType, CloseOne
  <2>2. QED
    BY <2>1 DEF WindowInv, ChannelType, CloseOne
<1>3. logLen' = logLen /\ logLen \in Nat
  BY <1>1, Bounds DEF WindowInv, JobType, job
<1>4. LogInv'
  BY <1>1, <1>3, SameLog DEF windows
<1>5. QED
  BY <1>1, <1>2, <1>4, SameRest DEF WindowInv, windows

\* A restart: the requests in flight end with the connections.
LEMMA RebootWindow ==
  ASSUME WindowInv, PanicInv, Reboot
  PROVE  WindowInv'
<1> USE Bounds
<1>1. JobType' /\ logLen' \in Nat /\ logLen' >= logLen
  BY DEF WindowInv, JobType, Row, Reboot
<1>2. ChannelType'
  BY Zenon DEF WindowInv, ChannelType, Reboot
<1>3. HandlerType' /\ WireInv'
  <2>1. \A v \in Viewer : spc'[v] \in {"off", "read"} => spc[v] = "off"
    BY DEF Reboot, PanicInv, Shape, ChannelInv
  <2>2. \A v \in Viewer : conn'[v] = "open" => conn[v] = "open"
    BY DEF Reboot, WindowInv, HandlerType
  <2>3. HandlerType'
    BY DEF WindowInv, HandlerType, Places, Reboot
  <2>4. QED
    BY <2>1, <2>2, <2>3 DEF WindowInv, WireInv, Reboot
<1>4. PageType'
  BY DEF WindowInv, PageType, Reboot
<1>5. BoundType'
  BY DEF WindowInv, BoundType, Reboot
<1>6. LogInv'
  <2>1. UNCHANGED <<shown, answer>> /\ fetch' = [v \in Viewer |-> NoRequest]
    BY DEF Reboot
  <2>2. TailType'
    BY <2>1, NoRequestType DEF WindowInv, LogInv, TailType
  <2>3. \A v \in Viewer : answer[v].upto \in Nat /\ Len(shown[v]) \in Nat
    BY DEF WindowInv, LogInv, TailType, Request
  <2>4. logLen \in Nat
    BY DEF WindowInv, JobType
  <2>5. LinesInOrder'
    BY <1>1, <2>1, <2>3, <2>4 DEF WindowInv, LogInv, LinesInOrder
  <2>6. RequestInv'
    BY <1>1, <2>1, <2>3, <2>4 DEF WindowInv, LogInv, RequestInv, NoRequest
  <2>7. QED
    BY <2>2, <2>5, <2>6 DEF LogInv
<1>7. QED
  BY <1>1, <1>2, <1>3, <1>4, <1>5, <1>6 DEF WindowInv

\* The handler: what it writes fits, and it touches no window.
LEMMA HandlerWindow ==
  ASSUME NEW v \in Viewer, WindowInv,
         \/ ReadJob(v) \/ Accept(v) \/ Watch(v) \/ CheckDone(v) \/ Forward(v)
         \/ SeeClosed(v) \/ Ping(v) \/ GiveUp(v) \/ Unwatch(v)
  PROVE  WindowInv'
<1> USE Bounds
<1>1. UNCHANGED <<job, windows, boots, losses>>
  BY DEF ReadJob, Accept, Watch, CheckDone, Forward, SeeClosed, Ping, GiveUp, Unwatch
<1>2. ChannelType'
  <2>1. CASE Watch(v)
    BY <2>1, Zenon DEF WindowInv, ChannelType, Watch
  <2>2. CASE Forward(v)
    <3>1. chan' \in [Viewer -> 0..ChanCap]
      BY <2>2 DEF WindowInv, ChannelType, Forward
    <3>2. QED
      BY <2>2, <3>1, Zenon DEF WindowInv, ChannelType, Forward
  <2>3. CASE Unwatch(v)
    <3>1. broken' \in BOOLEAN
      BY <2>3, Zenon DEF WindowInv, ChannelType, Unwatch
    <3>2. /\ watchers' \subseteq Viewer /\ closed' \subseteq Viewer
          /\ UNCHANGED <<taken, chan>>
      BY <2>3, Zenon DEF WindowInv, ChannelType, Unwatch
    <3>3. QED
      BY <3>1, <3>2, Zenon DEF WindowInv, ChannelType
  <2>4. CASE ReadJob(v) \/ Accept(v) \/ CheckDone(v) \/ SeeClosed(v) \/ Ping(v) \/ GiveUp(v)
    <3>1. UNCHANGED channels
      BY <2>4 DEF ReadJob, Accept, CheckDone, SeeClosed, Ping, GiveUp
    <3>2. QED
      BY <3>1, SameRest
  <2>5. QED
    BY <2>1, <2>2, <2>3, <2>4
<1>3. HandlerType' /\ WireInv'
  <2> USE DEF WindowInv, HandlerType, WireInv, Places
  <2>1. CASE ReadJob(v)
    BY <2>1 DEF ReadJob, JobType, Row
  <2>2. CASE Accept(v)
    BY <2>2 DEF Accept
  <2>3. CASE Watch(v)
    BY <2>3 DEF Watch
  <2>4. CASE CheckDone(v)
    <3>1. CASE snapshot[v] = "done"
      <4>1. wire' \in [Viewer -> 0..(WireCap + 1)]
        BY <2>4, <3>1 DEF CheckDone, Write
      <4>2. QED
        BY <2>4, <3>1, <4>1 DEF CheckDone, Write
    <3>2. CASE snapshot[v] # "done"
      BY <2>4, <3>2 DEF CheckDone
    <3>3. QED
      BY <3>1, <3>2
  <2>5. CASE Forward(v)
    <3>1. CASE conn[v] = "open" /\ wire[v] < WireCap
      BY <2>5, <3>1 DEF Forward, Write
    <3>2. CASE ~(conn[v] = "open" /\ wire[v] < WireCap)
      BY <2>5, <3>2 DEF Forward
    <3>3. QED
      BY <3>1, <3>2
  <2>6. CASE SeeClosed(v)
    <3>1. wire' \in [Viewer -> 0..(WireCap + 1)]
      BY <2>6 DEF SeeClosed, Write
    <3>2. QED
      BY <2>6, <3>1 DEF SeeClosed, Write
  <2>7. CASE Ping(v)
    BY <2>7 DEF Ping
  <2>8. CASE GiveUp(v)
    BY <2>8 DEF GiveUp
  <2>9. CASE Unwatch(v)
    BY <2>9 DEF Unwatch
  <2>10. QED
    BY <2>1, <2>2, <2>3, <2>4, <2>5, <2>6, <2>7, <2>8, <2>9
<1>4. LogInv'
  <2>1. logLen' = logLen /\ logLen \in Nat
    BY <1>1 DEF WindowInv, JobType, job
  <2>2. QED
    BY <1>1, <2>1, SameLog DEF windows
<1>5. QED
  BY <1>1, <1>2, <1>3, <1>4, SameRest DEF WindowInv, windows

\* One window's log, request and answer.
WindowTail(v) ==
  /\ shown[v] = [i \in 1..Len(shown[v]) |-> i]
  /\ Len(shown[v]) <= logLen
  /\ fetch[v].after <= Len(shown[v]) /\ fetch[v].upto <= logLen
  /\ answer[v].after <= Len(shown[v]) /\ answer[v].upto <= logLen

\* One window changes: the others stay in order.
LEMMA OneTail ==
  ASSUME NEW v \in Viewer, WindowInv, UNCHANGED job, TailType', WindowTail(v)',
         \A u \in Viewer : u # v => /\ shown'[u] = shown[u] /\ fetch'[u] = fetch[u]
                                  /\ answer'[u] = answer[u]
  PROVE  LogInv'
<1>1. logLen' = logLen
  BY DEF job
<1>2. LinesInOrder'
  BY <1>1 DEF WindowInv, LogInv, LinesInOrder, WindowTail
<1>3. RequestInv'
  BY <1>1 DEF WindowInv, LogInv, RequestInv, WindowTail
<1>4. QED
  BY <1>2, <1>3 DEF LogInv

\* One window changes its request or its answer, and keeps its lines.
LEMMA OneRequest ==
  ASSUME NEW v \in Viewer, WindowInv, UNCHANGED <<job, shown>>,
         fetch' \in [Viewer -> Request], answer' \in [Viewer -> Request],
         \A u \in Viewer : u # v => fetch'[u] = fetch[u] /\ answer'[u] = answer[u],
         fetch'[v].after <= Len(shown[v]), fetch'[v].upto <= logLen,
         answer'[v].after <= Len(shown[v]), answer'[v].upto <= logLen
  PROVE  LogInv'
<1>1. TailType'
  BY DEF WindowInv, LogInv, TailType
<1>2. WindowTail(v)'
  BY DEF WindowInv, LogInv, LinesInOrder, WindowTail, job
<1>3. QED
  BY <1>1, <1>2, OneTail

\* One entry of a function of requests changes.
LEMMA OneEntry ==
  ASSUME NEW v \in Viewer, NEW g \in [Viewer -> Request], NEW h, NEW f \in Request,
         h = [g EXCEPT ![v] = f]
  PROVE  /\ h \in [Viewer -> Request] /\ h[v] = f
         /\ \A u \in Viewer : u # v => h[u] = g[u]
OBVIOUS

\* What the invariant says of one window.
LEMMA OneWindow ==
  ASSUME NEW v \in Viewer, WindowInv
  PROVE  /\ Len(shown[v]) \in Nat /\ Len(shown[v]) <= logLen
         /\ logLen \in Nat /\ logLen <= MaxLines
         /\ fetch[v] \in Request /\ answer[v] \in Request
         /\ fetch[v].after \in Nat /\ fetch[v].after <= Len(shown[v])
         /\ fetch[v].upto \in Nat /\ fetch[v].upto <= logLen
         /\ answer[v].after \in Nat /\ answer[v].after <= Len(shown[v])
         /\ answer[v].upto \in Nat /\ answer[v].upto <= logLen
<1>1. shown[v] \in Seq(1..MaxLines) /\ fetch[v] \in Request /\ answer[v] \in Request
  BY DEF WindowInv, LogInv, TailType
<1>2. /\ fetch[v].after \in Nat /\ fetch[v].upto \in Nat
      /\ answer[v].after \in Nat /\ answer[v].upto \in Nat
  BY <1>1, Bounds DEF Request
<1>3. Len(shown[v]) \in Nat
  BY <1>1
<1>4. logLen \in Nat /\ logLen <= MaxLines
  BY Bounds DEF WindowInv, JobType
<1>5. /\ Len(shown[v]) <= logLen
      /\ fetch[v].after <= Len(shown[v]) /\ fetch[v].upto <= logLen
      /\ answer[v].after <= Len(shown[v]) /\ answer[v].upto <= logLen
  BY DEF WindowInv, LogInv, LinesInOrder, RequestInv
<1>6. QED
  BY <1>1, <1>2, <1>3, <1>4, <1>5

\* Its lines are counted.
LEMMA OneCount ==
  ASSUME NEW v \in Viewer, WindowInv
  PROVE  shown[v] = [i \in 1..Len(shown[v]) |-> i]
BY DEF WindowInv, LogInv, LinesInOrder

\* A request starts after the last line shown, if none is in flight.
LEMMA FetchWindow ==
  ASSUME NEW v \in Viewer, WindowInv, UNCHANGED <<job, shown, answer>>, FetchTail(v)
  PROVE  LogInv'
<1>1. CASE fetch[v].at = "no"
  <2> DEFINE f == [NoRequest EXCEPT !.at = "asked", !.after = LastSeq(v)]
  <2>1. f \in Request /\ f.after = Len(shown[v]) /\ f.upto = 0
    <3>1. LastSeq(v) \in 0..MaxLines /\ 0 \in 0..MaxLines
      BY OneWindow, Bounds DEF LastSeq
    <3>2. f \in Request
      BY <3>1, NoRequestType DEF Request
    <3>3. f.after = LastSeq(v) /\ f.upto = 0
      BY DEF NoRequest
    <3>4. QED
      BY <3>2, <3>3 DEF LastSeq
  <2>2. fetch' = [fetch EXCEPT ![v] = f]
    BY <1>1 DEF FetchTail
  <2>3. /\ fetch' \in [Viewer -> Request] /\ fetch'[v] = f
        /\ \A u \in Viewer : u # v => fetch'[u] = fetch[u]
    BY <2>1, <2>2, OneEntry DEF WindowInv, LogInv, TailType
  <2>4. fetch'[v].after <= Len(shown[v]) /\ fetch'[v].upto <= logLen
    BY <2>1, <2>3, OneWindow
  <2>5. answer' \in [Viewer -> Request]
    BY DEF WindowInv, LogInv, TailType
  <2>6. QED
    BY <2>3, <2>4, <2>5, OneWindow, OneRequest
<1>2. CASE fetch[v].at # "no"
  <2>1. fetch' = fetch
    BY <1>2 DEF FetchTail
  <2>2. logLen' = logLen /\ logLen \in Nat
    BY Bounds DEF WindowInv, JobType, job
  <2>3. QED
    BY <2>1, <2>2, SameLog
<1>3. QED
  BY <1>1, <1>2

\* A request is dropped.
LEMMA DropWindow ==
  ASSUME NEW v \in Viewer, WindowInv, UNCHANGED <<job, shown, answer>>,
         fetch' = [fetch EXCEPT ![v] = NoRequest]
  PROVE  LogInv'
<1>1. /\ fetch' \in [Viewer -> Request] /\ fetch'[v] = NoRequest
      /\ \A u \in Viewer : u # v => fetch'[u] = fetch[u]
  BY NoRequestType, OneEntry DEF WindowInv, LogInv, TailType
<1>2. fetch'[v].after <= Len(shown[v]) /\ fetch'[v].upto <= logLen
  BY <1>1, OneWindow DEF NoRequest
<1>3. answer' \in [Viewer -> Request]
  BY DEF WindowInv, LogInv, TailType
<1>4. QED
  BY <1>1, <1>2, <1>3, OneWindow, OneRequest

\* Reading the log: a page ends no later than the log does.
LEMMA ReadWindow ==
  ASSUME NEW v \in Viewer, WindowInv, LogJob(v) \/ LogLines(v)
  PROVE  LogInv'
<1>1. /\ UNCHANGED <<job, shown, answer>> /\ answer' \in [Viewer -> Request]
  BY DEF LogJob, LogLines, WindowInv, LogInv, TailType
<1>2. PICK f \in Request :
        /\ fetch' = [fetch EXCEPT ![v] = f]
        /\ f.after = fetch[v].after
        /\ f.upto <= logLen
  <2>1. CASE LogJob(v)
    <3> DEFINE f == [fetch[v] EXCEPT !.at = "job", !.row = row]
    <3>1. fetch' = [fetch EXCEPT ![v] = f]
      BY <2>1 DEF LogJob, WindowInv, LogInv, TailType
    <3>2. f \in Request /\ f.after = fetch[v].after /\ f.upto = fetch[v].upto
      BY OneWindow DEF Request, WindowInv, JobType
    <3>3. QED
      BY <3>1, <3>2, OneWindow
  <2>2. CASE LogLines(v)
    <3> DEFINE f == [fetch[v] EXCEPT !.at = "lines", !.upto = PageEnd(fetch[v].after)]
    <3>1. fetch' = [fetch EXCEPT ![v] = f]
      BY <2>2 DEF LogLines, WindowInv, LogInv, TailType
    <3>2. PageEnd(fetch[v].after) \in 0..logLen
      BY OneWindow, Bounds DEF PageEnd, Request
    <3>3. PageEnd(fetch[v].after) \in 0..MaxLines
      BY <3>2, OneWindow, Bounds
    <3>4. /\ f \in Request /\ f.after = fetch[v].after
          /\ f.upto = PageEnd(fetch[v].after)
      BY <3>3, OneWindow DEF Request
    <3>5. f.upto <= logLen
      BY <3>2, <3>4, OneWindow
    <3>6. QED
      BY <3>1, <3>4, <3>5
  <2>3. QED
    BY <2>1, <2>2
<1>3. /\ fetch' \in [Viewer -> Request] /\ fetch'[v] = f
      /\ \A u \in Viewer : u # v => fetch'[u] = fetch[u]
  BY <1>2, OneEntry DEF WindowInv, LogInv, TailType
<1>4. QED
  BY <1>1, <1>2, <1>3, OneWindow, OneRequest

\* The answer waits to be rendered, the next request may start.
LEMMA AnsweredWindow ==
  ASSUME NEW v \in Viewer, WindowInv, Answered(v)
  PROVE  LogInv'
<1>1. /\ fetch' = [fetch EXCEPT ![v] = NoRequest]
      /\ answer' = [answer EXCEPT ![v] = fetch[v]]
      /\ UNCHANGED <<job, shown>>
  BY DEF Answered
<1>2. /\ fetch' \in [Viewer -> Request] /\ fetch'[v] = NoRequest
      /\ \A u \in Viewer : u # v => fetch'[u] = fetch[u]
  BY <1>1, NoRequestType, OneEntry DEF WindowInv, LogInv, TailType
<1>3. /\ answer' \in [Viewer -> Request] /\ answer'[v] = fetch[v]
      /\ \A u \in Viewer : u # v => answer'[u] = answer[u]
  BY <1>1, OneWindow, OneEntry DEF WindowInv, LogInv, TailType
<1>4. /\ fetch'[v].after <= Len(shown[v]) /\ fetch'[v].upto <= logLen
      /\ answer'[v].after <= Len(shown[v]) /\ answer'[v].upto <= logLen
  BY <1>2, <1>3, OneWindow DEF NoRequest
<1>5. QED
  BY <1>1, <1>2, <1>3, <1>4, OneRequest

\* An answer that comes late brings only the lines the window has not got.
LEMMA FreshLines ==
  ASSUME NEW v \in Viewer, WindowInv
  PROVE  \E n \in 0..logLen :
           /\ shown[v] \o Fresh(v, answer[v]) = [i \in 1..n |-> i]
           /\ n >= Len(shown[v]) /\ n >= answer[v].upto
           /\ n = Len(shown[v]) \/ n = answer[v].upto
<1> DEFINE len == Len(shown[v])
           upto == answer[v].upto
<1>1. len \in Nat /\ upto \in Nat /\ logLen \in Nat /\ len <= logLen /\ upto <= logLen
      /\ answer[v].after \in Nat /\ answer[v].after <= len
  BY OneWindow, Bounds DEF Request
<1>2. Fresh(v, answer[v]) = [i \in 1..(upto - len) |-> len + i]
  <2>1. (IF answer[v].after > len THEN answer[v].after ELSE len) = len
    BY <1>1
  <2>2. QED
    BY <2>1 DEF Fresh, LastSeq
<1>3. CASE upto >= len
  <2>1. upto - len \in Nat /\ len + (upto - len) = upto
    BY <1>1, <1>3
  <2>2. shown[v] \o Fresh(v, answer[v]) = [i \in 1..upto |-> i]
    <3>1. shown[v] \o [i \in 1..(upto - len) |-> len + i]
             = [i \in 1..(len + (upto - len)) |-> i]
      BY <1>1, <2>1, OneCount, Appended, Zenon
    <3>2. QED
      BY <1>2, <2>1, <3>1, Zenon
  <2>3. QED
    BY <1>1, <1>3, <2>2
<1>4. CASE upto < len
  <2>1. 1..(upto - len) = {}
    BY <1>1, <1>4
  <2>2. Fresh(v, answer[v]) = << >>
    BY <1>2, <2>1
  <2>3. shown[v] \in Seq(1..MaxLines)
    BY DEF WindowInv, LogInv, TailType
  <2>4. shown[v] \o Fresh(v, answer[v]) = [i \in 1..len |-> i]
    BY <2>2, <2>3, OneCount
  <2>5. QED
    BY <1>1, <1>4, <2>4
<1>5. upto >= len \/ upto < len
  BY <1>1
<1>6. QED
  BY <1>3, <1>4, <1>5, Zenon

LEMMA RenderWindow ==
  ASSUME NEW v \in Viewer, WindowInv, Render(v)
  PROVE  LogInv'
<1>1. PICK n \in 0..logLen :
        /\ shown[v] \o Fresh(v, answer[v]) = [i \in 1..n |-> i]
        /\ n >= Len(shown[v])
  BY FreshLines
<1>2. /\ n \in 0..MaxLines /\ n \in Nat /\ n <= logLen /\ Len(shown[v]) \in Nat
  BY OneWindow, Bounds
<1>3. [i \in 1..n |-> i] \in Seq(1..MaxLines) /\ Len([i \in 1..n |-> i]) = n
  BY <1>2, CountedType
<1>4. /\ shown' = [shown EXCEPT ![v] = shown[v] \o Fresh(v, answer[v])]
      /\ answer' = [answer EXCEPT ![v] = NoRequest]
      /\ UNCHANGED <<job, fetch>>
  BY DEF Render
<1>5. /\ shown' \in [Viewer -> Seq(1..MaxLines)] /\ shown'[v] = [i \in 1..n |-> i]
      /\ \A u \in Viewer : u # v => shown'[u] = shown[u]
  BY <1>1, <1>3, <1>4 DEF WindowInv, LogInv, TailType
<1>6. /\ answer' \in [Viewer -> Request] /\ answer'[v] = NoRequest
      /\ \A u \in Viewer : u # v => answer'[u] = answer[u]
  BY <1>4, NoRequestType, OneEntry DEF WindowInv, LogInv, TailType
<1>7. TailType'
  BY <1>4, <1>5, <1>6 DEF WindowInv, LogInv, TailType
<1>8. /\ fetch[v].after \in Nat /\ fetch[v].after <= Len(shown[v])
      /\ fetch[v].upto <= logLen /\ NoRequest.after = 0 /\ NoRequest.upto = 0
      /\ logLen \in Nat
  BY OneWindow, Bounds DEF Request, NoRequest
<1>9. WindowTail(v)'
  BY <1>1, <1>2, <1>3, <1>4, <1>5, <1>6, <1>8 DEF WindowTail, job
<1>10. QED
  BY <1>4, <1>5, <1>6, <1>7, <1>9, OneTail

LEMMA CloseWindowTail ==
  ASSUME NEW v \in Viewer, WindowInv, CloseWindow(v)
  PROVE  LogInv'
<1>1. /\ shown' = [shown EXCEPT ![v] = <<>>]
      /\ fetch' = [fetch EXCEPT ![v] = NoRequest]
      /\ answer' = [answer EXCEPT ![v] = NoRequest]
      /\ UNCHANGED job
  BY DEF CloseWindow
<1>2. /\ shown' \in [Viewer -> Seq(1..MaxLines)] /\ shown'[v] = <<>>
      /\ \A u \in Viewer : u # v => shown'[u] = shown[u]
  BY <1>1 DEF WindowInv, LogInv, TailType
<1>3. /\ fetch' \in [Viewer -> Request] /\ fetch'[v] = NoRequest
      /\ \A u \in Viewer : u # v => fetch'[u] = fetch[u]
  BY <1>1, NoRequestType, OneEntry DEF WindowInv, LogInv, TailType
<1>4. /\ answer' \in [Viewer -> Request] /\ answer'[v] = NoRequest
      /\ \A u \in Viewer : u # v => answer'[u] = answer[u]
  BY <1>1, NoRequestType, OneEntry DEF WindowInv, LogInv, TailType
<1>5. TailType'
  BY <1>2, <1>3, <1>4 DEF TailType
<1>6. WindowTail(v)'
  BY <1>1, <1>2, <1>3, <1>4, OneWindow DEF WindowTail, NoRequest, job
<1>7. QED
  BY <1>1, <1>2, <1>3, <1>4, <1>5, <1>6, OneTail

\* The steps of a window and what is lost on the way to it.
LEMMA PageWindow ==
  ASSUME NEW v \in Viewer, WindowInv,
         \/ \E s \in Row : OpenWindow(v, s)
         \/ OnOpen(v) \/ OnMessage(v) \/ OnClose(v) \/ Poll(v)
         \/ LogJob(v) \/ LogLines(v) \/ Answered(v) \/ Render(v)
         \/ CloseWindow(v) \/ LoseRequest(v) \/ LoseConnection(v)
  PROVE  WindowInv'
<1> USE Bounds
<1>1. UNCHANGED <<job, channels>>
  BY DEF OpenWindow, OnOpen, OnMessage, OnClose, Poll, LogJob, LogLines, Answered,
         Render, CloseWindow, LoseRequest, LoseConnection
<1>2. HandlerType' /\ WireInv'
  <2>1. CASE OnMessage(v)
    BY <2>1 DEF OnMessage, WindowInv, HandlerType, WireInv, Places
  <2>2. CASE LoseConnection(v)
    BY <2>2 DEF LoseConnection, WindowInv, HandlerType, WireInv, Places
  <2>3. CASE ~OnMessage(v) /\ ~LoseConnection(v)
    <3>1. UNCHANGED handlers
      BY <2>3 DEF OpenWindow, OnOpen, OnClose, Poll, LogJob, LogLines, Answered,
                  Render, CloseWindow, LoseRequest
    <3>2. QED
      BY <3>1, SameRest
  <2>4. QED
    BY <2>1, <2>2, <2>3
<1>3. PageType'
  <2> USE DEF WindowInv, PageType
  <2>1. ASSUME NEW s \in Row, OpenWindow(v, s)
        PROVE  PageType'
    BY <2>1 DEF OpenWindow, Row
  <2>2. CASE OnOpen(v) \/ OnClose(v)
    BY <2>2 DEF OnOpen, OnClose
  <2>3. CASE Render(v)
    <3>1. answer[v].row \in {"none", "open", "done"}
      BY OneWindow DEF Request, Row
    <3>2. QED
      BY <2>3, <3>1 DEF Render
  <2>4. CASE CloseWindow(v)
    BY <2>4 DEF CloseWindow
  <2>5. CASE \/ OnMessage(v) \/ Poll(v) \/ LogJob(v) \/ LogLines(v) \/ Answered(v)
             \/ LoseRequest(v) \/ LoseConnection(v)
    <3>1. UNCHANGED <<listed, ws, seen>>
      BY <2>5 DEF OnMessage, Poll, LogJob, LogLines, Answered, LoseRequest,
                  LoseConnection, windows
    <3>2. QED
      BY <3>1, SameRest
  <2>6. QED
    BY <2>1, <2>2, <2>3, <2>4, <2>5
<1>4. BoundType'
  <2>1. boots' = boots
    BY DEF OpenWindow, OnOpen, OnMessage, OnClose, Poll, LogJob, LogLines, Answered,
           Render, CloseWindow, LoseRequest, LoseConnection
  <2>2. losses' = losses \/ (losses < MaxLosses /\ losses' = losses + 1)
    BY DEF OpenWindow, OnOpen, OnMessage, OnClose, Poll, LogJob, LogLines, Answered,
           Render, CloseWindow, LoseRequest, LoseConnection
  <2>3. QED
    BY <2>1, <2>2 DEF WindowInv, BoundType
<1>5. LogInv'
  <2>1. CASE (\E s \in Row : OpenWindow(v, s)) \/ OnMessage(v) \/ Poll(v)
    <3>1. FetchTail(v) /\ UNCHANGED <<shown, answer>>
      BY <2>1 DEF OpenWindow, OnMessage, Poll
    <3>2. QED
      BY <1>1, <3>1, FetchWindow
  <2>2. CASE OnOpen(v) \/ OnClose(v) \/ LoseConnection(v)
    <3>1. UNCHANGED <<shown, fetch, answer>>
      BY <2>2 DEF OnOpen, OnClose, LoseConnection, windows
    <3>2. logLen' = logLen /\ logLen \in Nat
      BY <1>1, OneWindow DEF job
    <3>3. QED
      BY <3>1, <3>2, SameLog
  <2>3. CASE LoseRequest(v)
    <3>1. fetch' = [fetch EXCEPT ![v] = NoRequest] /\ UNCHANGED <<shown, answer>>
      BY <2>3 DEF LoseRequest
    <3>2. QED
      BY <1>1, <3>1, DropWindow
  <2>4. QED
    BY <2>1, <2>2, <2>3, ReadWindow, AnsweredWindow, RenderWindow, CloseWindowTail
<1>6. QED
  BY <1>1, <1>2, <1>3, <1>4, <1>5, SameRest DEF WindowInv

LEMMA WindowStep == PanicInv /\ WindowInv /\ [Next]_vars => WindowInv'
<1>1. WindowInv /\ UNCHANGED vars => WindowInv'
  <2> SUFFICES ASSUME WindowInv, UNCHANGED vars PROVE WindowInv'
    OBVIOUS
  <2>1. /\ UNCHANGED <<job, channels, handlers, windows, boots, losses>>
        /\ UNCHANGED <<shown, fetch, answer>> /\ UNCHANGED <<listed, ws, seen>>
    BY DEF vars, job, channels, handlers, windows
  <2>2. logLen' = logLen /\ logLen \in Nat
    BY <2>1, Bounds DEF WindowInv, JobType, job
  <2>3. LogInv'
    BY <2>1, <2>2, SameLog
  <2>4. QED
    BY <2>1, <2>3, SameRest DEF WindowInv
<1>2. PanicInv /\ WindowInv /\ Next => WindowInv'
  BY JobWindow, CloseOneWindow, RebootWindow, HandlerWindow, PageWindow DEF Next
<1>3. QED
  BY <1>1, <1>2

LEMMA WindowsAlways == Spec => [](PanicInv /\ WindowInv)
BY PanicInit, PanicStep, WindowInit, WindowStep, PTL DEF Spec
-----------------------------------------------------------------------------
\* Every variable keeps its type: no channel overflows, and no connection holds
\* more messages than it takes and the last one.
THEOREM TypeCorrect == Spec => []TypeOK
<1>1. WindowInv => TypeOK
  BY TypeByOwner DEF WindowInv, LogInv
<1>2. QED
  BY <1>1, WindowsAlways, PTL

\* Whatever requests and connections are lost and whenever the service restarts,
\* a window shows the lines of the log from the first on, none twice.
THEOREM LinesStayInOrder == Spec => []LinesInOrder
<1>1. WindowInv => LinesInOrder
  BY DEF WindowInv, LogInv
<1>2. QED
  BY <1>1, WindowsAlways, PTL
-----------------------------------------------------------------------------
(* The end is whole *)

\* The log is finished once the row says done.
EndInv == row = "done" => jpc \in {"last", "close", "closing", "over"}

\* A request, an answer or a window that carries the end has all of the log:
\* the row was read first.
WholeAt(v) ==
  /\ fetch[v].row = "done" => row = "done"
  /\ fetch[v].at = "lines" /\ fetch[v].row = "done" => fetch[v].upto = logLen
  /\ answer[v].row = "done" => row = "done" /\ answer[v].upto = logLen
  /\ seen[v] = "done" => row = "done" /\ Len(shown[v]) = logLen
WholeInv == EndInv /\ \A v \in Viewer : WholeAt(v)

LEMMA WholeInit == Init => WholeInv
BY DEF Init, WholeInv, EndInv, WholeAt, NoRequest

\* Steps that touch neither the log nor a window.
LEMMA WholeSame ==
  ASSUME WholeInv, EndInv', UNCHANGED <<row, logLen, fetch, answer, seen, shown>>
  PROVE  WholeInv'
BY DEF WholeInv, WholeAt

\* Steps of one window.
LEMMA WholeOne ==
  ASSUME NEW v \in Viewer, WholeInv, UNCHANGED job, WholeAt(v)',
         \A u \in Viewer : u # v => /\ fetch'[u] = fetch[u] /\ answer'[u] = answer[u]
                                  /\ seen'[u] = seen[u] /\ shown'[u] = shown[u]
  PROVE  WholeInv'
BY DEF WholeInv, EndInv, WholeAt, job

\* As long as the job goes on, no window has seen its end.
LEMMA WholeJob ==
  ASSUME WindowInv, WholeInv,
         \/ AppendLine("line") \/ AppendLine("cut") \/ Notify \/ Finish
         \/ CloseTake \/ CloseEnd \/ Reboot
  PROVE  WholeInv'
<1>1. CASE AppendLine("line") \/ AppendLine("cut")
  <2>1. row # "done"
    BY <1>1 DEF AppendLine, WholeInv, EndInv
  <2>2. UNCHANGED <<row, fetch, answer, seen, shown>>
    BY <1>1 DEF AppendLine, windows
  <2>3. QED
    BY <2>1, <2>2 DEF WholeInv, EndInv, WholeAt
<1>2. CASE Finish
  <2>1. row # "done"
    BY <1>2 DEF Finish, WholeInv, EndInv
  <2>2. /\ UNCHANGED <<logLen, fetch, answer, seen, shown>>
        /\ row' = "done" /\ jpc' = "last"
    BY <1>2 DEF Finish, windows
  <2>3. QED
    BY <2>1, <2>2 DEF WholeInv, EndInv, WholeAt
<1>3. CASE Notify \/ CloseTake \/ CloseEnd
  <2>1. UNCHANGED <<row, logLen, fetch, answer, seen, shown>> /\ EndInv'
    BY <1>3 DEF Notify, CloseTake, CloseEnd, windows, WholeInv, EndInv
  <2>2. QED
    BY <2>1, WholeSame
<1>4. CASE Reboot
  <2>1. row # "done" /\ UNCHANGED <<answer, seen, shown>> /\ EndInv'
    BY <1>4 DEF Reboot, EndInv
  <2>2. \A v \in Viewer : fetch'[v] = NoRequest
    BY <1>4 DEF Reboot
  <2>3. QED
    BY <2>1, <2>2 DEF WholeInv, WholeAt, NoRequest
<1>5. QED
  BY <1>1, <1>2, <1>3, <1>4

\* With every log on one page, the lines read after the row are all of it.
LEMMA WholeRead ==
  ASSUME NEW v \in Viewer, MaxLines <= PageSize, WindowInv, WholeInv,
         LogJob(v) \/ LogLines(v) \/ Answered(v)
  PROVE  WholeInv'
<1>1. /\ UNCHANGED job /\ UNCHANGED <<seen, shown>>
      /\ fetch[v] \in Request /\ WholeAt(v)
      /\ fetch \in [Viewer -> Request] /\ answer \in [Viewer -> Request]
  BY OneWindow DEF LogJob, LogLines, Answered, WholeInv, WindowInv, LogInv, TailType
<1>2. /\ \A u \in Viewer : u # v => fetch'[u] = fetch[u] /\ answer'[u] = answer[u]
      /\ WholeAt(v)'
  <2>1. CASE LogJob(v)
    <3>1. /\ fetch'[v].at = "job" /\ fetch'[v].row = row /\ answer' = answer
          /\ \A u \in Viewer : u # v => fetch'[u] = fetch[u]
      BY <1>1, <2>1 DEF LogJob, Request
    <3>2. QED
      BY <1>1, <3>1 DEF WholeAt, job
  <2>2. CASE LogLines(v)
    <3>1. PageEnd(fetch[v].after) = logLen
      BY OneWindow, Bounds DEF PageEnd
    <3>2. /\ fetch'[v].row = fetch[v].row /\ fetch'[v].upto = logLen /\ answer' = answer
          /\ \A u \in Viewer : u # v => fetch'[u] = fetch[u]
      BY <1>1, <2>2, <3>1 DEF LogLines, Request
    <3>3. QED
      BY <1>1, <3>2 DEF WholeAt, job
  <2>3. CASE Answered(v)
    <3>1. /\ fetch'[v] = NoRequest /\ answer'[v] = fetch[v] /\ fetch[v].at = "lines"
          /\ \A u \in Viewer : u # v => fetch'[u] = fetch[u] /\ answer'[u] = answer[u]
      BY <1>1, <2>3 DEF Answered
    <3>2. QED
      BY <1>1, <3>1 DEF WholeAt, job, NoRequest
  <2>4. QED
    BY <2>1, <2>2, <2>3
<1>3. QED
  BY <1>1, <1>2, WholeOne

\* An answer with the end brings all that was missing.
LEMMA WholeRender ==
  ASSUME NEW v \in Viewer, WindowInv, WholeInv, Render(v)
  PROVE  WholeInv'
<1>1. PICK n \in 0..logLen :
        /\ shown[v] \o Fresh(v, answer[v]) = [i \in 1..n |-> i]
        /\ n >= answer[v].upto
  BY FreshLines
<1>2. n \in 0..MaxLines /\ n <= logLen /\ n \in Nat
  BY OneWindow, Bounds
<1>3. Len([i \in 1..n |-> i]) = n
  BY <1>2, CountedType
<1>4. /\ shown' = [shown EXCEPT ![v] = shown[v] \o Fresh(v, answer[v])]
      /\ answer' = [answer EXCEPT ![v] = NoRequest]
      /\ seen' = [seen EXCEPT ![v] = answer[v].row]
      /\ UNCHANGED <<job, fetch>>
  BY DEF Render
<1>5. /\ shown'[v] = [i \in 1..n |-> i]
      /\ \A u \in Viewer : u # v => shown'[u] = shown[u]
  BY <1>1, <1>4 DEF WindowInv, LogInv, TailType
<1>6. /\ answer'[v] = NoRequest /\ seen'[v] = answer[v].row
      /\ \A u \in Viewer : u # v => answer'[u] = answer[u] /\ seen'[u] = seen[u]
  BY <1>4 DEF WindowInv, LogInv, TailType, PageType
<1>7. Len(shown'[v]) = n
  BY <1>3, <1>5
<1>8. answer[v].row = "done" => row = "done" /\ n = logLen
  BY <1>1, <1>2, OneWindow DEF WholeInv, WholeAt
<1>9. WholeAt(v)'
  BY <1>4, <1>6, <1>7, <1>8 DEF WholeInv, WholeAt, NoRequest, job
<1>10. QED
  BY <1>4, <1>5, <1>6, <1>9, WholeOne

\* The other steps of a window show nothing new.
LEMMA WholeWindow ==
  ASSUME NEW v \in Viewer, WindowInv, WholeInv,
         \/ \E s \in Row : OpenWindow(v, s)
         \/ OnOpen(v) \/ OnMessage(v) \/ OnClose(v) \/ Poll(v)
         \/ CloseWindow(v) \/ LoseRequest(v) \/ LoseConnection(v)
  PROVE  WholeInv'
<1>1. /\ UNCHANGED job /\ WholeAt(v)
      /\ fetch \in [Viewer -> Request] /\ answer \in [Viewer -> Request]
      /\ shown \in [Viewer -> Seq(1..MaxLines)]
      /\ seen \in [Viewer -> {"none", "open", "done"}]
  BY DEF OpenWindow, OnOpen, OnMessage, OnClose, Poll, CloseWindow, LoseRequest,
         LoseConnection, WholeInv, WindowInv, LogInv, TailType, PageType
<1>2. CASE (\E s \in Row : OpenWindow(v, s)) \/ OnMessage(v) \/ Poll(v)
  <2>1. FetchTail(v) /\ UNCHANGED <<answer, seen, shown>>
    BY <1>2 DEF OpenWindow, OnMessage, Poll
  <2>2. /\ fetch'[v] = fetch[v] \/ (fetch'[v].row = "open" /\ fetch'[v].at = "asked")
        /\ \A u \in Viewer : u # v => fetch'[u] = fetch[u]
    BY <1>1, <2>1 DEF FetchTail, NoRequest
  <2>3. WholeAt(v)'
    BY <1>1, <2>1, <2>2 DEF WholeAt, job
  <2>4. QED
    BY <1>1, <2>1, <2>2, <2>3, WholeOne
<1>3. CASE OnOpen(v) \/ OnClose(v) \/ LoseConnection(v)
  <2>1. UNCHANGED <<row, logLen, jpc, fetch, answer, seen, shown>>
    BY <1>1, <1>3 DEF OnOpen, OnClose, LoseConnection, windows, job
  <2>2. QED
    BY <2>1, WholeSame DEF WholeInv, EndInv
<1>4. CASE LoseRequest(v)
  <2>1. /\ UNCHANGED <<answer, seen, shown>> /\ fetch'[v] = NoRequest
        /\ \A u \in Viewer : u # v => fetch'[u] = fetch[u]
    BY <1>1, <1>4 DEF LoseRequest
  <2>2. WholeAt(v)'
    BY <1>1, <2>1 DEF WholeAt, job, NoRequest
  <2>3. QED
    BY <1>1, <2>1, <2>2, WholeOne
<1>5. CASE CloseWindow(v)
  <2>1. /\ fetch'[v] = NoRequest /\ answer'[v] = NoRequest /\ seen'[v] = "none"
        /\ \A u \in Viewer : u # v => /\ fetch'[u] = fetch[u] /\ answer'[u] = answer[u]
                                     /\ seen'[u] = seen[u] /\ shown'[u] = shown[u]
    BY <1>1, <1>5 DEF CloseWindow
  <2>2. WholeAt(v)'
    BY <2>1 DEF WholeAt, NoRequest
  <2>3. QED
    BY <1>1, <2>1, <2>2, WholeOne
<1>6. QED
  BY <1>2, <1>3, <1>4, <1>5

LEMMA WholeStep ==
  ASSUME MaxLines <= PageSize
  PROVE  WindowInv /\ WholeInv /\ [Next]_vars => WholeInv'
<1>1. WindowInv /\ WholeInv /\ UNCHANGED vars => WholeInv'
  BY WholeSame DEF vars, WholeInv, EndInv
<1>2. ASSUME NEW v \in Viewer, WholeInv,
             \/ CloseOne(v)
             \/ ReadJob(v) \/ Accept(v) \/ Watch(v) \/ CheckDone(v) \/ Forward(v)
             \/ SeeClosed(v) \/ Ping(v) \/ GiveUp(v) \/ Unwatch(v)
      PROVE  WholeInv'
  <2>1. UNCHANGED <<row, logLen, jpc, fetch, answer, seen, shown>>
    BY <1>2 DEF CloseOne, ReadJob, Accept, Watch, CheckDone, Forward, SeeClosed, Ping,
                GiveUp, Unwatch, job, windows
  <2>2. QED
    BY <1>2, <2>1, WholeSame DEF WholeInv, EndInv
<1>3. WindowInv /\ WholeInv /\ Next => WholeInv'
  BY <1>2, WholeJob, WholeRead, WholeRender, WholeWindow DEF Next
<1>4. QED
  BY <1>1, <1>3

\* If every log fits on one page, a window that shows the end of its job shows
\* all of its log, although row and lines are read one after the other.
THEOREM EndIsWhole ==
  ASSUME MaxLines <= PageSize
  PROVE  Spec => []FinalIsWhole
<1>1. WholeInv => FinalIsWhole
  BY DEF WholeInv, WholeAt, FinalIsWhole
<1>2. WindowInv /\ WholeInv /\ [Next]_vars => WholeInv'
  BY WholeStep
<1>3. QED
  BY <1>1, <1>2, WholeInit, WindowsAlways, PTL DEF Spec
=============================================================================
