------------------------------ MODULE JobQueue ------------------------------
(***************************************************************************)
(* What the background job manager promises, without how it keeps it:      *)
(* every queue key has one line of jobs, the job at its head is the one    *)
(* being executed, the others wait in the order they were accepted, and a  *)
(* job whose outcome is recorded never stands in a line again.             *)
(* JobManager implements this specification (JobManager!LinesImplemented). *)
(***************************************************************************)
EXTENDS Naturals, Sequences, SequencesExt

CONSTANTS Job,    \* identifiers of jobs
          Queue   \* queue keys

VARIABLES line,   \* [Queue -> Seq(Job)]: the executing job first
          ended   \* the jobs whose outcome is recorded

vars == <<line, ended>>

Init == /\ line = [q \in Queue |-> <<>>]
        /\ ended = {}

InALine(j) == \E q \in Queue : j \in ToSet(line[q])

\* A job joins the end of one line; it is in no line yet and has no outcome.
Accept(j, q) == /\ ~InALine(j)
                /\ j \notin ended
                /\ line' = [line EXCEPT ![q] = Append(@, j)]
                /\ UNCHANGED ended

\* The outcome of a job is recorded: only of one that is being executed or
\* that stands in no line. One that waits in a line is never given an outcome.
Conclude(j) == /\ j \notin ended
               /\ \A q \in Queue : \A i \in 2..Len(line[q]) : line[q][i] # j
               /\ ended' = ended \cup {j}
               /\ UNCHANGED line

\* The executing job leaves and the one that waited longest takes its place.
Advance(q) == /\ line[q] # <<>>
              /\ line' = [line EXCEPT ![q] = Tail(@)]
              /\ UNCHANGED ended

\* A waiting job is taken out of its line: never the executing one.
Withdraw(q, i) == /\ i \in 2..Len(line[q])
                  /\ line' = [line EXCEPT ![q] = RemoveAt(@, i)]
                  /\ UNCHANGED ended

\* The service stops: the lines it held in memory are gone, outcomes are not.
Stop(Q) == /\ line' = [q \in Queue |-> IF q \in Q THEN <<>> ELSE line[q]]
           /\ UNCHANGED ended

Next == \/ \E j \in Job, q \in Queue : Accept(j, q)
        \/ \E j \in Job : Conclude(j)
        \/ \E q \in Queue : Advance(q)
        \/ \E q \in Queue : \E i \in 2..Len(line[q]) : Withdraw(q, i)
        \/ \E Q \in SUBSET Queue : Stop(Q)

Spec == Init /\ [][Next]_vars
=============================================================================
