---------------------------- MODULE MCScheduler ----------------------------
(* Instances of Scheduler and of the queue its turns work on: a behaviour is *)
(* about the control of the threads, or about the runs they tick.            *)
EXTENDS Scheduler, RunQueue

CONSTANTS w1, w2, e1, t1, a1, a2

\* A single slot that two workers compete for.
OneSlot == [e \in Executor |-> 1]

\* Both findings are about the first run.
FirstRun == [a \in Artifact |-> 1]

\* The two findings differ in nothing but their names: the behaviours left out are
\* those in which they are exchanged.
FirstFindingFirst == decided' \in {<< >>, <<a1>>, <<a1, a2>>}

VARIABLE side

svars == <<vars, qvars, side>>

ControlInit ==
    /\ Init /\ QueueInit
    /\ \/ side = "threads" /\ ~prioritized /\ \A r \in Run : work[r] = 0
       \/ side = "queue" /\ env = NoSwitch /\ \A r \in Run : work[r] = Work

ControlNext ==
    \/ side = "threads" /\ Next /\ UNCHANGED <<qvars, side>>
    \/ side = "queue" /\ QueueNext /\ FirstFindingFirst /\ UNCHANGED <<vars, side>>

\* The fairness of each side; a queue without active runs asks for nothing.
ControlFairness ==
    /\ WF_vars(side = "threads" /\ ApiReturn)
    /\ \A w \in Worker : /\ WF_vars(side = "threads" /\ Turn(w))
                         /\ SF_vars(side = "threads" /\ Observe(w))
    /\ QueueFairness

ControlSpec == ControlInit /\ [][ControlNext]_svars /\ ControlFairness
=============================================================================
