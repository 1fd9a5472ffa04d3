--------------------------- MODULE MCBackgroundJobs ---------------------------
(* Small instances of BackgroundJobs for TLC.                               *)
EXTENDS BackgroundJobs

CONSTANTS p1, p2, j1

OneProc  == {p1}
TwoProcs == {p1, p2}
OneJob   == {j1}
NoTTL    == {-1}
SomeTTL  == {-1, 1}

\* The steps that bg_safety takes, to keep two processes within reach: requests go to
\* the first process, and it is the one that crashes.  While the second process is at
\* work no store error and no cancel happens, a crash hits the run of a job without a
\* deadline, and the upstream sends no chunk.  Crashes and errors are three at most.
Scene ==
    LET free == w[p2] = Idle("top") IN
    /\ enq'[j1].at # p2 /\ can'[j1].at # p2 /\ w'[p2].pc # "down"
    /\ w'[p2] # w[p2] => faults = 0 /\ can[j1].pc = "none"
    /\ <<faults, can>>' # <<faults, can>> => free
    /\ crashes' # crashes => free \/ (job[j1].ttl = -1 /\ w[p1].pc \in OwnPC)
    /\ \A p \in Procs : w'[p].chunks > w[p].chunks => free
    /\ faults' + crashes' <= 3
===============================================================================
