---------------------------- MODULE MCCollective ----------------------------
(* Small instances of the collectives for TLC.                             *)
EXTENDS Collective

(* Buffers of a length every rank count here divides, whatever the number  *)
(* of micro-chunks.                                                        *)
Job(a, n, c, rt) ==
    [algorithm |-> a, ranks |-> n, calls |-> c, root |-> rt, len |-> 60, size |-> "small",
     micro_chunks |-> 1, max_in_flight |-> 1, fits |-> TRUE, rndv |-> FALSE, faults |-> 0]

Pipelined(n, c, m, w) ==
    [Job("pipelined", n, c, 0) EXCEPT !.micro_chunks = m, !.max_in_flight = w]

Rendezvous(j) == [j EXCEPT !.rndv = TRUE]
Failing(j) == [j EXCEPT !.faults = 1]

(* Two calls in a row where every rank hears of all others in a call; one  *)
(* of those in which the root only sends.  Three and five are no powers of *)
(* two.                                                                    *)
AllreduceJobs ==
    {Job("ring", 1, 2, 0), Rendezvous(Job("ring", 3, 2, 0)), Job("ring", 4, 1, 0),
     Job("recursive_doubling", 3, 1, 0), Job("recursive_doubling", 4, 2, 0),
     Rendezvous(Job("recursive_doubling", 4, 1, 0)),
     Failing(Job("recursive_doubling", 4, 1, 0)), Failing(Job("ring", 3, 1, 0))}

(* A window smaller than the number of chains, as large, and larger.       *)
PipelinedJobs ==
    {Pipelined(2, 2, 2, 1), Pipelined(2, 1, 3, 2), Pipelined(3, 1, 2, 1),
     Rendezvous(Pipelined(2, 2, 2, 3)), Failing(Pipelined(2, 2, 2, 2))}

(* What the adaptive communicator chooses, and what it then rejects.       *)
AdaptiveJobs ==
    {[Pipelined(n, 1, m, 2) EXCEPT !.algorithm = "adaptive", !.size = s, !.len = l] :
        n \in 1..2, m \in {0, 2}, s \in {"small", "medium", "large"}, l \in {3, 4, 6}}

TreeJobs ==
    {Job("bruck", 3, 2, 0), Job("bruck", 4, 2, 0), Failing(Job("bruck", 3, 1, 0)),
     Job("broadcast", 5, 1, 3), Failing(Job("broadcast", 4, 1, 1)),
     Failing(Job("scatter", 3, 1, 1))}
    \cup {Rendezvous(Job(a, 4, 1, rt)) : a \in {"broadcast", "scatter"}, rt \in 0..3}

(* A root out of range, and buffers of a wrong length.                     *)
RejectedJobs ==
    {Job(a, n, 2, n) : a \in {"broadcast", "scatter"}, n \in 2..3}
    \cup {[Job(a, n, 1, 0) EXCEPT !.fits = FALSE] : a \in {"bruck", "scatter"}, n \in {1, 3}}

MCJobs == RejectedJobs \cup AllreduceJobs \cup PipelinedJobs \cup AdaptiveJobs \cup TreeJobs

(* A root that broadcasts three times.                                     *)
AheadJobs == {Job("broadcast", 2, 3, 0)}
=============================================================================
