---------------------------- MODULE MiptpdProps ----------------------------
(***************************************************************************)
(* What the transport daemon promises its applications.                    *)
(***************************************************************************)
EXTENDS Miptpd

\* An accepted application has exactly one connection, however often it asks anew,
\* and one that was seen to leave has none (the replacement in handle_app_package,
\* the removal in disconnect, both in the middle of a walk through the list).
ConnectionPerSocket ==
  \A a \in App : Cardinality(NodesOf(a)) = IF stage[a] = "accepted" THEN 1 ELSE 0

\* The nodes a walk finds are all that are in memory, each linked both ways to those
\* beside it, however connections were pushed and removed in the middle of walks
\* (List_proofs: each operation by itself keeps this).
ListSound ==
  /\ Represents(connections, LIST_FOREACH(connections))
  /\ QUEUE_FOREACH(connections) = Reverse(LIST_FOREACH(connections))

\* What the receiver of a job has to see: the packages from base on that exist and
\* are in the window, each with the bytes of its own place.
Due(job) ==
  [k \in 1 .. Min({NumPackages(job), job.window.base + Window + 1}) - job.window.base |->
     LET seq == job.window.base + k - 1
     IN [PSN |-> seq, from |-> seq * Batch, len |-> Min({Batch, job.size - seq * Batch})]]

\* The connections that are in memory, which are those of the list (ListSound).
Held == {connections.nodes[n].value : n \in DOMAIN connections.nodes}

Unfinished == {c \in Held : c.status = "SENDER" /\ c.job.size > 0}

\* A job that is not complete has packages to send, and its window begins with all of
\* those that are due, in order: no position and no bound of the window has wrapped
\* before the job is complete.  (A job without data is never complete, and what
\* follows the due packages may be old data under new numbers.)
UnfinishedJobSends ==
  \A c \in Unfinished :
    /\ Due(c.job) # <<>>
    /\ IsPrefix(Due(c.job), MIPTPSendJob_next_packages(c.job))

\* As long as an application asks for nothing new, its window does not move back and a
\* completed job stays so, in whatever order acknowledgements come.
WindowsMoveForward ==
  [][\A c \in Held : \A d \in Held' :
       c.socket = d.socket /\ input'[c.socket] = input[c.socket] =>
         /\ d.job.window.base >= c.job.window.base
         /\ c.status = "COMPLETE" => d.status = "COMPLETE"]_vars

-----------------------------------------------------------------------------
(* Liveness *)

\* The daemon is one thread that is never kept from running; mipd, while it does not
\* wait for the daemon, reads what the daemon writes, and completes its own write.
Fairness ==
  /\ WF_vars(DaemonNext)
  /\ WF_vars(MipdReads)
  /\ WF_vars(MipdWritten)

FairSpec == Spec /\ Fairness

\* The daemon in a write to mipd and mipd in a write to the daemon.
MutualBlock ==
  /\ daemon = "sending" /\ outbox # <<>> /\ Len(toMipd) = SockCap
  /\ mipd = "writing" /\ news

\* Whatever application a has not been acknowledged is written to mipd again and
\* again, unless the two daemons block each other or one has ended.
Offered(a) ==
  \A c \in Unfinished :
    c.socket = a => \E m \in Range(toMipd) : /\ m.dst = c.dst /\ m.port = c.port
                                            /\ m.package.PSN = c.job.window.base
OffersAgain ==
  \A a \in App : []<>(Offered(a) \/ Ended \/ mipd = "gone" \/ MutualBlock)

\* What an application has written is read, as long as the daemons run: nothing it
\* writes waits forever.
RequestsAreRead ==
  \A a \in App : []<>(input[a] = <<>> \/ Ended \/ mipd = "gone" \/ MutualBlock)
=============================================================================
