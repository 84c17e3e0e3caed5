----------------------------- MODULE ReceiveJob -----------------------------
(***************************************************************************)
(* The receive job of miptpd (miptpd/src/lib/miptp_receive_job.c), as      *)
(* operators on values.  A job counts the bytes it has; what of a package  *)
(* it looks at is the number in its first two bytes.                       *)
(***************************************************************************)
EXTENDS SendJob

WAITING_FOR_CONNECTION == 1
WAITING_FOR_PACKAGE == 2
ACK_READY == 3

\* 0 is the status calloc leaves, which the program has no name for.
MIPTPReceiveJob ==
  [status : {0, WAITING_FOR_CONNECTION, WAITING_FOR_PACKAGE, ACK_READY},
   data_received : UInt16, data_size : UInt16, request_nr : UInt16]

MIPTPReceiveJob_create ==
  [status |-> 0, data_received |-> 0, data_size |-> 0, request_nr |-> 0]

MIPTPReceiveJob_is_complete(job) == job.data_received = job.data_size

\* An acknowledgement would be a package without data, but MIPTPPackage_create wants
\* data: there is none.
MIPTPReceiveJob_next_package(job) == NULL

\* The packages to send, and the job after that.  Without an acknowledgement the job
\* stays ready for one; if there was one it would be taken for the queue it should be in.
MIPTPReceiveJob_next_packages(job) ==
  LET ack == MIPTPReceiveJob_next_package(job)
  IN IF job.status # ACK_READY THEN [packages |-> <<>>, job |-> job]
     ELSE IF ack = NULL THEN [packages |-> NULL, job |-> job]
     ELSE [packages |-> ack, job |-> [job EXCEPT !.status = WAITING_FOR_PACKAGE]]

\* The copying of the data falls through to its error return.
MIPTPReceiveJob_append_data == -1

\* The return code and the job after a package that begins with number first.
MIPTPReceiveJob_receive_package(job, first) ==
  IF job.status = WAITING_FOR_CONNECTION
  THEN [rc |-> 1, job |-> [job EXCEPT !.data_size = first, !.status = WAITING_FOR_PACKAGE]]
  ELSE [rc |-> IF MIPTPReceiveJob_is_complete(job) THEN 1 ELSE MIPTPReceiveJob_append_data,
        job |-> job]

\* The bytes of the result for the application; there is none before the job is complete.
MIPTPReceiveJob_result(job) ==
  IF MIPTPReceiveJob_is_complete(job) THEN {job.data_received} ELSE {}
=============================================================================
