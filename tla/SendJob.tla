------------------------------ MODULE SendJob ------------------------------
(***************************************************************************)
(* The send job of miptpd and its sliding window, as operators on values:  *)
(* which packages of an application's data are sent, and when the job is   *)
(* done.  Numbers and positions are 16 bits wide.  The data are their      *)
(* positions: a package carries len bytes from position from on.           *)
(***************************************************************************)
EXTENDS Integers, Sequences, FiniteSetsExt, List

CONSTANTS
  Batch,    \* MAX_DATA_BATCH_SIZE_BYTES (1492)
  Window,   \* WINDOW_SIZE (10)
  Width,    \* the number of values of a uint16_t (2^16)
  SizeField \* bytes of the data_size field of a serialised package (2)

ASSUME SendJobAssumption ==
  /\ {Batch, Window, Width} \subseteq Nat \ {0}
  /\ Batch < Width /\ Window + 1 < Width
  /\ SizeField \in Nat

\* The largest job has fewer packages (44) than there are numbers for them and for a
\* window behind them.
ASSUME JobsFit == (Width - 1 + Batch - 1) \div Batch + Window <= Width

UInt16 == 0 .. Width - 1
Truncated(n) == n % Width

-----------------------------------------------------------------------------
SlidingWindow == [base : UInt16, max : UInt16]

SlidingWindow_create == [base |-> 0, max |-> Window + 1]

\* Faulty variants of the update: the bound is not cut to 16 bits, and an old number
\* moves the window back.
UpdateTooWide(w, seq) ==
  IF seq > w.base THEN [base |-> seq, max |-> w.max - w.base + seq] ELSE w
UpdateToAny(w, seq) == [base |-> seq, max |-> Truncated(w.max - w.base + seq)]

SlidingWindow_update(w, seq) ==
  IF seq > w.base
  THEN [base |-> seq, max |-> Truncated(w.max - w.base + seq)]
  ELSE w

-----------------------------------------------------------------------------
MIPTPSendJob == [size : UInt16, window : SlidingWindow]
MIPTPPackage == [PSN : UInt16, from : UInt16, len : 0 .. Batch]

MIPTPSendJob_create(size) == [size |-> size, window |-> SlidingWindow_create]

\* The 16-bit position of a package.
Index(seq) == Truncated(seq * Batch)

NextPackageIsNull(job, seq) == Index(seq) > job.size

MIPTPPackage_create(seq, from, size) == [PSN |-> seq, from |-> from, len |-> size]

MIPTPSendJob_next_package(job, seq) ==
  MIPTPPackage_create(seq, Index(seq),
    IF job.size < Index(seq) + Batch THEN job.size - Index(seq) ELSE Batch)

\* Faulty variant: the first package of the window counts as acknowledged.
PackagesAfterBase(job) ==
  LET w == job.window
  IN [k \in 1 .. Cardinality({i \in w.base + 1 .. w.max - 1 : ~NextPackageIsNull(job, i)}) |->
        MIPTPSendJob_next_package(job, w.base + k)]

\* The packages of the window up to the first that there is none of, in the order they
\* leave the queue they are put in (List_proofs!QueueIsFirstInFirstOut).
MIPTPSendJob_next_packages(job) ==
  LET w    == job.window
      none == {i \in w.base .. w.max - 1 : NextPackageIsNull(job, i)}
      end  == IF none = {} THEN w.max ELSE Min(none)
  IN [k \in 1 .. end - w.base |-> MIPTPSendJob_next_package(job, w.base + k - 1)]

\* What the size that is returned covers: the field data_size, written between the
\* header and the data, is not counted, so that the end of the data is left out.  The
\* check of the size does not count it either: with more than Batch - SizeField bytes of
\* data the last are written behind the caller's buffer (miptp_app_controller.c:190).
\* What they overwrite is not modelled.
MIPTPPackage_serialize(p) ==
  [p EXCEPT !.len = IF @ > SizeField THEN @ - SizeField ELSE 0]

NumPackages(job) == (job.size + Batch - 1) \div Batch

\* num_packages - 1 is unsigned: a job without data is never complete.
MIPTPSendJob_is_complete(job) ==
  job.size > 0 /\ job.window.base >= NumPackages(job) - 1

MIPTPSendJob_receive_package(job, seq) ==
  [job EXCEPT !.window = SlidingWindow_update(@, seq)]
=============================================================================
