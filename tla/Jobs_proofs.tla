----------------------------- MODULE Jobs_proofs -----------------------------
(***************************************************************************)
(* Proofs about the jobs of miptpd, for every batch size, window and width *)
(* of a number.                                                            *)
(***************************************************************************)
EXTENDS SendJob, TLAPS

\* A number that is cut to its width fits it.
LEMMA TruncatedType ==
  ASSUME NEW n \in Int
  PROVE  Truncated(n) \in UInt16
BY SendJobAssumption DEF Truncated, UInt16

-----------------------------------------------------------------------------
(* The send job *)

\* A package that MIPTPSendJob_next_package makes lies inside the data of the job,
\* although its 16-bit position may have wrapped: nothing beyond the data is read, and
\* no package is longer than a batch.
THEOREM PackageInsideData ==
  ASSUME NEW job \in MIPTPSendJob, NEW seq \in UInt16, ~NextPackageIsNull(job, seq)
  PROVE  LET p == MIPTPSendJob_next_package(job, seq)
         IN /\ p \in MIPTPPackage
            /\ p.from + p.len <= job.size
<1>1. job.size \in UInt16
  BY DEF MIPTPSendJob
<1>2. Index(seq) \in UInt16
  <2>1. seq * Batch \in Int
    BY SendJobAssumption DEF UInt16
  <2> QED
    BY <2>1, TruncatedType DEF Index
<1>3. Index(seq) <= job.size
  BY <1>1, <1>2 DEF NextPackageIsNull, UInt16
<1> DEFINE len == IF job.size < Index(seq) + Batch THEN job.size - Index(seq) ELSE Batch
<1>4. len \in 0 .. Batch /\ Index(seq) + len <= job.size
  BY <1>1, <1>2, <1>3, SendJobAssumption DEF UInt16
<1>5. MIPTPSendJob_next_package(job, seq) = [PSN |-> seq, from |-> Index(seq), len |-> len]
  BY DEF MIPTPSendJob_next_package, MIPTPPackage_create
<1> QED
  BY <1>2, <1>4, <1>5 DEF MIPTPPackage

\* Whatever number is acknowledged, the window remains one and does not move back.
THEOREM WindowMovesForward ==
  ASSUME NEW w \in SlidingWindow, NEW seq \in UInt16
  PROVE  /\ SlidingWindow_update(w, seq) \in SlidingWindow
         /\ SlidingWindow_update(w, seq).base >= w.base
<1>1. w.base \in UInt16 /\ w.max \in UInt16
  BY DEF SlidingWindow
<1>2. Truncated(w.max - w.base + seq) \in UInt16
  <2>1. w.max - w.base + seq \in Int
    BY <1>1 DEF UInt16
  <2> QED
    BY <2>1, TruncatedType
<1>3. CASE seq > w.base
  BY <1>1, <1>2, <1>3 DEF SlidingWindow_update, SlidingWindow, UInt16
<1>4. CASE ~(seq > w.base)
  BY <1>1, <1>4 DEF SlidingWindow_update, UInt16
<1> QED
  BY <1>3, <1>4

\* Acknowledgements that arrive in another order leave the window at the same base.
THEOREM BaseIgnoresOrder ==
  ASSUME NEW w \in SlidingWindow, NEW a \in UInt16, NEW b \in UInt16
  PROVE  SlidingWindow_update(SlidingWindow_update(w, a), b).base
           = SlidingWindow_update(SlidingWindow_update(w, b), a).base
<1>1. w.base \in Int /\ a \in Int /\ b \in Int
  BY DEF SlidingWindow, UInt16
<1>2. ASSUME NEW v, NEW seq
      PROVE  SlidingWindow_update(v, seq).base = IF seq > v.base THEN seq ELSE v.base
  BY DEF SlidingWindow_update
<1> QED
  BY <1>1, <1>2

\* A job that is complete stays so, whatever it receives.
THEOREM CompleteForGood ==
  ASSUME NEW job \in MIPTPSendJob, NEW seq \in UInt16, MIPTPSendJob_is_complete(job)
  PROVE  /\ MIPTPSendJob_receive_package(job, seq) \in MIPTPSendJob
         /\ MIPTPSendJob_is_complete(MIPTPSendJob_receive_package(job, seq))
<1> DEFINE after == MIPTPSendJob_receive_package(job, seq)
<1>1. job.size \in UInt16 /\ job.window \in SlidingWindow
  BY DEF MIPTPSendJob
<1>2. /\ after \in MIPTPSendJob
      /\ after.size = job.size
      /\ after.window = SlidingWindow_update(job.window, seq)
  BY <1>1, WindowMovesForward DEF MIPTPSendJob_receive_package, MIPTPSendJob
<1>3. /\ after.window.base >= job.window.base
      /\ after.window.base \in Int /\ job.window.base \in Int
  BY <1>1, <1>2, WindowMovesForward DEF SlidingWindow, UInt16
<1>4. NumPackages(after) = NumPackages(job) /\ NumPackages(job) \in Int
  BY <1>1, <1>2, SendJobAssumption DEF NumPackages, UInt16
<1>5. /\ job.size > 0
      /\ job.window.base >= NumPackages(job) - 1
  BY DEF MIPTPSendJob_is_complete
<1>6. after.window.base >= NumPackages(after) - 1
  BY <1>3, <1>4, <1>5
<1> HIDE DEF after
<1> QED
  BY <1>2, <1>5, <1>6 DEF MIPTPSendJob_is_complete, after

=============================================================================
