---------------------------- MODULE FrameCounter ----------------------------
(***************************************************************************)
(* The downlink frame counter of process_downlink().  A data frame carries *)
(* only the low 16 bits of the network's 32-bit counter; the device        *)
(* rebuilds the full value from the last one it accepted (g_ctx.fcnt_down) *)
(* and drops the frame when the result is not newer.                       *)
(***************************************************************************)
EXTENDS Integers

CONSTANTS
  LsbMod,    \* number of values of the 16-bit field on the air (65536)
  FcntMod    \* number of values of the 32-bit counters (4294967296)

ASSUME WidthAssumption ==
  /\ LsbMod \in Nat /\ LsbMod >= 2 /\ LsbMod % 2 = 0
  /\ FcntMod \in Nat /\ FcntMod >= LsbMod /\ FcntMod % LsbMod = 0

Counter == 0 .. FcntMod - 1

\* The 16 bits of counter n that a frame carries.
Lsb(n) == n % LsbMod

\* uint16_t diff = fcnt - last_fcnt_lsb
Diff(lsb, last) == (lsb - Lsb(last)) % LsbMod

\* Mutant of Reconstruct: the last value of the lower half is read as behind.
MutReconstruct(lsb, last) ==
  IF Diff(lsb, last) < LsbMod \div 2 - 1
  THEN (last + Diff(lsb, last)) % FcntMod
  ELSE (last - (LsbMod - Diff(lsb, last))) % FcntMod

\* reconstructed_fcnt, in unsigned 32-bit arithmetic: half of the field's range
\* is read as ahead of the last counter, the other half as behind it.
Reconstruct(lsb, last) ==
  IF Diff(lsb, last) < LsbMod \div 2
  THEN (last + Diff(lsb, last)) % FcntMod
  ELSE (last - (LsbMod - Diff(lsb, last))) % FcntMod

\* Mutant of Newer: the last frame itself counts as newer.
MutNewer(rebuilt, last) == last = 0 \/ rebuilt >= last

\* The replay test: it is off while the last counter is still 0.
Newer(rebuilt, last) == last = 0 \/ rebuilt > last

\* A counter ahead of the last one by less than half the field's range.
InWindow(n, last) == last < n /\ n - last < LsbMod \div 2
=============================================================================
