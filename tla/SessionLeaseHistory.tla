------------------------- MODULE SessionLeaseHistory -------------------------
(***************************************************************************)
(* SessionLease with history variables that count what the listener did    *)
(* since the key was created.  They constrain the system only by the bound *)
(* on the reads of the key that fail.                                      *)
(***************************************************************************)
EXTENDS SessionLease

CONSTANT MaxMisreads  \* bound: failed reads of the key while it is there

ASSUME MaxMisreadsAssumption == MaxMisreads \in Nat

VARIABLES
  intrusions,  \* connections of the listener since the key was created
  misreads     \* looks of the listener that missed the key since then

hvars == <<vars, intrusions, misreads>>

Created == lease = 0 /\ lease' > 0
Intrudes == lease > 0 /\ listener = "checked" /\ listener' = "connected"
Misreads == lease > 0 /\ listener = "checking" /\ listener' = "checked"

HInit ==
  /\ Init
  /\ intrusions = 0
  /\ misreads = 0

Counted(n, happens) == IF Created THEN 0 ELSE IF happens THEN n + 1 ELSE n

HNext ==
  /\ Next
  /\ intrusions' = Counted(intrusions, Intrudes)
  /\ misreads' = Counted(misreads, Misreads)
  /\ misreads' <= MaxMisreads

HSpec == HInit /\ [][HNext]_hvars

\* With the fairness of SessionLease, which the history takes nothing from: the
\* bound leaves every look of the listener the answer that the key is there.
FairHSpec == HSpec /\ Fairness

-----------------------------------------------------------------------------
\* While one lease lasts the listener connects over it at most once, plus once
\* for each time Redis failed to answer: a listener that looked just before the
\* lease was taken can kick the job's client, but it does not come back
\* (listener.py 183-190).
IntrudesOnce == intrusions <= 1 + misreads

=============================================================================
