-------------------------- MODULE SessionLeaseProofs --------------------------
(***************************************************************************)
(* Theorems about SessionLease and SessionLeaseHistory, for any number of  *)
(* executions and processes.                                               *)
(*                                                                         *)
(* That a held lease is alive is not inductive: time ages the key however  *)
(* much is left.  KeyLasts adds how much is left, in terms of the renewals *)
(* that were missed and of the one that is due; OneHolder is needed with   *)
(* it, for only a holder deletes the key, and in turn needs that a held    *)
(* key is alive, for SET NX keeps a second holder out.                     *)
(***************************************************************************)
EXTENDS SessionLeaseHistory, TLAPS

KeyLasts ==
  \A e \in Execs : held[e] => lease >= Ttl - missed[e] - (IF due[e] THEN 1 ELSE 0)

\* An execution that has yet to take the lease has an attempt left.
TriesLeft == \A e \in Execs : phase[e] \in {"new", "waiting"} => tries[e] < Tries

TypeInv == TypeOK /\ TriesLeft
LeaseInv == TypeOK /\ KeyLasts /\ OneHolder

-----------------------------------------------------------------------------
(* Type correctness.                                                       *)

LEMMA TriedType ==
  ASSUME TypeInv, NEW e \in Execs, phase[e] = "waiting", Tried(e)
  PROVE  /\ phase' \in [Execs -> Phases]
         /\ tries' \in [Execs -> 0..Tries]
         /\ TriesLeft'
<1> USE LeaseAssumption DEF TypeInv, TypeOK, TriesLeft
<1>1. tries[e] + 1 \in 0..Tries
  OBVIOUS
<1>2. phase' \in [Execs -> Phases]
  BY DEF Tried, Phases
<1>3. tries' \in [Execs -> 0..Tries]
  BY <1>1 DEF Tried
<1>4. TriesLeft'
  <2> SUFFICES ASSUME NEW f \in Execs, phase'[f] \in {"new", "waiting"} PROVE tries'[f] < Tries
    OBVIOUS
  <2>1. CASE f = e
    <3>1. tries'[e] = tries[e] + 1 /\ tries[e] + 1 # Tries
      BY <2>1 DEF Tried
    <3> QED
      BY <1>1, <2>1, <3>1
  <2>2. CASE f # e
    BY <2>2 DEF Tried
  <2> QED
    BY <2>1, <2>2
<1> QED
  BY <1>2, <1>3, <1>4

\* Every step keeps the variables in their types.
LEMMA TypeStep == TypeInv /\ [Next]_vars => TypeInv'
<1> SUFFICES ASSUME TypeInv, [Next]_vars PROVE TypeInv'
  OBVIOUS
<1> USE LeaseAssumption DEF TypeInv, TypeOK, TriesLeft
<1>1. CASE Tick
  BY <1>1 DEF Tick, Aged
<1>2. ASSUME NEW e \in Execs, Exec(e) PROVE TypeInv'
  <2>1. CASE Start(e)
    BY <2>1 DEF Start, Phases
  <2>2. CASE Acquire(e)
    BY <2>2 DEF Acquire, KeyCreated, Phases
  <2>3. CASE AcquireFails(e)
    BY <2>3, TriedType DEF AcquireFails
  <2>4. CASE AcquireLost(e)
    BY <2>4, TriedType DEF AcquireLost, KeyCreated
  <2>5. CASE Connect(e)
    BY <2>5 DEF Connect, Phases, Clients
  <2>6. CASE ConnectFails(e)
    BY <2>6, ZenonT(30) DEF ConnectFails, Phases, Clients
  <2>7. CASE Disconnect(e)
    BY <2>7 DEF Disconnect, Phases, Clients
  <2>8. CASE Release(e)
    BY <2>8 DEF Release, Left, Phases
  <2>9. CASE Renew(e)
    BY <2>9 DEF Renew, Extended
  <2>10. CASE MissRenewal(e)
    BY <2>10 DEF MissRenewal
  <2> QED
    BY <1>2, <2>1, <2>2, <2>3, <2>4, <2>5, <2>6, <2>7, <2>8, <2>9, <2>10
    DEF Exec, Takes, Opens, Renews
<1>3. ASSUME NEW p \in Processes, Crash(p) PROVE TypeInv'
  BY <1>3 DEF Crash, Phases, Clients
<1>4. CASE Listen
  BY <1>4 DEF Listen, Looks, ListenerFree, ListenerHeld, ListenerMisreads, ListenerSees,
              ListenerConnects, ListenerDrops, ListenerStops, ListenerRetries, Clients
<1>5. ASSUME NEW p \in Clients, Kick(p) PROVE TypeInv'
  BY <1>5 DEF Kick
<1>6. CASE UNCHANGED vars
  BY <1>6 DEF vars
<1> QED
  BY <1>1, <1>2, <1>3, <1>4, <1>5, <1>6 DEF Next

LEMMA TypeInvariant == Spec => []TypeInv
<1>1. Init => TypeInv
  BY LeaseAssumption DEF Init, TypeInv, TypeOK, TriesLeft, Phases
<1> QED
  BY <1>1, TypeStep, PTL DEF Spec

\* The loop makes at most Tries attempts, and the key never outlives its life.
THEOREM TypeCorrect == Spec => []TypeOK
<1>1. TypeInv => TypeOK
  BY DEF TypeInv
<1> QED
  BY <1>1, TypeInvariant, PTL

-----------------------------------------------------------------------------
(* The lease, as long as fewer renewals in a row are missed than its life  *)
(* allows.                                                                 *)

LEMMA KeyLastsAlive ==
  ASSUME MaxMissed + 1 < Ttl
  PROVE  LeaseInv => HeldLeaseIsAlive
<1> SUFFICES ASSUME LeaseInv, NEW e \in Execs, held[e] PROVE lease > 0
  BY DEF HeldLeaseIsAlive
<1>1. lease \in Nat /\ missed[e] \in 0..MaxMissed
  BY LeaseAssumption DEF LeaseInv, TypeOK
<1>2. lease >= Ttl - missed[e] - (IF due[e] THEN 1 ELSE 0)
  BY DEF LeaseInv, KeyLasts
<1> QED
  BY <1>1, <1>2, LeaseAssumption

LEMMA LeaseStep ==
  ASSUME MaxMissed + 1 < Ttl
  PROVE  LeaseInv /\ TypeOK' /\ [Next]_vars => LeaseInv'
<1> SUFFICES ASSUME LeaseInv, TypeOK', [Next]_vars PROVE KeyLasts' /\ OneHolder'
  BY DEF LeaseInv
<1>0. HeldLeaseIsAlive
  BY KeyLastsAlive
<1> USE LeaseAssumption DEF LeaseInv, TypeOK
\* The steps that leave the key and its holders alone.
<1>1. ASSUME UNCHANGED <<lease, held, due, missed>> PROVE KeyLasts' /\ OneHolder'
  BY <1>1 DEF KeyLasts, OneHolder
\* Each renewal that was due has been made or counted as missed.
<1>2. CASE Tick
  <2>1. OneHolder'
    BY <1>2 DEF Tick, OneHolder
  <2>2. ASSUME NEW e \in Execs, held'[e]
        PROVE  lease' >= Ttl - missed'[e] - (IF due'[e] THEN 1 ELSE 0)
    <3>1. held[e] /\ ~due[e] /\ due'[e] /\ missed'[e] = missed[e]
      BY <1>2, <2>2 DEF Tick
    <3>2. lease >= Ttl - missed[e]
      BY <3>1 DEF KeyLasts
    <3>3. lease' = lease - 1
      BY <1>0, <1>2, <3>1 DEF Tick, Aged, HeldLeaseIsAlive
    <3> QED
      BY <3>1, <3>2, <3>3
  <2> QED
    BY <2>1, <2>2 DEF KeyLasts
<1>3. ASSUME NEW e \in Execs, Exec(e) PROVE KeyLasts' /\ OneHolder'
  \* The key was absent, so nobody held it.
  <2>1. CASE Acquire(e)
    <3>1. \A f \in Execs : ~held[f]
      BY <1>0, <2>1 DEF Acquire, KeyCreated, HeldLeaseIsAlive
    <3>2. OneHolder'
      BY <2>1, <3>1 DEF Acquire, OneHolder
    <3>3. KeyLasts'
      BY <2>1, <3>1 DEF Acquire, KeyCreated, KeyLasts
    <3> QED
      BY <3>2, <3>3
  <2>2. CASE AcquireLost(e)
    <3>1. \A f \in Execs : ~held[f]
      BY <1>0, <2>2 DEF AcquireLost, KeyCreated, HeldLeaseIsAlive
    <3> QED
      BY <2>2, <3>1 DEF AcquireLost, OneHolder, KeyLasts
  \* Only the holder deletes the key, and there is no other holder.
  <2>3. CASE Release(e)
    <3>1. OneHolder'
      BY <2>3 DEF Release, OneHolder
    <3>2. ASSUME NEW f \in Execs, held'[f]
          PROVE  lease' >= Ttl - missed'[f] - (IF due'[f] THEN 1 ELSE 0)
      <4>1. f # e /\ held[f] /\ due'[f] = due[f] /\ missed'[f] = missed[f]
        BY <2>3, <3>2 DEF Release
      <4>2. ~held[e]
        BY <4>1 DEF OneHolder
      <4>3. lease' = lease
        BY <2>3, <4>2 DEF Release, Left
      <4> QED
        BY <4>1, <4>3 DEF KeyLasts
    <3> QED
      BY <3>1, <3>2 DEF KeyLasts
  <2>4. CASE Renew(e)
    <3>1. OneHolder'
      BY <2>4 DEF Renew, OneHolder
    <3>2. ASSUME NEW f \in Execs, held'[f]
          PROVE  lease' >= Ttl - missed'[f] - (IF due'[f] THEN 1 ELSE 0)
      <4>1. lease' = Ttl
        BY <1>0, <2>4, <3>2 DEF Renew, Extended, HeldLeaseIsAlive
      <4> QED
        BY <4>1
    <3> QED
      BY <3>1, <3>2 DEF KeyLasts
  <2>5. CASE MissRenewal(e)
    BY <2>5 DEF MissRenewal, KeyLasts, OneHolder
  <2>6. CASE Start(e) \/ AcquireFails(e) \/ Connect(e) \/ ConnectFails(e) \/ Disconnect(e)
    BY <1>1, <2>6 DEF Start, AcquireFails, Connect, ConnectFails, Disconnect
  <2> QED
    BY <1>3, <2>1, <2>2, <2>3, <2>4, <2>5, <2>6 DEF Exec, Takes, Opens, Renews
\* The key outlives the process, and its executions hold nothing any more.
<1>4. ASSUME NEW p \in Processes, Crash(p) PROVE KeyLasts' /\ OneHolder'
  <2>1. \A e \in Execs : held'[e] => /\ held[e] 
                                     /\ due'[e] = due[e] 
                                     /\ missed'[e] = missed[e]
    BY <1>4 DEF Crash
  <2>2. lease' = lease
    BY <1>4 DEF Crash
  <2> QED
    BY <2>1, <2>2 DEF KeyLasts, OneHolder
<1>5. CASE Listen
  BY <1>1, <1>5 DEF Listen, Looks, ListenerFree, ListenerHeld, ListenerMisreads, ListenerSees,
                    ListenerConnects, ListenerDrops, ListenerStops, ListenerRetries
<1>6. ASSUME NEW p \in Clients, Kick(p) PROVE KeyLasts' /\ OneHolder'
  BY <1>1, <1>6 DEF Kick
<1>7. CASE UNCHANGED vars
  BY <1>1, <1>7 DEF vars
<1> QED
  BY <1>2, <1>3, <1>4, <1>5, <1>6, <1>7 DEF Next

LEMMA LeaseInvariant ==
  ASSUME MaxMissed + 1 < Ttl
  PROVE  Spec => []LeaseInv
<1>1. Init => LeaseInv
  BY LeaseAssumption DEF Init, LeaseInv, TypeOK, KeyLasts, OneHolder, Phases
<1>2. TypeInv' => TypeOK'
  BY DEF TypeInv
<1>3. LeaseInv /\ TypeOK' /\ [Next]_vars => LeaseInv'
  BY LeaseStep
<1> QED
  BY <1>1, <1>2, <1>3, TypeInvariant, PTL DEF Spec

\* While fewer than Ttl - 1 renewals in a row are missed, an execution that
\* believes to hold the lease does, whatever the other executions do and
\* whichever processes are killed.
THEOREM HeldLeaseAlive ==
  ASSUME MaxMissed + 1 < Ttl
  PROVE  Spec => []HeldLeaseIsAlive
<1>1. LeaseInv => HeldLeaseIsAlive
  BY KeyLastsAlive
<1> QED
  BY <1>1, LeaseInvariant, PTL

\* Under the same condition no two executions believe to hold the lease, although
\* the key names no owner.
THEOREM OneLeaseHolder ==
  ASSUME MaxMissed + 1 < Ttl
  PROVE  Spec => []OneHolder
<1>1. LeaseInv => OneHolder
  BY DEF LeaseInv
<1> QED
  BY <1>1, LeaseInvariant, PTL

-----------------------------------------------------------------------------
(* The listener.  A look at an absent key is good for one connection: the  *)
(* invariant counts it already when the listener has looked.               *)

ListenerInv ==
  /\ intrusions \in Nat /\ misreads \in Nat
  /\ intrusions <= 1 + misreads
  /\ listener = "checked" /\ lease > 0 => intrusions <= misreads

LEMMA ListenerStep == TypeOK /\ ListenerInv /\ [HNext]_hvars => ListenerInv'
<1> SUFFICES ASSUME TypeOK, ListenerInv, [HNext]_hvars PROVE ListenerInv'
  OBVIOUS
<1>1. lease \in Nat
  BY LeaseAssumption DEF TypeOK
<1>2. CASE HNext
  <2>1. /\ intrusions' = Counted(intrusions, Intrudes)
        /\ misreads' = Counted(misreads, Misreads)
    BY <1>2 DEF HNext
  <2>2. \/ listener' = listener
        \/ lease' = lease /\ listener' # "checked"
        \/ lease' = lease /\ listener = "checking" /\ listener' = "checked"
    BY <1>2 DEF HNext, Next, Tick, Exec, Start, Takes, Acquire, AcquireFails, AcquireLost,
         Opens, Connect, ConnectFails, Disconnect, Release, Renews, Renew, MissRenewal, Crash,
         Kick, Listen, Looks, ListenerFree, ListenerHeld, ListenerMisreads, ListenerSees,
         ListenerConnects, ListenerDrops, ListenerStops, ListenerRetries
  <2> USE <1>1, <2>1 DEF ListenerInv, Counted, Created, Intrudes, Misreads
  <2>3. CASE listener' = listener
    BY <2>3
  <2>4. CASE lease' = lease /\ listener' # "checked"
    BY <2>4
  <2>5. CASE lease' = lease /\ listener = "checking" /\ listener' = "checked"
    BY <2>5
  <2> QED
    BY <2>2, <2>3, <2>4, <2>5
<1>3. CASE UNCHANGED hvars
  BY <1>3 DEF hvars, vars, ListenerInv
<1> QED
  BY <1>2, <1>3

\* While one lease lasts the listener connects over it at most once, plus once
\* for each look that Redis failed to answer, however many renewals are missed.
THEOREM ListenerIntrudesOnce == HSpec => []IntrudesOnce
<1>1. HInit => Init /\ ListenerInv
  BY DEF HInit, Init, ListenerInv
<1>2. [HNext]_hvars => [Next]_vars
  BY DEF HNext, hvars
<1>3. HSpec => []TypeOK
  BY <1>1, <1>2, TypeCorrect, PTL DEF HSpec, Spec
<1>4. ListenerInv => IntrudesOnce
  BY DEF ListenerInv, IntrudesOnce
<1> QED
  BY <1>1, <1>3, <1>4, ListenerStep, PTL DEF HSpec

=============================================================================
