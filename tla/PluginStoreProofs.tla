-------------------------- MODULE PluginStoreProofs --------------------------
(***************************************************************************)
(* Proofs about PluginStore, for any processes, calls, placements, number  *)
(* of attempts, crashes and interruptions.                                 *)
(***************************************************************************)
EXTENDS PluginStore, TLAPS

(* Who creates the lock file is the first one inside.                      *)
LEMMA OpenKeeps ==
    ASSUME StoreInv, NEW a \in Actors, Open(a)
    PROVE  StoreInv'
<1> USE NamesAssumption DEF Actors, Calls, Go, StoreInv
<1>1. at' \in [Actors -> Places]
  BY DEF TypeOK, Places, Locking, Inside, Open, Final
<1>2. Placed'
  BY <1>1 DEF TypeOK, Placed, PlacesOf, Locking, Inside, Open, Final
<1>3. Living'
  BY <1>1 DEF TypeOK, Placed, PlacesOf, Locking, Inside, Living, HomeOf, Open, Final
<1>4. AttemptsLeft'
  <2> SUFFICES ASSUME NEW b \in Actors, at'[b] \in {"read", "steal"}
               PROVE  tries[b] < MaxAttempts
    BY DEF AttemptsLeft, Open
  <2>1. CASE b = a
    <3>1. tries[a] # MaxAttempts
      BY <2>1 DEF TypeOK, Open, Final
    <3> QED
      BY <2>1, <3>1, BoundsAssumption DEF TypeOK
  <2>2. CASE b # a
    BY <2>2 DEF TypeOK, Open, AttemptsLeft
  <2> QED
    BY <2>1, <2>2
<1>5. TypeOK'
  BY <1>1, <1>2, BoundsAssumption
  DEF TypeOK, AttemptsLeft, Placed, PlacesOf, Locking, Inside, NoLock, Files, Open, Final
<1>6. ASSUME ~stolen' PROVE LockIsOwned'
  BY <1>1, <1>6
  DEF TypeOK, Placed, PlacesOf, Locking, Inside, LockIsOwned, NoLock, Living, Open, Final
<1>7. ASSUME ~stolen' PROVE LeasesAreKept'
  BY <1>1, <1>6, <1>7
  DEF TypeOK, Placed, PlacesOf, Locking, Inside, LockIsOwned, LeasesAreKept, Leasing, Removing,
      Living, HomeOf, Open, Final
<1> QED
  BY <1>3, <1>4, <1>5, <1>6, <1>7

(* A waiter that reads the file decides to remove it or to try again.      *)
LEMMA ReadKeeps ==
    ASSUME StoreInv, NEW a \in Actors, Read(a)
    PROVE  StoreInv'
<1> USE NamesAssumption DEF Actors, Calls, Go, StoreInv
<1>1. at' \in [Actors -> Places]
  BY DEF TypeOK, Places, Locking, Inside, Read, Retry, Abandoned, Dead
<1>2. Placed'
  BY <1>1 DEF TypeOK, Placed, PlacesOf, Locking, Inside, Read, Retry, Abandoned, Dead
<1>3. Living'
  BY <1>1 DEF TypeOK, Placed, PlacesOf, Locking, Inside, Living, HomeOf, Read, Retry, Abandoned, Dead
<1>4. AttemptsLeft'
  BY <1>1, BoundsAssumption
  DEF TypeOK, Placed, PlacesOf, Locking, Inside, AttemptsLeft, Read, Retry, Abandoned, Dead
<1>5. TypeOK'
  BY <1>1, <1>2, BoundsAssumption
  DEF TypeOK, AttemptsLeft, Placed, PlacesOf, Locking, Inside, NoLock, Files, Read, Retry, Abandoned, Dead
<1>6. ASSUME ~stolen' PROVE LockIsOwned'
  BY <1>1, <1>6
  DEF TypeOK, Placed, PlacesOf, Locking, Inside, LockIsOwned, NoLock, Living, Read, Retry, Abandoned, Dead
<1>7. ASSUME ~stolen' PROVE LeasesAreKept'
  BY <1>1, <1>6, <1>7
  DEF TypeOK, Placed, PlacesOf, Locking, Inside, LockIsOwned, LeasesAreKept, Leasing, Removing,
      Living, HomeOf, Read, Retry, Abandoned, Dead
<1> QED
  BY <1>3, <1>4, <1>5, <1>6, <1>7

(* A waiter removes a lock: of a dead process, or it is counted as stolen. *)
LEMMA StealKeeps ==
    ASSUME StoreInv, NEW a \in Actors, Steal(a)
    PROVE  StoreInv'
<1> USE NamesAssumption DEF Actors, Calls, Go, StoreInv
<1>1. at' \in [Actors -> Places]
  BY DEF TypeOK, Places, Locking, Inside, Steal, Retry, Dead
<1>2. Placed'
  BY <1>1 DEF TypeOK, Placed, PlacesOf, Locking, Inside, Steal, Retry, Dead
<1>3. Living'
  BY <1>1 DEF TypeOK, Placed, PlacesOf, Locking, Inside, Living, HomeOf, Steal, Retry, Dead
<1>4. AttemptsLeft'
  BY <1>1, BoundsAssumption
  DEF TypeOK, Placed, PlacesOf, Locking, Inside, AttemptsLeft, Steal, Retry, Dead
<1>5. TypeOK'
  BY <1>1, <1>2, BoundsAssumption
  DEF TypeOK, AttemptsLeft, Placed, PlacesOf, Locking, Inside, NoLock, Files, Steal, Retry, Dead
<1>6. ASSUME ~stolen' PROVE LockIsOwned'
  BY <1>1, <1>6
  DEF TypeOK, Placed, PlacesOf, Locking, Inside, LockIsOwned, NoLock, Living, Steal, Retry, Dead
<1>7. ASSUME ~stolen' PROVE LeasesAreKept'
  BY <1>1, <1>6, <1>7
  DEF TypeOK, Placed, PlacesOf, Locking, Inside, LockIsOwned, LeasesAreKept, Leasing, Removing,
      Living, HomeOf, Steal, Retry, Dead
<1> QED
  BY <1>3, <1>4, <1>5, <1>6, <1>7

(* The pid is written.                                                     *)
LEMMA MarkKeeps ==
    ASSUME StoreInv, NEW a \in Actors, Mark(a)
    PROVE  StoreInv'
<1> USE NamesAssumption DEF Actors, Calls, Go, StoreInv
<1>1. at' \in [Actors -> Places]
  BY DEF TypeOK, Places, Locking, Inside, Mark
<1>2. Placed'
  BY <1>1 DEF TypeOK, Placed, PlacesOf, Locking, Inside, Mark
<1>3. Living'
  BY <1>1 DEF TypeOK, Placed, PlacesOf, Locking, Inside, Living, HomeOf, Mark
<1>4. AttemptsLeft'
  BY <1>1, BoundsAssumption
  DEF TypeOK, Placed, PlacesOf, Locking, Inside, AttemptsLeft, Mark
<1>5. TypeOK'
  BY <1>1, <1>2, BoundsAssumption
  DEF TypeOK, AttemptsLeft, Placed, PlacesOf, Locking, Inside, NoLock, Files, Mark
<1>6. ASSUME ~stolen' PROVE LockIsOwned'
  BY <1>1, <1>6
  DEF TypeOK, Placed, PlacesOf, Locking, Inside, LockIsOwned, NoLock, Living, Mark
<1>7. ASSUME ~stolen' PROVE LeasesAreKept'
  BY <1>1, <1>6, <1>7
  DEF TypeOK, Placed, PlacesOf, Locking, Inside, LockIsOwned, LeasesAreKept, Leasing, Removing,
      Living, HomeOf, Mark
<1> QED
  BY <1>3, <1>4, <1>5, <1>6, <1>7

(* Who leaves had the lock file, so nobody else is inside.                 *)
LEMMA UnlockKeeps ==
    ASSUME StoreInv, NEW a \in Actors, Unlock(a)
    PROVE  StoreInv'
<1> USE NamesAssumption DEF Actors, Calls, Go, StoreInv
<1>1. at' \in [Actors -> Places]
  BY DEF TypeOK, Places, Locking, Inside, Unlock, After, Final
<1>2. Placed'
  BY <1>1 DEF TypeOK, Placed, PlacesOf, Locking, Inside, Unlock, After, Final
<1>3. Living'
  BY <1>1 DEF TypeOK, Placed, PlacesOf, Locking, Inside, Living, HomeOf, Unlock, After, Final
<1>4. AttemptsLeft'
  BY <1>1, BoundsAssumption
  DEF TypeOK, Placed, PlacesOf, Locking, Inside, AttemptsLeft, Unlock, After, Final
<1>5. TypeOK'
  BY <1>1, <1>2, BoundsAssumption
  DEF TypeOK, AttemptsLeft, Placed, PlacesOf, Locking, Inside, NoLock, Files, Unlock, After, Final
<1>6. ASSUME ~stolen' PROVE LockIsOwned'
  BY <1>1, <1>6
  DEF TypeOK, Placed, PlacesOf, Locking, Inside, LockIsOwned, NoLock, Living, Unlock, After, Final
<1>7. ASSUME ~stolen' PROVE LeasesAreKept'
  BY <1>1, <1>6, <1>7
  DEF TypeOK, Placed, PlacesOf, Locking, Inside, LockIsOwned, LeasesAreKept, Leasing, Removing,
      Living, HomeOf, Unlock, After, Final
<1> QED
  BY <1>3, <1>4, <1>5, <1>6, <1>7

(* A flight looks for the variant.                                         *)
LEMMA FindKeeps ==
    ASSUME StoreInv, NEW a \in Actors, Find(a)
    PROVE  StoreInv'
<1> USE NamesAssumption DEF Actors, Calls, Go, StoreInv
<1>1. at' \in [Actors -> Places]
  BY DEF TypeOK, Places, Locking, Inside, Find
<1>2. Placed'
  BY <1>1 DEF TypeOK, Placed, PlacesOf, Locking, Inside, Find
<1>3. Living'
  BY <1>1 DEF TypeOK, Placed, PlacesOf, Locking, Inside, Living, HomeOf, Find
<1>4. AttemptsLeft'
  BY <1>1, BoundsAssumption
  DEF TypeOK, Placed, PlacesOf, Locking, Inside, AttemptsLeft, Find
<1>5. TypeOK'
  BY <1>1, <1>2, BoundsAssumption
  DEF TypeOK, AttemptsLeft, Placed, PlacesOf, Locking, Inside, NoLock, Files, Find
<1>6. ASSUME ~stolen' PROVE LockIsOwned'
  BY <1>1, <1>6
  DEF TypeOK, Placed, PlacesOf, Locking, Inside, LockIsOwned, NoLock, Living, Find
<1>7. ASSUME ~stolen' PROVE LeasesAreKept'
  BY <1>1, <1>6, <1>7
  DEF TypeOK, Placed, PlacesOf, Locking, Inside, LockIsOwned, LeasesAreKept, Leasing, Removing,
      Living, HomeOf, Find
<1> QED
  BY <1>3, <1>4, <1>5, <1>6, <1>7

(* A flight fetches the artifact.                                          *)
LEMMA FetchKeeps ==
    ASSUME StoreInv, NEW a \in Actors, Fetch(a)
    PROVE  StoreInv'
<1> USE NamesAssumption DEF Actors, Calls, Go, StoreInv
<1>1. at' \in [Actors -> Places]
  BY DEF TypeOK, Places, Locking, Inside, Fetch
<1>2. Placed'
  BY <1>1 DEF TypeOK, Placed, PlacesOf, Locking, Inside, Fetch
<1>3. Living'
  BY <1>1 DEF TypeOK, Placed, PlacesOf, Locking, Inside, Living, HomeOf, Fetch
<1>4. AttemptsLeft'
  BY <1>1, BoundsAssumption
  DEF TypeOK, Placed, PlacesOf, Locking, Inside, AttemptsLeft, Fetch
<1>5. TypeOK'
  BY <1>1, <1>2, BoundsAssumption
  DEF TypeOK, AttemptsLeft, Placed, PlacesOf, Locking, Inside, NoLock, Files, Fetch
<1>6. ASSUME ~stolen' PROVE LockIsOwned'
  BY <1>1, <1>6
  DEF TypeOK, Placed, PlacesOf, Locking, Inside, LockIsOwned, NoLock, Living, Fetch
<1>7. ASSUME ~stolen' PROVE LeasesAreKept'
  BY <1>1, <1>6, <1>7
  DEF TypeOK, Placed, PlacesOf, Locking, Inside, LockIsOwned, LeasesAreKept, Leasing, Removing,
      Living, HomeOf, Fetch
<1> QED
  BY <1>3, <1>4, <1>5, <1>6, <1>7

(* A flight finds the variant published or not.                            *)
LEMMA CheckPublishedKeeps ==
    ASSUME StoreInv, NEW a \in Actors, CheckPublished(a)
    PROVE  StoreInv'
<1> USE NamesAssumption DEF Actors, Calls, Go, StoreInv
<1>1. at' \in [Actors -> Places]
  BY DEF TypeOK, Places, Locking, Inside, CheckPublished
<1>2. Placed'
  BY <1>1 DEF TypeOK, Placed, PlacesOf, Locking, Inside, CheckPublished
<1>3. Living'
  BY <1>1 DEF TypeOK, Placed, PlacesOf, Locking, Inside, Living, HomeOf, CheckPublished
<1>4. AttemptsLeft'
  BY <1>1, BoundsAssumption
  DEF TypeOK, Placed, PlacesOf, Locking, Inside, AttemptsLeft, CheckPublished
<1>5. TypeOK'
  BY <1>1, <1>2, BoundsAssumption
  DEF TypeOK, AttemptsLeft, Placed, PlacesOf, Locking, Inside, NoLock, Files, CheckPublished
<1>6. ASSUME ~stolen' PROVE LockIsOwned'
  BY <1>1, <1>6
  DEF TypeOK, Placed, PlacesOf, Locking, Inside, LockIsOwned, NoLock, Living, CheckPublished
<1>7. ASSUME ~stolen' PROVE LeasesAreKept'
  BY <1>1, <1>6, <1>7
  DEF TypeOK, Placed, PlacesOf, Locking, Inside, LockIsOwned, LeasesAreKept, Leasing, Removing,
      Living, HomeOf, CheckPublished
<1> QED
  BY <1>3, <1>4, <1>5, <1>6, <1>7

(* Only an absent variant is published.                                    *)
LEMMA PublishKeeps ==
    ASSUME StoreInv, NEW a \in Actors, Publish(a)
    PROVE  StoreInv'
<1> USE NamesAssumption DEF Actors, Calls, Go, StoreInv
<1>1. at' \in [Actors -> Places]
  BY DEF TypeOK, Places, Locking, Inside, Publish
<1>2. Placed'
  BY <1>1 DEF TypeOK, Placed, PlacesOf, Locking, Inside, Publish
<1>3. Living'
  BY <1>1 DEF TypeOK, Placed, PlacesOf, Locking, Inside, Living, HomeOf, Publish
<1>4. AttemptsLeft'
  BY <1>1, BoundsAssumption
  DEF TypeOK, Placed, PlacesOf, Locking, Inside, AttemptsLeft, Publish
<1>5. TypeOK'
  BY <1>1, <1>2, BoundsAssumption
  DEF TypeOK, AttemptsLeft, Placed, PlacesOf, Locking, Inside, NoLock, Files, Publish
<1>6. ASSUME ~stolen' PROVE LockIsOwned'
  BY <1>1, <1>6
  DEF TypeOK, Placed, PlacesOf, Locking, Inside, LockIsOwned, NoLock, Living, Publish
<1>7. ASSUME ~stolen' PROVE LeasesAreKept'
  BY <1>1, <1>6, <1>7
  DEF TypeOK, Placed, PlacesOf, Locking, Inside, LockIsOwned, LeasesAreKept, Leasing, Removing,
      Living, HomeOf, Publish
<1> QED
  BY <1>3, <1>4, <1>5, <1>6, <1>7

(* An install joins the flight of its process, or starts it.               *)
LEMMA JoinKeeps ==
    ASSUME StoreInv, NEW a \in Actors, Join(a)
    PROVE  StoreInv'
<1> USE NamesAssumption DEF Actors, Calls, Go, StoreInv
<1>0. a \in Installs /\ home[a] \in Processes
  BY DEF TypeOK, Placed, PlacesOf, Locking, Join
<1>1. at' \in [Actors -> Places]
  BY <1>0 DEF TypeOK, Places, Locking, Inside, Join
<1>2. Placed'
  BY <1>0, <1>1 DEF TypeOK, Placed, PlacesOf, Locking, Inside, Join
<1>3. Living'
  BY <1>0, <1>1 DEF TypeOK, Placed, PlacesOf, Locking, Inside, Living, HomeOf, Join
<1>4. AttemptsLeft'
  BY <1>0, <1>1, BoundsAssumption
  DEF TypeOK, Placed, PlacesOf, Locking, Inside, AttemptsLeft, Join
<1>5. TypeOK'
  <2>1. waiters' \in [Processes -> SUBSET Installs]
    BY <1>0 DEF TypeOK, Join
  <2> QED
    BY <1>1, <1>2, <2>1 DEF TypeOK, Join
<1>6. ASSUME ~stolen' PROVE LockIsOwned'
  BY <1>0, <1>1, <1>6
  DEF TypeOK, Placed, PlacesOf, Locking, Inside, LockIsOwned, NoLock, Living, Join
<1>7. ASSUME ~stolen' PROVE LeasesAreKept'
  BY <1>0, <1>1, <1>6, <1>7
  DEF TypeOK, Placed, PlacesOf, Locking, Inside, LockIsOwned, LeasesAreKept, Leasing, Removing,
      Living, HomeOf, Join
<1> QED
  BY <1>3, <1>4, <1>5, <1>6, <1>7

(* An install hears of the end of its flight.                              *)
LEMMA WaitKeeps ==
    ASSUME StoreInv, NEW a \in Actors, Wait(a)
    PROVE  StoreInv'
<1> USE NamesAssumption DEF Actors, Calls, Go, StoreInv
<1>0. a \in Installs /\ home[a] \in Processes
  BY DEF TypeOK, Placed, PlacesOf, Locking, Wait
<1>1. at' \in [Actors -> Places]
  BY <1>0 DEF TypeOK, Places, Locking, Inside, Wait
<1>2. Placed'
  BY <1>0, <1>1 DEF TypeOK, Placed, PlacesOf, Locking, Inside, Wait
<1>3. Living'
  BY <1>0, <1>1 DEF TypeOK, Placed, PlacesOf, Locking, Inside, Living, HomeOf, Wait
<1>4. AttemptsLeft'
  BY <1>0, <1>1, BoundsAssumption
  DEF TypeOK, Placed, PlacesOf, Locking, Inside, AttemptsLeft, Wait
<1>5. TypeOK'
  BY <1>0, <1>1, <1>2, BoundsAssumption
  DEF TypeOK, AttemptsLeft, Placed, PlacesOf, Locking, Inside, NoLock, Files, Wait
<1>6. ASSUME ~stolen' PROVE LockIsOwned'
  BY <1>0, <1>1, <1>6
  DEF TypeOK, Placed, PlacesOf, Locking, Inside, LockIsOwned, NoLock, Living, Wait
<1>7. ASSUME ~stolen' PROVE LeasesAreKept'
  BY <1>0, <1>1, <1>6, <1>7
  DEF TypeOK, Placed, PlacesOf, Locking, Inside, LockIsOwned, LeasesAreKept, Leasing, Removing,
      Living, HomeOf, Wait
<1> QED
  BY <1>3, <1>4, <1>5, <1>6, <1>7

(* An install leaves its flight; the last one stops it.                    *)
LEMMA LeaveKeeps ==
    ASSUME StoreInv, NEW a \in Actors, Leave(a)
    PROVE  StoreInv'
<1> USE NamesAssumption DEF Actors, Calls, Go, StoreInv
<1>0. a \in Installs /\ home[a] \in Processes
  BY DEF TypeOK, Placed, PlacesOf, Locking, Leave
<1>1. at' \in [Actors -> Places]
  BY <1>0 DEF TypeOK, Places, Locking, Inside, Leave, AfterFlight
<1>2. Placed'
  BY <1>0, <1>1 DEF TypeOK, Placed, PlacesOf, Locking, Inside, Leave, AfterFlight
<1>3. Living'
  BY <1>0, <1>1 DEF TypeOK, Placed, PlacesOf, Locking, Inside, Living, HomeOf, Leave, AfterFlight
<1>4. AttemptsLeft'
  BY <1>0, <1>1, BoundsAssumption
  DEF TypeOK, Placed, PlacesOf, Locking, Inside, AttemptsLeft, Leave, AfterFlight
<1>5. TypeOK'
  <2>1. /\ waiters' \in [Processes -> SUBSET Installs]
        /\ gate' \in [Processes -> Installs \cup {Nobody}]
        /\ aborted' \in [Actors -> BOOLEAN]
    BY <1>0 DEF TypeOK, Leave
  <2> QED
    BY <1>1, <1>2, <2>1 DEF TypeOK, Leave
<1>6. ASSUME ~stolen' PROVE LockIsOwned'
  BY <1>0, <1>1, <1>6
  DEF TypeOK, Placed, PlacesOf, Locking, Inside, LockIsOwned, NoLock, Living, Leave, AfterFlight
<1>7. ASSUME ~stolen' PROVE LeasesAreKept'
  <2>1. \A b \in Actors : at'[b] # at[b] => at'[b] \in {"open", "end", "stop", "done"}
    BY <1>0 DEF TypeOK, Leave, AfterFlight
  <2> QED
    BY <1>0, <1>7, <2>1 DEF LeasesAreKept, Leasing, Removing, Leave
<1> QED
  BY <1>3, <1>4, <1>5, <1>6, <1>7

(* The flight that was stopped has ended.                                  *)
LEMMA StopKeeps ==
    ASSUME StoreInv, NEW a \in Actors, Stop(a)
    PROVE  StoreInv'
<1> USE NamesAssumption DEF Actors, Calls, Go, StoreInv
<1>0. a \in Installs /\ home[a] \in Processes
  BY DEF TypeOK, Placed, PlacesOf, Locking, Stop
<1>1. at' \in [Actors -> Places]
  BY <1>0 DEF TypeOK, Places, Locking, Inside, Stop, AfterFlight, Reset
<1>2. Placed'
  BY <1>0, <1>1 DEF TypeOK, Placed, PlacesOf, Locking, Inside, Stop, AfterFlight, Reset
<1>3. Living'
  BY <1>0, <1>1 DEF TypeOK, Placed, PlacesOf, Locking, Inside, Living, HomeOf, Stop, AfterFlight, Reset
<1>4. AttemptsLeft'
  BY <1>0, <1>1, BoundsAssumption
  DEF TypeOK, Placed, PlacesOf, Locking, Inside, AttemptsLeft, Stop, AfterFlight, Reset
<1>5. TypeOK'
  BY <1>0, <1>1, <1>2, BoundsAssumption
  DEF TypeOK, AttemptsLeft, Placed, PlacesOf, Locking, Inside, NoLock, Files, Stop, AfterFlight, Reset
<1>6. ASSUME ~stolen' PROVE LockIsOwned'
  BY <1>0, <1>1, <1>6
  DEF TypeOK, Placed, PlacesOf, Locking, Inside, LockIsOwned, NoLock, Living, Stop, AfterFlight, Reset
<1>7. ASSUME ~stolen' PROVE LeasesAreKept'
  BY <1>0, <1>1, <1>6, <1>7
  DEF TypeOK, Placed, PlacesOf, Locking, Inside, LockIsOwned, LeasesAreKept, Leasing, Removing,
      Living, HomeOf, Stop, AfterFlight, Reset
<1> QED
  BY <1>3, <1>4, <1>5, <1>6, <1>7

(* A lease finds its variant or fails.                                     *)
LEMMA CheckLeasedKeeps ==
    ASSUME StoreInv, NEW a \in Actors, CheckLeased(a)
    PROVE  StoreInv'
<1> USE NamesAssumption DEF Actors, Calls, Go, StoreInv
<1>1. at' \in [Actors -> Places]
  BY DEF TypeOK, Places, Locking, Inside, CheckLeased
<1>2. Placed'
  BY <1>1 DEF TypeOK, Placed, PlacesOf, Locking, Inside, CheckLeased
<1>3. Living'
  BY <1>1 DEF TypeOK, Placed, PlacesOf, Locking, Inside, Living, HomeOf, CheckLeased
<1>4. AttemptsLeft'
  BY <1>1, BoundsAssumption
  DEF TypeOK, Placed, PlacesOf, Locking, Inside, AttemptsLeft, CheckLeased
<1>5. TypeOK'
  BY <1>1, <1>2, BoundsAssumption
  DEF TypeOK, AttemptsLeft, Placed, PlacesOf, Locking, Inside, NoLock, Files, CheckLeased
<1>6. ASSUME ~stolen' PROVE LockIsOwned'
  BY <1>1, <1>6
  DEF TypeOK, Placed, PlacesOf, Locking, Inside, LockIsOwned, NoLock, Living, CheckLeased
<1>7. ASSUME ~stolen' PROVE LeasesAreKept'
  BY <1>1, <1>6, <1>7
  DEF TypeOK, Placed, PlacesOf, Locking, Inside, LockIsOwned, LeasesAreKept, Leasing, Removing,
      Living, HomeOf, CheckLeased
<1> QED
  BY <1>3, <1>4, <1>5, <1>6, <1>7

(* The lease file is written.                                              *)
LEMMA WriteLeaseKeeps ==
    ASSUME StoreInv, NEW a \in Actors, WriteLease(a)
    PROVE  StoreInv'
<1> USE NamesAssumption DEF Actors, Calls, Go, StoreInv
<1>1. at' \in [Actors -> Places]
  BY DEF TypeOK, Places, Locking, Inside, WriteLease
<1>2. Placed'
  BY <1>1 DEF TypeOK, Placed, PlacesOf, Locking, Inside, WriteLease
<1>3. Living'
  BY <1>1 DEF TypeOK, Placed, PlacesOf, Locking, Inside, Living, HomeOf, WriteLease
<1>4. AttemptsLeft'
  BY <1>1, BoundsAssumption
  DEF TypeOK, Placed, PlacesOf, Locking, Inside, AttemptsLeft, WriteLease
<1>5. TypeOK'
  BY <1>1, <1>2, BoundsAssumption
  DEF TypeOK, AttemptsLeft, Placed, PlacesOf, Locking, Inside, NoLock, Files, WriteLease
<1>6. ASSUME ~stolen' PROVE LockIsOwned'
  BY <1>1, <1>6
  DEF TypeOK, Placed, PlacesOf, Locking, Inside, LockIsOwned, NoLock, Living, WriteLease
<1>7. ASSUME ~stolen' PROVE LeasesAreKept'
  BY <1>1, <1>6, <1>7
  DEF TypeOK, Placed, PlacesOf, Locking, Inside, LockIsOwned, LeasesAreKept, Leasing, Removing,
      Living, HomeOf, WriteLease
<1> QED
  BY <1>3, <1>4, <1>5, <1>6, <1>7

(* A prune goes on only when nobody holds a lease.                         *)
LEMMA CheckPrunableKeeps ==
    ASSUME StoreInv, NEW a \in Actors, CheckPrunable(a)
    PROVE  StoreInv'
<1> USE NamesAssumption DEF Actors, Calls, Go, StoreInv
<1>1. at' \in [Actors -> Places]
  BY DEF TypeOK, Places, Locking, Inside, CheckPrunable, Active, Abandoned, Dead
<1>2. Placed'
  BY <1>1 DEF TypeOK, Placed, PlacesOf, Locking, Inside, CheckPrunable, Active, Abandoned, Dead
<1>3. Living'
  BY <1>1 DEF TypeOK, Placed, PlacesOf, Locking, Inside, Living, HomeOf, CheckPrunable, Active, Abandoned, Dead
<1>4. AttemptsLeft'
  BY <1>1, BoundsAssumption
  DEF TypeOK, Placed, PlacesOf, Locking, Inside, AttemptsLeft, CheckPrunable, Active, Abandoned, Dead
<1>5. TypeOK'
  BY <1>1, <1>2, BoundsAssumption
  DEF TypeOK, AttemptsLeft, Placed, PlacesOf, Locking, Inside, NoLock, Files, CheckPrunable, Active, Abandoned, Dead
<1>6. ASSUME ~stolen' PROVE LockIsOwned'
  BY <1>1, <1>6
  DEF TypeOK, Placed, PlacesOf, Locking, Inside, LockIsOwned, NoLock, Living, CheckPrunable, Active, Abandoned, Dead
<1>7. ASSUME ~stolen' PROVE LeasesAreKept'
  BY <1>1, <1>6, <1>7
  DEF TypeOK, Placed, PlacesOf, Locking, Inside, LockIsOwned, LeasesAreKept, Leasing, Removing,
      Living, HomeOf, CheckPrunable, Active, Abandoned, Dead
<1> QED
  BY <1>3, <1>4, <1>5, <1>6, <1>7

(* A prune removes variant and leases: nobody holds one.                   *)
LEMMA RemoveKeeps ==
    ASSUME StoreInv, NEW a \in Actors, Remove(a)
    PROVE  StoreInv'
<1> USE NamesAssumption DEF Actors, Calls, Go, StoreInv
<1>1. at' \in [Actors -> Places]
  BY DEF TypeOK, Places, Locking, Inside, Remove
<1>2. Placed'
  BY <1>1 DEF TypeOK, Placed, PlacesOf, Locking, Inside, Remove
<1>3. Living'
  BY <1>1 DEF TypeOK, Placed, PlacesOf, Locking, Inside, Living, HomeOf, Remove
<1>4. AttemptsLeft'
  BY <1>1, BoundsAssumption
  DEF TypeOK, Placed, PlacesOf, Locking, Inside, AttemptsLeft, Remove
<1>5. TypeOK'
  BY <1>1, <1>2, BoundsAssumption
  DEF TypeOK, AttemptsLeft, Placed, PlacesOf, Locking, Inside, NoLock, Files, Remove
<1>6. ASSUME ~stolen' PROVE LockIsOwned'
  BY <1>1, <1>6
  DEF TypeOK, Placed, PlacesOf, Locking, Inside, LockIsOwned, NoLock, Living, Remove
<1>7. ASSUME ~stolen' PROVE LeasesAreKept'
  BY <1>1, <1>6, <1>7
  DEF TypeOK, Placed, PlacesOf, Locking, Inside, LockIsOwned, LeasesAreKept, Leasing, Removing,
      Living, HomeOf, Remove
<1> QED
  BY <1>3, <1>4, <1>5, <1>6, <1>7

(* A scope ends.                                                           *)
LEMMA ReleaseKeeps ==
    ASSUME StoreInv, NEW a \in Actors, Release(a)
    PROVE  StoreInv'
<1> USE NamesAssumption DEF Actors, Calls, Go, StoreInv
<1>1. at' \in [Actors -> Places]
  BY DEF TypeOK, Places, Locking, Inside, Release
<1>2. Placed'
  BY <1>1 DEF TypeOK, Placed, PlacesOf, Locking, Inside, Release
<1>3. Living'
  BY <1>1 DEF TypeOK, Placed, PlacesOf, Locking, Inside, Living, HomeOf, Release
<1>4. AttemptsLeft'
  BY <1>1, BoundsAssumption
  DEF TypeOK, Placed, PlacesOf, Locking, Inside, AttemptsLeft, Release
<1>5. TypeOK'
  BY <1>1, <1>2, BoundsAssumption
  DEF TypeOK, AttemptsLeft, Placed, PlacesOf, Locking, Inside, NoLock, Files, Release
<1>6. ASSUME ~stolen' PROVE LockIsOwned'
  BY <1>1, <1>6
  DEF TypeOK, Placed, PlacesOf, Locking, Inside, LockIsOwned, NoLock, Living, Release
<1>7. ASSUME ~stolen' PROVE LeasesAreKept'
  BY <1>1, <1>6, <1>7
  DEF TypeOK, Placed, PlacesOf, Locking, Inside, LockIsOwned, LeasesAreKept, Leasing, Removing,
      Living, HomeOf, Release
<1> QED
  BY <1>3, <1>4, <1>5, <1>6, <1>7

(* A prune begins.                                                         *)
LEMMA LocateKeeps ==
    ASSUME StoreInv, NEW a \in Actors, Locate(a)
    PROVE  StoreInv'
<1> USE NamesAssumption DEF Actors, Calls, Go, StoreInv
<1>1. at' \in [Actors -> Places]
  BY DEF TypeOK, Places, Locking, Inside, Locate
<1>2. Placed'
  BY <1>1 DEF TypeOK, Placed, PlacesOf, Locking, Inside, Locate
<1>3. Living'
  BY <1>1 DEF TypeOK, Placed, PlacesOf, Locking, Inside, Living, HomeOf, Locate
<1>4. AttemptsLeft'
  BY <1>1, BoundsAssumption
  DEF TypeOK, Placed, PlacesOf, Locking, Inside, AttemptsLeft, Locate
<1>5. TypeOK'
  BY <1>1, <1>2, BoundsAssumption
  DEF TypeOK, AttemptsLeft, Placed, PlacesOf, Locking, Inside, NoLock, Files, Locate
<1>6. ASSUME ~stolen' PROVE LockIsOwned'
  BY <1>1, <1>6
  DEF TypeOK, Placed, PlacesOf, Locking, Inside, LockIsOwned, NoLock, Living, Locate
<1>7. ASSUME ~stolen' PROVE LeasesAreKept'
  BY <1>1, <1>6, <1>7
  DEF TypeOK, Placed, PlacesOf, Locking, Inside, LockIsOwned, LeasesAreKept, Leasing, Removing,
      Living, HomeOf, Locate
<1> QED
  BY <1>3, <1>4, <1>5, <1>6, <1>7

(* A call is interrupted.                                                  *)
LEMMA InterruptKeeps ==
    ASSUME StoreInv, NEW a \in Actors, Interrupt(a)
    PROVE  StoreInv'
<1> USE NamesAssumption DEF Actors, Calls, Go, StoreInv
<1>1. at' \in [Actors -> Places]
  BY DEF TypeOK, Places, Locking, Inside, Interrupt
<1>2. Placed'
  BY <1>1 DEF TypeOK, Placed, PlacesOf, Locking, Inside, Interrupt
<1>3. Living'
  BY <1>1 DEF TypeOK, Placed, PlacesOf, Locking, Inside, Living, HomeOf, Interrupt
<1>4. AttemptsLeft'
  BY <1>1, BoundsAssumption
  DEF TypeOK, Placed, PlacesOf, Locking, Inside, AttemptsLeft, Interrupt
<1>5. TypeOK'
  <2>1. interrupts' \in 0..MaxInterrupts
    BY BoundsAssumption DEF TypeOK, Interrupt
  <2>2. aborted' \in [Actors -> BOOLEAN] /\ outcome' \in [Actors -> {"none", "release", "failed"}]
    BY DEF TypeOK, Interrupt
  <2> QED
    BY <1>1, <1>2, <2>1, <2>2 DEF TypeOK, Interrupt
<1>6. ASSUME ~stolen' PROVE LockIsOwned'
  BY <1>1, <1>6
  DEF TypeOK, Placed, PlacesOf, Locking, Inside, LockIsOwned, NoLock, Living, Interrupt
<1>7. ASSUME ~stolen' PROVE LeasesAreKept'
  BY <1>1, <1>6, <1>7
  DEF TypeOK, Placed, PlacesOf, Locking, Inside, LockIsOwned, LeasesAreKept, Leasing, Removing,
      Living, HomeOf, Interrupt
<1> QED
  BY <1>3, <1>4, <1>5, <1>6, <1>7

(* A process that stops leaves everything in the invariant.                *)
LEMMA CrashKeeps ==
    ASSUME StoreInv, NEW p \in Processes, Crash(p)
    PROVE  StoreInv'
<1> USE NamesAssumption DEF Actors, Calls, StoreInv
<1>1. at' \in [Actors -> Places] /\ \A a \in Actors : at'[a] # "dead" => at'[a] = at[a] /\ HomeOf(a) # p
  BY DEF TypeOK, Places, Crash
<1>2. Placed'
  BY <1>1 DEF TypeOK, Placed, PlacesOf, Locking, Inside, Crash
<1>3. Living'
  BY <1>1 DEF Living, HomeOf, Crash
<1>4. AttemptsLeft'
  BY <1>1 DEF AttemptsLeft, Crash
<1>5. TypeOK'
  BY <1>1, <1>2 DEF TypeOK, Crash
<1>6. ASSUME ~stolen' PROVE LockIsOwned'
  BY <1>1, <1>6 DEF LockIsOwned, Inside, Crash
<1>7. ASSUME ~stolen' PROVE LeasesAreKept'
  BY <1>1, <1>7 DEF LeasesAreKept, Leasing, Removing, Crash
<1> QED
  BY <1>3, <1>4, <1>5, <1>6, <1>7

(* Only files of the dead grow old.                                        *)
LEMMA GrowOldKeeps ==
    ASSUME StoreInv, GrowOld
    PROVE  StoreInv'
<1> USE NamesAssumption DEF Actors, Calls, StoreInv
<1>1. TypeOK' /\ Living' /\ AttemptsLeft'
  BY DEF TypeOK, Placed, Living, AttemptsLeft, HomeOf, GrowOld, NoLock, Files, PlacesOf
<1>2. ASSUME ~stolen' PROVE LockIsOwned'
  BY <1>2 DEF TypeOK, LockIsOwned, GrowOld, NoLock
<1>3. ASSUME ~stolen' PROVE LeasesAreKept'
  BY <1>3 DEF TypeOK, LeasesAreKept, Leasing, Removing, Living, HomeOf, Dead, GrowOld
<1> QED
  BY <1>1, <1>2, <1>3

(* The invariant holds at first.                                           *)
LEMMA InitHolds == Init => StoreInv
<1> SUFFICES ASSUME Init PROVE StoreInv
  OBVIOUS
<1> USE NamesAssumption, HomesAssumption, BoundsAssumption DEF Actors, Calls
<1>1. at \in [Actors -> Places] /\ \A a \in Actors : at[a] \in {"idle", "start"}
  BY DEF Init, Places
<1>2. Placed
  BY DEF Init, Placed, PlacesOf
<1>3. TypeOK
  <2>1. tries \in [Actors -> 0..MaxAttempts] /\ interrupts \in 0..MaxInterrupts
    BY DEF Init
  <2>2. home \in [Calls -> Processes] /\ leases \in [Installs -> Files]
    BY DEF Init, Files
  <2> QED
    BY <1>1, <1>2, <2>1, <2>2 DEF Init, TypeOK
<1>4. Living
  BY <1>3 DEF Init, Living, HomeOf, TypeOK
<1>5. AttemptsLeft /\ LockIsOwned /\ LeasesAreKept
  BY <1>1 DEF AttemptsLeft, LockIsOwned, Inside, LeasesAreKept, Leasing, Removing
<1> QED
  BY <1>3, <1>4, <1>5 DEF StoreInv

(* No step leaves the invariant.                                           *)
LEMMA StepKeeps == StoreInv /\ [Next]_vars => StoreInv'
<1> SUFFICES ASSUME StoreInv, [Next]_vars PROVE StoreInv'
  OBVIOUS
<1>1. ASSUME NEW a \in Actors, TakeLock(a) PROVE StoreInv'
  BY <1>1, OpenKeeps, ReadKeeps, StealKeeps, MarkKeeps, UnlockKeeps DEF TakeLock
<1>2. ASSUME NEW a \in Actors, Fly(a) PROVE StoreInv'
  BY <1>2, FindKeeps, FetchKeeps, CheckPublishedKeeps, PublishKeeps DEF Fly
<1>3. ASSUME NEW a \in Actors, Install(a) PROVE StoreInv'
  BY <1>3, JoinKeeps, WaitKeeps, LeaveKeeps, StopKeeps, CheckLeasedKeeps, WriteLeaseKeeps DEF Install
<1>4. ASSUME NEW a \in Actors, Prune(a) PROVE StoreInv'
  BY <1>4, CheckPrunableKeeps, RemoveKeeps DEF Prune
<1>5. ASSUME NEW c \in Installs, Release(c) PROVE StoreInv'
  BY <1>5, ReleaseKeeps DEF Actors, Calls
<1>6. ASSUME NEW c \in Prunes, Locate(c) PROVE StoreInv'
  BY <1>6, LocateKeeps DEF Actors, Calls
<1>7. ASSUME NEW c \in Calls, Interrupt(c) PROVE StoreInv'
  BY <1>7, InterruptKeeps DEF Actors
<1>8. CASE UNCHANGED vars
  BY <1>8 DEF vars, StoreInv, TypeOK, Placed, PlacesOf, Living, HomeOf, AttemptsLeft, LockIsOwned, LeasesAreKept,
     Leasing
<1> QED
  BY <1>1, <1>2, <1>3, <1>4, <1>5, <1>6, <1>7, <1>8, CrashKeeps, GrowOldKeeps DEF Next, Proceed

(* Every variable keeps its type, and the inductive invariant holds.       *)
THEOREM InvariantCorrect == Spec => []StoreInv
BY InitHolds, StepKeeps, PTL DEF Spec

(* The version lock excludes, among any number of processes and calls, as  *)
(* long as no waiter takes the lock of a live process for a dead one's.    *)
THEOREM ExclusionCorrect == Spec => []Exclusion
<1>1. StoreInv => Exclusion
  BY DEF StoreInv, Exclusion, LockIsOwned
<1> QED
  BY <1>1, InvariantCorrect, PTL

(* Types, of the store's specification                                     *)
THEOREM TypeCorrect == Spec => []TypeOK
<1>1. StoreInv => TypeOK
  BY DEF StoreInv
<1> QED
  BY <1>1, InvariantCorrect, PTL

(* No step of anybody touches a variant while a live process holds a lease *)
(* of it, unless a lock was stolen.                                        *)
THEOREM LeasedVariantCorrect == Spec => LeasedVariantStays
<1>1. ASSUME StoreInv, [Next]_vars, NEW c \in Installs, at[c] = "held", ~stolen
      PROVE  variant' = variant
  <2> USE NamesAssumption DEF StoreInv, LeasesAreKept, Leasing, Removing
  <2>1. ASSUME NEW a \in Actors, Publish(a) PROVE variant' = variant
    BY <1>1, <2>1 DEF Publish
  <2>2. ASSUME NEW a \in Actors, Remove(a) PROVE variant' = variant
    BY <1>1, <2>2 DEF Remove
  <2>3. ASSUME NEW a \in Actors, Proceed(a) PROVE variant' = variant
    BY <2>1, <2>2, <2>3
    DEF Proceed, TakeLock, Fly, Install, Prune, Open, Read, Steal, Mark, Unlock, Find, Fetch,
        CheckPublished, Join, Wait, Leave, Stop, CheckLeased, WriteLease, CheckPrunable
  <2> QED
    BY <1>1, <2>3 DEF Next, Release, Locate, Interrupt, Crash, GrowOld, vars
<1>2. StoreInv /\ [Next]_vars
      => [\A c \in Installs : at[c] = "held" /\ ~stolen => variant' = variant]_vars
  BY <1>1
<1> QED
  BY <1>2, InvariantCorrect, PTL DEF Spec, LeasedVariantStays

-----------------------------------------------------------------------------
(* Flights and leases, whether a lock is stolen or not                     *)

(* Whoever waits for a flight or leaves it is counted; while anyone is,    *)
(* nobody stops it; who stops one has its gate.                            *)
FlightInv ==
    /\ \A p \in Processes : waiters[p] = {c \in Installs : home[c] = p /\ at[c] \in {"wait", "leave"}}
    /\ \A p \in Processes : waiters[p] # {} => gate[p] = Nobody /\ at[p] # "idle"
    /\ \A p \in Processes : at[p] # "dead" /\ gate[p] = Nobody => ~aborted[p]
    /\ \A c \in Installs : at[c] = "stop" => gate[home[c]] = c
    /\ \A p \in Processes : at[p] = "dead" => p \notin alive

(* A lease file is one that is being written, one of a lease that is held, *)
(* one of a dead process, or one whose install was interrupted meanwhile.  *)
ScopeInv ==
    \A c \in Installs :
        /\ at[c] \in {"open", "read", "steal", "mark", "check", "write", "confirm"} => outcome[c] = "release"
        /\ leases[c] # "none" =>
              /\ at[c] \in {"confirm", "unlock", "held", "end", "dead"}
              /\ at[c] = "unlock" => outcome[c] = "release"
              /\ at[c] = "end" => aborted[c]

(* Who stops a flight is its last waiter.                                  *)
LEMMA FlightKeeps ==
    ASSUME TypeOK, Living, FlightInv, [Next]_vars
    PROVE  FlightInv'
<1> USE NamesAssumption DEF Actors, Calls, Go, TypeOK, Placed, PlacesOf, Locking, Inside
<1>1. ASSUME NEW a \in Actors, Open(a) PROVE FlightInv'
  BY <1>1 DEF FlightInv, Open, Final
<1>2. ASSUME NEW a \in Actors, Read(a) PROVE FlightInv'
  BY <1>2 DEF FlightInv, Read, Retry
<1>3. ASSUME NEW a \in Actors, Steal(a) PROVE FlightInv'
  BY <1>3 DEF FlightInv, Steal, Retry
<1>4. ASSUME NEW a \in Actors, Mark(a) PROVE FlightInv'
  BY <1>4 DEF FlightInv, Mark
<1>5. ASSUME NEW a \in Actors, Unlock(a) PROVE FlightInv'
  BY <1>5 DEF FlightInv, Unlock, After, Final
<1>6. ASSUME NEW a \in Actors, Find(a) PROVE FlightInv'
  BY <1>6 DEF FlightInv, Find
<1>7. ASSUME NEW a \in Actors, Fetch(a) PROVE FlightInv'
  BY <1>7 DEF FlightInv, Fetch
<1>8. ASSUME NEW a \in Actors, CheckPublished(a) PROVE FlightInv'
  BY <1>8 DEF FlightInv, CheckPublished
<1>9. ASSUME NEW a \in Actors, Publish(a) PROVE FlightInv'
  BY <1>9 DEF FlightInv, Publish
<1>10. ASSUME NEW a \in Actors, Join(a) PROVE FlightInv'
  <2> DEFINE q == home[a]
  <2>1. a \in Installs /\ q \in Processes /\ a # q /\ at[a] = "start" /\ gate[q] = Nobody
    BY <1>10 DEF Join
  <2>2. at' = [at EXCEPT ![a] = "wait", ![q] = IF waiters[q] = {} THEN "find" ELSE at[q]]
        /\ waiters' = [waiters EXCEPT ![q] = waiters[q] \cup {a}]
        /\ UNCHANGED <<alive, home, aborted, gate>>
    BY <1>10 DEF Join
  <2>3. /\ at'[a] = "wait" /\ at'[q] = IF waiters[q] = {} THEN "find" ELSE at[q]
        /\ \A b \in Actors : b # a /\ b # q => at'[b] = at[b]
    BY <2>1, <2>2
  <2>4. ASSUME NEW p \in Processes
        PROVE  waiters'[p] = {c \in Installs : home'[c] = p /\ at'[c] \in {"wait", "leave"}}
    BY <2>1, <2>2, <2>3 DEF FlightInv
  <2>5. ASSUME NEW p \in Processes, waiters'[p] # {}
        PROVE  gate'[p] = Nobody /\ at'[p] # "idle"
    BY <2>1, <2>2, <2>3, <2>5 DEF FlightInv
  <2>6. ASSUME NEW p \in Processes, at'[p] # "dead", gate'[p] = Nobody
        PROVE  ~aborted'[p]
    <3>1. q \in alive
      BY <2>1 DEF Living, HomeOf
    <3> QED
      BY <2>1, <2>2, <2>3, <2>6, <3>1 DEF FlightInv
  <2>7. ASSUME NEW c \in Installs, at'[c] = "stop"
        PROVE  gate'[home'[c]] = c
    BY <2>1, <2>2, <2>3, <2>7 DEF FlightInv
  <2>8. ASSUME NEW p \in Processes, at'[p] = "dead"
        PROVE  p \notin alive'
    BY <2>1, <2>2, <2>3, <2>8 DEF FlightInv
  <2> QED
    BY <2>4, <2>5, <2>6, <2>7, <2>8 DEF FlightInv
<1>11. ASSUME NEW a \in Actors, Wait(a) PROVE FlightInv'
  BY <1>11 DEF FlightInv, Wait
<1>12. ASSUME NEW a \in Actors, Leave(a) PROVE FlightInv'
  BY <1>12 DEF FlightInv, Leave, AfterFlight
<1>13. ASSUME NEW a \in Actors, Stop(a) PROVE FlightInv'
  BY <1>13 DEF FlightInv, Stop, AfterFlight, Reset
<1>14. ASSUME NEW a \in Actors, CheckLeased(a) PROVE FlightInv'
  BY <1>14 DEF FlightInv, CheckLeased
<1>15. ASSUME NEW a \in Actors, WriteLease(a) PROVE FlightInv'
  BY <1>15 DEF FlightInv, WriteLease
<1>16. ASSUME NEW a \in Actors, CheckPrunable(a) PROVE FlightInv'
  BY <1>16 DEF FlightInv, CheckPrunable, Active
<1>17. ASSUME NEW a \in Actors, Remove(a) PROVE FlightInv'
  BY <1>17 DEF FlightInv, Remove
<1>18. ASSUME NEW a \in Installs, Release(a) PROVE FlightInv'
  BY <1>18 DEF FlightInv, Release
<1>19. ASSUME NEW a \in Prunes, Locate(a) PROVE FlightInv'
  BY <1>19 DEF FlightInv, Locate
<1>20. ASSUME NEW a \in Calls, Interrupt(a) PROVE FlightInv'
  BY <1>20 DEF FlightInv, Interrupt
<1>21. ASSUME NEW p \in Processes, Crash(p) PROVE FlightInv'
  BY <1>21 DEF FlightInv, Crash, HomeOf, Living
<1>22. CASE GrowOld
  BY <1>22 DEF FlightInv, GrowOld
<1>23. CASE UNCHANGED vars
  BY <1>23 DEF FlightInv, vars
<1> QED
  BY <1>1, <1>2, <1>3, <1>4, <1>5, <1>6, <1>7, <1>8, <1>9, <1>10, <1>11, <1>12,
     <1>13, <1>14, <1>15, <1>16, <1>17, <1>18, <1>19, <1>20, <1>21, <1>22, <1>23 DEF Next, Proceed, TakeLock, Fly, Install, Prune

(* The finalizer of a lease removes its file.                              *)
LEMMA ScopeKeeps ==
    ASSUME TypeOK, Living, ScopeInv, [Next]_vars
    PROVE  ScopeInv'
<1> USE NamesAssumption DEF Actors, Calls, Go, TypeOK, Placed, PlacesOf, Locking, Inside
<1>1. ASSUME NEW a \in Actors, Open(a) PROVE ScopeInv'
  BY <1>1 DEF ScopeInv, Open, Final
<1>2. ASSUME NEW a \in Actors, Read(a) PROVE ScopeInv'
  BY <1>2 DEF ScopeInv, Read, Retry
<1>3. ASSUME NEW a \in Actors, Steal(a) PROVE ScopeInv'
  BY <1>3 DEF ScopeInv, Steal, Retry
<1>4. ASSUME NEW a \in Actors, Mark(a) PROVE ScopeInv'
  BY <1>4 DEF ScopeInv, Mark
<1>5. ASSUME NEW a \in Actors, Unlock(a) PROVE ScopeInv'
  BY <1>5 DEF ScopeInv, Unlock, After, Final
<1>6. ASSUME NEW a \in Actors, Find(a) PROVE ScopeInv'
  BY <1>6 DEF ScopeInv, Find
<1>7. ASSUME NEW a \in Actors, Fetch(a) PROVE ScopeInv'
  BY <1>7 DEF ScopeInv, Fetch
<1>8. ASSUME NEW a \in Actors, CheckPublished(a) PROVE ScopeInv'
  BY <1>8 DEF ScopeInv, CheckPublished
<1>9. ASSUME NEW a \in Actors, Publish(a) PROVE ScopeInv'
  BY <1>9 DEF ScopeInv, Publish
<1>10. ASSUME NEW a \in Actors, Join(a) PROVE ScopeInv'
  BY <1>10 DEF ScopeInv, Join
<1>11. ASSUME NEW a \in Actors, Wait(a) PROVE ScopeInv'
  BY <1>11 DEF ScopeInv, Wait
<1>12. ASSUME NEW a \in Actors, Leave(a) PROVE ScopeInv'
  BY <1>12 DEF ScopeInv, Leave, AfterFlight
<1>13. ASSUME NEW a \in Actors, Stop(a) PROVE ScopeInv'
  BY <1>13 DEF ScopeInv, Stop, AfterFlight, Reset
<1>14. ASSUME NEW a \in Actors, CheckLeased(a) PROVE ScopeInv'
  BY <1>14 DEF ScopeInv, CheckLeased
<1>15. ASSUME NEW a \in Actors, WriteLease(a) PROVE ScopeInv'
  BY <1>15 DEF ScopeInv, WriteLease
<1>16. ASSUME NEW a \in Actors, CheckPrunable(a) PROVE ScopeInv'
  BY <1>16 DEF ScopeInv, CheckPrunable, Active
<1>17. ASSUME NEW a \in Actors, Remove(a) PROVE ScopeInv'
  BY <1>17 DEF ScopeInv, Remove
<1>18. ASSUME NEW a \in Installs, Release(a) PROVE ScopeInv'
  BY <1>18 DEF ScopeInv, Release
<1>19. ASSUME NEW a \in Prunes, Locate(a) PROVE ScopeInv'
  BY <1>19 DEF ScopeInv, Locate
<1>20. ASSUME NEW a \in Calls, Interrupt(a) PROVE ScopeInv'
  BY <1>20 DEF ScopeInv, Interrupt
<1>21. ASSUME NEW p \in Processes, Crash(p) PROVE ScopeInv'
  BY <1>21 DEF ScopeInv, Crash, HomeOf
<1>22. CASE GrowOld
  BY <1>22 DEF ScopeInv, GrowOld
<1>23. CASE UNCHANGED vars
  BY <1>23 DEF ScopeInv, vars
<1> QED
  BY <1>1, <1>2, <1>3, <1>4, <1>5, <1>6, <1>7, <1>8, <1>9, <1>10, <1>11, <1>12,
     <1>13, <1>14, <1>15, <1>16, <1>17, <1>18, <1>19, <1>20, <1>21, <1>22, <1>23 DEF Next, Proceed, TakeLock, Fly, Install, Prune

(* An install is never cancelled by the interruption of another.           *)
THEOREM WaitersFlyCorrect == Spec => []WaitersFly
<1>1. Init => FlightInv
  BY NamesAssumption DEF Init, FlightInv, Actors, Calls
<1>2. TypeOK /\ Living /\ FlightInv => WaitersFly
  BY NamesAssumption DEF TypeOK, Living, FlightInv, WaitersFly, HomeOf, Actors, Calls
<1>3. StoreInv => TypeOK /\ Living
  BY DEF StoreInv
<1> QED
  BY <1>1, <1>2, <1>3, FlightKeeps, InvariantCorrect, PTL DEF Spec

(* An install that has ended leaves no lease file behind, unless it was    *)
(* interrupted while it took the lease.                                    *)
THEOREM LeasesAreScopedCorrect == Spec => []LeasesAreScoped
<1>1. Init => ScopeInv
  BY NamesAssumption DEF Init, ScopeInv, Actors, Calls
<1>2. ScopeInv => LeasesAreScoped
  BY DEF ScopeInv, LeasesAreScoped
<1>3. StoreInv => TypeOK /\ Living
  BY DEF StoreInv
<1> QED
  BY <1>1, <1>2, <1>3, ScopeKeeps, InvariantCorrect, PTL DEF Spec
=============================================================================
