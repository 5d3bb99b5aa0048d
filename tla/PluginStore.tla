----------------------------- MODULE PluginStore -----------------------------
(***************************************************************************)
(* One variant of the plugin cache (plugin-distribution/src/store.ts) and  *)
(* the installs and prunes of it (distribution.ts), in several processes   *)
(* that share the cache directory and may stop at any time.                *)
(*                                                                         *)
(* A step is one file operation.  The installs of a process share a        *)
(* flight, the fiber that looks for the variant and publishes it; a flight *)
(* bears the name of its process.  Flights, leases and prunes take the     *)
(* variant's lock file.                                                    *)
(***************************************************************************)
EXTENDS Integers, FiniteSets

CONSTANTS
    Processes,      \* also the names of their flights
    Installs,       \* calls of install, each with the scope of its lease
    Prunes,         \* calls of prune with an exact reference
    Homes,          \* [Calls -> Processes]: which process makes which call
    Nobody,
    MaxAttempts,    \* attempts at the lock file (400 in the code, 25 ms apart)
    MaxCrashes,     \* bound: processes that stop
    MaxInterrupts   \* bound: calls that are interrupted

ASSUME NamesAssumption ==
    /\ Processes \cap Installs = {} /\ Processes \cap Prunes = {} /\ Installs \cap Prunes = {}
    /\ Nobody \notin Processes \cup Installs \cup Prunes

Calls == Installs \cup Prunes
ASSUME HomesAssumption == Homes \subseteq [Calls -> Processes]
ASSUME BoundsAssumption == MaxAttempts \in Nat /\ MaxInterrupts \in Nat
Actors == Processes \cup Calls

VARIABLES
    alive,        \* processes that have not stopped
    home,         \* of each call
    at,           \* [Actors -> Places]: what each does next, see PlacesOf
    tries,        \* [Actors -> 0..MaxAttempts]
    aborted,      \* [Actors -> BOOLEAN]: the AbortSignal of its operation
    outcome,      \* [Actors -> {"none", "release", "failed"}]
    waiters,      \* [Processes -> SUBSET Installs]: InstallFlight.waiters
    gate,         \* [Processes -> Installs \cup {Nobody}]: flightGate, held while a flight is stopped
    lock,         \* the lock file, with its creator
    variant,      \* the variant's directory
    leases,       \* [Installs -> Files]: the lease file of each install
    stolen,       \* history: a waiter has removed the lock of a live process
    interrupts

vars == <<alive, home, at, tries, aborted, outcome, waiters, gate, lock, variant, leases, stolen,
          interrupts>>

NoLock == [owner |-> Nobody, text |-> "none"]
(* A file is created empty; an empty one of a dead process grows old.      *)
Files == {"none", "empty", "old", "pid"}

Locking == {"open", "read", "steal"}
Inside == {"mark", "check", "publish", "write", "confirm", "tear", "clear", "forget", "unlock"}
Places == {"idle", "find", "fetch", "done"} \cup {"start", "wait", "leave", "stop", "held", "end"}
          \cup Locking \cup Inside \cup {"dead"}
PlacesOf(a) ==
    Locking \cup {"mark", "check", "unlock", "dead"} \cup
        IF a \in Processes THEN {"idle", "find", "fetch", "done", "publish"}
        ELSE IF a \in Installs
        THEN {"start", "wait", "leave", "stop", "held", "end", "write", "confirm"}
        ELSE {"start", "end", "tear", "clear", "forget"}

HomeOf(a) == IF a \in Processes THEN a ELSE home[a]
(* processLiveness of the pid in a file                                    *)
Dead(a) == HomeOf(a) \notin alive

Go(a, place) == at' = [at EXCEPT ![a] = place]
(* An operation has failed, or succeeded, outside the lock.                *)
Final(a) == IF a \in Processes THEN "done" ELSE "end"

-----------------------------------------------------------------------------
(* The lock: acquireVersionLock                                            *)

(* Mutant of Open: one attempt too many.                                   *)
OpenOnceMore(a) ==
    /\ at[a] = "open"
    /\ \/ /\ aborted[a] \/ tries[a] > MaxAttempts
          /\ Go(a, Final(a))
          /\ outcome' = [outcome EXCEPT ![a] = "failed"]
          /\ UNCHANGED lock
       \/ /\ ~aborted[a] /\ tries[a] <= MaxAttempts
          /\ IF lock = NoLock
             THEN lock' = [owner |-> a, text |-> "empty"] /\ Go(a, "mark")
             ELSE UNCHANGED lock /\ Go(a, "read")
          /\ UNCHANGED outcome
    /\ UNCHANGED <<alive, home, tries, aborted, waiters, gate, variant, leases, stolen, interrupts>>

(* Mutant of Open: the file is created whether it exists or not.           *)
OpenNotExclusive(a) ==
    /\ at[a] = "open"
    /\ lock' = [owner |-> a, text |-> "empty"]
    /\ Go(a, "mark")
    /\ UNCHANGED <<alive, home, tries, aborted, outcome, waiters, gate, variant, leases, stolen,
                   interrupts>>

Open(a) ==
    /\ at[a] = "open"
    /\ \/ /\ aborted[a] \/ tries[a] = MaxAttempts
          /\ Go(a, Final(a))
          /\ outcome' = [outcome EXCEPT ![a] = "failed"]
          /\ UNCHANGED lock
       \/ /\ ~aborted[a] /\ tries[a] # MaxAttempts
          /\ IF lock = NoLock
             THEN lock' = [owner |-> a, text |-> "empty"] /\ Go(a, "mark")
             ELSE UNCHANGED lock /\ Go(a, "read")
          /\ UNCHANGED outcome
    /\ UNCHANGED <<alive, home, tries, aborted, waiters, gate, variant, leases, stolen, interrupts>>

Retry(a) == Go(a, "open") /\ tries' = [tries EXCEPT ![a] = @ + 1]

(* Abandoned: by a dead owner, or before its pid was written.              *)
Abandoned(file, a) == file = "old" \/ (file = "pid" /\ Dead(a))

Read(a) ==
    /\ at[a] = "read"
    /\ IF lock # NoLock /\ Abandoned(lock.text, lock.owner)
       THEN Go(a, "steal") /\ UNCHANGED tries
       ELSE Retry(a)
    /\ UNCHANGED <<alive, home, aborted, outcome, waiters, gate, lock, variant, leases, stolen,
                   interrupts>>

(* Whatever has the name by now is removed.                                *)
Steal(a) ==
    /\ at[a] = "steal"
    /\ lock' = NoLock
    /\ stolen' = (stolen \/ (lock # NoLock /\ ~Dead(lock.owner)))
    /\ Retry(a)
    /\ UNCHANGED <<alive, home, aborted, outcome, waiters, gate, variant, leases, interrupts>>

(* The pid goes to the file that was opened, which may have lost its name. *)
Mark(a) ==
    /\ at[a] = "mark"
    /\ lock' = IF lock.owner = a THEN [lock EXCEPT !.text = "pid"] ELSE lock
    /\ Go(a, "check")
    /\ UNCHANGED <<alive, home, tries, aborted, outcome, waiters, gate, variant, leases, stolen,
                   interrupts>>

(* What the fiber does when the locked operation has ended; an install     *)
(* that was interrupted has gone, and nobody has the finalizer.            *)
After(a) ==
    IF a \in Installs /\ outcome[a] = "release" /\ ~aborted[a] THEN "held" ELSE Final(a)

Unlock(a) ==
    /\ at[a] = "unlock"
    /\ lock' = NoLock
    /\ Go(a, After(a))
    /\ UNCHANGED <<alive, home, tries, aborted, outcome, waiters, gate, variant, leases, stolen,
                   interrupts>>

-----------------------------------------------------------------------------
(* A flight: ensureUncached and publish                                    *)

(* find verifies every file of the variant.                                *)
Find(p) ==
    /\ at[p] = "find"
    /\ Go(p, IF variant = "absent" THEN "fetch" ELSE "done")
    /\ outcome' = [outcome EXCEPT ![p] =
                      CASE variant = "absent" -> "none"
                        [] variant = "torn"   -> "failed"
                        [] variant = "whole"  -> "release"]
    /\ UNCHANGED <<alive, home, tries, aborted, waiters, gate, lock, variant, leases, stolen,
                   interrupts>>

(* The manifest, the artifact and its verification                         *)
Fetch(p) ==
    /\ at[p] = "fetch"
    /\ \/ Go(p, "open") /\ UNCHANGED outcome
       \/ Go(p, "done") /\ outcome' = [outcome EXCEPT ![p] = "failed"]
    /\ UNCHANGED <<alive, home, tries, aborted, waiters, gate, lock, variant, leases, stolen,
                   interrupts>>

CheckPublished(p) ==
    /\ p \in Processes /\ at[p] = "check"
    /\ IF variant = "whole"
       THEN Go(p, "unlock") /\ outcome' = [outcome EXCEPT ![p] = "release"]
       ELSE Go(p, "publish") /\ UNCHANGED outcome
    /\ UNCHANGED <<alive, home, tries, aborted, waiters, gate, lock, variant, leases, stolen,
                   interrupts>>

(* The stage is extracted, unless interrupted, and renamed, which a        *)
(* directory in its place prevents.                                        *)
Publish(p) ==
    /\ at[p] = "publish"
    /\ \/ /\ variant = "absent"
          /\ variant' = "whole"
          /\ outcome' = [outcome EXCEPT ![p] = "release"]
       \/ /\ variant # "absent" \/ aborted[p]
          /\ UNCHANGED variant
          /\ outcome' = [outcome EXCEPT ![p] = "failed"]
    /\ Go(p, "unlock")
    /\ UNCHANGED <<alive, home, tries, aborted, waiters, gate, lock, leases, stolen, interrupts>>

-----------------------------------------------------------------------------
(* An install: joinFlight, then lease                                      *)

Join(c) ==
    LET p == home[c]
    IN  /\ c \in Installs /\ at[c] = "start"
        /\ gate[p] = Nobody
        /\ waiters' = [waiters EXCEPT ![p] = @ \cup {c}]
        /\ at' = [at EXCEPT ![c] = "wait", ![p] = IF waiters[p] = {} THEN "find" ELSE @]
        /\ UNCHANGED <<alive, home, tries, aborted, outcome, gate, lock, variant, leases, stolen,
                       interrupts>>

Wait(c) ==
    /\ at[c] = "wait" /\ at[home[c]] = "done"
    /\ outcome' = [outcome EXCEPT ![c] = outcome[home[c]]]
    /\ Go(c, "leave")
    /\ UNCHANGED <<alive, home, tries, aborted, waiters, gate, lock, variant, leases, stolen,
                   interrupts>>

(* The lease of what the flight has found, or nothing                      *)
AfterFlight(c) == IF outcome[c] = "release" THEN "open" ELSE "end"

Reset(p) ==
    /\ tries' = [tries EXCEPT ![p] = 0]
    /\ aborted' = [aborted EXCEPT ![p] = FALSE]
    /\ outcome' = [outcome EXCEPT ![p] = "none"]

(* Mutant of Leave: whoever leaves stops the flight.                       *)
LeaveAndStop(c) ==
    LET p == home[c]
    IN  /\ at[c] = "leave" /\ gate[p] = Nobody
        /\ waiters' = [waiters EXCEPT ![p] = @ \ {c}]
        /\ gate' = [gate EXCEPT ![p] = c]
        /\ at' = [at EXCEPT ![c] = "stop", ![p] = IF @ \in {"find", "fetch"} THEN "done" ELSE @]
        /\ aborted' = [aborted EXCEPT ![p] = TRUE]
        /\ UNCHANGED <<alive, home, tries, outcome, lock, variant, leases, stolen, interrupts>>

(* The last one out interrupts the flight; find and fetch end at once, and *)
(* publish is waited for.                                                  *)
Leave(c) ==
    LET p == home[c]
    IN  /\ at[c] = "leave" /\ gate[p] = Nobody
        /\ waiters' = [waiters EXCEPT ![p] = @ \ {c}]
        /\ IF waiters[p] # {c}
           THEN Go(c, AfterFlight(c)) /\ UNCHANGED <<gate, aborted>>
           ELSE /\ gate' = [gate EXCEPT ![p] = c]
                /\ at' = [at EXCEPT ![c] = "stop",
                                    ![p] = IF @ \in {"find", "fetch"} THEN "done" ELSE @]
                /\ aborted' = [aborted EXCEPT ![p] = TRUE]
        /\ UNCHANGED <<alive, home, tries, outcome, lock, variant, leases, stolen, interrupts>>

(* Mutant of Stop: the gate is not given back.                             *)
StopKeepingGate(c) ==
    LET p == home[c]
    IN  /\ at[c] = "stop" /\ at[p] = "done"
        /\ at' = [at EXCEPT ![c] = AfterFlight(c), ![p] = "idle"]
        /\ Reset(p)
        /\ UNCHANGED <<alive, home, waiters, gate, lock, variant, leases, stolen, interrupts>>

Stop(c) ==
    LET p == home[c]
    IN  /\ at[c] = "stop" /\ at[p] = "done"
        /\ gate' = [gate EXCEPT ![p] = Nobody]
        /\ at' = [at EXCEPT ![c] = AfterFlight(c), ![p] = "idle"]
        /\ Reset(p)
        /\ UNCHANGED <<alive, home, waiters, lock, variant, leases, stolen, interrupts>>

(* lease: the directory is there, whatever is in it.                       *)
CheckLeased(c) ==
    /\ c \in Installs /\ at[c] = "check"
    /\ IF variant # "absent"
       THEN Go(c, "write") /\ UNCHANGED outcome
       ELSE Go(c, "unlock") /\ outcome' = [outcome EXCEPT ![c] = "failed"]
    /\ UNCHANGED <<alive, home, tries, aborted, waiters, gate, lock, variant, leases, stolen,
                   interrupts>>

WriteLease(c) ==
    /\ \/ at[c] = "write" /\ leases' = [leases EXCEPT ![c] = "empty"] /\ Go(c, "confirm")
       \/ /\ at[c] = "confirm" /\ Go(c, "unlock")
          /\ leases' = [leases EXCEPT ![c] = IF @ = "none" THEN "none" ELSE "pid"]
    /\ UNCHANGED <<alive, home, tries, aborted, outcome, waiters, gate, lock, variant, stolen,
                   interrupts>>

(* Mutant of Release: the lease file stays.                                *)
ReleaseKeepingFile(c) ==
    /\ at[c] = "held"
    /\ Go(c, "end")
    /\ UNCHANGED <<alive, home, tries, aborted, outcome, waiters, gate, lock, variant, leases,
                   stolen, interrupts>>

(* The scope ends.                                                         *)
Release(c) ==
    /\ at[c] = "held"
    /\ leases' = [leases EXCEPT ![c] = "none"]
    /\ Go(c, "end")
    /\ UNCHANGED <<alive, home, tries, aborted, outcome, waiters, gate, lock, variant, stolen,
                   interrupts>>

-----------------------------------------------------------------------------
(* prune                                                                   *)

(* Mutant of Locate: prune does without the lock.                          *)
LocateWithoutLock(c) ==
    /\ c \in Prunes /\ at[c] = "start"
    /\ Go(c, IF variant = "absent" THEN "end" ELSE "check")
    /\ UNCHANGED <<alive, home, tries, aborted, outcome, waiters, gate, lock, variant, leases,
                   stolen, interrupts>>

Locate(c) ==
    /\ c \in Prunes /\ at[c] = "start"
    /\ Go(c, IF variant = "absent" THEN "end" ELSE "open")
    /\ UNCHANGED <<alive, home, tries, aborted, outcome, waiters, gate, lock, variant, leases,
                   stolen, interrupts>>

(* activeLeaseFiles: abandoned ones are removed, all others are active.    *)
Active(c) == leases[c] # "none" /\ ~Abandoned(leases[c], c)

CheckPrunable(c) ==
    /\ c \in Prunes /\ at[c] = "check"
    /\ IF variant = "absent"
       THEN Go(c, "unlock") /\ UNCHANGED leases
       ELSE /\ leases' = [i \in Installs |-> IF Active(i) THEN leases[i] ELSE "none"]
            /\ Go(c, IF \E i \in Installs : Active(i) THEN "unlock" ELSE "tear")
    /\ UNCHANGED <<alive, home, tries, aborted, outcome, waiters, gate, lock, variant, stolen,
                   interrupts>>

(* rm of the variant, file by file, and of its lease directory             *)
Remove(c) ==
    /\ \/ at[c] = "tear" /\ Go(c, "clear") /\ UNCHANGED leases
          /\ variant' = IF variant = "absent" THEN "absent" ELSE "torn"
       \/ at[c] = "clear" /\ variant' = "absent" /\ Go(c, "forget") /\ UNCHANGED leases
       \/ /\ at[c] = "forget" /\ Go(c, "unlock") /\ UNCHANGED variant
          /\ leases' = [i \in Installs |-> "none"]
    /\ UNCHANGED <<alive, home, tries, aborted, outcome, waiters, gate, lock, stolen, interrupts>>

-----------------------------------------------------------------------------
(* Interruption, crashes and time                                          *)

(* Whoever waits for a flight leaves it.  A lease or a prune is abandoned: *)
(* its promise goes on, and sees the signal only before it has the lock.   *)
Interrupt(c) ==
    /\ interrupts < MaxInterrupts
    /\ interrupts' = interrupts + 1
    /\ \/ /\ at[c] = "wait"
          /\ Go(c, "leave")
          /\ outcome' = [outcome EXCEPT ![c] = "failed"]
          /\ UNCHANGED aborted
       \/ /\ at[c] \in Locking \cup Inside /\ ~aborted[c]
          /\ aborted' = [aborted EXCEPT ![c] = TRUE]
          /\ UNCHANGED <<at, outcome>>
    /\ UNCHANGED <<alive, home, tries, waiters, gate, lock, variant, leases, stolen>>

Crash(p) ==
    /\ p \in alive /\ Cardinality(Processes \ alive) < MaxCrashes
    /\ alive' = alive \ {p}
    /\ at' = [a \in Actors |-> IF HomeOf(a) = p THEN "dead" ELSE at[a]]
    /\ waiters' = [waiters EXCEPT ![p] = {}]
    /\ gate' = [gate EXCEPT ![p] = Nobody]
    /\ UNCHANGED <<home, tries, aborted, outcome, lock, variant, leases, stolen, interrupts>>

(* Thirty seconds pass: a live process has written its file long before.   *)
GrowOld ==
    /\ \/ /\ lock.text = "empty" /\ Dead(lock.owner)
          /\ lock' = [lock EXCEPT !.text = "old"]
          /\ UNCHANGED leases
       \/ \E c \in Installs :
             /\ leases[c] = "empty" /\ Dead(c)
             /\ leases' = [leases EXCEPT ![c] = "old"]
             /\ UNCHANGED lock
    /\ UNCHANGED <<alive, home, at, tries, aborted, outcome, waiters, gate, variant, stolen,
                   interrupts>>

-----------------------------------------------------------------------------
Init ==
    /\ alive = Processes
    /\ home \in Homes
    /\ at = [a \in Actors |-> IF a \in Processes THEN "idle" ELSE "start"]
    /\ tries = [a \in Actors |-> 0]
    /\ aborted = [a \in Actors |-> FALSE]
    /\ outcome = [a \in Actors |-> "none"]
    /\ waiters = [p \in Processes |-> {}]
    /\ gate = [p \in Processes |-> Nobody]
    /\ lock = NoLock
    /\ variant \in {"absent", "whole"}
    /\ leases = [c \in Installs |-> "none"]
    /\ stolen = FALSE
    /\ interrupts = 0

TakeLock(a) == Open(a) \/ Read(a) \/ Steal(a) \/ Mark(a) \/ Unlock(a)
Fly(p) == Find(p) \/ Fetch(p) \/ CheckPublished(p) \/ Publish(p)
Install(c) == Join(c) \/ Wait(c) \/ Leave(c) \/ Stop(c) \/ CheckLeased(c) \/ WriteLease(c)
Prune(c) == CheckPrunable(c) \/ Remove(c)
Proceed(a) == TakeLock(a) \/ Fly(a) \/ Install(a) \/ Prune(a)

Next ==
    \/ \E a \in Actors : Proceed(a)
    \/ \E c \in Installs : Release(c)
    \/ \E c \in Prunes : Locate(c)
    \/ \E c \in Calls : Interrupt(c)
    \/ \E p \in Processes : Crash(p)
    \/ GrowOld

Spec == Init /\ [][Next]_vars

(* A process runs the calls it has begun, and fetching ends.               *)
Fairness == \A a \in Actors : WF_vars(Proceed(a))

FairSpec == Spec /\ Fairness

-----------------------------------------------------------------------------
(* Properties                                                              *)

Placed == \A a \in Actors : at[a] \in PlacesOf(a)

(* Each variable keeps its type, and only an install's lease has a file.   *)
TypeOK ==
    /\ alive \subseteq Processes
    /\ home \in [Calls -> Processes]
    /\ at \in [Actors -> Places] /\ Placed
    /\ tries \in [Actors -> 0..MaxAttempts]
    /\ aborted \in [Actors -> BOOLEAN]
    /\ outcome \in [Actors -> {"none", "release", "failed"}]
    /\ waiters \in [Processes -> SUBSET Installs]
    /\ gate \in [Processes -> Installs \cup {Nobody}]
    /\ lock \in {NoLock} \cup [owner : Actors, text : Files \ {"none"}]
    /\ variant \in {"absent", "whole", "torn"}
    /\ leases \in [Installs -> Files]
    /\ stolen \in BOOLEAN
    /\ interrupts \in 0..MaxInterrupts

(* The version lock excludes: unless a waiter took the lock of a live      *)
(* process for that of a dead one (Steal), at most one actor of all        *)
(* processes is inside, whatever stops, is interrupted or times out.       *)
Exclusion == ~stolen => \A a, b \in Actors : at[a] \in Inside /\ at[b] \in Inside => a = b

(* Parts of the inductive invariant: who is not dead lives; attempts at    *)
(* the lock are left; who is inside has the lock file; a lease has its     *)
(* record and its variant, and none is held while a prune removes.         *)
Removing == {"tear", "clear", "forget"}
Leasing(c) == at[c] = "held" \/ (at[c] = "unlock" /\ outcome[c] = "release")
Living == \A a \in Actors : at[a] # "dead" => HomeOf(a) \in alive
AttemptsLeft == \A a \in Actors : at[a] \in {"read", "steal"} => tries[a] < MaxAttempts
LockIsOwned == \A a \in Actors : at[a] \in Inside => lock.owner = a
LeasesAreKept ==
    /\ \A c \in Installs : Leasing(c) => leases[c] = "pid" /\ variant # "absent"
    /\ \A c \in Installs : at[c] \in {"write", "confirm"} => variant # "absent"
    /\ \A c \in Installs : at[c] = "confirm" => leases[c] = "empty"
    /\ \A c \in Installs, a \in Actors : at[a] \in Removing => at[c] # "held"

(* The inductive invariant, of behaviours in which no lock is stolen       *)
StoreInv ==
    TypeOK /\ Living /\ AttemptsLeft /\ (~stolen => LockIsOwned /\ LeasesAreKept)

(* README.md:61-62 of the package: prune "refuses an active lease".  While *)
(* a live process holds a lease, no publish and no prune touches the       *)
(* variant, unless a waiter removed the lock of a live process: two that   *)
(* both read the pid of a dead owner break the lock one after the other.   *)
LeasedVariantStays ==
    [][\A c \in Installs : at[c] = "held" /\ ~stolen => variant' = variant]_vars

(* Who waits for a flight waits for one that runs and that nobody has      *)
(* stopped: an install is never cancelled by the interruption of another.  *)
WaitersFly ==
    \A c \in Installs :
        at[c] = "wait" => /\ c \in waiters[home[c]]
                          /\ at[home[c]] # "idle" /\ ~aborted[home[c]]

(* "The install scope is the lease lifetime": an install that has ended    *)
(* leaves no lease file behind.  The exception is one that is interrupted  *)
(* while it takes the lease: its promise writes the file all the same.     *)
LeasesAreScoped ==
    \A c \in Installs : at[c] = "end" /\ leases[c] # "none" => aborted[c]

(* Every install a live process makes and every prune it has begun ends,   *)
(* with success or without: no flight, gate or lock is waited for in vain. *)
CallsEnd ==
    <>[](/\ \A c \in Installs : at[c] \in {"held", "end", "dead"}
         /\ \A c \in Prunes : at[c] \in {"start", "end", "dead"})
=============================================================================
