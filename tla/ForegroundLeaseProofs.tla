------------------------ MODULE ForegroundLeaseProofs ------------------------
(***************************************************************************)
(* Proofs about ForegroundLease, for any number of holds, faults, closes   *)
(* and restarts, and any times that TimingAssumption admits.               *)
(***************************************************************************)
EXTENDS ForegroundLease, FiniteSetTheorems, TLAPS

HoldStates ==
    [tag : Tags, lease : Nat, target : Nat, failures : Nat, age : Nat, sleep : Nat]

Calls ==
    [op : {"negotiate", "acquire", "renew", "release"}, lost : BOOLEAN, left : Nat, request : Request]

TableOK(table) ==
    /\ IsFiniteSet(DOMAIN table) /\ Cardinality(DOMAIN table) <= MaxLeases
    /\ DOMAIN table \subseteq Nat \ {NoLease}
    /\ \A id \in DOMAIN table : table[id] \in [hold : Holds, left : 0..Ttl]

LateOK == IsABag(late) /\ BagToSet(late) \subseteq Request /\ IsFiniteSet(BagToSet(late))

CountersOK ==
    /\ restarts \in 0..MaxRestarts /\ process = restarts + 1
    /\ faults \in [renewals : Nat, others : Nat]
    /\ closes \in [settled : Nat, acquiring : Nat]

(* A call is one its hold would make now.                                  *)
Fits(h, s, c) ==
    /\ c = NoCall => s.tag # "Connecting"
    /\ c # NoCall =>
          /\ c.request.hold = h /\ c.request.op = c.op
          /\ c.left <= IF c.lost THEN Timeout(c.op) ELSE MaxDelay
          /\ c.op = "renew" =>
                s.tag = "Held" /\ c.request.lease = s.lease /\ c.request.process = s.target
          /\ c.op = "release" => s.tag = "Off"
          /\ c.op \in {"negotiate", "acquire"} => s.tag \in {"Connecting", "Held", "Lapsed"}

(* The age at which a hold sends its next renewal, or sent this one        *)
Start(s, c) ==
    IF c = NoCall THEN s.age + s.sleep
    ELSE IF c.lost THEN s.age - (RenewEvery - c.left)
    ELSE s.age - (MaxDelay - c.left)

(* Failed renewals come ever later, and the last of them is sent before    *)
(* the hold is too old to send one.                                        *)
Timely(s, c) ==
    s.tag = "Held" /\ (c = NoCall \/ c.op = "renew") =>
       /\ s.failures = 0 => Start(s, c) = RenewEvery
       /\ s.failures > 0 =>
             /\ Start(s, c) >= RenewEvery + 2 * Backoff(s.failures) - Second
             /\ Start(s, c) <= 2 * Ttl - 2 - RenewEvery + Second

Good(h, s, c) ==
    /\ s \in HoldStates /\ c \in Calls \cup {NoCall}
    /\ s.tag = "Held" <=> s.lease # NoLease
    /\ Fits(h, s, c)
    /\ Timely(s, c)

ClientsOK ==
    /\ hold = [h \in Holds |-> hold[h]] /\ call = [h \in Holds |-> call[h]]
    /\ \A h \in Holds : Good(h, hold[h], call[h])

(* An answer is one that the editor gives to the request.                  *)
Answers(r, o) ==
    /\ o.lease \in Nat /\ o.process \in Nat
    /\ o.status = "manifest" <=> r.op = "negotiate"
    /\ o.status = "granted" => r.op = "acquire" /\ o.lease # NoLease
    /\ o.status = "renewed" => r.op = "renew" /\ o.lease = r.lease
    /\ o.status = "expired" => r.op = "renew"
    /\ r.op = "renew" => o.status \in {"renewed", "expired", "rejected"}
    /\ r.op = "release" => o.status \in {"released", "rejected"}
    /\ r.op = "acquire" => o.status \in {"granted", "rejected"}

AnswersOK ==
    /\ answer = [h \in Holds |-> answer[h]]
    /\ \A h \in Holds : answer[h] # NoAnswer =>
          call[h] # NoCall /\ ~call[h].lost /\ Answers(call[h].request, answer[h])

LeaseInv == CountersOK /\ TableOK(leases) /\ LateOK /\ ClientsOK /\ AnswersOK

(* At most one request was disturbed, a renewal, and there is time for it. *)
OneLost ==
    /\ 2 * (Ttl \div 3) + Second + 2 * MaxDelay < Ttl
    /\ restarts = 0 /\ faults.others = 0 /\ faults.renewals <= 1

(* Renewals fail as often as they were disturbed.                          *)
Steady(s, c, disturbed) ==
    /\ c = NoCall \/ c.op = "renew"
    /\ s.failures + (IF c # NoCall /\ c.lost THEN 1 ELSE 0) <= disturbed
    /\ s.failures > 0 => Start(s, c) <= 2 * RenewEvery + Second

(* The editor has a lease of h that it renewed no longer ago than elapsed. *)
HasLease(h, id, table, elapsed) ==
    id \in DOMAIN table /\ table[id].hold = h /\ table[id].left >= Ttl - elapsed

(* A hold counts the age of its lease from the answer, which took time.    *)
IsServed(h) ==
    /\ hold[h].target = process
    /\ Steady(hold[h], call[h], faults.renewals)
    /\ HasLease(h, hold[h].lease, leases, MaxDelay + hold[h].age)

(* What the editor granted or renewed, it still has when the answer comes. *)
Stands(h) ==
    answer[h] # NoAnswer =>
       /\ call[h].op = "renew" => answer[h].status = "renewed"
       /\ answer[h].status = "granted" => call[h].request.process = process
       /\ answer[h].status \in {"granted", "renewed"} =>
             HasLease(h, answer[h].lease, leases, MaxDelay - call[h].left)

Serves(h) == (Held(h) => IsServed(h)) /\ Stands(h)

OneLostInv ==
    OneLost => (\A r \in BagToSet(late) : r.op # "release") /\ \A h \in Holds : Serves(h)

(* The request with which h would acquire a lease of the editor that runs  *)
AcquireOf(h) == [hold |-> h, op |-> "acquire", lease |-> NoLease, process |-> process]

Copies(r, bag) == IF r \in BagToSet(bag) THEN bag[r] ELSE 0

(* How many leases the editor may still grant h although nobody asks       *)
Ungranted(h) == Copies(AcquireOf(h), late)

Releasing(h) == call[h] # NoCall /\ call[h].op = "release"
Acquiring(h) == call[h] # NoCall /\ call[h].op \in {"negotiate", "acquire"}

(* The editor granted h a lease, and the answer is on its way.             *)
Granted(h) == answer[h].status = "granted"

(* The lease a hold keeps, gives back or is about to be told of, and the   *)
(* process that has it                                                     *)
Tended(h) ==
    IF Releasing(h) THEN call[h].request.lease
    ELSE IF Granted(h) THEN answer[h].lease ELSE hold[h].lease

TendedAt(h) == IF Releasing(h) \/ Granted(h) THEN call[h].request.process ELSE hold[h].target

(* A renewal or a release of h was disturbed, and h has not yet forgotten  *)
(* the lease for it.                                                       *)
Doubtful(h) ==
    \/ Held(h) /\ hold[h].failures > 0
    \/ call[h] # NoCall /\ call[h].lost /\ call[h].op \in {"renew", "release"}

(* Leases that h does not tend, grants nobody waits for and a lease that h *)
(* may be about to forget are all due to requests with no answer heard.    *)
Accounted(h) ==
    Cardinality(LiveLeases(h) \ {Tended(h)}) + Ungranted(h) + (IF Doubtful(h) THEN 1 ELSE 0) <= Unheard

(* The editor no longer has the lease of a hold that acquires again, of    *)
(* one whose process has ended, and of one that it sent a refusal.         *)
GoneFirst(h) ==
    /\ Held(h) /\ Acquiring(h) => hold[h].lease \notin LiveLeases(h)
    /\ \/ TendedAt(h) # process
       \/ answer[h].status \in {"expired", "rejected", "released"}
       => Tended(h) \notin LiveLeases(h)

AcquiresCurrent ==
    /\ \A r \in BagToSet(late) : r.op = "acquire" => r = AcquireOf(r.hold)
    /\ \A h \in Holds : call[h] # NoCall /\ call[h].op = "acquire" => call[h].request.lease = NoLease

LeasesInv == AcquiresCurrent /\ \A h \in Holds : Accounted(h) /\ GoneFirst(h)

-----------------------------------------------------------------------------

(* Arithmetic of the timers                                                *)

LEMMA RenewEveryIsAThird ==
    RenewEvery \in Nat /\ MaxDelay < RenewEvery /\ 3 * RenewEvery <= Ttl
<1>1. ASSUME NEW n \in Nat
      PROVE  n \div 3 \in Nat /\ 3 * (n \div 3) <= n
  OBVIOUS
<1> QED
  BY <1>1, TimingAssumption DEF RenewEvery

LEMMA BackoffDoubles ==
    ASSUME NEW f \in Nat \ {0}
    PROVE  /\ Backoff(f) \in Nat /\ Backoff(f) >= Second
           /\ Backoff(1) = Second
           /\ Backoff(f + 1) \in Nat /\ Backoff(f + 1) <= 2 * Backoff(f)
           /\ Backoff(f) <= Backoff(f + 1)
<1>1. ASSUME NEW k \in 1..6
      PROVE  /\ <<1, 2, 4, 8, 16, 30>>[k] \in 1..30
             /\ <<1, 2, 4, 8, 16, 30>>[1] = 1
             /\ k < 6 => /\ <<1, 2, 4, 8, 16, 30>>[k + 1] <= 2 * <<1, 2, 4, 8, 16, 30>>[k]
                         /\ <<1, 2, 4, 8, 16, 30>>[k] <= <<1, 2, 4, 8, 16, 30>>[k + 1]
  OBVIOUS
<1>2. ASSUME NEW a \in 1..30, NEW b \in 1..30, a <= b, b <= 2 * a
      PROVE  /\ a * Second \in Nat /\ a * Second >= Second
             /\ b * Second \in Nat /\ b * Second <= 2 * (a * Second)
             /\ a * Second <= b * Second
  BY <1>2, TimingAssumption
<1>3. CASE f < 6
  BY <1>1, <1>2, <1>3, TimingAssumption DEF Backoff
<1>4. CASE f >= 6
  BY <1>1, <1>2, <1>4, TimingAssumption DEF Backoff
<1> QED
  BY <1>3, <1>4

LEMMA TimeoutsAreLong ==
    ASSUME NEW op \in {"negotiate", "acquire", "renew", "release"}
    PROVE  Timeout(op) \in Nat /\ MaxDelay <= Timeout(op)
  BY RenewEveryIsAThird, TimingAssumption DEF Timeout

-----------------------------------------------------------------------------
(* Requests without a caller                                               *)

LEMMA BagAdds ==
    ASSUME NEW b, IsABag(b), NEW e
    PROVE  IsABag(b (+) SetToBag({e})) /\ BagToSet(b (+) SetToBag({e})) = BagToSet(b) \cup {e}
  BY DEF IsABag, SetToBag, BagToSet, (+)

LEMMA BagRemoves ==
    ASSUME NEW b, IsABag(b), NEW e
    PROVE  IsABag(b (-) SetToBag({e})) /\ BagToSet(b (-) SetToBag({e})) \subseteq BagToSet(b)
  BY DEF IsABag, SetToBag, BagToSet, (-)

LEMMA BagEmpty == IsABag(EmptyBag) /\ BagToSet(EmptyBag) = {}
  BY DEF IsABag, EmptyBag, SetToBag, BagToSet

LEMMA AbandonKeepsLate ==
    ASSUME NEW h \in Holds, LeaseInv, Abandon(h)
    PROVE  /\ LateOK'
           /\ \A r \in BagToSet(late') : r \in BagToSet(late) \/ (call[h] # NoCall /\ r = call[h].request)
<1>1. CASE UNCHANGED late
  BY <1>1 DEF LeaseInv, LateOK, IsABag, BagToSet
<1>2. CASE call[h] # NoCall /\ late' = late (+) SetToBag({call[h].request})
  <2>1. call[h].request \in Request
    BY <1>2 DEF LeaseInv, ClientsOK, Good, Calls
  <2>2. IsABag(late') /\ BagToSet(late') = BagToSet(late) \cup {call[h].request}
    BY <1>2, BagAdds DEF LeaseInv, LateOK
  <2>3. IsFiniteSet(BagToSet(late'))
    BY <2>2, FS_AddElement DEF LeaseInv, LateOK
  <2> QED
    BY <1>2, <2>1, <2>2, <2>3 DEF LeaseInv, LateOK, IsABag, BagToSet
<1> QED
  BY <1>1, <1>2 DEF Abandon

-----------------------------------------------------------------------------
(* The editor                                                              *)

LEMMA ImageIsFinite ==
    ASSUME NEW S, IsFiniteSet(S), NEW f
    PROVE  IsFiniteSet({f[x] : x \in S})
<1> DEFINE g == [x \in S |-> f[x]]
<1>1. g \in Surjection(S, {f[x] : x \in S})
  BY DEF Surjection
<1> QED
  BY <1>1, FS_Surjection

(* There is always an id that nobody knows.                                *)
LEMMA FreshIdIsNew ==
    ASSUME LeaseInv
    PROVE  /\ FreshId \in Nat \ {NoLease} /\ FreshId \notin DOMAIN leases
           /\ \A h \in Holds : /\ FreshId # hold[h].lease /\ FreshId # answer[h].lease
                               /\ call[h] # NoCall => FreshId # call[h].request.lease
<1> DEFINE Calling == {g \in Holds : call[g] # NoCall}
<1> DEFINE InUse == DOMAIN leases \cup {hold[h].lease : h \in Holds} \cup {answer[h].lease : h \in Holds}
                    \cup {r.lease : r \in BagToSet(late)} \cup {call[h].request.lease : h \in Calling}
<1>1. IsFiniteSet(InUse)
  <2>1. IsFiniteSet({hold[h].lease : h \in Holds})
    <3> DEFINE f == [h \in Holds |-> hold[h].lease]
    <3>1. IsFiniteSet({f[h] : h \in Holds})
      BY ImageIsFinite, BoundsAssumption
    <3>2. {f[h] : h \in Holds} = {hold[h].lease : h \in Holds}
      OBVIOUS
    <3> QED
      BY <3>1, <3>2
  <2>2. IsFiniteSet({r.lease : r \in BagToSet(late)})
    <3> DEFINE f == [r \in BagToSet(late) |-> r.lease]
    <3>1. IsFiniteSet({f[r] : r \in BagToSet(late)})
      BY ImageIsFinite DEF LeaseInv, LateOK
    <3>2. {f[r] : r \in BagToSet(late)} = {r.lease : r \in BagToSet(late)}
      OBVIOUS
    <3> QED
      BY <3>1, <3>2
  <2>3. IsFiniteSet({call[h].request.lease : h \in Calling})
    <3> DEFINE f == [h \in Calling |-> call[h].request.lease]
    <3>1. IsFiniteSet(Calling)
      BY FS_Subset, BoundsAssumption
    <3>3. {f[h] : h \in Calling} = {call[h].request.lease : h \in Calling}
      OBVIOUS
    <3> HIDE DEF f, Calling
    <3>2. IsFiniteSet({f[h] : h \in Calling})
      BY <3>1, ImageIsFinite
    <3> QED
      BY <3>2, <3>3
  <2>4. IsFiniteSet({answer[h].lease : h \in Holds})
    <3> DEFINE f == [h \in Holds |-> answer[h].lease]
    <3>1. IsFiniteSet({f[h] : h \in Holds})
      BY ImageIsFinite, BoundsAssumption
    <3>2. {f[h] : h \in Holds} = {answer[h].lease : h \in Holds}
      OBVIOUS
    <3> QED
      BY <3>1, <3>2
  <2> QED
    BY <2>1, <2>2, <2>3, <2>4, FS_Union DEF LeaseInv, TableOK
<1> DEFINE n == Cardinality(InUse) + 1
<1>2. \E id \in 1..n : id \notin InUse
  <2>1. n \in Nat
    BY <1>1, FS_CardinalityType
  <2>2. Cardinality(1..n) = n
    BY <2>1, FS_Interval
  <2>3. ~(1..n \subseteq InUse)
    <3>1. 1..n \in SUBSET InUse => Cardinality(1..n) <= Cardinality(InUse)
      BY <1>1, FS_Subset
    <3> QED
      BY <1>1, <2>2, <3>1, FS_CardinalityType
  <2> QED
    BY <2>3
<1>3. FreshId \in 1..n /\ FreshId \notin InUse
  BY <1>2 DEF FreshId
<1> QED
  BY <1>1, <1>3, FS_CardinalityType DEF NoLease

LEMMA PruneKeeps ==
    ASSUME TableOK(leases)
    PROVE  /\ TableOK(Prune(leases))
           /\ \A id : id \in DOMAIN Prune(leases) <=> id \in DOMAIN leases /\ leases[id].left > 0
           /\ \A id \in DOMAIN Prune(leases) : Prune(leases)[id] = leases[id]
<1> DEFINE Live == {id \in DOMAIN leases : leases[id].left > 0}
<1>1. Prune(leases) = [id \in Live |-> leases[id]]
  BY DEF Prune, Restrict
<1>2. IsFiniteSet(Live) /\ Cardinality(Live) <= Cardinality(DOMAIN leases)
  BY FS_Subset DEF TableOK
<1>3. Cardinality(Live) \in Nat /\ Cardinality(DOMAIN leases) \in Nat
  BY <1>2, FS_CardinalityType DEF TableOK
<1> QED
  BY <1>1, <1>2, <1>3, BoundsAssumption DEF TableOK

(* What the editor answers, and what becomes of its table                  *)
LEMMA EditorAnswers ==
    ASSUME LeaseInv, NEW r \in Request, NEW o, o = Editor(r)
    PROVE  /\ TableOK(o.leases)
           /\ o.status \in {"manifest", "rejected", "expired", "released"} \/ o.status \in {"granted", "renewed"}
           /\ o.status = "manifest" <=> r.op = "negotiate"
           /\ o.status = "granted" =>
                 /\ r.op = "acquire" /\ r.process = process
                 /\ o.lease \in Nat \ {NoLease} /\ o.lease \in DOMAIN o.leases
                 /\ o.leases[o.lease] = [hold |-> r.hold, left |-> Ttl]
           /\ o.status = "renewed" =>
                 /\ r.op = "renew"
                 /\ r.lease \in DOMAIN o.leases /\ o.leases[r.lease] = [hold |-> r.hold, left |-> Ttl]
           /\ o.status = "expired" => r.op = "renew"
           /\ r.op = "release" => o.status \in {"released", "rejected"}
           /\ r.op = "acquire" => o.status \in {"granted", "rejected"}
<1> DEFINE table == Prune(leases)
<1>0. TableOK(leases) /\ TableOK(table)
  BY PruneKeeps DEF LeaseInv
<1>1. CASE r.op = "negotiate"
  BY <1>0, <1>1 DEF Editor, Outcome
<1>2. CASE r.op # "negotiate" /\ r.process # process
  BY <1>0, <1>2 DEF Editor, Outcome
<1>3. CASE r.op = "acquire" /\ r.process = process
  <2>1. Editor(r) = Acquire(r)
    BY <1>3 DEF Editor
  <2>2. CASE Cardinality(DOMAIN table) >= MaxLeases
    BY <1>0, <1>3, <2>1, <2>2 DEF Acquire, Outcome
  <2>3. CASE ~(Cardinality(DOMAIN table) >= MaxLeases)
    <3> DEFINE new == [id \in DOMAIN table \cup {FreshId} |->
                          IF id = FreshId THEN [hold |-> r.hold, left |-> Ttl] ELSE table[id]]
    <3>1. o = Outcome("granted", new, FreshId)
      BY <2>1, <2>3 DEF Acquire, Grant
    <3>2. /\ IsFiniteSet(DOMAIN new) /\ Cardinality(DOMAIN new) <= MaxLeases
      <4>1. Cardinality(DOMAIN table) \in Nat
        BY <1>0, FS_CardinalityType DEF TableOK
      <4>2. /\ IsFiniteSet(DOMAIN table \cup {FreshId})
            /\ \/ Cardinality(DOMAIN table \cup {FreshId}) = Cardinality(DOMAIN table)
               \/ Cardinality(DOMAIN table \cup {FreshId}) = Cardinality(DOMAIN table) + 1
        BY <1>0, FS_AddElement DEF TableOK
      <4>3. DOMAIN new = DOMAIN table \cup {FreshId}
        OBVIOUS
      <4> HIDE DEF table, new
      <4> QED
        BY <2>3, <4>1, <4>2, <4>3, BoundsAssumption
    <3>3. FreshId \in Nat \ {NoLease}
      BY FreshIdIsNew
    <3>4. [hold |-> r.hold, left |-> Ttl] \in [hold : Holds, left : 0..Ttl]
      BY TimingAssumption DEF Request
    <3>5. TableOK(new) /\ FreshId \in DOMAIN new /\ new[FreshId] = [hold |-> r.hold, left |-> Ttl]
      BY <1>0, <3>2, <3>3, <3>4 DEF TableOK
    <3>6. o.leases = new /\ o.status = "granted" /\ o.lease = FreshId
      BY <3>1 DEF Outcome
    <3> HIDE DEF new
    <3> QED
      BY <1>3, <3>3, <3>5, <3>6
  <2> QED
    BY <2>2, <2>3
<1>4. CASE r.op = "renew" /\ r.process = process
  <2>1. o = Renew(r)
    BY <1>4 DEF Editor
  <2> DEFINE new == [table EXCEPT ![r.lease].left = Ttl]
  <2>2. ASSUME r.lease \in DOMAIN table
        PROVE  /\ TableOK(new) /\ r.lease \in DOMAIN new
               /\ new[r.lease] = [hold |-> table[r.lease].hold, left |-> Ttl]
    BY <1>0, <2>2, TimingAssumption DEF TableOK
  <2>3. CASE r.lease \in DOMAIN table /\ table[r.lease].hold = r.hold
    <3>1. o.status = "renewed" /\ o.leases = new
      BY <2>1, <2>3 DEF Renew, Outcome
    <3> HIDE DEF new
    <3> QED
      BY <1>4, <2>2, <2>3, <3>1
  <2>4. CASE r.lease \notin DOMAIN table \/ table[r.lease].hold # r.hold
    <3>1. o.status \in {"expired", "rejected"} /\ o.leases = table
      BY <2>1, <2>4 DEF Renew, Outcome
    <3> QED
      BY <1>0, <1>4, <3>1
  <2> QED
    BY <2>3, <2>4
<1>5. CASE r.op = "release" /\ r.process = process
  <2>1. o = Release(r)
    BY <1>5 DEF Editor
  <2>2. TableOK(Restrict(table, DOMAIN table \ {r.lease}))
    <3>1. IsFiniteSet(DOMAIN table \ {r.lease})
          /\ Cardinality(DOMAIN table \ {r.lease}) <= Cardinality(DOMAIN table)
      BY <1>0, FS_Subset DEF TableOK
    <3>2. Cardinality(DOMAIN table \ {r.lease}) \in Nat /\ Cardinality(DOMAIN table) \in Nat
      BY <1>0, <3>1, FS_CardinalityType DEF TableOK
    <3> QED
      BY <1>0, <3>1, <3>2, BoundsAssumption DEF TableOK, Restrict
  <2> QED
    BY <1>0, <1>5, <2>1, <2>2 DEF Release, Outcome
<1> QED
  BY <1>1, <1>2, <1>3, <1>4, <1>5 DEF Request

LEMMA EditorNamesLease ==
    ASSUME LeaseInv, NEW r \in Request, NEW o, o = Editor(r)
    PROVE  /\ o.lease \in Nat
           /\ o.status = "renewed" => o.lease = r.lease
           /\ r.op = "renew" => o.status \in {"renewed", "expired", "rejected"}
<1>1. FreshId \in Nat /\ NoLease \in Nat /\ r.lease \in Nat
  BY FreshIdIsNew DEF NoLease, Request
<1> QED
  BY <1>1 DEF Editor, Acquire, Grant, Renew, Release, Outcome, Request

LEMMA EditorGivesAnswers ==
    ASSUME LeaseInv, NEW r \in Request, NEW o, o = Editor(r)
    PROVE  Answers(r, [status |-> o.status, lease |-> o.lease, process |-> process])
<1>1. process \in Nat
  BY DEF LeaseInv, CountersOK
<1> QED
  BY <1>1, EditorAnswers, EditorNamesLease DEF Answers


-----------------------------------------------------------------------------
(* One hold and its call                                                   *)

USE DEF HoldStates

LEMMA IdleIsGood ==
    ASSUME NEW h \in Holds
    PROVE  /\ Good(h, Off, NoCall) /\ Good(h, Waiting, NoCall)
           /\ \A f \in Nat \ {0} : Good(h, Lapsed(f), NoCall)
  BY BackoffDoubles DEF Good, Fits, Timely, Off, Waiting, Lapsed, Tags, NoLease, NoCall

LEMMA GrantedIsGood ==
    ASSUME NEW h \in Holds, NEW id \in Nat \ {NoLease}, NEW target \in Nat
    PROVE  Good(h, Hold(id, target), NoCall)
  BY RenewEveryIsAThird DEF Good, Fits, Timely, Start, Hold, Tags, NoLease, NoCall

LEMMA RenewedIsGood ==
    ASSUME NEW h \in Holds, NEW s, NEW c, Good(h, s, c), c # NoCall, c.op = "renew"
    PROVE  Good(h, [s EXCEPT !.failures = 0, !.age = 0, !.sleep = RenewEvery], NoCall)
<1> DEFINE t == [s EXCEPT !.failures = 0, !.age = 0, !.sleep = RenewEvery]
<1>1. s \in HoldStates /\ s.tag = "Held" /\ s.lease # NoLease
  BY DEF Good, Fits
<1>2. t \in HoldStates /\ t.tag = "Held" /\ t.lease = s.lease
      /\ t.failures = 0 /\ t.age = 0 /\ t.sleep = RenewEvery
  BY <1>1, RenewEveryIsAThird
<1>3. Good(h, t, NoCall)
  <2> HIDE DEF t
  <2> QED
    BY <1>1, <1>2, RenewEveryIsAThird DEF Good, Fits, Timely, Start
<1> QED
  BY <1>3

LEMMA CallIsMade ==
    ASSUME NEW h \in Holds, NEW lease \in Nat, NEW target \in Nat, NEW op, NEW d,
           op \in {"negotiate", "acquire", "renew", "release"}, d = Call(h, op, lease, target)
    PROVE  /\ d \in Calls /\ d # NoCall /\ d.op = op /\ ~d.lost /\ d.left = MaxDelay
           /\ d.request.hold = h /\ d.request.op = op
           /\ d.request.lease = lease /\ d.request.process = target
  BY TimingAssumption DEF Call, Calls, Request, NoCall

LEMMA NewCallIsGood ==
    ASSUME NEW h \in Holds, NEW s, NEW target \in Nat, NEW c, Good(h, s, c)
    PROVE  /\ s.tag \in {"Connecting", "Held", "Lapsed"} => Good(h, s, Negotiate(h))
           /\ s.tag \in {"Off", "Waiting"} => Good(h, [s EXCEPT !.tag = "Connecting"], Negotiate(h))
           /\ s.tag \in {"Connecting", "Held", "Lapsed"} => Good(h, s, Call(h, "acquire", NoLease, target))
           /\ s.tag = "Held" => Good(h, Off, Call(h, "release", s.lease, s.target))
           /\ s.tag = "Held" /\ c = NoCall /\ s.sleep = 0 => Good(h, s, Call(h, "renew", s.lease, s.target))
<1>1. s \in HoldStates /\ s.lease \in Nat /\ s.target \in Nat
  BY DEF Good
<1>2. ASSUME NEW d, d = Negotiate(h), s.tag \in {"Connecting", "Held", "Lapsed"}
      PROVE  Good(h, s, d)
  <2>1. NoLease \in Nat /\ 0 \in Nat
    BY DEF NoLease
  <2>2. d \in Calls /\ d # NoCall /\ d.op = "negotiate" /\ ~d.lost /\ d.left = MaxDelay
        /\ d.request.hold = h /\ d.request.op = "negotiate"
    <3>1. d = Call(h, "negotiate", NoLease, 0)
      BY <1>2 DEF Negotiate
    <3> QED
      BY <2>1, <3>1, CallIsMade
  <2> QED
    BY <1>1, <1>2, <2>2, TimingAssumption DEF Good, Fits, Timely
<1>3. ASSUME NEW d, d = Negotiate(h), s.tag \in {"Off", "Waiting"},
             NEW t, t = [s EXCEPT !.tag = "Connecting"]
      PROVE  Good(h, t, d)
  <2>1. NoLease \in Nat /\ 0 \in Nat
    BY DEF NoLease
  <2>2. d \in Calls /\ d # NoCall /\ d.op = "negotiate" /\ ~d.lost /\ d.left = MaxDelay
        /\ d.request.hold = h /\ d.request.op = "negotiate"
    BY <1>3, <2>1, CallIsMade DEF Negotiate
  <2>3. t \in HoldStates /\ t.tag = "Connecting" /\ t.lease = s.lease /\ s.lease = NoLease
    BY <1>1, <1>3 DEF Good, Tags
  <2> QED
    BY <2>2, <2>3, TimingAssumption DEF Good, Fits, Timely
<1>4. ASSUME NEW d, d = Call(h, "acquire", NoLease, target), s.tag \in {"Connecting", "Held", "Lapsed"}
      PROVE  Good(h, s, d)
  <2>1. NoLease \in Nat /\ 0 \in Nat
    BY DEF NoLease
  <2>2. d \in Calls /\ d # NoCall /\ d.op = "acquire" /\ ~d.lost /\ d.left = MaxDelay
        /\ d.request.hold = h /\ d.request.op = "acquire"
    BY <1>4, <2>1, CallIsMade
  <2> QED
    BY <1>1, <1>4, <2>2, TimingAssumption DEF Good, Fits, Timely
<1>5. ASSUME NEW d, d = Call(h, "release", s.lease, s.target)
      PROVE  Good(h, Off, d)
  <2>1. d \in Calls /\ d # NoCall /\ d.op = "release" /\ ~d.lost /\ d.left = MaxDelay
        /\ d.request.hold = h /\ d.request.op = "release"
    BY <1>1, <1>5, CallIsMade
  <2>2. Off \in HoldStates /\ Off.tag = "Off" /\ Off.lease = NoLease
    BY DEF Off, Tags, NoLease
  <2> QED
    BY <2>1, <2>2, TimingAssumption DEF Good, Fits, Timely
<1>6. ASSUME NEW d, d = Call(h, "renew", s.lease, s.target), s.tag = "Held", c = NoCall, s.sleep = 0
      PROVE  Good(h, s, d)
  <2>1. d \in Calls /\ d # NoCall /\ d.op = "renew" /\ ~d.lost /\ d.left = MaxDelay
        /\ d.request.hold = h /\ d.request.op = "renew"
        /\ d.request.lease = s.lease /\ d.request.process = s.target
    BY <1>1, <1>6, CallIsMade
  <2>2. Start(s, d) = Start(s, c)
    BY <1>1, <1>6, <2>1, TimingAssumption DEF Start
  <2> QED
    BY <1>1, <1>6, <2>1, <2>2, TimingAssumption DEF Good, Fits, Timely
<1> QED
  BY <1>2, <1>3, <1>4, <1>5, <1>6

LEMMA FailedIsGood ==
    ASSUME NEW h \in Holds, NEW s, NEW c, Good(h, s, c), c # NoCall
    PROVE  Good(h, AfterFailure(s, c.op), NoCall)
<1> DEFINE f == s.failures + 1
<1>1. f \in Nat \ {0} /\ c.op \in {"negotiate", "acquire", "renew", "release"}
  BY DEF Good, Calls
<1>2. CASE c.op = "release"
  BY <1>2, IdleIsGood DEF AfterFailure
<1>3. CASE c.op = "renew" /\ s.age < Ttl
  <2> DEFINE t == [s EXCEPT !.failures = f, !.sleep = Backoff(f)]
  <2>1. AfterFailure(s, c.op) = t
    <3>1. s.age \in Nat
      BY DEF Good
    <3> QED
      BY <1>3, <3>1, TimingAssumption DEF AfterFailure
  <2>2. /\ s \in HoldStates /\ s.tag = "Held" /\ c \in Calls
        /\ c.left <= IF c.lost THEN RenewEvery ELSE MaxDelay
    BY <1>3 DEF Good, Fits, Timeout
  <2>3. Backoff(f) \in Nat /\ Backoff(f) >= Second
    BY <1>1, BackoffDoubles
  <2>4. t \in HoldStates /\ t.tag = "Held" /\ t.lease = s.lease /\ t.failures = f
        /\ t.age = s.age /\ t.sleep = Backoff(f)
    BY <1>1, <2>2, <2>3
  <2>5. Start(t, NoCall) = s.age + Backoff(f)
    BY <2>4 DEF Start
  <2>6. s.age \in Nat /\ c.left \in Nat /\ c.lost \in BOOLEAN
    BY <2>2 DEF Calls
  <2>7. s.age >= Start(s, c) /\ Start(s, c) \in Int
    BY <2>2, <2>6, RenewEveryIsAThird, TimingAssumption DEF Start
  <2>8. /\ Start(t, NoCall) >= RenewEvery + 2 * Backoff(f) - Second
        /\ Start(t, NoCall) <= 2 * Ttl - 2 - RenewEvery + Second
    <3>1. CASE s.failures = 0
      <4>1. Backoff(f) = Second /\ Start(s, c) = RenewEvery
        BY <1>3, <2>2, <3>1, BackoffDoubles DEF Good, Timely
      <4>2. RenewEvery + 1 <= Ttl
        BY RenewEveryIsAThird, TimingAssumption
      <4> QED
        BY <1>3, <2>5, <2>6, <2>7, <4>1, <4>2, RenewEveryIsAThird, TimingAssumption
    <3>2. CASE s.failures > 0
      <4>1. /\ Start(s, c) >= RenewEvery + 2 * Backoff(s.failures) - Second
        BY <1>3, <2>2, <3>2 DEF Good, Timely
      <4>2. s.failures \in Nat \ {0}
        BY <2>2, <3>2
      <4>3. Backoff(s.failures) \in Nat /\ Backoff(f) <= 2 * Backoff(s.failures)
        BY <4>2, BackoffDoubles
      <4> HIDE DEF f
      <4> QED
        BY <1>3, <2>3, <2>5, <2>6, <2>7, <4>1, <4>3, RenewEveryIsAThird, TimingAssumption
    <3> QED
      BY <2>2, <3>1, <3>2
  <2>9. s.lease # NoLease
    BY <2>2 DEF Good
  <2> HIDE DEF t
  <2> QED
    BY <1>1, <2>1, <2>4, <2>8, <2>9 DEF Good, Fits, Timely
<1>4. CASE c.op = "renew" /\ s.age >= Ttl
  <2>1. s.age \in Nat
    BY DEF Good
  <2> QED
    BY <1>1, <1>4, <2>1, IdleIsGood, TimingAssumption DEF AfterFailure
<1>5. CASE c.op \in {"negotiate", "acquire"}
  BY <1>1, <1>5, IdleIsGood DEF AfterFailure
<1>6. s.age \in Nat
  BY DEF Good
<1> QED
  BY <1>1, <1>2, <1>3, <1>4, <1>5, <1>6, TimingAssumption


LEMMA CutIsGood ==
    ASSUME NEW h \in Holds, NEW s, NEW c, Good(h, s, c), c # NoCall, ~c.lost
    PROVE  Good(h, s, [c EXCEPT !.lost = TRUE, !.left = Timeout(c.op) - (MaxDelay - @)])
<1> DEFINE n == Timeout(c.op) - (MaxDelay - c.left)
<1> DEFINE d == [c EXCEPT !.lost = TRUE, !.left = n]
<1>1. c \in Calls /\ c.left \in Nat /\ c.left <= MaxDelay
      /\ c.op \in {"negotiate", "acquire", "renew", "release"}
  BY DEF Good, Fits, Calls
<1>2. n \in Nat /\ n <= Timeout(c.op) /\ Timeout(c.op) \in Nat
  BY <1>1, TimeoutsAreLong, TimingAssumption
<1>3. d \in Calls /\ d # NoCall /\ d.op = c.op /\ d.lost /\ d.left = n /\ d.request = c.request
  <2> HIDE DEF n
  <2> QED
    BY <1>1, <1>2 DEF Calls, NoCall
<1>4. Fits(h, s, d)
  <2> HIDE DEF d, n
  <2> QED
    BY <1>2, <1>3 DEF Good, Fits
<1>5. Timely(s, d)
  <2>1. CASE c.op = "renew"
    <3>1. n = RenewEvery - (MaxDelay - c.left)
      BY <2>1 DEF Timeout
    <3>2. s.age \in Nat
      BY DEF Good
    <3>3. Start(s, d) = Start(s, c)
      <4> HIDE DEF d, n
      <4> QED
        BY <1>1, <1>3, <3>1, <3>2, RenewEveryIsAThird, TimingAssumption DEF Start
    <3> HIDE DEF d
    <3> QED
      BY <1>3, <2>1, <3>3 DEF Good, Timely
  <2>2. CASE c.op # "renew"
    <3> HIDE DEF d
    <3> QED
      BY <1>3, <2>2 DEF Timely
  <2> QED
    BY <2>1, <2>2
<1> QED
  BY <1>3, <1>4, <1>5 DEF Good

(* A tick leaves the age at which a renewal is sent as it is.              *)
Older(s, c) ==
    [s EXCEPT !.sleep = IF c = NoCall THEN Down(@) ELSE @, !.age = IF s.tag = "Held" THEN @ + 1 ELSE @]

Nearer(c) == IF c = NoCall THEN NoCall ELSE [c EXCEPT !.left = @ - 1]

LEMMA TickIsGood ==
    ASSUME NEW h \in Holds, NEW s, NEW c, Good(h, s, c),
           IF c # NoCall THEN c.left > 0 ELSE s.tag \in {"Held", "Lapsed"} => s.sleep > 0
    PROVE  Good(h, Older(s, c), Nearer(c))
<1> DEFINE t == Older(s, c)
<1> DEFINE d == Nearer(c)
<1>1. s \in HoldStates /\ s.sleep \in Nat /\ s.age \in Nat
  BY DEF Good
<1>2. /\ t \in HoldStates /\ t.tag = s.tag /\ t.lease = s.lease /\ t.failures = s.failures
      /\ t.target = s.target
      /\ t.age = IF s.tag = "Held" THEN s.age + 1 ELSE s.age
      /\ t.sleep = IF c = NoCall THEN Down(s.sleep) ELSE s.sleep
  <2> DEFINE n == IF c = NoCall THEN Down(s.sleep) ELSE s.sleep
  <2> DEFINE m == IF s.tag = "Held" THEN s.age + 1 ELSE s.age
  <2>1. n \in Nat /\ m \in Nat
    BY <1>1 DEF Down
  <2>2. t = [s EXCEPT !.sleep = n, !.age = m]
    BY DEF Older
  <2> HIDE DEF n, m, t
  <2>3. /\ t \in HoldStates /\ t.tag = s.tag /\ t.lease = s.lease /\ t.failures = s.failures
        /\ t.target = s.target /\ t.age = m /\ t.sleep = n
    BY <1>1, <2>1, <2>2
  <2> QED
    BY <2>3 DEF n, m
<1>3. CASE c = NoCall
  <2>1. d = NoCall
    BY <1>3 DEF Nearer
  <2>2. s.tag = "Held" => Start(t, d) = Start(s, c)
    <3> HIDE DEF t, d
    <3> QED
      BY <1>1, <1>2, <1>3, <2>1 DEF Start, Down
  <2>3. Timely(t, d)
    <3> HIDE DEF t, d
    <3> QED
      BY <1>2, <1>3, <2>1, <2>2 DEF Good, Timely
  <2>4. Fits(h, t, d)
    <3> HIDE DEF t, d
    <3> QED
      BY <1>2, <1>3, <2>1 DEF Good, Fits
  <2> HIDE DEF t, d
  <2>5. Good(h, t, d)
    BY <1>2, <2>1, <2>3, <2>4 DEF Good
  <2> QED
    BY <2>5 DEF t, d
<1>4. CASE c # NoCall
  <2>1. c \in Calls /\ c.left \in Nat /\ c.left > 0
    BY <1>4 DEF Good, Calls
  <2>2. d \in Calls /\ d # NoCall /\ d.op = c.op /\ d.lost = c.lost
        /\ d.left = c.left - 1 /\ d.request = c.request
    BY <1>4, <2>1 DEF Nearer, Calls, NoCall
  <2>3. s.tag = "Held" => Start(t, d) = Start(s, c)
    <3> HIDE DEF t, d
    <3> QED
      BY <1>1, <1>2, <1>4, <2>1, <2>2, RenewEveryIsAThird, TimingAssumption DEF Start
  <2>4. Timely(t, d)
    <3> HIDE DEF t, d
    <3> QED
      BY <1>2, <1>4, <2>2, <2>3 DEF Good, Timely
  <2>5. Fits(h, t, d)
    <3>1. Timeout(c.op) \in Nat
      BY <2>1, TimeoutsAreLong DEF Calls
    <3> HIDE DEF t, d
    <3> QED
      BY <1>2, <1>4, <2>1, <2>2, <3>1, TimingAssumption DEF Good, Fits
  <2> HIDE DEF t, d
  <2>6. Good(h, t, d)
    BY <1>2, <2>2, <2>4, <2>5 DEF Good
  <2> QED
    BY <2>6 DEF t, d
<1> QED
  BY <1>3, <1>4

-----------------------------------------------------------------------------
(* The invariant                                                           *)

LEMMA OneClientSteps ==
    ASSUME ClientsOK, NEW h \in Holds, NEW s, NEW c, Good(h, s, c),
           hold' = [hold EXCEPT ![h] = s], call' = [call EXCEPT ![h] = c]
    PROVE  ClientsOK'
  BY DEF ClientsOK

LEMMA ClientsKeep ==
    ASSUME ClientsOK, UNCHANGED <<hold, call>>
    PROVE  ClientsOK'
  BY DEF ClientsOK

(* One of the two may stay as it is.                                       *)
LEMMA OneClientStays ==
    ASSUME ClientsOK, NEW h \in Holds
    PROVE  /\ hold = [hold EXCEPT ![h] = hold[h]] /\ call = [call EXCEPT ![h] = call[h]]
           /\ Good(h, hold[h], call[h])
  BY DEF ClientsOK

(* A step that drops the answer to a hold, or has none to drop             *)
LEMMA AnswerIsDropped ==
    ASSUME AnswersOK, NEW h \in Holds, NEW c, call' = [call EXCEPT ![h] = c],
           answer' = [answer EXCEPT ![h] = NoAnswer], ClientsOK
    PROVE  AnswersOK'
  BY DEF AnswersOK, ClientsOK

LEMMA NotAnswered ==
    ASSUME AnswersOK, NEW h \in Holds, call[h] = NoCall \/ call[h].lost
    PROVE  answer[h] = NoAnswer /\ answer = [answer EXCEPT ![h] = NoAnswer]
<1>1. answer[h] = NoAnswer
  BY DEF AnswersOK
<1> QED
  BY <1>1 DEF AnswersOK

LEMMA AnswersKeep ==
    ASSUME AnswersOK, UNCHANGED <<call, answer>>
    PROVE  AnswersOK'
  BY DEF AnswersOK

LEMMA OthersKeep ==
    ASSUME LeaseInv, UNCHANGED late
    PROVE  LateOK'
  BY DEF LeaseInv, LateOK, IsABag, BagToSet

LEMMA MaintainKeepsInv ==
    ASSUME LeaseInv, NEW h \in Holds, Maintain(h)
    PROVE  LeaseInv'
<1>1. /\ Good(h, hold[h], call[h]) /\ ClientsOK /\ AnswersOK
      /\ answer' = [answer EXCEPT ![h] = NoAnswer]
  BY OneClientStays, NotAnswered DEF LeaseInv, Maintain
<1>2. CASE hold[h].tag = "Held"
  <2> DEFINE c == Call(h, "renew", hold[h].lease, hold[h].target)
  <2>1. Good(h, hold[h], c)
    BY <1>1, <1>2, NewCallIsGood DEF Maintain
  <2>2. call' = [call EXCEPT ![h] = c] /\ hold' = [hold EXCEPT ![h] = hold[h]]
    BY <1>1, <1>2, OneClientStays DEF Maintain
  <2> HIDE DEF c
  <2> QED
    BY <1>1, <2>1, <2>2, OneClientSteps, AnswerIsDropped, OthersKeep DEF LeaseInv, Maintain, CountersOK
<1>3. CASE hold[h].tag # "Held"
  <2>1. Good(h, hold[h], Negotiate(h))
    <3>1. 0 \in Nat
      OBVIOUS
    <3> QED
      BY <1>1, <1>3, <3>1, NewCallIsGood DEF Maintain
  <2>2. call' = [call EXCEPT ![h] = Negotiate(h)] /\ hold' = [hold EXCEPT ![h] = hold[h]]
    BY <1>1, <1>3, OneClientStays DEF Maintain
  <2> QED
    BY <1>1, <2>1, <2>2, OneClientSteps, AnswerIsDropped, OthersKeep DEF LeaseInv, Maintain, CountersOK
<1> QED
  BY <1>2, <1>3

LEMMA BeginKeepsInv ==
    ASSUME LeaseInv, NEW h \in Holds, Begin(h)
    PROVE  LeaseInv'
<1>1. /\ Good(h, hold[h], call[h]) /\ ClientsOK /\ AnswersOK
      /\ answer' = [answer EXCEPT ![h] = NoAnswer]
  BY OneClientStays, NotAnswered DEF LeaseInv, Begin
<1> DEFINE s == [hold[h] EXCEPT !.tag = "Connecting"]
<1>2. Good(h, s, Negotiate(h))
  <2>1. 0 \in Nat
    OBVIOUS
  <2> QED
    BY <1>1, <2>1, NewCallIsGood DEF Begin
<1>3. hold' = [hold EXCEPT ![h] = s] /\ call' = [call EXCEPT ![h] = Negotiate(h)]
  BY DEF Begin
<1> HIDE DEF s
<1> QED
  BY <1>1, <1>2, <1>3, OneClientSteps, AnswerIsDropped, OthersKeep DEF LeaseInv, Begin, CountersOK

LEMMA ReceiveIsGood ==
    ASSUME LeaseInv, NEW h \in Holds, call[h] # NoCall, NEW o, Answers(call[h].request, o), Receive(h, o)
    PROVE  ClientsOK'
<1> DEFINE c == call[h]
<1> DEFINE s == hold[h]
<1> DEFINE r == c.request
<1>1. /\ ClientsOK /\ Good(h, s, c) /\ c \in Calls /\ r \in Request /\ r.op = c.op /\ r.process \in Nat
      /\ Answers(r, o)
  BY OneClientStays DEF LeaseInv, Good, Fits, Calls, Request
<1>2. CASE /\ o.status = "manifest"
           /\ hold' = [hold EXCEPT ![h] = s]
           /\ call' = [call EXCEPT ![h] = Call(h, "acquire", NoLease, o.process)]
  <2>1. c.op = "negotiate"
    BY <1>1, <1>2 DEF Answers
  <2>2. s.tag \in {"Connecting", "Held", "Lapsed"}
    BY <1>1, <2>1 DEF Good, Fits
  <2>3. Good(h, s, Call(h, "acquire", NoLease, o.process))
    <3>1. o.process \in Nat
      BY <1>1 DEF Answers
    <3> QED
      BY <1>1, <2>2, <3>1, NewCallIsGood
  <2> QED
    BY <1>1, <1>2, <2>3, OneClientSteps
<1>3. CASE /\ o.status = "granted"
           /\ hold' = [hold EXCEPT ![h] = Hold(o.lease, r.process)]
           /\ call' = [call EXCEPT ![h] = NoCall]
  <2>1. o.lease \in Nat \ {NoLease}
    BY <1>1, <1>3 DEF Answers
  <2>2. Good(h, Hold(o.lease, r.process), NoCall)
    BY <1>1, <2>1, GrantedIsGood
  <2> QED
    BY <1>1, <1>3, <2>2, OneClientSteps
<1>4. CASE /\ o.status = "renewed"
           /\ hold' = [hold EXCEPT ![h] = [s EXCEPT !.failures = 0, !.age = 0, !.sleep = RenewEvery]]
           /\ call' = [call EXCEPT ![h] = NoCall]
  <2>1. c.op = "renew"
    BY <1>1, <1>4 DEF Answers
  <2>2. Good(h, [s EXCEPT !.failures = 0, !.age = 0, !.sleep = RenewEvery], NoCall)
    BY <1>1, <2>1, RenewedIsGood
  <2> QED
    BY <1>1, <1>4, <2>2, OneClientSteps
<1>5. CASE /\ c.op = "renew"
           /\ hold' = [hold EXCEPT ![h] = s]
           /\ call' = [call EXCEPT ![h] = Negotiate(h)]
  <2>1. s.tag = "Held"
    BY <1>1, <1>5 DEF Good, Fits
  <2>2. Good(h, s, Negotiate(h))
    BY <1>1, <2>1, NewCallIsGood
  <2> QED
    BY <1>1, <1>5, <2>2, OneClientSteps
<1>6. CASE /\ hold' = [hold EXCEPT ![h] = AfterFailure(s, c.op)]
           /\ call' = [call EXCEPT ![h] = NoCall]
  <2>1. Good(h, AfterFailure(s, c.op), NoCall)
    BY <1>1, FailedIsGood
  <2> QED
    BY <1>1, <1>6, <2>1, OneClientSteps
<1>7. CASE hold' = [hold EXCEPT ![h] = Off] /\ call' = [call EXCEPT ![h] = NoCall]
  BY <1>1, <1>7, IdleIsGood, OneClientSteps
<1> QED
  BY <1>2, <1>3, <1>4, <1>5, <1>6, <1>7 DEF Receive

LEMMA HearKeepsInv ==
    ASSUME LeaseInv, NEW h \in Holds, Hear(h)
    PROVE  LeaseInv'
<1>1. call[h] # NoCall /\ Answers(call[h].request, answer[h]) /\ Receive(h, answer[h])
  BY DEF Hear, LeaseInv, AnswersOK
<1>2. ClientsOK'
  BY <1>1, ReceiveIsGood
<1>3. AnswersOK'
  <2>1. PICK c : call' = [call EXCEPT ![h] = c]
    BY <1>1 DEF Receive
  <2> QED
    BY <2>1, AnswerIsDropped DEF Hear, LeaseInv
<1> QED
  BY <1>2, <1>3, OthersKeep DEF LeaseInv, Hear, CountersOK

LEMMA ExecuteKeepsInv ==
    ASSUME LeaseInv, NEW h \in Holds, Execute(h)
    PROVE  LeaseInv'
<1> DEFINE r == call[h].request
<1> DEFINE o == Editor(r)
<1> DEFINE a == [status |-> o.status, lease |-> o.lease, process |-> process]
<1>1. call[h] # NoCall /\ ~call[h].lost /\ UNCHANGED <<process, hold, call, late, faults, closes, restarts>>
  BY DEF Execute
<1>2. r \in Request
  BY OneClientStays DEF LeaseInv, Good, Calls, Execute
<1>3. TableOK(o.leases) /\ Answers(r, a)
  BY <1>2, EditorAnswers, EditorGivesAnswers
<1>4. leases' = o.leases /\ answer' = [answer EXCEPT ![h] = a]
  BY DEF Execute
<1> HIDE DEF a, o
<1>5. TableOK(leases)'
  BY <1>3, <1>4
<1>6. AnswersOK'
  <2>1. answer' = [g \in Holds |-> answer'[g]] /\ answer'[h] = a
    BY <1>4 DEF LeaseInv, AnswersOK
  <2>2. ASSUME NEW g \in Holds, answer'[g] # NoAnswer
        PROVE  call'[g] # NoCall /\ ~call'[g].lost /\ Answers(call'[g].request, answer'[g])
    <3>1. CASE g = h
      BY <1>1, <1>3, <2>1, <3>1
    <3>2. CASE g # h
      BY <1>1, <1>4, <2>2, <3>2 DEF LeaseInv, AnswersOK
    <3> QED
      BY <3>1, <3>2
  <2> QED
    BY <2>1, <2>2 DEF AnswersOK
<1> QED
  BY <1>1, <1>5, <1>6, ClientsKeep, OthersKeep DEF LeaseInv, CountersOK

LEMMA ExecuteLateKeepsInv ==
    ASSUME LeaseInv, NEW r \in BagToSet(late), ExecuteLate(r)
    PROVE  LeaseInv'
<1> DEFINE o == Editor(r)
<1>1. TableOK(leases)'
  <2>1. r \in Request
    BY DEF LeaseInv, LateOK
  <2>2. TableOK(o.leases)
    BY <2>1, EditorAnswers
  <2>3. leases' = o.leases
    BY DEF ExecuteLate
  <2> HIDE DEF o
  <2> QED
    BY <2>2, <2>3
<1>2. LateOK'
  <2>1. IsABag(late') /\ BagToSet(late') \subseteq BagToSet(late)
    BY BagRemoves DEF LeaseInv, LateOK, ExecuteLate
  <2>2. IsFiniteSet(BagToSet(late'))
    BY <2>1, FS_Subset DEF LeaseInv, LateOK
  <2> QED
    BY <2>1, <2>2 DEF LeaseInv, LateOK, IsABag, BagToSet
<1> QED
  BY <1>1, <1>2, ClientsKeep, AnswersKeep DEF LeaseInv, ExecuteLate, CountersOK

LEMMA FailureKeepsInv ==
    ASSUME LeaseInv, NEW h \in Holds, call[h] # NoCall,
           hold' = [hold EXCEPT ![h] = AfterFailure(hold[h], call[h].op)],
           call' = [call EXCEPT ![h] = NoCall]
    PROVE  ClientsOK'
<1>1. Good(h, hold[h], call[h]) /\ ClientsOK
  BY OneClientStays DEF LeaseInv
<1>2. Good(h, AfterFailure(hold[h], call[h].op), NoCall)
  BY <1>1, FailedIsGood
<1> QED
  BY <1>1, <1>2, OneClientSteps

LEMMA CloseKeepsInv ==
    ASSUME LeaseInv, NEW h \in Holds, Close(h)
    PROVE  LeaseInv'
<1>1. /\ Good(h, hold[h], call[h]) /\ ClientsOK /\ CountersOK /\ AnswersOK
      /\ answer' = [answer EXCEPT ![h] = NoAnswer]
  BY OneClientStays DEF LeaseInv, Close, Closing
<1>2. hold' = [hold EXCEPT ![h] = Off]
  BY DEF Close, Closing
<1>3. CASE hold[h].tag = "Held"
  <2>1. Good(h, Off, Call(h, "release", hold[h].lease, hold[h].target))
    <3>1. 0 \in Nat
      OBVIOUS
    <3> QED
      BY <1>1, <1>3, <3>1, NewCallIsGood
  <2>2. call' = [call EXCEPT ![h] = Call(h, "release", hold[h].lease, hold[h].target)]
    BY <1>3 DEF Close
  <2>3. ClientsOK'
    BY <1>1, <1>2, <2>1, <2>2, OneClientSteps
  <2>4. AnswersOK'
    BY <1>1, <2>2, AnswerIsDropped
  <2> QED
    BY <1>1, <2>3, <2>4, AbandonKeepsLate DEF LeaseInv, Close, Closing, CountersOK
<1>4. CASE hold[h].tag # "Held"
  <2>1. call' = [call EXCEPT ![h] = NoCall]
    BY <1>4 DEF Close
  <2>2. ClientsOK'
    BY <1>1, <1>2, <2>1, IdleIsGood, OneClientSteps
  <2>3. AnswersOK'
    BY <1>1, <2>1, AnswerIsDropped
  <2> QED
    BY <1>1, <2>2, <2>3, AbandonKeepsLate DEF LeaseInv, Close, Closing, CountersOK
<1> QED
  BY <1>3, <1>4

LEMMA CutKeepsInv ==
    ASSUME LeaseInv, NEW h \in Holds, Cut(h)
    PROVE  LeaseInv'
<1> DEFINE c == [call[h] EXCEPT !.lost = TRUE, !.left = Timeout(call[h].op) - (MaxDelay - @)]
<1>1. /\ Good(h, hold[h], call[h]) /\ ClientsOK /\ AnswersOK
      /\ answer' = [answer EXCEPT ![h] = NoAnswer]
  BY OneClientStays DEF LeaseInv, Cut, Fault
<1>2. Good(h, hold[h], c)
  BY <1>1, CutIsGood DEF Cut, Fault
<1>3. call' = [call EXCEPT ![h] = c] /\ hold' = [hold EXCEPT ![h] = hold[h]]
  BY <1>1, OneClientStays DEF Cut
<1>4. ClientsOK' /\ AnswersOK'
  <2> HIDE DEF c
  <2> QED
    BY <1>1, <1>2, <1>3, OneClientSteps, AnswerIsDropped
<1> QED
  BY <1>4, AbandonKeepsLate DEF LeaseInv, Cut, Fault, CountersOK

LEMMA RestartKeepsInv ==
    ASSUME LeaseInv, RestartEditor
    PROVE  LeaseInv'
<1>1. TableOK(leases)'
  <2>1. DOMAIN leases' = {}
    BY DEF RestartEditor
  <2> QED
    BY <2>1, FS_EmptySet, BoundsAssumption DEF TableOK
<1>2. LateOK'
  BY BagEmpty, FS_EmptySet DEF RestartEditor, LateOK, IsABag, BagToSet
<1>3. CountersOK'
  BY BoundsAssumption DEF LeaseInv, CountersOK, RestartEditor
<1> QED
  BY <1>1, <1>2, <1>3, ClientsKeep, AnswersKeep DEF LeaseInv, RestartEditor

LEMMA TickKeepsInv ==
    ASSUME LeaseInv, Tick
    PROVE  LeaseInv'
<1>1. TableOK(leases)'
  <2>1. DOMAIN leases' = DOMAIN leases
        /\ \A id \in DOMAIN leases : leases'[id] = [leases[id] EXCEPT !.left = Down(@)]
    BY DEF Tick
  <2>2. \A id \in DOMAIN leases : leases'[id] \in [hold : Holds, left : 0..Ttl]
    BY <2>1, TimingAssumption DEF LeaseInv, TableOK, Down
  <2> QED
    BY <2>1, <2>2 DEF LeaseInv, TableOK
<1>2. ClientsOK'
  <2>1. hold' = [h \in Holds |-> Older(hold[h], call[h])] /\ call' = [h \in Holds |-> Nearer(call[h])]
    BY DEF Tick, Older, Nearer
  <2>2. ASSUME NEW h \in Holds
        PROVE  Good(h, Older(hold[h], call[h]), Nearer(call[h]))
    BY TickIsGood DEF LeaseInv, ClientsOK, Tick
  <2> QED
    BY <2>1, <2>2 DEF ClientsOK
<1>3. AnswersOK'
  <2>1. call' = [h \in Holds |-> Nearer(call[h])] /\ answer' = answer
    BY DEF Tick, Nearer
  <2>2. ASSUME NEW h \in Holds, call[h] # NoCall
        PROVE  /\ Nearer(call[h]) # NoCall /\ Nearer(call[h]).lost = call[h].lost
               /\ Nearer(call[h]).request = call[h].request
    <3>1. call[h] \in Calls
      BY <2>2, OneClientStays DEF LeaseInv, Good
    <3>2. Nearer(call[h]) = [call[h] EXCEPT !.left = @ - 1]
      BY <2>2 DEF Nearer
    <3> QED
      BY <3>1, <3>2 DEF Calls, NoCall
  <2> QED
    BY <2>1, <2>2 DEF LeaseInv, AnswersOK
<1> QED
  BY <1>1, <1>2, <1>3, OthersKeep DEF LeaseInv, Tick, CountersOK

LEMMA NextKeepsInv ==
    ASSUME LeaseInv, [Next]_vars
    PROVE  LeaseInv'
<1>1. ASSUME NEW h \in Holds, TimeOut(h)
      PROVE  LeaseInv'
  <2>1. ClientsOK' /\ AnswersOK'
    BY <1>1, FailureKeepsInv, NotAnswered, AnswerIsDropped DEF LeaseInv, TimeOut
  <2> QED
    BY <1>1, <2>1, OthersKeep DEF LeaseInv, TimeOut, CountersOK
<1>2. ASSUME NEW h \in Holds, Refuse(h)
      PROVE  LeaseInv'
  <2>1. ClientsOK' /\ AnswersOK'
    BY <1>2, FailureKeepsInv, AnswerIsDropped DEF LeaseInv, Refuse, Fault
  <2>2. CountersOK'
    BY <1>2 DEF LeaseInv, Refuse, Fault, CountersOK
  <2> QED
    BY <1>2, <2>1, <2>2, OthersKeep DEF LeaseInv, Refuse, Fault
<1>3. CASE UNCHANGED vars
  BY <1>3, ClientsKeep, AnswersKeep, OthersKeep DEF vars, LeaseInv, CountersOK
<1> QED
  BY <1>1, <1>2, <1>3, MaintainKeepsInv, BeginKeepsInv, ExecuteKeepsInv, HearKeepsInv, ExecuteLateKeepsInv,
     CloseKeepsInv, CutKeepsInv, RestartKeepsInv, TickKeepsInv DEF Next

LEMMA InitSetsInv ==
    ASSUME Init
    PROVE  LeaseInv
<1>1. TableOK(leases)
  <2>1. DOMAIN leases = {}
    BY DEF Init
  <2> QED
    BY <2>1, FS_EmptySet, BoundsAssumption DEF TableOK
<1>2. LateOK
  BY BagEmpty, FS_EmptySet DEF Init, LateOK, IsABag, BagToSet
<1>3. ClientsOK
  BY IdleIsGood DEF Init, ClientsOK
<1>4. AnswersOK
  BY DEF Init, AnswersOK
<1> QED
  BY <1>1, <1>2, <1>3, <1>4, BoundsAssumption DEF LeaseInv, CountersOK, Init

(* The inductive invariant: a call is one its hold would make now, and     *)
(* failed renewals are sent ever later but not too late.                   *)
THEOREM InvariantCorrect == Spec => []LeaseInv
  BY InitSetsInv, NextKeepsInv, PTL DEF Spec

(* The types, and the editor's table keeps to its size.                    *)
THEOREM LeaseTypeCorrect == Spec => []LeaseTypeOK
<1>1. LeaseInv => LeaseTypeOK
  <2> SUFFICES ASSUME LeaseInv PROVE LeaseTypeOK
    OBVIOUS
  <2>1. \A h \in Holds : /\ hold[h].tag \in Tags /\ (Held(h) <=> hold[h].lease # NoLease)
                         /\ call[h] # NoCall => call[h].request \in Request
    BY DEF LeaseInv, ClientsOK, Good, Held, Calls
  <2>2. process \in 1..(MaxRestarts + 1)
    BY BoundsAssumption DEF LeaseInv, CountersOK
  <2>3. \A h \in Holds : answer[h] # NoAnswer => call[h] # NoCall /\ ~call[h].lost
    BY DEF LeaseInv, AnswersOK
  <2> QED
    BY <2>1, <2>2, <2>3 DEF LeaseTypeOK, LeaseInv, TableOK, LateOK
<1> QED
  BY <1>1, InvariantCorrect, PTL

(* Whatever was lost, a hold says Held for at most twice the age at which  *)
(* a failure does not yet make it lapse, and a second, without an answer,  *)
(* unless it is acquiring again.                                           *)
THEOREM HeldIsRecentCorrect == Spec => []HeldIsRecent
<1>1. LeaseInv => HeldIsRecent
  <2> SUFFICES ASSUME LeaseInv, NEW h \in Holds, hold[h].tag = "Held",
                      call[h] = NoCall \/ call[h].op = "renew"
               PROVE  hold[h].age <= 2 * (Ttl - 1) + Second
    BY DEF HeldIsRecent, Held
  <2> DEFINE s == hold[h]
  <2> DEFINE c == call[h]
  <2>1. Good(h, s, c) /\ s.age \in Nat /\ s.sleep \in Nat /\ s.failures \in Nat
    BY OneClientStays DEF LeaseInv, Good
  <2>2. Start(s, c) <= 2 * Ttl - 2 - RenewEvery + Second
    <3>1. RenewEvery + RenewEvery + 2 <= 2 * Ttl + Second
      BY RenewEveryIsAThird, TimingAssumption
    <3> QED
      BY <2>1, <3>1, RenewEveryIsAThird, TimingAssumption DEF Good, Timely
  <2>3. CASE c = NoCall
    BY <2>1, <2>2, <2>3, RenewEveryIsAThird, TimingAssumption DEF Start
  <2>4. CASE c # NoCall
    <3>1. c.left \in Nat /\ c.lost \in BOOLEAN
      BY <2>1, <2>4 DEF Good, Calls
    <3> QED
      BY <2>1, <2>2, <2>4, <3>1, RenewEveryIsAThird, TimingAssumption DEF Start
  <2> QED
    BY <2>3, <2>4
<1> QED
  BY <1>1, InvariantCorrect, PTL


-----------------------------------------------------------------------------
(* One lost renewal                                                        *)

(* Nobody takes a live lease from its hold but the hold itself.            *)
LEMMA EditorKeepsLease ==
    ASSUME LeaseInv, NEW r \in Request, NEW id \in DOMAIN leases, leases[id].left > 0,
           r.op = "release" => r.hold # leases[id].hold,
           NEW o, o = Editor(r)
    PROVE  /\ id \in DOMAIN o.leases /\ o.leases[id].hold = leases[id].hold
           /\ o.leases[id].left >= leases[id].left
<1> DEFINE table == Prune(leases)
<1>0. TableOK(table) /\ id \in DOMAIN table /\ table[id] = leases[id]
  BY PruneKeeps DEF LeaseInv
<1>1. leases[id] \in [hold : Holds, left : 0..Ttl] /\ leases[id].left \in Nat /\ leases[id].left <= Ttl
  BY TimingAssumption DEF LeaseInv, TableOK
<1>2. CASE o.leases \in {leases, table}
  BY <1>0, <1>1, <1>2
<1>3. CASE r.op = "acquire" /\ r.process = process /\ o = Grant(table, r)
  <2>1. id # FreshId
    BY FreshIdIsNew
  <2>2. id \in DOMAIN o.leases /\ o.leases[id] = table[id]
    BY <1>0, <1>3, <2>1 DEF Grant, Outcome
  <2> QED
    BY <1>0, <1>1, <2>2
<1>4. CASE r.op = "renew" /\ o.leases = [table EXCEPT ![r.lease].left = Ttl]
  BY <1>0, <1>1, <1>4
<1>5. CASE r.op = "release" /\ o.leases = Restrict(table, DOMAIN table \ {r.lease})
           /\ ~(r.lease \in DOMAIN table /\ table[r.lease].hold # r.hold)
  BY <1>0, <1>1, <1>5 DEF Restrict
<1> QED
  BY <1>2, <1>3, <1>4, <1>5 DEF Editor, Acquire, Renew, Release, Outcome, Request

(* A hold that is served is not older than its lease.                      *)
LEMMA ServedIsYoung ==
    ASSUME NEW h \in Holds, NEW s, NEW c, Good(h, s, c), s.tag = "Held",
           NEW n \in Nat, n <= 1, Steady(s, c, n), 2 * RenewEvery + Second + 2 * MaxDelay < Ttl
    PROVE  /\ MaxDelay + s.age < Ttl
           /\ c # NoCall => /\ s.age <= (IF s.failures = 0 THEN RenewEvery ELSE 2 * RenewEvery + Second)
                                        + (IF c.lost THEN RenewEvery - c.left ELSE MaxDelay - c.left)
                            /\ c.lost => s.failures = 0
<1>1. s.age \in Nat /\ s.sleep \in Nat /\ s.failures \in Nat
  BY DEF Good
<1>2. Start(s, c) <= IF s.failures = 0 THEN RenewEvery ELSE 2 * RenewEvery + Second
  <2>1. CASE s.failures = 0
    BY <2>1, RenewEveryIsAThird DEF Good, Timely, Steady
  <2>2. CASE s.failures > 0
    BY <1>1, <2>2 DEF Steady
  <2> QED
    BY <1>1, <2>1, <2>2
<1>3. CASE c = NoCall
  BY <1>1, <1>2, <1>3, RenewEveryIsAThird, TimingAssumption DEF Start
<1>4. CASE c # NoCall
  <2>1. c.left \in Nat /\ c.lost \in BOOLEAN
    BY <1>4 DEF Good, Calls
  <2>2. c.lost => s.failures = 0
    BY <1>1, <1>4 DEF Steady
  <2> QED
    BY <1>1, <1>2, <1>4, <2>1, <2>2, RenewEveryIsAThird, TimingAssumption DEF Start
<1> QED
  BY <1>3, <1>4

(* The leases of h that are live stay in the table.                        *)
Keeps(h, table) ==
    \A id \in DOMAIN leases : leases[id].hold = h /\ leases[id].left > 0 =>
       id \in DOMAIN table /\ table[id].hold = h /\ table[id].left >= leases[id].left

LEMMA LeaseIsKept ==
    ASSUME LeaseInv, NEW h \in Holds, NEW id, NEW elapsed \in Int, elapsed < Ttl,
           HasLease(h, id, leases, elapsed), NEW table, TableOK(table), Keeps(h, table)
    PROVE  HasLease(h, id, table, elapsed)
<1>1. id \in DOMAIN leases /\ leases[id].hold = h /\ leases[id].left >= Ttl - elapsed
      /\ leases[id].left \in Nat
  BY DEF HasLease, LeaseInv, TableOK
<1>2. leases[id].left > 0
  BY <1>1, TimingAssumption
<1>3. id \in DOMAIN table /\ table[id].hold = h /\ table[id].left >= leases[id].left
      /\ table[id].left \in Nat
  BY <1>1, <1>2 DEF Keeps, TableOK
<1> QED
  BY <1>1, <1>3, TimingAssumption DEF HasLease

LEMMA ServedHasTime ==
    ASSUME LeaseInv, OneLostInv, OneLost, NEW h \in Holds, Held(h)
    PROVE  /\ IsServed(h) /\ hold[h].age \in Nat /\ MaxDelay + hold[h].age \in Int
           /\ MaxDelay + hold[h].age < Ttl
<1>1. Good(h, hold[h], call[h]) /\ IsServed(h) /\ faults.renewals \in Nat /\ faults.renewals <= 1
  BY OneClientStays DEF LeaseInv, OneLostInv, Serves, CountersOK, OneLost
<1>2. MaxDelay + hold[h].age < Ttl /\ hold[h].age \in Nat
  BY <1>1, ServedIsYoung DEF OneLost, RenewEvery, Held, IsServed, Good
<1> QED
  BY <1>1, <1>2, TimingAssumption

(* How long an answer has been on its way                                  *)
LEMMA AnswerIsFresh ==
    ASSUME LeaseInv, NEW h \in Holds, call[h] # NoCall, ~call[h].lost
    PROVE  MaxDelay - call[h].left \in 0..MaxDelay /\ MaxDelay - call[h].left < Ttl
<1>1. call[h].left \in Nat /\ call[h].left <= MaxDelay
  BY OneClientStays DEF LeaseInv, Good, Fits, Calls
<1> QED
  BY <1>1, RenewEveryIsAThird, TimingAssumption

(* A hold whose own state stays is served on while its leases are kept.    *)
LEMMA ServesOn ==
    ASSUME LeaseInv, LeaseInv', OneLostInv, OneLost, NEW h \in Holds,
           hold'[h] = hold[h], call'[h] = call[h], answer'[h] = answer[h], process' = process,
           faults.renewals <= faults'.renewals, faults'.renewals \in Nat, Keeps(h, leases')
    PROVE  Serves(h)'
<1>1. TableOK(leases') /\ Serves(h)
  BY DEF LeaseInv, TableOK, OneLostInv
<1>2. ASSUME Held(h)'
      PROVE  IsServed(h)'
  <2>1. Held(h)
    BY <1>2 DEF Held
  <2>2. IsServed(h) /\ MaxDelay + hold[h].age \in Int /\ MaxDelay + hold[h].age < Ttl
    BY <2>1, ServedHasTime
  <2>3. HasLease(h, hold[h].lease, leases', MaxDelay + hold[h].age)
    BY <1>1, <2>2, LeaseIsKept DEF IsServed
  <2>4. Steady(hold[h], call[h], faults'.renewals)
    <3>1. hold[h].failures \in Nat /\ faults.renewals \in Nat
      BY OneClientStays DEF LeaseInv, Good, CountersOK
    <3> QED
      BY <2>2, <3>1 DEF IsServed, Steady
  <2> QED
    BY <2>2, <2>3, <2>4 DEF IsServed, HasLease
<1>3. ASSUME answer'[h] # NoAnswer
      PROVE  Stands(h)'
  <2>1. answer[h] # NoAnswer /\ call[h] # NoCall /\ ~call[h].lost
    BY <1>3 DEF LeaseInv, AnswersOK
  <2>2. MaxDelay - call[h].left \in Int /\ MaxDelay - call[h].left < Ttl
    BY <2>1, AnswerIsFresh, TimingAssumption
  <2>3. answer[h].status \in {"granted", "renewed"} =>
           HasLease(h, answer[h].lease, leases', MaxDelay - call[h].left)
    BY <1>1, <2>1, <2>2, LeaseIsKept DEF Serves, Stands
  <2> QED
    BY <1>1, <2>1, <2>3 DEF Serves, Stands, HasLease
<1> QED
  BY <1>2, <1>3 DEF Serves, Stands

LEMMA TableIsKept ==
    ASSUME LeaseInv, UNCHANGED leases, NEW h \in Holds
    PROVE  Keeps(h, leases')
<1>1. \A id \in DOMAIN leases : leases[id].left \in Nat
  BY DEF LeaseInv, TableOK
<1> QED
  BY <1>1 DEF Keeps


(* The fields of faults and the condition after a step                     *)
LEMMA OneLostBefore ==
    ASSUME LeaseInv, LeaseInv', OneLost', restarts <= restarts',
           faults.others <= faults'.others, faults.renewals <= faults'.renewals
    PROVE  OneLost /\ restarts' = restarts /\ faults'.others = faults.others
  BY DEF LeaseInv, CountersOK, OneLost

LEMMA ExecuteKeepsServing ==
    ASSUME LeaseInv, LeaseInv', OneLostInv, OneLost, NEW g \in Holds, Execute(g), NEW h \in Holds
    PROVE  Serves(h)'
<1> DEFINE c == call[g]
<1> DEFINE r == c.request
<1> DEFINE o == Editor(r)
<1>1. /\ c # NoCall /\ ~c.lost /\ Good(g, hold[g], c) /\ c \in Calls
      /\ r \in Request /\ r.hold = g /\ r.op = c.op
      /\ leases' = o.leases /\ hold' = hold /\ call' = call /\ process' = process /\ faults' = faults
      /\ faults.renewals \in Nat
      /\ answer' = [answer EXCEPT ![g] = [status |-> o.status, lease |-> o.lease, process |-> process]]
  BY OneClientStays DEF Execute, LeaseInv, Good, Fits, Calls, CountersOK
<1> HIDE DEF o
<1>2. o = Editor(r)
  BY DEF o
<1>3. ASSUME h # g \/ c.op # "release"
      PROVE  Keeps(h, leases')
  BY <1>1, <1>2, <1>3, EditorKeepsLease DEF Keeps
<1>4. CASE h # g
  <2>1. answer'[h] = answer[h]
    BY <1>1, <1>4
  <2> QED
    BY <1>1, <1>3, <1>4, <2>1, ServesOn
<1>5. CASE h = g
  <2>1. answer'[g] = [status |-> o.status, lease |-> o.lease, process |-> process]
    BY <1>1 DEF LeaseInv, AnswersOK
  <2>2. ASSUME Held(g)
        PROVE  IsServed(g)' /\ c.op = "renew" /\ o.status = "renewed"
    <3>1. /\ IsServed(g) /\ hold[g].age \in Nat /\ MaxDelay + hold[g].age \in Int
          /\ MaxDelay + hold[g].age < Ttl
      BY <2>2, ServedHasTime
    <3>2. c.op = "renew" /\ r.lease = hold[g].lease /\ r.process = process
      BY <1>1, <3>1 DEF IsServed, Steady, Good, Fits
    <3>3. HasLease(g, hold[g].lease, leases', MaxDelay + hold[g].age)
      <4>1. TableOK(leases') /\ Keeps(g, leases')
        BY <1>3, <1>5, <3>2 DEF LeaseInv, TableOK
      <4> QED
        BY <3>1, <4>1, LeaseIsKept DEF IsServed
    <3>4. IsServed(g)'
      BY <1>1, <3>1, <3>3 DEF IsServed, HasLease
    <3>5. r.lease \in DOMAIN leases /\ leases[r.lease].left \in Nat /\ leases[r.lease].left > 0
          /\ leases[r.lease].hold = g
      BY <3>1, <3>2, TimingAssumption DEF IsServed, HasLease, LeaseInv, TableOK
    <3>6. r.lease \in DOMAIN Prune(leases) /\ Prune(leases)[r.lease].hold = r.hold
      BY <1>1, <3>5, PruneKeeps DEF LeaseInv
    <3>7. o = Renew(r)
      BY <1>1, <1>2, <3>2 DEF Editor
    <3>8. o.status = "renewed"
      BY <3>6, <3>7 DEF Renew, Outcome
    <3> QED
      BY <3>2, <3>4, <3>8
  <2>3. c.op = "renew" => o.status = "renewed"
    BY <1>1, <2>2 DEF Good, Fits, Held
  <2>4. o.status = "granted" =>
           /\ r.process = process /\ o.lease \in DOMAIN leases'
           /\ leases'[o.lease] = [hold |-> g, left |-> Ttl]
    BY <1>1, <1>2, EditorAnswers
  <2>5. o.status = "renewed" =>
           o.lease \in DOMAIN leases' /\ leases'[o.lease] = [hold |-> g, left |-> Ttl]
    BY <1>1, <1>2, EditorAnswers, EditorNamesLease
  <2>6. MaxDelay - c.left \in 0..MaxDelay
    BY <1>1, AnswerIsFresh
  <2>7. o.status \in {"granted", "renewed"} => HasLease(g, o.lease, leases', MaxDelay - c.left)
    BY <2>4, <2>5, <2>6, TimingAssumption DEF HasLease
  <2>8. Stands(g)'
    BY <1>1, <2>1, <2>3, <2>4, <2>7 DEF Stands, HasLease
  <2>9. Held(g)' => Held(g)
    BY <1>1 DEF Held
  <2> QED
    BY <1>5, <2>2, <2>8, <2>9 DEF Serves
<1> QED
  BY <1>4, <1>5

(* The answer tells of a lease that is as old as the answer.               *)
LEMMA HearKeepsServing ==
    ASSUME LeaseInv, LeaseInv', OneLostInv, OneLost, NEW g \in Holds, Hear(g), NEW h \in Holds
    PROVE  Serves(h)'
<1> DEFINE c == call[g]
<1> DEFINE o == answer[g]
<1>1. /\ o # NoAnswer /\ c # NoCall /\ ~c.lost /\ Answers(c.request, o) /\ Good(g, hold[g], c) /\ c \in Calls
      /\ c.request.op = c.op /\ UNCHANGED <<leases, process, faults>> /\ faults.renewals \in Nat
      /\ Receive(g, o) /\ answer' = [answer EXCEPT ![g] = NoAnswer] /\ Stands(g)
  BY OneClientStays DEF Hear, LeaseInv, AnswersOK, Good, Fits, CountersOK, OneLostInv, Serves
<1>2. CASE h # g
  <2>1. hold'[h] = hold[h] /\ call'[h] = call[h] /\ answer'[h] = answer[h]
    BY <1>1, <1>2 DEF Receive, LeaseInv, ClientsOK
  <2>2. Keeps(h, leases')
    BY <1>1, TableIsKept
  <2> QED
    BY <1>1, <2>1, <2>2, ServesOn
<1>3. CASE h = g
  <2>1. g \in DOMAIN hold /\ g \in DOMAIN call /\ answer'[g] = NoAnswer
    BY <1>1 DEF LeaseInv, ClientsOK, AnswersOK
  <2>2. Stands(g)'
    BY <2>1 DEF Stands
  <2>3. ASSUME o.status \in {"granted", "renewed"}
        PROVE  HasLease(g, o.lease, leases, MaxDelay + 0)
    <3>1. HasLease(g, o.lease, leases, MaxDelay - c.left)
      BY <1>1, <2>3 DEF Stands
    <3>2. MaxDelay - c.left \in 0..MaxDelay
      BY <1>1, AnswerIsFresh
    <3>3. leases[o.lease].left \in Nat
      BY <3>1 DEF HasLease, LeaseInv, TableOK
    <3> QED
      BY <3>1, <3>2, <3>3, TimingAssumption DEF HasLease
  <2>4. ASSUME Held(g)'
        PROVE  IsServed(g)'
    <3>1. CASE o.status = "manifest" /\ hold' = [hold EXCEPT ![g] = hold[g]]
      <4>1. c.op = "negotiate"
        BY <1>1, <3>1 DEF Answers
      <4>2. Held(g)
        BY <2>1, <2>4, <3>1 DEF Held
      <4>3. IsServed(g)
        BY <4>2, ServedHasTime
      <4> QED
        BY <1>1, <4>1, <4>3 DEF IsServed, Steady
    <3>2. CASE /\ o.status = "granted"
               /\ hold' = [hold EXCEPT ![g] = Hold(o.lease, c.request.process)]
               /\ call' = [call EXCEPT ![g] = NoCall]
      <4>1. c.request.process = process
        BY <1>1, <3>2 DEF Stands
      <4>2. /\ hold'[g].lease = o.lease /\ hold'[g].target = c.request.process
            /\ hold'[g].failures = 0 /\ hold'[g].age = 0 /\ call'[g] = NoCall
        BY <2>1, <3>2 DEF Hold
      <4> QED
        BY <1>1, <2>3, <3>2, <4>1, <4>2 DEF IsServed, HasLease, Steady
    <3>3. CASE /\ o.status = "renewed"
               /\ hold' = [hold EXCEPT ![g] = [hold[g] EXCEPT !.failures = 0, !.age = 0, !.sleep = RenewEvery]]
               /\ call' = [call EXCEPT ![g] = NoCall]
      <4>1. c.op = "renew" /\ o.lease = c.request.lease
        BY <1>1, <3>3 DEF Answers
      <4>2. Held(g) /\ o.lease = hold[g].lease
        BY <1>1, <4>1 DEF Good, Fits, Held
      <4>3. hold[g].target = process
        BY <4>2, ServedHasTime DEF IsServed
      <4>4. /\ hold'[g].lease = hold[g].lease /\ hold'[g].target = hold[g].target
            /\ hold'[g].failures = 0 /\ hold'[g].age = 0 /\ call'[g] = NoCall
        <5>1. hold[g] \in HoldStates
          BY <1>1 DEF Good
        <5> QED
          BY <2>1, <3>3, <5>1
      <4> QED
        BY <1>1, <2>3, <3>3, <4>2, <4>3, <4>4 DEF IsServed, HasLease, Steady
    <3>4. CASE c.op = "renew" /\ o.status \in {"expired", "rejected"}
      BY <1>1, <3>4 DEF Stands
    <3>5. CASE c.op = "acquire" /\ hold' = [hold EXCEPT ![g] = AfterFailure(hold[g], c.op)]
      BY <2>1, <2>4, <3>5 DEF AfterFailure, Held, Waiting, Lapsed, Off
    <3>6. CASE hold' = [hold EXCEPT ![g] = Off]
      BY <2>1, <2>4, <3>6 DEF Held, Off
    <3> QED
      BY <1>1, <3>1, <3>2, <3>3, <3>4, <3>5, <3>6 DEF Receive
  <2> QED
    BY <1>3, <2>2, <2>4 DEF Serves
<1> QED
  BY <1>2, <1>3

(* A renewal that failed leaves the time for another.                      *)
LEMMA FailureKeepsServing ==
    ASSUME LeaseInv, LeaseInv', OneLostInv, OneLost, OneLost', NEW h \in Holds, call[h] # NoCall,
           hold' = [hold EXCEPT ![h] = AfterFailure(hold[h], call[h].op)],
           call' = [call EXCEPT ![h] = NoCall],
           UNCHANGED <<process, leases>>,
           \/ call[h].lost /\ call[h].left = 0 /\ faults' = faults
           \/ ~call[h].lost /\ (call[h].op = "renew" => faults'.renewals = faults.renewals + 1),
           Held(h)'
    PROVE  IsServed(h)'
<1> DEFINE s == hold[h]
<1> DEFINE c == call[h]
<1>1. Good(h, s, c) /\ s \in HoldStates /\ c \in Calls /\ h \in DOMAIN hold /\ h \in DOMAIN call
      /\ faults.renewals \in Nat /\ faults'.renewals \in Nat /\ faults.renewals <= 1 /\ faults'.renewals <= 1
  BY OneClientStays DEF LeaseInv, ClientsOK, Good, CountersOK, OneLost
<1>2. hold'[h] = AfterFailure(s, c.op) /\ call'[h] = NoCall
  BY <1>1
<1>3. c.op = "renew" /\ s.age < Ttl
      /\ AfterFailure(s, c.op) = [s EXCEPT !.failures = s.failures + 1, !.sleep = Backoff(s.failures + 1)]
  BY <1>1, <1>2, TimingAssumption DEF AfterFailure, Held, Off, Waiting, Lapsed, Calls
<1>4. s.tag = "Held" /\ IsServed(h)
  BY <1>1, <1>3 DEF Good, Fits, OneLostInv, Serves, Held
<1>5. /\ s.age <= (IF s.failures = 0 THEN RenewEvery ELSE 2 * RenewEvery + Second)
                  + (IF c.lost THEN RenewEvery - c.left ELSE MaxDelay - c.left)
      /\ c.left \in Nat /\ c.lost \in BOOLEAN /\ s.failures \in Nat /\ s.age \in Nat
  BY <1>1, <1>4, ServedIsYoung DEF OneLost, RenewEvery, IsServed, Calls
<1>6. s.failures = 0 /\ s.failures + 1 <= faults'.renewals
  BY <1>1, <1>3, <1>4, <1>5 DEF IsServed, Steady
<1>7. Backoff(1) = Second
  BY BackoffDoubles
<1>8. hold'[h] = [s EXCEPT !.failures = 1, !.sleep = Second]
  <2>1. s.failures + 1 = 1
    BY <1>6
  <2> QED
    BY <1>2, <1>3, <1>7, <2>1
<1>9. /\ hold'[h].failures = 1 /\ hold'[h].sleep = Second /\ hold'[h].age = s.age
      /\ hold'[h].lease = s.lease /\ hold'[h].target = s.target
  BY <1>1, <1>8
<1>10. Start(hold'[h], NoCall) <= 2 * RenewEvery + Second
  <2>1. s.age <= RenewEvery + RenewEvery
    BY <1>5, <1>6, RenewEveryIsAThird, TimingAssumption
  <2> QED
    BY <1>5, <1>9, <2>1, RenewEveryIsAThird, TimingAssumption DEF Start
<1>11. Steady(hold'[h], NoCall, faults'.renewals)
  BY <1>6, <1>9, <1>10 DEF Steady
<1> QED
  BY <1>2, <1>4, <1>9, <1>11 DEF IsServed, HasLease

LEMMA TickAgesLease ==
    ASSUME LeaseInv, Tick, NEW h \in Holds, NEW id, NEW elapsed \in Int, HasLease(h, id, leases, elapsed)
    PROVE  HasLease(h, id, leases', elapsed + 1)
<1>1. id \in DOMAIN leases /\ leases[id] \in [hold : Holds, left : 0..Ttl]
      /\ leases[id].hold = h /\ leases[id].left >= Ttl - elapsed
  BY DEF HasLease, LeaseInv, TableOK
<1>2. id \in DOMAIN leases' /\ leases'[id] = [leases[id] EXCEPT !.left = Down(@)]
  BY <1>1 DEF Tick
<1> QED
  BY <1>1, <1>2, TimingAssumption DEF HasLease, Down

LEMMA TickKeepsServing ==
    ASSUME LeaseInv, LeaseInv', OneLostInv, OneLost, Tick, NEW h \in Holds, Held(h)'
    PROVE  IsServed(h)'
<1> DEFINE s == hold[h]
<1> DEFINE c == call[h]
<1>1. Good(h, s, c) /\ s \in HoldStates /\ c \in Calls \cup {NoCall}
  BY OneClientStays DEF LeaseInv, Good
<1>2. hold'[h] = Older(s, c) /\ call'[h] = Nearer(c)
  BY DEF Tick, Older, Nearer
<1>3. CASE c = NoCall
  <2>1. hold'[h] = [s EXCEPT !.sleep = Down(s.sleep), !.age = IF s.tag = "Held" THEN s.age + 1 ELSE s.age]
    BY <1>2, <1>3 DEF Older
  <2>2. s.tag = "Held"
    BY <1>1, <2>1 DEF Held
  <2>3. s.sleep > 0 /\ s.sleep \in Nat /\ s.age \in Nat
    BY <1>1, <1>3, <2>2 DEF Tick
  <2>4. hold'[h] = [s EXCEPT !.sleep = s.sleep - 1, !.age = s.age + 1] /\ call'[h] = NoCall
    BY <1>2, <1>3, <2>1, <2>2, <2>3 DEF Down, Nearer
  <2>5. /\ hold'[h].sleep = s.sleep - 1 /\ hold'[h].age = s.age + 1 /\ hold'[h].failures = s.failures
        /\ hold'[h].lease = s.lease /\ hold'[h].target = s.target
    BY <1>1, <2>4
  <2>6. IsServed(h)
    BY <2>2 DEF OneLostInv, Serves, Held
  <2>7. Start(hold'[h], NoCall) = Start(s, c)
    BY <1>3, <2>3, <2>5 DEF Start
  <2>8. Steady(hold'[h], NoCall, faults.renewals)
    BY <1>3, <2>5, <2>6, <2>7 DEF IsServed, Steady
  <2>9. HasLease(h, hold'[h].lease, leases', MaxDelay + hold'[h].age)
    <3>1. MaxDelay + s.age \in Int /\ MaxDelay + (s.age + 1) = MaxDelay + s.age + 1
      BY <2>3, TimingAssumption
    <3>2. HasLease(h, s.lease, leases', MaxDelay + s.age + 1)
      BY <2>6, <3>1, TickAgesLease DEF IsServed
    <3> QED
      BY <2>5, <3>1, <3>2
  <2> QED
    BY <2>4, <2>5, <2>6, <2>8, <2>9 DEF IsServed, HasLease, Tick
<1>4. CASE c # NoCall
  <2>1. hold'[h] = [s EXCEPT !.sleep = s.sleep, !.age = IF s.tag = "Held" THEN s.age + 1 ELSE s.age]
    BY <1>2, <1>4 DEF Older
  <2>2. s.tag = "Held"
    BY <1>1, <2>1 DEF Held
  <2>3. c.left > 0 /\ c.left \in Nat /\ c.lost \in BOOLEAN /\ s.sleep \in Nat /\ s.age \in Nat
    BY <1>1, <1>4 DEF Tick, Calls
  <2>4. call'[h] = [c EXCEPT !.left = c.left - 1]
    BY <1>2, <1>4 DEF Nearer
  <2>5. /\ hold'[h].sleep = s.sleep /\ hold'[h].age = s.age + 1 /\ hold'[h].failures = s.failures
        /\ hold'[h].lease = s.lease /\ hold'[h].target = s.target
        /\ call'[h].op = c.op /\ call'[h].lost = c.lost /\ call'[h].left = c.left - 1
        /\ call'[h] # NoCall
    <3>1. c \in Calls
      BY <1>1, <1>4
    <3> QED
      BY <1>1, <2>1, <2>2, <2>4, <3>1 DEF Calls, NoCall
  <2>6. IsServed(h)
    BY <2>2 DEF OneLostInv, Serves, Held
  <2>7. Start(hold'[h], call'[h]) = Start(s, c)
    BY <1>4, <2>3, <2>5, RenewEveryIsAThird, TimingAssumption DEF Start
  <2>8. Steady(hold'[h], call'[h], faults.renewals)
    BY <1>4, <2>5, <2>6, <2>7 DEF IsServed, Steady
  <2>9. HasLease(h, hold'[h].lease, leases', MaxDelay + hold'[h].age)
    <3>1. MaxDelay + s.age \in Int /\ MaxDelay + (s.age + 1) = MaxDelay + s.age + 1
      BY <2>3, TimingAssumption
    <3>2. HasLease(h, s.lease, leases', MaxDelay + s.age + 1)
      BY <2>6, <3>1, TickAgesLease DEF IsServed
    <3> QED
      BY <2>5, <3>1, <3>2
  <2> QED
    BY <2>5, <2>6, <2>8, <2>9 DEF IsServed, HasLease, Tick
<1> QED
  BY <1>3, <1>4

LEMMA TickKeepsStanding ==
    ASSUME LeaseInv, LeaseInv', OneLostInv, OneLost, Tick, NEW h \in Holds
    PROVE  Stands(h)'
<1> SUFFICES ASSUME answer'[h] # NoAnswer
             PROVE  Stands(h)'
  BY DEF Stands
<1>1. answer[h] # NoAnswer /\ answer' = answer /\ process' = process /\ call[h] # NoCall /\ ~call[h].lost
  BY DEF Tick, LeaseInv, AnswersOK
<1>2. Stands(h) /\ call[h] \in Calls
  BY <1>1, OneClientStays DEF OneLostInv, Serves, LeaseInv, Good
<1>3. call'[h] = [call[h] EXCEPT !.left = @ - 1]
  BY <1>1 DEF Tick
<1>4. /\ call'[h].op = call[h].op /\ call'[h].request = call[h].request /\ call'[h].left = call[h].left - 1
      /\ call[h].left \in Nat
  BY <1>2, <1>3 DEF Calls
<1>5. MaxDelay - call[h].left \in Int /\ MaxDelay - (call[h].left - 1) = MaxDelay - call[h].left + 1
  BY <1>4, TimingAssumption
<1>6. answer[h].status \in {"granted", "renewed"} =>
         HasLease(h, answer[h].lease, leases', MaxDelay - call'[h].left)
  BY <1>1, <1>2, <1>4, <1>5, TickAgesLease DEF Stands
<1> QED
  BY <1>1, <1>2, <1>4, <1>6 DEF Stands, HasLease


(* A step that touches one hold and neither the table nor the counters     *)
LEMMA OthersAreServed ==
    ASSUME LeaseInv, LeaseInv', OneLostInv, OneLost, NEW g \in Holds, NEW s, NEW c,
           hold' = [hold EXCEPT ![g] = s], call' = [call EXCEPT ![g] = c],
           answer' = [answer EXCEPT ![g] = NoAnswer],
           UNCHANGED <<process, leases>>, faults.renewals <= faults'.renewals,
           Held(g)' => IsServed(g)'
    PROVE  \A h \in Holds : Serves(h)'
<1>1. ASSUME NEW h \in Holds, h # g
      PROVE  Serves(h)'
  <2>1. hold'[h] = hold[h] /\ call'[h] = call[h] /\ answer'[h] = answer[h]
    BY <1>1 DEF LeaseInv, ClientsOK, AnswersOK
  <2>2. Keeps(h, leases') /\ faults'.renewals \in Nat
    BY TableIsKept DEF LeaseInv, CountersOK
  <2> QED
    BY <2>1, <2>2, ServesOn
<1>2. Serves(g)'
  <2>1. answer'[g] = NoAnswer
    BY DEF LeaseInv, AnswersOK
  <2> QED
    BY <2>1 DEF Serves, Stands
<1> QED
  BY <1>1, <1>2

LEMMA CloseKeepsServing ==
    ASSUME LeaseInv, LeaseInv', OneLostInv, OneLost, NEW g \in Holds, Close(g)
    PROVE  /\ \A r \in BagToSet(late') : r.op # "release"
           /\ \A h \in Holds : Serves(h)'
<1>1. Good(g, hold[g], call[g]) /\ g \in DOMAIN hold /\ faults.renewals \in Nat
  BY OneClientStays DEF LeaseInv, ClientsOK, CountersOK
<1>2. ASSUME NEW r \in BagToSet(late')
      PROVE  r.op # "release"
  <2>1. CASE r \in BagToSet(late)
    BY <2>1 DEF OneLostInv
  <2>2. CASE call[g] # NoCall /\ r = call[g].request
    BY <1>1, <2>2 DEF Good, Fits, Close, Closing
  <2> QED
    BY <2>1, <2>2, AbandonKeepsLate DEF Close
<1>3. ~Held(g)'
  BY <1>1 DEF Close, Closing, Held, Off
<1>4. PICK c : call' = [call EXCEPT ![g] = c]
  BY DEF Close
<1>5. /\ hold' = [hold EXCEPT ![g] = Off] /\ answer' = [answer EXCEPT ![g] = NoAnswer]
      /\ UNCHANGED <<process, leases>> /\ faults.renewals <= faults'.renewals
  BY <1>1 DEF Close, Closing
<1> QED
  BY <1>2, <1>3, <1>4, <1>5, OthersAreServed

LEMMA CutKeepsServing ==
    ASSUME LeaseInv, LeaseInv', OneLostInv, OneLost, OneLost', NEW g \in Holds, Cut(g)
    PROVE  /\ \A r \in BagToSet(late') : r.op # "release"
           /\ \A h \in Holds : Serves(h)'
<1> DEFINE c == call[g]
<1> DEFINE n == RenewEvery - (MaxDelay - c.left)
<1> DEFINE d == [c EXCEPT !.lost = TRUE, !.left = n]
<1>1. /\ Good(g, hold[g], c) /\ g \in DOMAIN call /\ c \in Calls /\ c # NoCall /\ c.op = c.request.op
      /\ faults \in [renewals : Nat, others : Nat]
      /\ ~c.lost /\ hold' = hold /\ UNCHANGED <<leases, process>>
      /\ hold' = [hold EXCEPT ![g] = hold[g]] /\ answer' = [answer EXCEPT ![g] = NoAnswer]
  BY OneClientStays DEF LeaseInv, ClientsOK, CountersOK, Good, Fits, Cut, Fault
<1>2. c.op = "renew" /\ faults' = [faults EXCEPT !.renewals = faults.renewals + 1]
      /\ faults'.renewals = faults.renewals + 1
  BY <1>1 DEF Cut, Fault, OneLost
<1>3. ASSUME NEW r \in BagToSet(late')
      PROVE  r.op # "release"
  <2>1. CASE r \in BagToSet(late)
    BY <2>1 DEF OneLostInv
  <2>2. CASE r = c.request
    BY <1>1, <1>2, <2>2
  <2> QED
    BY <2>1, <2>2, AbandonKeepsLate DEF Cut
<1>4. call' = [call EXCEPT ![g] = d]
  BY <1>1, <1>2 DEF Cut, Timeout
<1>5. ASSUME Held(g)'
      PROVE  IsServed(g)'
  <2>1. IsServed(g)
    BY <1>1, <1>5 DEF OneLostInv, Serves, Held
  <2>2. call'[g] # NoCall /\ call'[g].op = "renew" /\ call'[g].lost /\ call'[g].left = n
    <3>1. call'[g] = d
      BY <1>1, <1>4
    <3> HIDE DEF n
    <3> QED
      BY <1>1, <1>2, <3>1 DEF Calls, NoCall
  <2>3. c.left \in Nat /\ hold[g].age \in Nat /\ hold[g].failures \in Nat
    BY <1>1 DEF Good, Calls
  <2>4. Start(hold[g], call'[g]) = Start(hold[g], c)
    BY <1>1, <2>2, <2>3, RenewEveryIsAThird, TimingAssumption DEF Start
  <2>5. Steady(hold[g], call'[g], faults'.renewals)
    BY <1>1, <1>2, <2>1, <2>2, <2>3, <2>4 DEF IsServed, Steady
  <2> QED
    BY <1>1, <2>1, <2>5 DEF IsServed, HasLease
<1>6. faults.renewals <= faults'.renewals
  BY <1>1, <1>2
<1> HIDE DEF d
<1> QED
  BY <1>1, <1>3, <1>4, <1>5, <1>6, OthersAreServed

LEMMA MaintainKeepsServing ==
    ASSUME LeaseInv, LeaseInv', OneLostInv, OneLost, NEW g \in Holds, Maintain(g)
    PROVE  \A h \in Holds : Serves(h)'
<1> DEFINE c == Call(g, "renew", hold[g].lease, hold[g].target)
<1> DEFINE d == IF hold[g].tag = "Held" THEN c ELSE Negotiate(g)
<1>1. /\ Good(g, hold[g], call[g]) /\ call[g] = NoCall /\ hold' = hold
      /\ hold = [hold EXCEPT ![g] = hold[g]] /\ call' = [call EXCEPT ![g] = d]
      /\ answer' = [answer EXCEPT ![g] = NoAnswer]
      /\ UNCHANGED <<process, leases, faults>> /\ faults.renewals \in Nat /\ g \in DOMAIN call
  BY OneClientStays, NotAnswered DEF LeaseInv, Maintain, CountersOK, ClientsOK
<1>2. ASSUME Held(g)'
      PROVE  IsServed(g)'
  <2>1. hold[g].tag = "Held" /\ IsServed(g)
    BY <1>1, <1>2 DEF Held, OneLostInv, Serves
  <2>2. /\ hold[g].lease \in Nat /\ hold[g].target \in Nat /\ hold[g].sleep = 0 /\ hold[g].age \in Nat
        /\ hold[g].failures \in Nat
    BY <1>1 DEF Good, Maintain
  <2>3. c # NoCall /\ c.op = "renew" /\ ~c.lost /\ c.left = MaxDelay
    BY <2>2, CallIsMade
  <2>4. call'[g] = c
    BY <1>1, <2>1
  <2>5. Start(hold[g], c) = Start(hold[g], NoCall)
    <3> HIDE DEF c
    <3> QED
      BY <2>2, <2>3, TimingAssumption DEF Start
  <2>6. Steady(hold[g], c, faults.renewals)
    <3> HIDE DEF c
    <3> QED
      BY <1>1, <2>1, <2>2, <2>3, <2>5 DEF IsServed, Steady
  <2> HIDE DEF c
  <2> QED
    BY <1>1, <2>1, <2>4, <2>6 DEF IsServed, HasLease
<1>3. faults.renewals <= faults'.renewals /\ hold' = [hold EXCEPT ![g] = hold[g]]
  BY <1>1
<1> HIDE DEF d
<1> QED
  BY <1>1, <1>2, <1>3, OthersAreServed

LEMMA NextKeepsServing ==
    ASSUME LeaseInv, LeaseInv', OneLostInv, [Next]_vars
    PROVE  OneLostInv'
<1> SUFFICES ASSUME OneLost'
             PROVE  /\ \A r \in BagToSet(late') : r.op # "release"
                    /\ \A h \in Holds : Serves(h)'
  BY DEF OneLostInv
<1>0. restarts \in Nat /\ restarts' = 0 /\ faults \in [renewals : Nat, others : Nat]
  BY DEF LeaseInv, CountersOK, OneLost
<1>1. ASSUME OneLost, UNCHANGED late
      PROVE  \A r \in BagToSet(late') : r.op # "release"
  BY <1>1 DEF OneLostInv, BagToSet
<1>2. ASSUME NEW g \in Holds, Begin(g)
      PROVE  /\ \A r \in BagToSet(late') : r.op # "release"
             /\ \A h \in Holds : Serves(h)'
  <2>1. OneLost
    BY <1>2 DEF OneLost, Begin
  <2> DEFINE s == [hold[g] EXCEPT !.tag = "Connecting"]
  <2>2. Good(g, hold[g], call[g]) /\ g \in DOMAIN hold /\ answer' = [answer EXCEPT ![g] = NoAnswer]
    BY <1>2, OneClientStays, NotAnswered DEF LeaseInv, ClientsOK, Begin
  <2>3. hold' = [hold EXCEPT ![g] = s] /\ s.tag = "Connecting"
    BY <1>2, <2>2 DEF Begin, Good
  <2>4. ~Held(g)'
    BY <2>2, <2>3 DEF Held
  <2>5. call' = [call EXCEPT ![g] = Negotiate(g)] /\ UNCHANGED <<process, leases>>
        /\ faults.renewals <= faults'.renewals
    BY <1>0, <1>2 DEF Begin
  <2> HIDE DEF s
  <2>6. \A h \in Holds : Serves(h)'
    BY <2>1, <2>2, <2>3, <2>4, <2>5, OthersAreServed
  <2> QED
    BY <1>1, <1>2, <2>1, <2>6 DEF Begin
<1>3. ASSUME NEW g \in Holds, Maintain(g)
      PROVE  /\ \A r \in BagToSet(late') : r.op # "release"
             /\ \A h \in Holds : Serves(h)'
  <2>1. OneLost
    BY <1>3 DEF OneLost, Maintain
  <2> QED
    BY <1>1, <1>3, <2>1, MaintainKeepsServing DEF Maintain
<1>4. ASSUME NEW g \in Holds, Execute(g)
      PROVE  /\ \A r \in BagToSet(late') : r.op # "release"
             /\ \A h \in Holds : Serves(h)'
  <2>1. OneLost
    BY <1>4 DEF OneLost, Execute
  <2> QED
    BY <1>1, <1>4, <2>1, ExecuteKeepsServing DEF Execute
<1>13. ASSUME NEW g \in Holds, Hear(g)
       PROVE  /\ \A r \in BagToSet(late') : r.op # "release"
              /\ \A h \in Holds : Serves(h)'
  <2>1. OneLost
    BY <1>13 DEF OneLost, Hear
  <2> QED
    BY <1>1, <1>13, <2>1, HearKeepsServing DEF Hear
<1>5. ASSUME NEW r \in BagToSet(late), ExecuteLate(r)
      PROVE  /\ \A q \in BagToSet(late') : q.op # "release"
             /\ \A h \in Holds : Serves(h)'
  <2>1. OneLost
    BY <1>5 DEF OneLost, ExecuteLate
  <2>2. BagToSet(late') \subseteq BagToSet(late) /\ r \in Request /\ r.op # "release"
    BY <1>5, <2>1, BagRemoves DEF LeaseInv, LateOK, ExecuteLate, OneLostInv
  <2>3. ASSUME NEW h \in Holds
        PROVE  Serves(h)'
    <3>1. UNCHANGED <<hold, call, answer, process, faults>>
      BY <1>5 DEF ExecuteLate
    <3> DEFINE o == Editor(r)
    <3>2. leases' = o.leases
      BY <1>5 DEF ExecuteLate
    <3>3. Keeps(h, leases')
      BY <2>2, <3>2, EditorKeepsLease DEF Keeps
    <3> QED
      BY <1>0, <2>1, <3>1, <3>3, ServesOn
  <2> QED
    BY <2>1, <2>2, <2>3 DEF OneLostInv
<1>6. ASSUME NEW g \in Holds, TimeOut(g)
      PROVE  /\ \A r \in BagToSet(late') : r.op # "release"
             /\ \A h \in Holds : Serves(h)'
  <2>1. OneLost
    BY <1>6 DEF OneLost, TimeOut
  <2>2. Held(g)' => IsServed(g)'
    BY <1>6, <2>1, FailureKeepsServing DEF TimeOut
  <2>3. faults.renewals <= faults'.renewals /\ answer' = [answer EXCEPT ![g] = NoAnswer]
    BY <1>0, <1>6, NotAnswered DEF TimeOut, LeaseInv
  <2>4. \A h \in Holds : Serves(h)'
    BY <1>6, <2>1, <2>2, <2>3, OthersAreServed DEF TimeOut
  <2> QED
    BY <1>1, <1>6, <2>1, <2>4 DEF TimeOut
<1>7. ASSUME NEW g \in Holds, Refuse(g)
      PROVE  /\ \A r \in BagToSet(late') : r.op # "release"
             /\ \A h \in Holds : Serves(h)'
  <2>1. OneLost /\ faults.renewals <= faults'.renewals
        /\ (call[g].op = "renew" => faults'.renewals = faults.renewals + 1)
    BY <1>0, <1>7 DEF OneLost, Refuse, Fault
  <2>2. Held(g)' => IsServed(g)'
    BY <1>7, <2>1, FailureKeepsServing DEF Refuse, Fault
  <2>3. \A h \in Holds : Serves(h)'
    BY <1>7, <2>1, <2>2, OthersAreServed DEF Refuse, Fault
  <2> QED
    BY <1>1, <1>7, <2>1, <2>3 DEF Refuse
<1>8. ASSUME NEW g \in Holds, Close(g)
      PROVE  /\ \A r \in BagToSet(late') : r.op # "release"
             /\ \A h \in Holds : Serves(h)'
  <2>1. OneLost
    BY <1>8 DEF OneLost, Close, Closing
  <2> QED
    BY <1>8, <2>1, CloseKeepsServing
<1>9. ASSUME NEW g \in Holds, Cut(g)
      PROVE  /\ \A r \in BagToSet(late') : r.op # "release"
             /\ \A h \in Holds : Serves(h)'
  <2>1. OneLost
    BY <1>0, <1>9 DEF OneLost, Cut, Fault
  <2> QED
    BY <1>9, <2>1, CutKeepsServing
<1>10. ~RestartEditor
  BY <1>0 DEF RestartEditor
<1>11. CASE Tick
  <2>1. OneLost
    BY <1>11 DEF OneLost, Tick
  <2> QED
    BY <1>1, <1>11, <2>1, TickKeepsServing, TickKeepsStanding DEF Tick, Serves
<1>12. CASE UNCHANGED vars
  <2>1. OneLost
    BY <1>12 DEF OneLost, vars
  <2>2. UNCHANGED late /\ \A h \in Holds : Serves(h)'
    BY <1>12, <2>1 DEF vars, OneLostInv, Serves, Stands, Held, IsServed, HasLease
  <2> QED
    BY <1>1, <2>1, <2>2
<1> QED
  BY <1>2, <1>3, <1>4, <1>5, <1>6, <1>7, <1>8, <1>9, <1>10, <1>11, <1>12,
     <1>13 DEF Next

(* While at most one request was disturbed and it was a renewal, a hold    *)
(* that says Held has a live lease: whenever two thirds of the time to     *)
(* live, a second, the delay of an answer and that of a renewal are less   *)
(* than all of it.                                                         *)
THEOREM OneLostRenewalCorrect == Spec => []OneLostRenewalIsSurvived
<1>1. Init => OneLostInv
  BY BagEmpty DEF Init, OneLostInv, Serves, Stands, Held, Off
<1>2. LeaseInv /\ LeaseInv' /\ OneLostInv /\ [Next]_vars => OneLostInv'
  BY NextKeepsServing
<1>3. LeaseInv /\ OneLostInv => OneLostRenewalIsSurvived
  <2> SUFFICES ASSUME LeaseInv, OneLostInv, OneLost, NEW h \in Holds, Held(h)
               PROVE  Backed(h)
    BY DEF OneLostRenewalIsSurvived, OneLost
  <2>1. IsServed(h) /\ MaxDelay + hold[h].age < Ttl /\ hold[h].age \in Nat
    BY ServedHasTime
  <2>3. hold[h].lease \in DOMAIN leases /\ leases[hold[h].lease].left \in Nat
    BY <2>1 DEF IsServed, HasLease, LeaseInv, TableOK
  <2> QED
    BY <2>1, <2>3, TimingAssumption DEF IsServed, HasLease, Backed, LiveLeases
<1> QED
  BY <1>1, <1>2, <1>3, InvariantCorrect, PTL DEF Spec

-----------------------------------------------------------------------------
(* Leases a hold does not know of                                          *)

(* Bags: how many copies of a request there are                            *)
LEMMA CopiesAdd ==
    ASSUME NEW b, IsABag(b), NEW r, NEW q
    PROVE  /\ Copies(r, b) \in Nat
           /\ Copies(r, b (+) SetToBag({r})) = Copies(r, b) + 1
           /\ q # r => Copies(q, b (+) SetToBag({r})) = Copies(q, b)
  BY DEF IsABag, SetToBag, BagToSet, (+), Copies

LEMMA CopiesRemove ==
    ASSUME NEW b, IsABag(b), NEW r \in BagToSet(b), NEW q
    PROVE  /\ Copies(q, b) \in Nat
           /\ Copies(r, b (-) SetToBag({r})) = Copies(r, b) - 1
           /\ q # r => Copies(q, b (-) SetToBag({r})) = Copies(q, b)
  BY DEF IsABag, SetToBag, BagToSet, (-), Copies

(* Sets that grow by at most one element                                   *)
LEMMA OneMore ==
    ASSUME NEW S, IsFiniteSet(S), NEW T, NEW x, T \subseteq S \cup {x}
    PROVE  /\ IsFiniteSet(T) /\ Cardinality(T) \in Nat /\ Cardinality(S) \in Nat
           /\ Cardinality(T) <= Cardinality(S) + 1
           /\ x \notin T => Cardinality(T) <= Cardinality(S)
<1>1. /\ IsFiniteSet(S \cup {x}) /\ Cardinality(S) \in Nat
      /\ \/ Cardinality(S \cup {x}) = Cardinality(S)
         \/ Cardinality(S \cup {x}) = Cardinality(S) + 1
  BY FS_AddElement, FS_CardinalityType
<1>2. IsFiniteSet(T) /\ Cardinality(T) <= Cardinality(S \cup {x})
  BY <1>1, FS_Subset
<1>3. Cardinality(T) \in Nat
  BY <1>2, FS_CardinalityType
<1>4. x \notin T => Cardinality(T) <= Cardinality(S)
  <2>1. x \notin T => T \subseteq S
    OBVIOUS
  <2> QED
    BY <2>1, FS_Subset
<1> QED
  BY <1>1, <1>2, <1>3, <1>4

LEMMA LiveLeasesAreFinite ==
    ASSUME LeaseInv, NEW h \in Holds
    PROVE  /\ IsFiniteSet(LiveLeases(h)) /\ NoLease \notin LiveLeases(h)
           /\ LiveLeases(h) \subseteq DOMAIN leases
<1>1. LiveLeases(h) \subseteq DOMAIN leases
  BY DEF LiveLeases
<1> QED
  BY <1>1, FS_Subset DEF LeaseInv, TableOK

LEMMA CountersAreNumbers ==
    ASSUME LeaseInv
    PROVE  Unheard \in Nat
  BY DEF LeaseInv, CountersOK, Unheard

(* The live leases of a hold in a table                                    *)
LiveIn(h, table) == {id \in DOMAIN table : table[id].hold = h /\ table[id].left > 0}

(* What a request does to the live leases of a hold                        *)
LEMMA EditorGrantsOne ==
    ASSUME LeaseInv, NEW r \in Request, NEW o, o = Editor(r), NEW h \in Holds
    PROVE  /\ LiveIn(h, o.leases) \subseteq LiveLeases(h) \cup {FreshId}
           /\ ~(o.status = "granted" /\ r.hold = h) => LiveIn(h, o.leases) \subseteq LiveLeases(h)
           /\ o.status = "granted" => o.lease = FreshId
           /\ r.hold = h /\ r.process = process =>
                 \/ r.op \notin {"renew", "release"}
                 \/ o.status = "renewed"
                 \/ r.lease \notin LiveIn(h, o.leases)
<1> DEFINE table == Prune(leases)
<1>0. /\ TableOK(leases)
      /\ \A id : id \in DOMAIN table <=> id \in DOMAIN leases /\ leases[id].left > 0
      /\ \A id \in DOMAIN table : table[id] = leases[id]
  BY PruneKeeps DEF LeaseInv
<1>1. LiveIn(h, table) = LiveLeases(h) /\ LiveIn(h, leases) = LiveLeases(h)
  BY <1>0 DEF LiveIn, LiveLeases
<1>2. CASE r.op = "negotiate" \/ r.process # process
  BY <1>1, <1>2 DEF Editor, Outcome
<1>3. CASE r.op = "acquire" /\ r.process = process
  <2>1. CASE o = Outcome("rejected", table, NoLease)
    BY <1>1, <1>3, <2>1 DEF Outcome
  <2>2. CASE o = Grant(table, r)
    <3> DEFINE new == [id \in DOMAIN table \cup {FreshId} |->
                          IF id = FreshId THEN [hold |-> r.hold, left |-> Ttl] ELSE table[id]]
    <3>1. o.leases = new /\ o.status = "granted" /\ o.lease = FreshId
      BY <2>2 DEF Grant, Outcome
    <3>2. LiveIn(h, new) \subseteq LiveIn(h, table) \cup {FreshId}
      BY DEF LiveIn
    <3>3. r.hold # h => FreshId \notin LiveIn(h, new)
      BY DEF LiveIn
    <3> HIDE DEF new, table
    <3> QED
      BY <1>1, <1>3, <3>1, <3>2, <3>3
  <2> QED
    BY <1>3, <2>1, <2>2 DEF Editor, Acquire
<1>4. CASE r.op = "renew" /\ r.process = process
  <2>1. o = Renew(r)
    BY <1>4 DEF Editor
  <2>2. CASE r.lease \in DOMAIN table /\ table[r.lease].hold = r.hold
    <3> DEFINE new == [table EXCEPT ![r.lease].left = Ttl]
    <3>1. o.leases = new /\ o.status = "renewed"
      BY <2>1, <2>2 DEF Renew, Outcome
    <3>2. \A id \in DOMAIN new : id \in DOMAIN table /\ new[id].hold = table[id].hold
      BY <1>0, <2>2 DEF TableOK
    <3>3. LiveIn(h, new) \subseteq LiveLeases(h)
      <4> HIDE DEF new
      <4> QED
        BY <1>0, <3>2 DEF LiveIn, LiveLeases
    <3> HIDE DEF new
    <3> QED
      BY <3>1, <3>3
  <2>3. CASE ~(r.lease \in DOMAIN table /\ table[r.lease].hold = r.hold)
    <3>1. o.leases = table /\ o.status \in {"expired", "rejected"}
      BY <2>1, <2>3 DEF Renew, Outcome
    <3>2. r.hold = h => r.lease \notin LiveIn(h, table)
      BY <2>3 DEF LiveIn
    <3> QED
      BY <1>1, <3>1, <3>2
  <2> QED
    BY <2>2, <2>3
<1>5. CASE r.op = "release" /\ r.process = process
  <2>1. o = Release(r)
    BY <1>5 DEF Editor
  <2>2. CASE r.lease \in DOMAIN table /\ table[r.lease].hold # r.hold
    BY <1>1, <1>5, <2>1, <2>2 DEF Release, Outcome, LiveIn
  <2>3. CASE ~(r.lease \in DOMAIN table /\ table[r.lease].hold # r.hold)
    <3> DEFINE new == Restrict(table, DOMAIN table \ {r.lease})
    <3>1. o.leases = new /\ o.status = "released"
      BY <2>1, <2>3 DEF Release, Outcome
    <3>2. DOMAIN new = DOMAIN table \ {r.lease} /\ \A id \in DOMAIN new : new[id] = table[id]
      BY DEF Restrict
    <3>3. LiveIn(h, new) \subseteq LiveIn(h, table) \ {r.lease}
      BY <3>2 DEF LiveIn
    <3> HIDE DEF new, table
    <3> QED
      BY <1>1, <1>5, <3>1, <3>3
  <2> QED
    BY <2>2, <2>3
<1> QED
  BY <1>2, <1>3, <1>4, <1>5 DEF Request

(* New ids are those of no hold, no call and no answer.                    *)
LEMMA FreshIdIsUnknown ==
    ASSUME LeaseInv, NEW h \in Holds
    PROVE  FreshId # Tended(h) /\ FreshId # hold[h].lease
<1>1. FreshId # hold[h].lease /\ FreshId # answer[h].lease
      /\ (call[h] # NoCall => FreshId # call[h].request.lease)
  BY FreshIdIsNew
<1> QED
  BY <1>1 DEF Tended, Releasing

(* What is known of a hold by the state of its call                        *)
LEMMA GrantedIsAcquiring ==
    ASSUME LeaseInv, NEW h \in Holds
    PROVE  /\ Granted(h) => /\ call[h] # NoCall /\ ~call[h].lost /\ call[h].op = "acquire"
                            /\ Acquiring(h) /\ ~Releasing(h) /\ answer[h].lease # NoLease
           /\ answer[h] = NoAnswer => ~Granted(h)
<1>1. answer[h] = NoAnswer => ~Granted(h)
  BY DEF Granted, NoAnswer
<1>2. ASSUME Granted(h)
      PROVE  /\ call[h] # NoCall /\ ~call[h].lost /\ call[h].request.op = "acquire"
             /\ answer[h].lease # NoLease
  BY <1>1, <1>2 DEF Granted, LeaseInv, AnswersOK, Answers
<1>3. Granted(h) => call[h].op = "acquire"
  BY <1>2, OneClientStays DEF LeaseInv, Good, Fits
<1> QED
  BY <1>1, <1>2, <1>3 DEF Acquiring, Releasing

LEMMA UngrantedIsANumber ==
    ASSUME LeaseInv, NEW h \in Holds
    PROVE  Ungranted(h) \in Nat
  BY CopiesAdd DEF LeaseInv, LateOK, Ungranted

(* The counters before and after a step                                    *)
LEMMA NumbersNext ==
    ASSUME LeaseInv, LeaseInv', NEW h \in Holds
    PROVE  Ungranted(h) \in Nat /\ Ungranted(h)' \in Nat /\ Unheard \in Nat /\ Unheard' \in Nat
<1>1. Ungranted(h) \in Nat /\ Unheard \in Nat
  BY UngrantedIsANumber, CountersAreNumbers
<1>2. Ungranted(h)' \in Nat
  BY DEF LeaseInv, LateOK, Ungranted, Copies, IsABag, BagToSet
<1>3. Unheard' \in Nat
  BY DEF LeaseInv, CountersOK, Unheard
<1> QED
  BY <1>1, <1>2, <1>3

(* The account of a hold after a step that may add one lease to it         *)
LEMMA Recount ==
    ASSUME LeaseInv, LeaseInv', NEW h \in Holds, Accounted(h), NEW more \in {0, 1}, NEW x,
           LiveLeases(h)' \ {Tended(h)'} \subseteq (LiveLeases(h) \ {Tended(h)}) \cup {x},
           more = 0 => LiveLeases(h)' \ {Tended(h)'} \subseteq LiveLeases(h) \ {Tended(h)},
           more + Ungranted(h)' + (IF Doubtful(h)' THEN 1 ELSE 0) + Unheard
             <= Ungranted(h) + (IF Doubtful(h) THEN 1 ELSE 0) + Unheard'
    PROVE  Accounted(h)'
<1> DEFINE S == LiveLeases(h) \ {Tended(h)}
<1> DEFINE T == LiveLeases(h)' \ {Tended(h)'}
<1>1. IsFiniteSet(S)
  BY LiveLeasesAreFinite, FS_Subset
<1>2. /\ Cardinality(S) \in Nat /\ Cardinality(T) \in Nat
      /\ Cardinality(T) <= Cardinality(S) + 1
      /\ more = 0 => Cardinality(T) <= Cardinality(S)
  <2> HIDE DEF S, T
  <2>1. T \subseteq S \cup {x}
    BY DEF S, T
  <2>2. /\ Cardinality(S) \in Nat /\ Cardinality(T) \in Nat /\ Cardinality(T) <= Cardinality(S) + 1
    BY <1>1, <2>1, OneMore
  <2>3. more = 0 => Cardinality(T) <= Cardinality(S)
    <3>1. more = 0 => T \subseteq S
      BY DEF S, T
    <3> QED
      BY <1>1, <3>1, FS_Subset
  <2> QED
    BY <2>2, <2>3
<1>3. Ungranted(h) \in Nat /\ Ungranted(h)' \in Nat /\ Unheard \in Nat /\ Unheard' \in Nat
  BY NumbersNext
<1>4. Cardinality(S) + Ungranted(h) + (IF Doubtful(h) THEN 1 ELSE 0) <= Unheard
  BY DEF Accounted
<1>5. Cardinality(T) + Ungranted(h)' + (IF Doubtful(h)' THEN 1 ELSE 0) <= Unheard'
  <2> HIDE DEF S, T
  <2>1. CASE more = 0
    BY <1>2, <1>3, <1>4, <2>1
  <2>2. CASE more = 1
    BY <1>2, <1>3, <1>4, <2>2
  <2> QED
    BY <2>1, <2>2
<1> QED
  BY <1>5 DEF Accounted
(* A hold that a step leaves alone                                         *)
LEMMA OthersStayAccounted ==
    ASSUME LeaseInv, LeaseInv', LeasesInv, NEW g \in Holds,
           hold'[g] = hold[g], call'[g] = call[g], answer'[g] = answer[g], process' = process,
           LiveLeases(g)' \subseteq LiveLeases(g), Ungranted(g)' <= Ungranted(g), Unheard <= Unheard'
    PROVE  Accounted(g)' /\ GoneFirst(g)'
<1>1. /\ Accounted(g) /\ GoneFirst(g)
      /\ Tended(g)' = Tended(g) /\ TendedAt(g)' = TendedAt(g) /\ (Doubtful(g)' <=> Doubtful(g))
      /\ (Held(g)' <=> Held(g)) /\ (Acquiring(g)' <=> Acquiring(g))
  BY DEF LeasesInv, Granted, Tended, TendedAt, Doubtful, Held, Acquiring, Releasing
<1>2. GoneFirst(g)'
  BY <1>1 DEF GoneFirst
<1>3. Ungranted(g) \in Nat /\ Ungranted(g)' \in Nat /\ Unheard \in Nat /\ Unheard' \in Nat
  BY NumbersNext
<1>4. /\ 0 + Ungranted(g)' + (IF Doubtful(g)' THEN 1 ELSE 0) + Unheard
           <= Ungranted(g) + (IF Doubtful(g) THEN 1 ELSE 0) + Unheard'
      /\ LiveLeases(g)' \ {Tended(g)'} \subseteq LiveLeases(g) \ {Tended(g)}
  BY <1>1, <1>3
<1> QED
  BY <1>1, <1>2, <1>4, Recount

(* A request without a caller, and the account of grants                   *)
LEMMA AbandonAddsOne ==
    ASSUME LeaseInv, AcquiresCurrent, NEW h \in Holds, Abandon(h), process' = process
    PROVE  /\ \A r \in BagToSet(late)' : r.op = "acquire" => r = AcquireOf(r.hold)'
           /\ \A g \in Holds :
                 \/ Ungranted(g)' = Ungranted(g)
                 \/ /\ g = h /\ call[h] # NoCall /\ call[h].op = "acquire" /\ ~call[h].lost
                    /\ answer[h] = NoAnswer /\ Ungranted(g)' = Ungranted(g) + 1
<1>1. ASSUME NEW g \in Holds
      PROVE  AcquireOf(g)' = AcquireOf(g)
  BY DEF AcquireOf
<1>2. ASSUME NEW r \in BagToSet(late)
      PROVE  r.hold \in Holds
  BY DEF LeaseInv, LateOK, Request
<1>3. CASE UNCHANGED late
  BY <1>1, <1>2, <1>3 DEF AcquiresCurrent, Ungranted, Copies, BagToSet
<1>4. CASE /\ call[h] # NoCall /\ ~call[h].lost /\ answer[h] = NoAnswer /\ call[h].request.process = process
           /\ late' = late (+) SetToBag({call[h].request})
  <2> DEFINE r == call[h].request
  <2>1. /\ Good(h, hold[h], call[h]) /\ r \in Request /\ r.hold = h /\ r.op = call[h].op
    BY <1>4, OneClientStays DEF LeaseInv, Good, Calls, Fits
  <2>2. IsABag(late) /\ BagToSet(late) \subseteq Request
    BY DEF LeaseInv, LateOK
  <2>3. BagToSet(late') = BagToSet(late) \cup {r}
    BY <1>4, <2>2, BagAdds
  <2>4. ASSUME r.op = "acquire"
        PROVE  r = AcquireOf(h)
    BY <1>4, <2>1, <2>4 DEF AcquiresCurrent, AcquireOf, Request
  <2>5. \A q \in BagToSet(late') : q.op = "acquire" => q = AcquireOf(q.hold)
    BY <2>1, <2>3, <2>4 DEF AcquiresCurrent
  <2>6. ASSUME NEW g \in Holds, g # h \/ r.op # "acquire"
        PROVE  Copies(AcquireOf(g), late') = Copies(AcquireOf(g), late)
    <3>1. AcquireOf(g) # r
      BY <2>1, <2>6 DEF AcquireOf
    <3> QED
      BY <1>4, <2>2, <3>1, CopiesAdd
  <2>7. r.op = "acquire" => Copies(AcquireOf(h), late') = Copies(AcquireOf(h), late) + 1
    BY <1>4, <2>2, <2>4, CopiesAdd
  <2>8. \A q \in BagToSet(late') : q.hold \in Holds
    BY <1>2, <2>1, <2>3
  <2>9. ASSUME NEW g \in Holds
        PROVE  Ungranted(g)' = Copies(AcquireOf(g), late') /\ Ungranted(g) = Copies(AcquireOf(g), late)
    BY <1>1 DEF Ungranted
  <2>10. \A q \in BagToSet(late)' : q.op = "acquire" => q = AcquireOf(q.hold)'
    <3>1. BagToSet(late)' = BagToSet(late')
      BY DEF BagToSet
    <3> QED
      BY <1>1, <2>5, <2>8, <3>1
  <2> HIDE DEF r
  <2> QED
    BY <1>4, <2>1, <2>6, <2>7, <2>9, <2>10
<1> QED
  BY <1>3, <1>4 DEF Abandon

(* A call with a lease to name asks for no new one.                        *)
LEMMA OneCallIsCurrent ==
    ASSUME AcquiresCurrent, NEW h \in Holds, NEW c, LeaseInv,
           call' = [call EXCEPT ![h] = c],
           c # NoCall /\ c.op = "acquire" => c.request.lease = NoLease
    PROVE  \A g \in Holds : call'[g] # NoCall /\ call'[g].op = "acquire" => call'[g].request.lease = NoLease
  BY DEF AcquiresCurrent, LeaseInv, ClientsOK
(* One client steps: what is left to show is about itself.                 *)
LEMMA OneClientCounts ==
    ASSUME LeaseInv, LeaseInv', LeasesInv, NEW h \in Holds, NEW s, NEW c, NEW a,
           hold' = [hold EXCEPT ![h] = s], call' = [call EXCEPT ![h] = c],
           answer' = [answer EXCEPT ![h] = a],
           process' = process, Unheard <= Unheard',
           \A g \in Holds \ {h} : LiveLeases(g)' \subseteq LiveLeases(g) /\ Ungranted(g)' <= Ungranted(g),
           AcquiresCurrent', Accounted(h)', GoneFirst(h)'
    PROVE  LeasesInv'
<1>1. ASSUME NEW g \in Holds \ {h}
      PROVE  Accounted(g)' /\ GoneFirst(g)'
  <2>1. hold'[g] = hold[g] /\ call'[g] = call[g] /\ answer'[g] = answer[g]
    BY DEF LeaseInv, ClientsOK, AnswersOK
  <2> QED
    BY <2>1, OthersStayAccounted
<1> QED
  BY <1>1 DEF LeasesInv

LEMMA TableStays ==
    ASSUME UNCHANGED leases, NEW g \in Holds
    PROVE  LiveLeases(g)' = LiveLeases(g)
  BY DEF LiveLeases

LEMMA LateStays ==
    ASSUME UNCHANGED <<late, process>>, NEW g \in Holds
    PROVE  Ungranted(g)' = Ungranted(g)
  BY DEF Ungranted, Copies, AcquireOf, BagToSet

LEMMA LateStaysCurrent ==
    ASSUME LeaseInv, AcquiresCurrent, UNCHANGED <<late, process>>
    PROVE  \A r \in BagToSet(late)' : r.op = "acquire" => r = AcquireOf(r.hold)'
  BY DEF AcquiresCurrent, AcquireOf, BagToSet

(* What a hold is after one of its steps, which leaves no answer for it    *)
LEMMA ClientAfter ==
    ASSUME LeaseInv, NEW h \in Holds, NEW s, NEW c,
           hold' = [hold EXCEPT ![h] = s], call' = [call EXCEPT ![h] = c],
           answer' = [answer EXCEPT ![h] = NoAnswer]
    PROVE  /\ hold'[h] = s /\ call'[h] = c
           /\ Tended(h)' = IF c # NoCall /\ c.op = "release" THEN c.request.lease ELSE s.lease
           /\ TendedAt(h)' = IF c # NoCall /\ c.op = "release" THEN c.request.process ELSE s.target
           /\ Doubtful(h)' <=> \/ s.tag = "Held" /\ s.failures > 0
                               \/ c # NoCall /\ c.lost /\ c.op \in {"renew", "release"}
           /\ Held(h)' <=> s.tag = "Held"
           /\ hold'[h].lease = s.lease /\ answer'[h].status = "none"
           /\ Acquiring(h)' <=> c # NoCall /\ c.op \in {"negotiate", "acquire"}
<1>1. hold'[h] = s /\ call'[h] = c /\ answer'[h].status = "none"
  BY DEF LeaseInv, ClientsOK, AnswersOK, NoAnswer
<1> QED
  BY <1>1 DEF Granted, Tended, TendedAt, Doubtful, Held, Acquiring, Releasing

(* The same for a hold with no call, and for one with a new call           *)
LEMMA IdleAfter ==
    ASSUME LeaseInv, NEW h \in Holds, NEW s,
           hold' = [hold EXCEPT ![h] = s], call' = [call EXCEPT ![h] = NoCall],
           answer' = [answer EXCEPT ![h] = NoAnswer]
    PROVE  /\ Tended(h)' = s.lease /\ TendedAt(h)' = s.target /\ ~Acquiring(h)'
           /\ hold'[h].lease = s.lease /\ answer'[h].status = "none"
           /\ s.tag # "Held" => ~Held(h)'
           /\ s.tag # "Held" \/ ~(s.failures > 0) => ~Doubtful(h)'
<1>1. hold'[h] = s /\ call'[h] = NoCall /\ answer'[h].status = "none"
  BY DEF LeaseInv, ClientsOK, AnswersOK, NoAnswer
<1> QED
  BY <1>1 DEF Granted, Tended, TendedAt, Doubtful, Held, Acquiring, Releasing

LEMMA CallingAfter ==
    ASSUME LeaseInv, NEW h \in Holds, NEW s, NEW c, c # NoCall, ~c.lost,
           hold' = [hold EXCEPT ![h] = s], call' = [call EXCEPT ![h] = c],
           answer' = [answer EXCEPT ![h] = NoAnswer]
    PROVE  /\ Tended(h)' = IF c.op = "release" THEN c.request.lease ELSE s.lease
           /\ TendedAt(h)' = IF c.op = "release" THEN c.request.process ELSE s.target
           /\ hold'[h].lease = s.lease /\ answer'[h].status = "none"
           /\ s.tag # "Held" => ~Held(h)'
           /\ Doubtful(h)' => s.tag = "Held" /\ s.failures > 0
<1>1. hold'[h] = s /\ call'[h] = c /\ answer'[h].status = "none"
  BY DEF LeaseInv, ClientsOK, AnswersOK, NoAnswer
<1> QED
  BY <1>1 DEF Granted, Tended, TendedAt, Doubtful, Held, Acquiring, Releasing

(* A hold begins a call for what it tends.                                 *)
LEMMA AskingCounts ==
    ASSUME LeaseInv, LeaseInv', LeasesInv, NEW h \in Holds, NEW s, NEW c,
           hold' = [hold EXCEPT ![h] = s], call' = [call EXCEPT ![h] = c],
           answer' = [answer EXCEPT ![h] = NoAnswer],
           UNCHANGED <<process, leases, late, faults, closes>>,
           call[h] = NoCall, c # NoCall, ~c.lost, c.op \in {"negotiate", "renew"},
           s.lease = hold[h].lease, s.target = hold[h].target, s.failures = hold[h].failures,
           s.tag = "Held" <=> Held(h) /\ c.op = "renew", Held(h) => c.op = "renew"
    PROVE  LeasesInv'
<1>0. ~Granted(h)
  BY GrantedIsAcquiring
<1>1. Accounted(h) /\ GoneFirst(h) /\ AcquiresCurrent
  BY DEF LeasesInv
<1>2. LiveLeases(h)' = LiveLeases(h) /\ Ungranted(h)' = Ungranted(h) /\ Unheard' = Unheard
  BY TableStays, LateStays DEF Unheard
<1>3. Tended(h)' = Tended(h) /\ TendedAt(h)' = TendedAt(h) /\ (Doubtful(h)' <=> Doubtful(h))
      /\ (Held(h)' => ~Acquiring(h)') /\ answer'[h].status = "none"
  <2>1. /\ Tended(h)' = s.lease /\ TendedAt(h)' = s.target /\ (Held(h)' <=> s.tag = "Held")
        /\ Doubtful(h)' <=> s.tag = "Held" /\ s.failures > 0
        /\ Acquiring(h)' <=> c.op = "negotiate"
        /\ answer'[h].status = "none"
    <3>1. /\ Tended(h)' = IF c # NoCall /\ c.op = "release" THEN c.request.lease ELSE s.lease
          /\ TendedAt(h)' = IF c # NoCall /\ c.op = "release" THEN c.request.process ELSE s.target
          /\ Doubtful(h)' <=> \/ s.tag = "Held" /\ s.failures > 0
                              \/ c # NoCall /\ c.lost /\ c.op \in {"renew", "release"}
          /\ Held(h)' <=> s.tag = "Held"
          /\ hold'[h].lease = s.lease /\ answer'[h].status = "none"
          /\ Acquiring(h)' <=> c # NoCall /\ c.op \in {"negotiate", "acquire"}
      BY ClientAfter
    <3> QED
      BY <3>1
  <2>2. /\ Tended(h) = hold[h].lease /\ TendedAt(h) = hold[h].target
        /\ Doubtful(h) <=> Held(h) /\ hold[h].failures > 0
    BY <1>0 DEF Tended, TendedAt, Doubtful, Releasing
  <2> QED
    BY <2>1, <2>2
<1>4. Accounted(h)'
  BY <1>1, <1>2, <1>3 DEF Accounted
<1>5. GoneFirst(h)'
  BY <1>1, <1>2, <1>3 DEF GoneFirst
<1>6. AcquiresCurrent'
  BY <1>1, LateStaysCurrent, OneCallIsCurrent DEF AcquiresCurrent
<1>7. Unheard <= Unheard'
  BY <1>2, CountersAreNumbers
<1>8. \A g \in Holds \ {h} : LiveLeases(g)' \subseteq LiveLeases(g) /\ Ungranted(g)' <= Ungranted(g)
  BY TableStays, LateStays, UngrantedIsANumber
<1> QED
  BY <1>4, <1>5, <1>6, <1>7, <1>8, OneClientCounts

LEMMA MaintainCounts ==
    ASSUME LeaseInv, LeaseInv', LeasesInv, NEW h \in Holds, Maintain(h)
    PROVE  LeasesInv'
<1>1. Good(h, hold[h], call[h]) /\ hold' = [hold EXCEPT ![h] = hold[h]]
      /\ answer' = [answer EXCEPT ![h] = NoAnswer]
  BY OneClientStays, NotAnswered DEF LeaseInv, Maintain
<1>2. hold[h].lease \in Nat /\ hold[h].target \in Nat /\ NoLease \in Nat /\ 0 \in Nat
  BY <1>1 DEF Good, NoLease
<1>3. CASE Held(h)
  <2> DEFINE c == Call(h, "renew", hold[h].lease, hold[h].target)
  <2>1. c # NoCall /\ ~c.lost /\ c.op = "renew"
    BY <1>2, CallIsMade
  <2>2. call' = [call EXCEPT ![h] = c]
    BY <1>3 DEF Maintain, Held
  <2> HIDE DEF c
  <2> QED
    BY <1>1, <1>3, <2>1, <2>2, AskingCounts DEF Maintain, Held
<1>4. CASE ~Held(h)
  <2> DEFINE c == Negotiate(h)
  <2>1. c # NoCall /\ ~c.lost /\ c.op = "negotiate"
    BY <1>2, CallIsMade DEF Negotiate
  <2>2. call' = [call EXCEPT ![h] = c]
    BY <1>4 DEF Maintain, Held
  <2> HIDE DEF c
  <2> QED
    BY <1>1, <1>4, <2>1, <2>2, AskingCounts DEF Maintain, Held
<1> QED
  BY <1>3, <1>4

LEMMA BeginCounts ==
    ASSUME LeaseInv, LeaseInv', LeasesInv, NEW h \in Holds, Begin(h)
    PROVE  LeasesInv'
<1> DEFINE s == [hold[h] EXCEPT !.tag = "Connecting"]
<1> DEFINE c == Negotiate(h)
<1>1. hold[h] \in HoldStates
  BY OneClientStays DEF LeaseInv, Good
<1>2. s.tag = "Connecting" /\ s.lease = hold[h].lease /\ s.target = hold[h].target
      /\ s.failures = hold[h].failures
  BY <1>1
<1>3. c # NoCall /\ ~c.lost /\ c.op = "negotiate"
  <2>1. NoLease \in Nat /\ 0 \in Nat
    BY DEF NoLease
  <2> QED
    BY <2>1, CallIsMade DEF Negotiate
<1>4. ~Held(h) /\ call[h] = NoCall
  BY DEF Begin, Held
<1>5. hold' = [hold EXCEPT ![h] = s] /\ call' = [call EXCEPT ![h] = c]
      /\ answer' = [answer EXCEPT ![h] = NoAnswer]
  BY NotAnswered DEF LeaseInv, Begin
<1> HIDE DEF s, c
<1> QED
  BY <1>2, <1>3, <1>4, <1>5, AskingCounts DEF Begin

(* A failure makes a hold forget its lease, or doubt it.                   *)
LEMMA FailureForgets ==
    ASSUME NEW h \in Holds, NEW s, NEW c, Good(h, s, c), c # NoCall, NEW t, t = AfterFailure(s, c.op)
    PROVE  \/ t.tag # "Held" /\ t.lease = NoLease
           \/ /\ c.op = "renew" /\ t.tag = "Held" /\ t.lease = s.lease /\ t.target = s.target
              /\ t.failures > 0
<1>1. s \in HoldStates /\ s.failures \in Nat /\ s.age \in Nat
  BY DEF Good
<1>2. CASE c.op = "renew" /\ s.age < Ttl
  <2>1. t = [s EXCEPT !.failures = s.failures + 1, !.sleep = Backoff(s.failures + 1)]
    BY <1>1, <1>2, TimingAssumption DEF AfterFailure
  <2>2. s.tag = "Held"
    BY <1>2 DEF Good, Fits
  <2>3. t.tag = s.tag /\ t.lease = s.lease /\ t.target = s.target /\ t.failures = s.failures + 1
    BY <1>1, <2>1
  <2> QED
    BY <1>1, <1>2, <2>2, <2>3
<1>3. CASE ~(c.op = "renew" /\ s.age < Ttl)
  <2>1. t = Off \/ t = Waiting \/ t = Lapsed(s.failures + 1)
    BY <1>1, <1>3, TimingAssumption DEF AfterFailure
  <2>2. Off.tag # "Held" /\ Off.lease = NoLease
    BY DEF Off
  <2>3. Waiting.tag # "Held" /\ Waiting.lease = NoLease
    BY DEF Waiting, Off
  <2>4. Lapsed(s.failures + 1).tag # "Held" /\ Lapsed(s.failures + 1).lease = NoLease
    BY DEF Lapsed, Off
  <2> QED
    BY <2>1, <2>2, <2>3, <2>4
<1> QED
  BY <1>2, <1>3

LEMMA FailureCounts ==
    ASSUME LeaseInv, LeaseInv', LeasesInv, NEW h \in Holds, call[h] # NoCall,
           hold' = [hold EXCEPT ![h] = AfterFailure(hold[h], call[h].op)],
           call' = [call EXCEPT ![h] = NoCall],
           answer' = [answer EXCEPT ![h] = NoAnswer],
           UNCHANGED <<process, leases, late>>,
           Unheard' \in {Unheard, Unheard + 1},
           call[h].op \in {"renew", "release"} => Doubtful(h) \/ Unheard' = Unheard + 1,
           Granted(h) => Unheard' = Unheard + 1
    PROVE  LeasesInv'
<1> DEFINE s == hold[h]
<1> DEFINE t == AfterFailure(s, call[h].op)
<1>1. /\ Good(h, s, call[h]) /\ Accounted(h) /\ GoneFirst(h) /\ AcquiresCurrent
      /\ call[h] \in Calls
  BY OneClientStays DEF LeaseInv, LeasesInv, Good
<1>2. LiveLeases(h)' = LiveLeases(h) /\ Ungranted(h)' = Ungranted(h)
  BY TableStays, LateStays
<1>3. Ungranted(h) \in Nat /\ Unheard \in Nat /\ NoLease \notin LiveLeases(h)
  BY UngrantedIsANumber, CountersAreNumbers, LiveLeasesAreFinite
<1>4. /\ Tended(h)' = t.lease /\ TendedAt(h)' = t.target
      /\ Doubtful(h)' <=> t.tag = "Held" /\ t.failures > 0
      /\ ~Acquiring(h)' /\ hold'[h].lease = t.lease /\ answer'[h].status = "none"
  <2> HIDE DEF t
  <2>1. hold' = [hold EXCEPT ![h] = t]
    BY DEF t
  <2>2. hold'[h] = t /\ call'[h] = NoCall /\ answer'[h].status = "none"
    BY <2>1 DEF LeaseInv, ClientsOK, AnswersOK, NoAnswer
  <2> QED
    BY <2>2 DEF Granted, Tended, TendedAt, Doubtful, Held, Acquiring, Releasing
<1>5. ASSUME t.tag # "Held", t.lease = NoLease
      PROVE  Accounted(h)'
  <2> HIDE DEF t
  <2>1. ~Doubtful(h)' /\ Tended(h)' = NoLease
    BY <1>4, <1>5
  <2>2. CASE call[h].op \in {"renew", "release"} \/ Granted(h)
    <3>1. LiveLeases(h)' \ {Tended(h)'} \subseteq (LiveLeases(h) \ {Tended(h)}) \cup {Tended(h)}
      BY <1>2
    <3>2. 1 + Ungranted(h)' + (IF Doubtful(h)' THEN 1 ELSE 0) + Unheard
            <= Ungranted(h) + (IF Doubtful(h) THEN 1 ELSE 0) + Unheard'
      BY <1>2, <1>3, <2>1, <2>2
    <3>3. Accounted(h)'
      BY <1>1, <3>1, <3>2, Recount
    <3> QED
      BY <3>3
  <2>3. CASE call[h].op \notin {"renew", "release"} /\ ~Granted(h)
    <3>1. Tended(h) \notin LiveLeases(h)
      <4>1. call[h].op \in {"negotiate", "acquire"}
        BY <1>1, <2>3 DEF Calls
      <4>2. ~Releasing(h) /\ Acquiring(h) /\ Tended(h) = hold[h].lease
        BY <2>3, <4>1 DEF Releasing, Acquiring, Tended
      <4>3. CASE Held(h)
        BY <1>1, <4>2, <4>3 DEF GoneFirst
      <4>4. CASE ~Held(h)
        BY <1>1, <1>3, <4>2, <4>4 DEF Good, Held
      <4> QED
        BY <4>3, <4>4
    <3>2. LiveLeases(h)' \ {Tended(h)'} \subseteq LiveLeases(h) \ {Tended(h)}
      BY <1>2, <3>1
    <3>3. 0 + Ungranted(h)' + (IF Doubtful(h)' THEN 1 ELSE 0) + Unheard
            <= Ungranted(h) + (IF Doubtful(h) THEN 1 ELSE 0) + Unheard'
      BY <1>2, <1>3, <2>1
    <3> QED
      BY <1>1, <3>2, <3>3, Recount
  <2> QED
    BY <2>2, <2>3
<1>6. ASSUME call[h].op = "renew", t.tag = "Held", t.lease = s.lease, t.target = s.target,
             t.failures > 0
      PROVE  Accounted(h)'
  <2> HIDE DEF t
  <2>1. Tended(h)' = Tended(h) /\ TendedAt(h)' = TendedAt(h)
    BY <1>4, <1>6, GrantedIsAcquiring DEF Tended, TendedAt, Releasing
  <2>2. LiveLeases(h)' \ {Tended(h)'} \subseteq LiveLeases(h) \ {Tended(h)}
    BY <1>2, <2>1
  <2>3. 0 + Ungranted(h)' + (IF Doubtful(h)' THEN 1 ELSE 0) + Unheard
          <= Ungranted(h) + (IF Doubtful(h) THEN 1 ELSE 0) + Unheard'
    BY <1>2, <1>3, <1>6
  <2> QED
    BY <1>1, <2>2, <2>3, Recount
<1>7. Accounted(h)'
  BY <1>1, <1>5, <1>6, FailureForgets
<1>8. GoneFirst(h)'
  <2>1. CASE t.lease = NoLease
    <3> HIDE DEF t
    <3> QED
      BY <1>2, <1>3, <1>4, <2>1 DEF GoneFirst
  <2>2. CASE call[h].op = "renew" /\ t.lease = s.lease /\ t.target = s.target
    <3>1. TendedAt(h) = t.target /\ Tended(h) = t.lease
      BY <2>2, GrantedIsAcquiring DEF Tended, TendedAt, Releasing
    <3> HIDE DEF t
    <3> QED
      BY <1>1, <1>2, <1>4, <3>1 DEF GoneFirst
  <2> QED
    BY <1>1, <2>1, <2>2, FailureForgets
<1>9. AcquiresCurrent'
  BY <1>1, LateStaysCurrent, OneCallIsCurrent DEF AcquiresCurrent
<1>10. \A g \in Holds \ {h} : LiveLeases(g)' \subseteq LiveLeases(g) /\ Ungranted(g)' <= Ungranted(g)
  BY TableStays, LateStays, UngrantedIsANumber
<1>11. Unheard <= Unheard'
  BY <1>3
<1> HIDE DEF t
<1>12. hold' = [hold EXCEPT ![h] = t]
  BY DEF t
<1> QED
  BY <1>7, <1>8, <1>9, <1>10, <1>11, <1>12, OneClientCounts

LEMMA FaultIsUnheard ==
    ASSUME LeaseInv, NEW h \in Holds, Fault(h)
    PROVE  Unheard' = Unheard + 1
  BY DEF LeaseInv, CountersOK, Fault, Unheard

LEMMA TimeOutCounts ==
    ASSUME LeaseInv, LeaseInv', LeasesInv, NEW h \in Holds, TimeOut(h)
    PROVE  LeasesInv'
<1>1. Unheard' = Unheard
  BY DEF TimeOut, Unheard
<1>2. call[h].op \in {"renew", "release"} => Doubtful(h)
  BY DEF TimeOut, Doubtful
<1>3. ~Granted(h) /\ answer' = [answer EXCEPT ![h] = NoAnswer]
  BY GrantedIsAcquiring, NotAnswered DEF TimeOut, LeaseInv
<1> QED
  BY <1>1, <1>2, <1>3, FailureCounts DEF TimeOut

LEMMA RefuseCounts ==
    ASSUME LeaseInv, LeaseInv', LeasesInv, NEW h \in Holds, Refuse(h)
    PROVE  LeasesInv'
<1>1. Unheard' = Unheard + 1
  BY FaultIsUnheard DEF Refuse
<1> QED
  BY <1>1, FailureCounts DEF Refuse, Fault

(* A request is cut: what it may do later is on the account.               *)
LEMMA CutCounts ==
    ASSUME LeaseInv, LeaseInv', LeasesInv, NEW h \in Holds, Cut(h)
    PROVE  LeasesInv'
<1> DEFINE c == [call[h] EXCEPT !.lost = TRUE, !.left = Timeout(call[h].op) - (MaxDelay - @)]
<1>1. /\ Accounted(h) /\ GoneFirst(h) /\ AcquiresCurrent /\ call[h] \in Calls /\ call[h] # NoCall
      /\ hold = [hold EXCEPT ![h] = hold[h]]
  BY OneClientStays DEF LeaseInv, LeasesInv, Good, Cut, Fault
<1>2. call' = [call EXCEPT ![h] = c] /\ hold' = [hold EXCEPT ![h] = hold[h]]
      /\ answer' = [answer EXCEPT ![h] = NoAnswer]
  BY <1>1 DEF Cut, Fault
<1>3. /\ c # NoCall /\ c.op = call[h].op /\ c.lost /\ c.request = call[h].request
  BY <1>1 DEF Calls, NoCall
<1>4. Ungranted(h) \in Nat /\ Unheard \in Nat /\ Unheard' = Unheard + 1 /\ LiveLeases(h)' = LiveLeases(h)
  BY UngrantedIsANumber, CountersAreNumbers, FaultIsUnheard, TableStays DEF Cut, Fault
<1> HIDE DEF c
<1>5. /\ (Held(h)' <=> Held(h)) /\ (Acquiring(h)' <=> Acquiring(h))
      /\ hold'[h].lease = hold[h].lease /\ answer'[h].status = "none"
      /\ call[h].op \notin {"renew", "release"} => (Doubtful(h)' <=> Doubtful(h))
      /\ Granted(h) => Tended(h)' = hold[h].lease
      /\ ~Granted(h) => Tended(h)' = Tended(h) /\ TendedAt(h)' = TendedAt(h)
  <2> DEFINE s == hold[h]
  <2>0. /\ Tended(h)' = IF c # NoCall /\ c.op = "release" THEN c.request.lease ELSE s.lease
        /\ TendedAt(h)' = IF c # NoCall /\ c.op = "release" THEN c.request.process ELSE s.target
        /\ Doubtful(h)' <=> \/ s.tag = "Held" /\ s.failures > 0
                            \/ c # NoCall /\ c.lost /\ c.op \in {"renew", "release"}
        /\ Held(h)' <=> s.tag = "Held"
        /\ hold'[h].lease = s.lease /\ answer'[h].status = "none"
        /\ Acquiring(h)' <=> c # NoCall /\ c.op \in {"negotiate", "acquire"}
    <3>1. hold' = [hold EXCEPT ![h] = s] /\ call' = [call EXCEPT ![h] = c]
          /\ answer' = [answer EXCEPT ![h] = NoAnswer]
      BY <1>2
    <3> HIDE DEF s
    <3> QED
      BY <3>1, ClientAfter
  <2>1. /\ Tended(h)' = IF Releasing(h) THEN c.request.lease ELSE hold[h].lease
        /\ TendedAt(h)' = IF Releasing(h) THEN c.request.process ELSE hold[h].target
    BY <1>1, <1>3, <2>0 DEF Releasing
  <2>2. /\ (Held(h)' <=> Held(h)) /\ (Acquiring(h)' <=> Acquiring(h))
        /\ hold'[h].lease = hold[h].lease /\ answer'[h].status = "none"
        /\ call[h].op \notin {"renew", "release"} => (Doubtful(h)' <=> Doubtful(h))
    BY <1>1, <1>3, <2>0 DEF Held, Acquiring, Doubtful
  <2>3. Granted(h) => ~Releasing(h)
    BY GrantedIsAcquiring
  <2> QED
    BY <1>3, <2>1, <2>2, <2>3 DEF Tended, TendedAt
<1>6. process' = process /\ Abandon(h)
  BY DEF Cut, Fault
<1>7. \/ Ungranted(h)' = Ungranted(h)
      \/ call[h].op = "acquire" /\ ~Granted(h) /\ Ungranted(h)' = Ungranted(h) + 1
  BY <1>1, <1>6, AbandonAddsOne, GrantedIsAcquiring
<1>8. Accounted(h)'
  <2>1. CASE ~Granted(h)
    <3>1. 0 + Ungranted(h)' + (IF Doubtful(h)' THEN 1 ELSE 0) + Unheard
            <= Ungranted(h) + (IF Doubtful(h) THEN 1 ELSE 0) + Unheard'
      <4>1. CASE call[h].op \in {"renew", "release"}
        BY <1>4, <1>7, <4>1
      <4>2. CASE call[h].op \notin {"renew", "release"}
        BY <1>4, <1>5, <1>7, <4>2
      <4> QED
        BY <4>1, <4>2
    <3>2. LiveLeases(h)' \ {Tended(h)'} \subseteq LiveLeases(h) \ {Tended(h)}
      BY <1>4, <1>5, <2>1
    <3> QED
      BY <1>1, <3>1, <3>2, Recount
  <2>2. CASE Granted(h)
    <3>1. 1 + Ungranted(h)' + (IF Doubtful(h)' THEN 1 ELSE 0) + Unheard
            <= Ungranted(h) + (IF Doubtful(h) THEN 1 ELSE 0) + Unheard'
      <4>1. call[h].op = "acquire"
        BY <2>2, GrantedIsAcquiring
      <4> QED
        BY <1>4, <1>5, <1>7, <2>2, <4>1
    <3>2. LiveLeases(h)' \ {Tended(h)'} \subseteq (LiveLeases(h) \ {Tended(h)}) \cup {Tended(h)}
      BY <1>4
    <3>3. Accounted(h)'
      BY <1>1, <3>1, <3>2, Recount
    <3> QED
      BY <3>3
  <2> QED
    BY <2>1, <2>2
<1>9. GoneFirst(h)'
  <2>1. CASE ~Granted(h)
    BY <1>1, <1>4, <1>5, <1>6, <2>1 DEF GoneFirst
  <2>2. CASE Granted(h)
    <3>1. hold[h].lease \notin LiveLeases(h)
      <4>1. Acquiring(h) /\ NoLease \notin LiveLeases(h)
        BY <2>2, GrantedIsAcquiring, LiveLeasesAreFinite
      <4>2. ~Held(h) => hold[h].lease = NoLease
        BY OneClientStays DEF LeaseInv, Good, Held
      <4> QED
        BY <1>1, <4>1, <4>2 DEF GoneFirst
    <3> QED
      BY <1>4, <1>5, <2>2, <3>1 DEF GoneFirst
  <2> QED
    BY <2>1, <2>2
<1>10. AcquiresCurrent'
  <2>1. \A r \in BagToSet(late)' : r.op = "acquire" => r = AcquireOf(r.hold)'
    BY <1>1, <1>6, AbandonAddsOne
  <2>2. c.op = "acquire" => c.request.lease = NoLease
    BY <1>1, <1>3 DEF AcquiresCurrent
  <2>3. \A g \in Holds : call'[g] # NoCall /\ call'[g].op = "acquire" => call'[g].request.lease = NoLease
    BY <1>1, <1>2, <2>2, OneCallIsCurrent
  <2> QED
    BY <2>1, <2>3 DEF AcquiresCurrent
<1>11. \A g \in Holds \ {h} : LiveLeases(g)' \subseteq LiveLeases(g) /\ Ungranted(g)' <= Ungranted(g)
  <2> SUFFICES ASSUME NEW g \in Holds \ {h}
               PROVE  LiveLeases(g)' \subseteq LiveLeases(g) /\ Ungranted(g)' <= Ungranted(g)
    OBVIOUS
  <2>1. Ungranted(g)' = Ungranted(g) /\ Ungranted(g) \in Nat
    BY <1>1, <1>6, AbandonAddsOne, UngrantedIsANumber
  <2>2. LiveLeases(g)' = LiveLeases(g)
    BY TableStays DEF Cut, Fault
  <2> QED
    BY <2>1, <2>2
<1>12. Unheard <= Unheard'
  BY <1>4
<1> QED
  BY <1>2, <1>6, <1>8, <1>9, <1>10, <1>11, <1>12, OneClientCounts

(* A scope closes: a hold gives back what it tends, and an acquire that    *)
(* may still run is on the account.                                        *)
LEMMA CloseCounts ==
    ASSUME LeaseInv, LeaseInv', LeasesInv, NEW h \in Holds, Close(h)
    PROVE  LeasesInv'
<1> DEFINE c == IF Held(h) THEN Call(h, "release", hold[h].lease, hold[h].target) ELSE NoCall
<1>1. /\ Good(h, hold[h], call[h]) /\ Accounted(h) /\ GoneFirst(h) /\ AcquiresCurrent
      /\ hold[h].lease \in Nat /\ hold[h].target \in Nat
  BY OneClientStays DEF LeaseInv, LeasesInv, Good
<1>2. hold' = [hold EXCEPT ![h] = Off] /\ call' = [call EXCEPT ![h] = c]
      /\ answer' = [answer EXCEPT ![h] = NoAnswer]
  BY DEF Close, Closing, Held
<1>3. /\ c # NoCall => /\ c.op = "release" /\ ~c.lost /\ c.request.lease = hold[h].lease
                       /\ c.request.process = hold[h].target
      /\ c # NoCall <=> Held(h)
  BY <1>1, CallIsMade
<1>4. Off.lease = NoLease /\ Off.tag # "Held"
  BY DEF Off
<1> HIDE DEF c
<1>5. ~Releasing(h)
  BY <1>1 DEF Releasing, Good, Fits, Close, Closing
<1>6. /\ Tended(h)' = hold[h].lease /\ ~Doubtful(h)' /\ ~Held(h)' /\ answer'[h].status = "none"
      /\ Held(h) => TendedAt(h)' = hold[h].target
      /\ ~Held(h) => hold[h].lease = NoLease
      /\ ~Granted(h) => Tended(h) = hold[h].lease /\ TendedAt(h) = hold[h].target
  <2>1. ~Granted(h) => Tended(h) = hold[h].lease /\ TendedAt(h) = hold[h].target
    BY <1>5 DEF Tended, TendedAt
  <2>2. /\ Tended(h)' = IF c # NoCall THEN c.request.lease ELSE NoLease
        /\ c # NoCall => TendedAt(h)' = c.request.process
        /\ ~Doubtful(h)' /\ ~Held(h)' /\ answer'[h].status = "none"
    <3>1. CASE c = NoCall
      BY <1>2, <1>4, <3>1, IdleAfter
    <3>2. CASE c # NoCall
      <4>1. /\ Tended(h)' = c.request.lease /\ TendedAt(h)' = c.request.process
            /\ ~Held(h)' /\ ~Doubtful(h)' /\ answer'[h].status = "none"
        <5> DEFINE s == Off
        <5>1. hold' = [hold EXCEPT ![h] = s] /\ call' = [call EXCEPT ![h] = c]
              /\ answer' = [answer EXCEPT ![h] = NoAnswer] /\ s.tag # "Held"
          BY <1>2, <1>4
        <5>2. c # NoCall /\ ~c.lost /\ c.op = "release"
          BY <1>3, <3>2
        <5> HIDE DEF s
        <5>3. /\ Tended(h)' = IF c.op = "release" THEN c.request.lease ELSE s.lease
              /\ TendedAt(h)' = IF c.op = "release" THEN c.request.process ELSE s.target
              /\ hold'[h].lease = s.lease /\ answer'[h].status = "none"
              /\ s.tag # "Held" => ~Held(h)'
              /\ Doubtful(h)' => s.tag = "Held" /\ s.failures > 0
          BY <5>1, <5>2, CallingAfter
        <5> QED
          BY <5>1, <5>2, <5>3
      <4> QED
        BY <3>2, <4>1
    <3> QED
      BY <3>1, <3>2
  <2>3. ~Held(h) => hold[h].lease = NoLease
    BY <1>1 DEF Good, Held
  <2> QED
    BY <1>3, <2>1, <2>2, <2>3
<1>7. /\ Ungranted(h) \in Nat /\ Unheard \in Nat /\ LiveLeases(h)' = LiveLeases(h)
      /\ NoLease \notin LiveLeases(h)
  BY UngrantedIsANumber, CountersAreNumbers, TableStays, LiveLeasesAreFinite DEF Close, Closing
<1>8. process' = process /\ Abandon(h)
  BY DEF Close, Closing
<1>9. Unheard' = Unheard + (IF call[h].op = "acquire" THEN 1 ELSE 0)
  BY DEF LeaseInv, CountersOK, Close, Closing, Unheard
<1>10. \/ Ungranted(h)' = Ungranted(h)
       \/ call[h].op = "acquire" /\ ~Granted(h) /\ Ungranted(h)' = Ungranted(h) + 1
  BY <1>1, <1>8, AbandonAddsOne, GrantedIsAcquiring
<1>11. Accounted(h)'
  <2>1. CASE ~Granted(h)
    <3>1. 0 + Ungranted(h)' + (IF Doubtful(h)' THEN 1 ELSE 0) + Unheard
            <= Ungranted(h) + (IF Doubtful(h) THEN 1 ELSE 0) + Unheard'
      BY <1>6, <1>7, <1>9, <1>10
    <3>2. LiveLeases(h)' \ {Tended(h)'} \subseteq LiveLeases(h) \ {Tended(h)}
      BY <1>6, <1>7, <2>1
    <3> QED
      BY <1>1, <3>1, <3>2, Recount
  <2>2. CASE Granted(h)
    <3>1. 1 + Ungranted(h)' + (IF Doubtful(h)' THEN 1 ELSE 0) + Unheard
            <= Ungranted(h) + (IF Doubtful(h) THEN 1 ELSE 0) + Unheard'
      <4>1. call[h].op = "acquire"
        BY <2>2, GrantedIsAcquiring
      <4> QED
        BY <1>6, <1>7, <1>9, <1>10, <2>2, <4>1
    <3>2. LiveLeases(h)' \ {Tended(h)'} \subseteq (LiveLeases(h) \ {Tended(h)}) \cup {Tended(h)}
      BY <1>7
    <3>3. Accounted(h)'
      BY <1>1, <3>1, <3>2, Recount
    <3> QED
      BY <3>3
  <2> QED
    BY <2>1, <2>2
<1>12. GoneFirst(h)'
  <2>1. CASE Held(h) /\ ~Granted(h)
    BY <1>1, <1>6, <1>7, <1>8, <2>1 DEF GoneFirst
  <2>2. CASE Held(h) /\ Granted(h)
    <3>1. hold[h].lease \notin LiveLeases(h)
      BY <1>1, <2>2, GrantedIsAcquiring DEF GoneFirst
    <3> QED
      BY <1>6, <1>7, <3>1 DEF GoneFirst
  <2>3. CASE ~Held(h)
    BY <1>6, <1>7, <2>3 DEF GoneFirst
  <2> QED
    BY <2>1, <2>2, <2>3
<1>13. AcquiresCurrent'
  <2>1. \A r \in BagToSet(late)' : r.op = "acquire" => r = AcquireOf(r.hold)'
    BY <1>1, <1>8, AbandonAddsOne
  <2>2. \A g \in Holds : call'[g] # NoCall /\ call'[g].op = "acquire" => call'[g].request.lease = NoLease
    BY <1>1, <1>2, <1>3, OneCallIsCurrent
  <2> QED
    BY <2>1, <2>2 DEF AcquiresCurrent
<1>14. \A g \in Holds \ {h} : LiveLeases(g)' \subseteq LiveLeases(g) /\ Ungranted(g)' <= Ungranted(g)
  <2> SUFFICES ASSUME NEW g \in Holds \ {h}
               PROVE  LiveLeases(g)' \subseteq LiveLeases(g) /\ Ungranted(g)' <= Ungranted(g)
    OBVIOUS
  <2>1. Ungranted(g)' = Ungranted(g) /\ Ungranted(g) \in Nat
    BY <1>1, <1>8, AbandonAddsOne, UngrantedIsANumber
  <2>2. LiveLeases(g)' = LiveLeases(g)
    BY TableStays DEF Close, Closing
  <2> QED
    BY <2>1, <2>2
<1>15. Unheard <= Unheard'
  BY <1>7, <1>9
<1> QED
  BY <1>2, <1>8, <1>11, <1>12, <1>13, <1>14, <1>15, OneClientCounts

(* The editor runs a request: a lease that it grants is tended at once.    *)
LEMMA ExecuteCounts ==
    ASSUME LeaseInv, LeaseInv', LeasesInv, NEW h \in Holds, Execute(h)
    PROVE  LeasesInv'
<1> DEFINE r == call[h].request
<1> DEFINE o == Editor(r)
<1> DEFINE a == [status |-> o.status, lease |-> o.lease, process |-> process]
<1> DEFINE Live == LiveLeases(h)
<1>1. /\ call[h] # NoCall /\ Good(h, hold[h], call[h]) /\ Accounted(h) /\ GoneFirst(h) /\ AcquiresCurrent
      /\ r \in Request /\ r.hold = h /\ r.op = call[h].op /\ answer[h] = NoAnswer
      /\ call[h].op \in {"negotiate", "acquire", "renew", "release"}
  BY OneClientStays DEF LeaseInv, LeasesInv, Good, Fits, Calls, Execute
<1>2. /\ LiveLeases(h)' = LiveIn(h, o.leases) /\ NoLease \notin Live
      /\ \A g \in Holds \ {h} : LiveLeases(g)' \subseteq LiveLeases(g)
  <2>1. leases' = o.leases
    BY DEF Execute
  <2>2. ASSUME NEW g \in Holds \ {h}
        PROVE  LiveIn(g, o.leases) \subseteq LiveLeases(g)
    BY <1>1, EditorGrantsOne
  <2> HIDE DEF o
  <2> QED
    BY <2>1, <2>2, LiveLeasesAreFinite DEF LiveLeases, LiveIn
<1>3. /\ LiveLeases(h)' \subseteq Live \cup {FreshId}
      /\ o.status # "granted" => LiveLeases(h)' \subseteq Live
      /\ o.status = "granted" => o.lease = FreshId
      /\ r.process = process => \/ r.op \notin {"renew", "release"}
                                \/ o.status = "renewed"
                                \/ r.lease \notin LiveLeases(h)'
  BY <1>1, <1>2, EditorGrantsOne
<1>4. /\ o.status = "granted" => r.op = "acquire" /\ r.process = process
      /\ o.status = "renewed" => r.op = "renew"
  BY <1>1, EditorAnswers
<1>5. /\ ~Granted(h) /\ Tended(h) = IF Releasing(h) THEN r.lease ELSE hold[h].lease
      /\ Releasing(h) <=> r.op = "release"
      /\ r.op \in {"renew", "release"} => r.lease = Tended(h) /\ r.process = TendedAt(h)
  <2>1. ~Granted(h) /\ (Releasing(h) <=> r.op = "release")
    BY <1>1, GrantedIsAcquiring DEF Releasing
  <2>2. r.op = "renew" => r.lease = hold[h].lease /\ r.process = hold[h].target
    BY <1>1 DEF Good, Fits
  <2> QED
    BY <2>1, <2>2 DEF Tended, TendedAt
<1>6. r.op \in {"negotiate", "acquire"} => hold[h].lease \notin Live
  <2>1. r.op \in {"negotiate", "acquire"} => Acquiring(h)
    BY <1>1 DEF Acquiring
  <2>2. ~Held(h) => hold[h].lease = NoLease
    BY <1>1 DEF Good, Held
  <2> QED
    BY <1>1, <1>2, <2>1, <2>2 DEF GoneFirst
(* A renewal or a release that is not carried out names a lease that is    *)
(* not there.                                                              *)
<1>7. ASSUME o.status \in {"expired", "rejected", "released"}
      PROVE  Tended(h) \notin LiveLeases(h)'
  <2>1. LiveLeases(h)' \subseteq Live
    BY <1>3, <1>7
  <2>2. CASE r.op \in {"renew", "release"} /\ r.process = process
    BY <1>3, <1>5, <1>7, <2>2
  <2>3. CASE r.op \in {"renew", "release"} /\ r.process # process
    BY <1>1, <1>5, <2>1, <2>3 DEF GoneFirst
  <2>4. CASE r.op \in {"negotiate", "acquire"}
    BY <1>5, <1>6, <2>1, <2>4
  <2> QED
    BY <1>1, <2>2, <2>3, <2>4
<1>8. /\ UNCHANGED <<process, hold, call, late, faults, closes>> /\ answer' = [answer EXCEPT ![h] = a]
      /\ hold' = [hold EXCEPT ![h] = hold[h]] /\ call' = [call EXCEPT ![h] = call[h]]
  BY OneClientStays DEF Execute, LeaseInv
<1> HIDE DEF o
<1>9. answer'[h] = a /\ answer'[h].status = o.status
  BY <1>8 DEF LeaseInv, AnswersOK
<1>10. /\ (Doubtful(h)' <=> Doubtful(h)) /\ (Held(h)' <=> Held(h)) /\ (Acquiring(h)' <=> Acquiring(h))
       /\ (Releasing(h)' <=> Releasing(h)) /\ (Granted(h)' <=> o.status = "granted")
       /\ hold'[h].lease = hold[h].lease
  BY <1>8, <1>9 DEF Doubtful, Held, Acquiring, Releasing, Granted
<1>11. /\ Ungranted(h) \in Nat /\ Unheard \in Nat /\ Unheard' = Unheard
       /\ \A g \in Holds : Ungranted(g)' = Ungranted(g) /\ Ungranted(g) \in Nat
  BY <1>8, UngrantedIsANumber, CountersAreNumbers, LateStays DEF Unheard
<1>12. ASSUME o.status = "granted"
      PROVE  LiveLeases(h)' \ {Tended(h)'} \subseteq Live \ {Tended(h)} /\ GoneFirst(h)'
  <2>1. Tended(h)' = FreshId /\ TendedAt(h)' = process
    BY <1>3, <1>4, <1>5, <1>8, <1>9, <1>10, <1>12 DEF Tended, TendedAt
  <2>2. LiveLeases(h)' \ {Tended(h)'} \subseteq Live \ {Tended(h)}
    BY <1>3, <1>4, <1>5, <1>6, <1>12, <2>1
  <2>3. FreshId # hold[h].lease
    BY FreshIdIsUnknown
  <2>4. hold[h].lease \notin LiveLeases(h)'
    BY <1>3, <1>4, <1>6, <1>12, <2>3
  <2>5. GoneFirst(h)'
    BY <1>8, <1>9, <1>10, <1>12, <2>1, <2>4 DEF GoneFirst
  <2> QED
    BY <2>2, <2>5
<1>13. ASSUME o.status # "granted"
      PROVE  LiveLeases(h)' \ {Tended(h)'} \subseteq Live \ {Tended(h)} /\ GoneFirst(h)'
  <2>1. Tended(h)' = Tended(h) /\ TendedAt(h)' = TendedAt(h)
    BY <1>5, <1>8, <1>10, <1>13 DEF Tended, TendedAt
  <2>2. LiveLeases(h)' \subseteq Live
    BY <1>3, <1>13
  <2>3. GoneFirst(h)'
    BY <1>1, <1>7, <1>8, <1>9, <1>10, <2>1, <2>2 DEF GoneFirst
  <2> QED
    BY <2>1, <2>2, <2>3
<1>14. LiveLeases(h)' \ {Tended(h)'} \subseteq Live \ {Tended(h)} /\ GoneFirst(h)'
  BY <1>12, <1>13
<1>15. Accounted(h)'
  <2>1. 0 + Ungranted(h)' + (IF Doubtful(h)' THEN 1 ELSE 0) + Unheard
          <= Ungranted(h) + (IF Doubtful(h) THEN 1 ELSE 0) + Unheard'
    BY <1>10, <1>11
  <2> QED
    BY <1>1, <1>14, <2>1, Recount
<1>16. AcquiresCurrent'
  BY <1>1, <1>8, LateStaysCurrent DEF AcquiresCurrent
<1>17. Unheard <= Unheard'
  BY <1>11
<1>18. \A g \in Holds \ {h} : LiveLeases(g)' \subseteq LiveLeases(g) /\ Ungranted(g)' <= Ungranted(g)
  BY <1>2, <1>11
<1> HIDE DEF a
<1> QED
  BY <1>8, <1>14, <1>15, <1>16, <1>17, <1>18, OneClientCounts

(* The step of a client that hears an answer: what it tends afterwards     *)
LEMMA AnswerCounts ==
    ASSUME LeaseInv, LeaseInv', LeasesInv, NEW h \in Holds, NEW s, NEW c,
           hold' = [hold EXCEPT ![h] = s], call' = [call EXCEPT ![h] = c],
           answer' = [answer EXCEPT ![h] = NoAnswer],
           UNCHANGED <<process, leases, late, faults, closes>>,
           c # NoCall /\ c.op = "acquire" => c.request.lease = NoLease,
           LiveLeases(h) \ {Tended(h)'} \subseteq LiveLeases(h) \ {Tended(h)},
           Doubtful(h)' => Doubtful(h), GoneFirst(h)'
    PROVE  LeasesInv'
<1>1. Accounted(h) /\ AcquiresCurrent
  BY DEF LeasesInv
<1>2. /\ Ungranted(h) \in Nat /\ Unheard \in Nat /\ Unheard' = Unheard
      /\ Ungranted(h)' = Ungranted(h) /\ LiveLeases(h)' = LiveLeases(h)
  BY UngrantedIsANumber, CountersAreNumbers, LateStays, TableStays DEF Unheard
<1>3. Accounted(h)'
  <2>1. 0 + Ungranted(h)' + (IF Doubtful(h)' THEN 1 ELSE 0) + Unheard
          <= Ungranted(h) + (IF Doubtful(h) THEN 1 ELSE 0) + Unheard'
    BY <1>2
  <2> QED
    BY <1>1, <1>2, <2>1, Recount
<1>4. AcquiresCurrent'
  BY <1>1, LateStaysCurrent, OneCallIsCurrent DEF AcquiresCurrent
<1>5. \A g \in Holds \ {h} : LiveLeases(g)' \subseteq LiveLeases(g) /\ Ungranted(g)' <= Ungranted(g)
  BY TableStays, LateStays, UngrantedIsANumber
<1>6. Unheard <= Unheard'
  BY <1>2
<1> QED
  BY <1>3, <1>4, <1>5, <1>6, OneClientCounts

LEMMA HearCounts ==
    ASSUME LeaseInv, LeaseInv', LeasesInv, NEW h \in Holds, Hear(h)
    PROVE  LeasesInv'
<1> DEFINE r == call[h].request
<1> DEFINE o == answer[h]
<1>1. /\ o # NoAnswer /\ call[h] # NoCall /\ Answers(r, o) /\ Good(h, hold[h], call[h])
      /\ Accounted(h) /\ GoneFirst(h) /\ r.op = call[h].op /\ Receive(h, o)
      /\ UNCHANGED <<process, leases, late, faults, closes>> /\ answer' = [answer EXCEPT ![h] = NoAnswer]
      /\ NoLease \notin LiveLeases(h)
  BY OneClientStays, LiveLeasesAreFinite DEF Hear, LeaseInv, AnswersOK, LeasesInv, Good, Fits
<1>2. /\ LiveLeases(h)' = LiveLeases(h) /\ answer'[h].status = "none"
      /\ Granted(h) <=> o.status = "granted"
  BY <1>1, TableStays DEF LeaseInv, AnswersOK, NoAnswer, Granted
<1>3. r.op \notin {"acquire", "release"} =>
         ~Granted(h) /\ Tended(h) = hold[h].lease /\ TendedAt(h) = hold[h].target
  BY <1>1, GrantedIsAcquiring DEF Tended, TendedAt, Releasing
<1>4. CASE /\ o.status = "manifest"
           /\ hold' = [hold EXCEPT ![h] = hold[h]]
           /\ call' = [call EXCEPT ![h] = Call(h, "acquire", NoLease, o.process)]
  <2> DEFINE c == Call(h, "acquire", NoLease, o.process)
  <2>1. c # NoCall /\ ~c.lost /\ c.op = "acquire" /\ c.request.lease = NoLease
    <3>1. NoLease \in Nat /\ o.process \in Nat
      BY <1>1 DEF NoLease, Answers
    <3> QED
      BY <3>1, CallIsMade
  <2>2. call' = [call EXCEPT ![h] = c] /\ r.op = "negotiate"
    BY <1>1, <1>4 DEF Answers
  <2> HIDE DEF c
  <2>3. Tended(h)' = hold[h].lease /\ TendedAt(h)' = hold[h].target /\ hold'[h].lease = hold[h].lease
        /\ (Doubtful(h)' => hold[h].tag = "Held" /\ hold[h].failures > 0)
    BY <1>1, <1>4, <2>1, <2>2, CallingAfter
  <2>4. Tended(h)' = Tended(h) /\ TendedAt(h)' = TendedAt(h) /\ (Doubtful(h)' => Doubtful(h))
    BY <1>3, <2>2, <2>3 DEF Doubtful, Held
  <2>5. (Held(h)' <=> Held(h)) /\ Acquiring(h)
    <3>1. hold' = hold
      BY <1>4 DEF LeaseInv, ClientsOK
    <3> QED
      BY <1>1, <2>2, <3>1 DEF Held, Acquiring
  <2>6. GoneFirst(h)'
    BY <1>1, <1>2, <2>3, <2>4, <2>5 DEF GoneFirst
  <2> QED
    BY <1>1, <1>4, <2>1, <2>2, <2>4, <2>6, AnswerCounts
<1>5. CASE /\ o.status = "granted"
           /\ hold' = [hold EXCEPT ![h] = Hold(o.lease, r.process)]
           /\ call' = [call EXCEPT ![h] = NoCall]
  <2> DEFINE s == Hold(o.lease, r.process)
  <2>1. s.lease = o.lease /\ s.target = r.process /\ ~(s.failures > 0)
    BY DEF Hold
  <2>2. hold' = [hold EXCEPT ![h] = s]
    BY <1>5
  <2> HIDE DEF s
  <2>3. Tended(h)' = o.lease /\ TendedAt(h)' = r.process /\ ~Doubtful(h)' /\ ~Acquiring(h)'
    BY <1>1, <1>5, <2>1, <2>2, IdleAfter
  <2>4. Tended(h) = o.lease /\ TendedAt(h) = r.process
    BY <1>2, <1>5, GrantedIsAcquiring DEF Tended, TendedAt
  <2>5. GoneFirst(h)'
    BY <1>1, <1>2, <2>3, <2>4 DEF GoneFirst
  <2> QED
    BY <1>1, <1>5, <2>2, <2>3, <2>4, <2>5, AnswerCounts
<1>6. CASE /\ o.status = "renewed"
           /\ hold' = [hold EXCEPT ![h] = [hold[h] EXCEPT !.failures = 0, !.age = 0, !.sleep = RenewEvery]]
           /\ call' = [call EXCEPT ![h] = NoCall]
  <2> DEFINE s == [hold[h] EXCEPT !.failures = 0, !.age = 0, !.sleep = RenewEvery]
  <2>1. hold[h] \in HoldStates /\ r.op = "renew"
    BY <1>1, <1>6 DEF Good, Answers
  <2>2. s.lease = hold[h].lease /\ s.target = hold[h].target /\ ~(s.failures > 0)
    BY <2>1
  <2>3. hold' = [hold EXCEPT ![h] = s]
    BY <1>6
  <2> HIDE DEF s
  <2>4. Tended(h)' = s.lease /\ TendedAt(h)' = s.target /\ ~Doubtful(h)' /\ ~Acquiring(h)'
    BY <1>1, <1>6, <2>2, <2>3, IdleAfter
  <2>5. Tended(h)' = Tended(h) /\ TendedAt(h)' = TendedAt(h)
    BY <1>3, <2>1, <2>2, <2>4
  <2>6. GoneFirst(h)'
    BY <1>1, <1>2, <2>4, <2>5 DEF GoneFirst
  <2> QED
    BY <1>1, <1>6, <2>3, <2>4, <2>5, <2>6, AnswerCounts
<1>7. CASE /\ call[h].op = "renew" /\ o.status \in {"expired", "rejected"}
           /\ hold' = [hold EXCEPT ![h] = hold[h]]
           /\ call' = [call EXCEPT ![h] = Negotiate(h)]
  <2> DEFINE c == Negotiate(h)
  <2>1. c # NoCall /\ ~c.lost /\ c.op = "negotiate"
    <3>1. NoLease \in Nat /\ 0 \in Nat
      BY DEF NoLease
    <3> QED
      BY <3>1, CallIsMade DEF Negotiate
  <2>2. call' = [call EXCEPT ![h] = c]
    BY <1>7
  <2> HIDE DEF c
  <2>3. Tended(h)' = hold[h].lease /\ hold'[h].lease = hold[h].lease
        /\ (Doubtful(h)' => hold[h].tag = "Held" /\ hold[h].failures > 0)
    BY <1>1, <1>7, <2>1, <2>2, CallingAfter
  <2>4. Tended(h)' = Tended(h) /\ (Doubtful(h)' => Doubtful(h))
    BY <1>1, <1>3, <1>7, <2>3 DEF Doubtful, Held
  <2>5. Tended(h) \notin LiveLeases(h)
    BY <1>1, <1>7 DEF GoneFirst
  <2>6. GoneFirst(h)'
    BY <1>2, <2>3, <2>4, <2>5 DEF GoneFirst
  <2> QED
    BY <1>1, <1>7, <2>1, <2>2, <2>4, <2>6, AnswerCounts
<1>8. CASE /\ (call[h].op = "acquire" /\ o.status = "rejected") \/ call[h].op = "release"
           /\ \E s : /\ s.lease = NoLease /\ s.tag # "Held"
                     /\ hold' = [hold EXCEPT ![h] = s]
           /\ call' = [call EXCEPT ![h] = NoCall]
  <2>1. PICK s : s.lease = NoLease /\ s.tag # "Held" /\ hold' = [hold EXCEPT ![h] = s]
    BY <1>8
  <2>2. Tended(h)' = NoLease /\ ~Doubtful(h)' /\ ~Acquiring(h)' /\ ~Held(h)'
    BY <1>1, <1>8, <2>1, IdleAfter
  <2>3. Tended(h) \notin LiveLeases(h)
    BY <1>1, <1>8 DEF Answers, GoneFirst
  <2>4. GoneFirst(h)'
    BY <1>1, <1>2, <2>2 DEF GoneFirst
  <2> QED
    BY <1>1, <1>8, <2>1, <2>2, <2>3, <2>4, AnswerCounts
<1>9. ASSUME call[h].op = "acquire"
      PROVE  AfterFailure(hold[h], call[h].op).tag # "Held" /\ AfterFailure(hold[h], call[h].op).lease = NoLease
  BY <1>1, <1>9, FailureForgets
<1>10. Off.tag # "Held" /\ Off.lease = NoLease
  BY DEF Off
<1>11. CASE /\ call[h].op = "acquire" /\ o.status = "rejected"
            /\ hold' = [hold EXCEPT ![h] = AfterFailure(hold[h], call[h].op)]
            /\ call' = [call EXCEPT ![h] = NoCall]
  <2> DEFINE s == AfterFailure(hold[h], call[h].op)
  <2>1. s.lease = NoLease /\ s.tag # "Held" /\ hold' = [hold EXCEPT ![h] = s]
    BY <1>9, <1>11
  <2> HIDE DEF s
  <2> QED
    BY <1>8, <1>11, <2>1
<1>12. CASE /\ call[h].op = "release"
            /\ hold' = [hold EXCEPT ![h] = Off]
            /\ call' = [call EXCEPT ![h] = NoCall]
  BY <1>8, <1>10, <1>12
<1> QED
  BY <1>1, <1>4, <1>5, <1>6, <1>7, <1>11, <1>12 DEF Receive

(* A request without a caller runs: a lease it brings was on the account.  *)
LEMMA ExecuteLateCounts ==
    ASSUME LeaseInv, LeaseInv', LeasesInv, NEW r \in BagToSet(late), ExecuteLate(r)
    PROVE  LeasesInv'
<1> DEFINE o == Editor(r)
<1>1. /\ r \in Request /\ IsABag(late) /\ UNCHANGED <<process, hold, call, answer, faults, closes>>
      /\ late' = late (-) SetToBag({r}) /\ AcquiresCurrent
  BY DEF LeaseInv, LateOK, LeasesInv, ExecuteLate
<1>2. AcquiresCurrent'
  <2>1. BagToSet(late') \subseteq BagToSet(late) /\ BagToSet(late)' = BagToSet(late')
    BY <1>1, BagRemoves DEF BagToSet
  <2> QED
    BY <1>1, <2>1 DEF AcquiresCurrent, AcquireOf
<1>3. ASSUME NEW g \in Holds
      PROVE  Accounted(g)' /\ GoneFirst(g)'
  <2>1. /\ Accounted(g) /\ GoneFirst(g)
        /\ Tended(g)' = Tended(g) /\ TendedAt(g)' = TendedAt(g) /\ (Doubtful(g)' <=> Doubtful(g))
        /\ (Held(g)' <=> Held(g)) /\ (Acquiring(g)' <=> Acquiring(g)) /\ Unheard' = Unheard
    BY <1>1 DEF LeasesInv, Granted, Tended, TendedAt, Doubtful, Held, Acquiring, Releasing, Unheard
  <2>2. LiveLeases(g)' = LiveIn(g, o.leases)
    <3>1. leases' = o.leases
      BY DEF ExecuteLate
    <3> HIDE DEF o
    <3> QED
      BY <3>1 DEF LiveLeases, LiveIn
  <2>3. /\ LiveLeases(g)' \subseteq LiveLeases(g) \cup {FreshId}
        /\ ~(o.status = "granted" /\ r.hold = g) => LiveLeases(g)' \subseteq LiveLeases(g)
        /\ o.status = "granted" => r.op = "acquire"
    <3>1. r \in Request /\ o = Editor(r)
      BY <1>1
    <3> HIDE DEF o
    <3>2. /\ LiveIn(g, o.leases) \subseteq LiveLeases(g) \cup {FreshId}
          /\ ~(o.status = "granted" /\ r.hold = g) => LiveIn(g, o.leases) \subseteq LiveLeases(g)
      BY <3>1, EditorGrantsOne
    <3>3. o.status = "granted" => r.op = "acquire"
      BY <3>1, EditorAnswers
    <3> QED
      BY <2>2, <3>2, <3>3
  <2> HIDE DEF o
  <2>4. GoneFirst(g)'
    BY <1>1, <2>1, <2>3, FreshIdIsUnknown DEF GoneFirst
  <2>5. Ungranted(g) \in Nat /\ Unheard \in Nat /\ Ungranted(g)' = Copies(AcquireOf(g), late')
    <3>1. AcquireOf(g)' = AcquireOf(g)
      BY <1>1 DEF AcquireOf
    <3> QED
      BY <3>1, UngrantedIsANumber, CountersAreNumbers DEF Ungranted
  <2>6. CASE o.status = "granted" /\ r.hold = g
    <3>1. r = AcquireOf(g)
      BY <1>1, <2>3, <2>6 DEF AcquiresCurrent
    <3>2. Ungranted(g)' = Ungranted(g) - 1
      BY <1>1, <2>5, <3>1, CopiesRemove DEF Ungranted
    <3>3. 1 + Ungranted(g)' + (IF Doubtful(g)' THEN 1 ELSE 0) + Unheard
            <= Ungranted(g) + (IF Doubtful(g) THEN 1 ELSE 0) + Unheard'
      BY <2>1, <2>5, <3>2
    <3>4. LiveLeases(g)' \ {Tended(g)'} \subseteq (LiveLeases(g) \ {Tended(g)}) \cup {FreshId}
      BY <2>1, <2>3
    <3>5. Accounted(g)'
      BY <2>1, <3>3, <3>4, Recount
    <3> QED
      BY <2>4, <3>5
  <2>7. CASE ~(o.status = "granted" /\ r.hold = g)
    <3>1. Ungranted(g)' \in {Ungranted(g), Ungranted(g) - 1}
      <4>1. CASE AcquireOf(g) = r
        BY <1>1, <2>5, <4>1, CopiesRemove DEF Ungranted
      <4>2. CASE AcquireOf(g) # r
        BY <1>1, <2>5, <4>2, CopiesRemove DEF Ungranted
      <4> QED
        BY <4>1, <4>2
    <3>2. 0 + Ungranted(g)' + (IF Doubtful(g)' THEN 1 ELSE 0) + Unheard
            <= Ungranted(g) + (IF Doubtful(g) THEN 1 ELSE 0) + Unheard'
      BY <2>1, <2>5, <3>1
    <3>3. LiveLeases(g)' \ {Tended(g)'} \subseteq LiveLeases(g) \ {Tended(g)}
      BY <2>1, <2>3, <2>7
    <3>4. Accounted(g)'
      BY <2>1, <3>2, <3>3, Recount
    <3> QED
      BY <2>4, <3>4
  <2> QED
    BY <2>6, <2>7
<1> QED
  BY <1>2, <1>3 DEF LeasesInv

(* With the editor its leases and all requests without a caller are gone.  *)
LEMMA RestartCounts ==
    ASSUME LeaseInv, LeaseInv', LeasesInv, RestartEditor
    PROVE  LeasesInv'
<1>1. UNCHANGED <<hold, call, answer, faults, closes>> /\ leases' = <<>> /\ late' = EmptyBag
  BY DEF RestartEditor
<1>2. AcquiresCurrent'
  BY <1>1, BagEmpty DEF LeasesInv, AcquiresCurrent, BagToSet
<1>3. ASSUME NEW g \in Holds
      PROVE  Accounted(g)' /\ GoneFirst(g)'
  <2>1. /\ Accounted(g) /\ Tended(g)' = Tended(g) /\ (Doubtful(g)' <=> Doubtful(g)) /\ Unheard' = Unheard
    BY <1>1 DEF LeasesInv, Granted, Tended, Doubtful, Held, Releasing, Unheard
  <2>2. LiveLeases(g)' = {}
    BY <1>1 DEF LiveLeases
  <2>3. Ungranted(g)' = 0
    BY <1>1, BagEmpty DEF Ungranted, Copies, BagToSet
  <2>4. Ungranted(g) \in Nat /\ Unheard \in Nat
    BY UngrantedIsANumber, CountersAreNumbers
  <2>5. 0 + Ungranted(g)' + (IF Doubtful(g)' THEN 1 ELSE 0) + Unheard
          <= Ungranted(g) + (IF Doubtful(g) THEN 1 ELSE 0) + Unheard'
    BY <2>1, <2>3, <2>4
  <2>6. LiveLeases(g)' \ {Tended(g)'} \subseteq LiveLeases(g) \ {Tended(g)}
    BY <2>2
  <2>7. Accounted(g)'
    BY <2>1, <2>5, <2>6, Recount
  <2> QED
    BY <2>2, <2>7 DEF GoneFirst
<1> QED
  BY <1>2, <1>3 DEF LeasesInv

(* Leases only end when time passes.                                       *)
LEMMA TickCounts ==
    ASSUME LeaseInv, LeaseInv', LeasesInv, Tick
    PROVE  LeasesInv'
<1>1. /\ UNCHANGED <<process, answer, late, faults, closes>> /\ Unheard' = Unheard /\ Unheard \in Nat /\ AcquiresCurrent
      /\ hold' = [g \in Holds |-> Older(hold[g], call[g])] /\ call' = [g \in Holds |-> Nearer(call[g])]
  BY CountersAreNumbers DEF Tick, Older, Nearer, Unheard, LeasesInv
<1>2. ASSUME NEW g \in Holds
      PROVE  /\ hold'[g].tag = hold[g].tag /\ hold'[g].lease = hold[g].lease
             /\ hold'[g].target = hold[g].target /\ hold'[g].failures = hold[g].failures
             /\ call'[g] # NoCall <=> call[g] # NoCall
             /\ call[g] # NoCall => /\ call'[g].op = call[g].op /\ call'[g].request = call[g].request
                                    /\ call'[g].lost = call[g].lost
  <2>1. hold[g] \in HoldStates /\ (call[g] = NoCall \/ call[g] \in Calls)
    BY DEF LeaseInv, ClientsOK, Good
  <2>2. /\ hold'[g].tag = hold[g].tag /\ hold'[g].lease = hold[g].lease
        /\ hold'[g].target = hold[g].target /\ hold'[g].failures = hold[g].failures
    BY <1>1, <2>1 DEF Older
  <2>3. CASE call[g] = NoCall
    BY <1>1, <2>2, <2>3 DEF Nearer
  <2>4. CASE call[g] # NoCall
    <3>1. call'[g] = [call[g] EXCEPT !.left = @ - 1]
      BY <1>1, <2>4 DEF Nearer
    <3>2. /\ call'[g].op = call[g].op /\ call'[g].request = call[g].request /\ call'[g].lost = call[g].lost
      BY <2>1, <2>4, <3>1 DEF Calls
    <3>3. call'[g] # NoCall
      BY <2>1, <2>4, <3>2 DEF Calls, NoCall
    <3> QED
      BY <2>2, <2>4, <3>2, <3>3
  <2> QED
    BY <2>3, <2>4
<1>3. AcquiresCurrent'
  <2>1. \A r \in BagToSet(late)' : r.op = "acquire" => r = AcquireOf(r.hold)'
    BY <1>1, LateStaysCurrent
  <2>2. \A g \in Holds : call'[g] # NoCall /\ call'[g].op = "acquire" => call'[g].request.lease = NoLease
    BY <1>1, <1>2 DEF AcquiresCurrent
  <2> QED
    BY <2>1, <2>2 DEF AcquiresCurrent
<1>4. ASSUME NEW g \in Holds
      PROVE  Accounted(g)' /\ GoneFirst(g)'
  <2>1. Accounted(g) /\ GoneFirst(g)
    BY DEF LeasesInv
  <2>2. /\ Tended(g)' = Tended(g) /\ TendedAt(g)' = TendedAt(g)
        /\ (Held(g)' <=> Held(g)) /\ (Acquiring(g)' <=> Acquiring(g))
    <3>1. Granted(g) => call[g] # NoCall
      BY GrantedIsAcquiring
    <3> QED
      BY <1>1, <1>2, <3>1 DEF Granted, Tended, TendedAt, Held, Acquiring, Releasing
  <2>3. Doubtful(g)' <=> Doubtful(g)
    BY <1>2 DEF Doubtful, Held
  <2>4. LiveLeases(g)' \subseteq LiveLeases(g)
    <3>1. DOMAIN leases' = DOMAIN leases
          /\ \A id \in DOMAIN leases : leases'[id] = [leases[id] EXCEPT !.left = Down(@)]
      BY DEF Tick
    <3>2. \A id \in DOMAIN leases : leases[id] \in [hold : Holds, left : 0..Ttl]
      BY DEF LeaseInv, TableOK
    <3>3. \A id \in DOMAIN leases : /\ leases'[id].hold = leases[id].hold
                                    /\ leases'[id].left > 0 => leases[id].left > 0
      BY <3>1, <3>2, TimingAssumption DEF Down
    <3> QED
      BY <3>1, <3>3 DEF LiveLeases
  <2>5. Ungranted(g)' = Ungranted(g) /\ Ungranted(g) \in Nat
    BY <1>1, LateStays, UngrantedIsANumber
  <2>6. 0 + Ungranted(g)' + (IF Doubtful(g)' THEN 1 ELSE 0) + Unheard
          <= Ungranted(g) + (IF Doubtful(g) THEN 1 ELSE 0) + Unheard'
    BY <1>1, <2>3, <2>5
  <2>7. LiveLeases(g)' \ {Tended(g)'} \subseteq LiveLeases(g) \ {Tended(g)}
    BY <2>2, <2>4
  <2>8. Accounted(g)'
    BY <2>1, <2>6, <2>7, Recount
  <2>9. GoneFirst(g)'
    BY <1>1, <1>2, <2>1, <2>2, <2>4 DEF GoneFirst
  <2> QED
    BY <2>8, <2>9
<1> QED
  BY <1>3, <1>4 DEF LeasesInv

LEMMA NextKeepsCount ==
    ASSUME LeaseInv, LeaseInv', LeasesInv, [Next]_vars
    PROVE  LeasesInv'
<1>1. CASE UNCHANGED vars
  <2>1. AcquiresCurrent'
    BY <1>1 DEF vars, LeasesInv, AcquiresCurrent, AcquireOf, BagToSet
  <2>2. ASSUME NEW g \in Holds
        PROVE  Accounted(g)' /\ GoneFirst(g)'
    BY <1>1 DEF vars, LeasesInv, Accounted, GoneFirst, LiveLeases, Granted, Tended, TendedAt, Releasing, Acquiring,
                Held, Doubtful, Ungranted, Copies, AcquireOf, BagToSet, Unheard
  <2> QED
    BY <2>1, <2>2 DEF LeasesInv
<1> QED
  BY <1>1, MaintainCounts, BeginCounts, ExecuteCounts, HearCounts, ExecuteLateCounts, TimeOutCounts, CloseCounts,
     CutCounts, RefuseCounts, RestartCounts, TickCounts DEF Next

LEMMA InitCounts ==
    ASSUME Init
    PROVE  LeasesInv
<1>1. AcquiresCurrent
  BY BagEmpty DEF Init, AcquiresCurrent
<1>2. ASSUME NEW g \in Holds
      PROVE  Accounted(g) /\ GoneFirst(g)
  <2>1. LiveLeases(g) = {}
    BY DEF Init, LiveLeases
  <2>2. Ungranted(g) = 0
    BY BagEmpty DEF Init, Ungranted, Copies
  <2>3. ~Doubtful(g)
    BY DEF Init, Doubtful, Held, Off
  <2>4. Unheard = 0
    BY DEF Init, Unheard
  <2>5. Cardinality(LiveLeases(g) \ {Tended(g)}) = 0
    BY <2>1, FS_EmptySet
  <2> QED
    BY <2>1, <2>2, <2>3, <2>4, <2>5 DEF Accounted, GoneFirst
<1> QED
  BY <1>1, <1>2 DEF LeasesInv

(* A hold has leases in the editor that it does not know of only for       *)
(* requests whose answer was not heard, and a closed scope has no other.   *)
THEOREM ExtraLeasesCorrect == Spec => []ExtraLeasesAreUnheard
<1>1. LeaseInv /\ LeasesInv => ExtraLeasesAreUnheard
  <2> SUFFICES ASSUME LeaseInv, LeasesInv, NEW h \in Holds
               PROVE  Cardinality(LiveLeases(h))
                        <= Unheard + (IF hold[h].tag = "Off" /\ call[h] = NoCall THEN 0 ELSE 1)
    BY DEF ExtraLeasesAreUnheard
  <2> DEFINE S == LiveLeases(h) \ {Tended(h)}
  <2>1. /\ Accounted(h) /\ Good(h, hold[h], call[h]) /\ Ungranted(h) \in Nat /\ Unheard \in Nat
        /\ IsFiniteSet(LiveLeases(h)) /\ NoLease \notin LiveLeases(h)
    BY OneClientStays, UngrantedIsANumber, CountersAreNumbers, LiveLeasesAreFinite DEF LeaseInv, LeasesInv
  <2>2. IsFiniteSet(S) /\ Cardinality(S) \in Nat
    BY <2>1, FS_Subset, FS_CardinalityType
  <2>3. Cardinality(S) <= Unheard
    BY <2>1, <2>2 DEF Accounted
  <2>4. Cardinality(LiveLeases(h)) \in Nat /\ Cardinality(LiveLeases(h)) <= Cardinality(S) + 1
    <3>1. LiveLeases(h) \subseteq S \cup {Tended(h)}
      OBVIOUS
    <3> HIDE DEF S
    <3> QED
      BY <2>2, <3>1, OneMore
  <2>5. CASE hold[h].tag = "Off" /\ call[h] = NoCall
    <3>1. Tended(h) = NoLease
      BY <2>1, <2>5, GrantedIsAcquiring DEF Tended, Releasing, Good
    <3>2. S = LiveLeases(h)
      BY <2>1, <3>1
    <3> HIDE DEF S
    <3> QED
      BY <2>1, <2>2, <2>3, <2>5, <3>2
  <2>6. CASE ~(hold[h].tag = "Off" /\ call[h] = NoCall)
    <3> HIDE DEF S
    <3> QED
      BY <2>1, <2>2, <2>3, <2>4, <2>6
  <2> QED
    BY <2>5, <2>6
<1>2. Spec => [](LeaseInv /\ LeasesInv)
  <2>1. Init => LeaseInv /\ LeasesInv
    BY InitSetsInv, InitCounts
  <2>2. LeaseInv /\ LeasesInv /\ [Next]_vars => LeaseInv' /\ LeasesInv'
    BY NextKeepsInv, NextKeepsCount
  <2> QED
    BY <2>1, <2>2, PTL DEF Spec
<1> QED
  BY <1>1, <1>2, PTL
=============================================================================
