--------------------------- MODULE ForegroundLease ---------------------------
(***************************************************************************)
(* Foreground leases: the editor's table (UEShedForegroundLeases.cpp) and  *)
(* the holds of its clients (editor-foreground-responsiveness.ts), started *)
(* and closed by a host such as Workbench (editor-responsiveness.ts).      *)
(*                                                                         *)
(* Time passes in ticks, and every timer counts down, so nothing bounds    *)
(* how long a behaviour lasts.  The answer of an editor that works reaches *)
(* the client within MaxDelay ticks of the request, which the editor runs  *)
(* at any time between the two.  A request that is cut gets no answer: it  *)
(* has run already, or the editor may run it at any later time.            *)
(***************************************************************************)
EXTENDS Integers, Sequences, FiniteSets, Functions, Bags

CONSTANTS
    Holds,        \* clients: one hold each, one process each
    Ttl,          \* time to live of a lease, in ticks
    Second,       \* ticks in a second
    MaxDelay,     \* the longest from a request to the answer of an editor that works
    MaxLeases,    \* size of the editor's table (8 in the code)
    MaxFaults,    \* bound: requests that are cut or refused
    MaxCloses,    \* bound: scopes that are closed
    MaxRestarts   \* bound: restarts of the editor

(* An editor that works answers before any timeout.                        *)
ASSUME TimingAssumption ==
    /\ Ttl \in Nat /\ Second \in Nat \ {0} /\ MaxDelay \in Nat
    /\ MaxDelay < Ttl \div 3 /\ MaxDelay <= 2 * Second

ASSUME BoundsAssumption ==
    IsFiniteSet(Holds) /\ {MaxLeases, MaxFaults, MaxCloses, MaxRestarts} \subseteq Nat

VARIABLES
    process,   \* the editor's process id
    leases,    \* [lease ids -> [hold, left]]: the editor's table
    hold,      \* [Holds -> State]: EditorForegroundLeaseState, timers, the host's retry
    call,      \* [Holds -> Call]: the request each hold waits for
    answer,    \* [Holds -> Answer]: what the editor answered, on its way to the hold
    late,      \* bag of requests without a caller that the editor may still run
    faults,    \* how many renewals, and how many other requests, were cut or refused
    closes,    \* how many scopes closed with an acquire in flight, and how many others
    restarts

vars == <<process, leases, hold, call, answer, late, faults, closes, restarts>>

NoLease == 0
Tags == {"Off", "Connecting", "Waiting", "Held", "Lapsed"}
NoCall == [op |-> "none"]
NoAnswer == [status |-> "none", lease |-> NoLease, process |-> 0]
Request == [hold : Holds, op : {"negotiate", "acquire", "renew", "release"}, lease : Nat, process : Nat]

(* editorForegroundBackoffMs: 1 s, doubling to 30 s                        *)
Backoff(failures) == <<1, 2, 4, 8, 16, 30>>[IF failures < 6 THEN failures ELSE 6] * Second

(* Mutant of RenewEvery: renewals leave no room for a second one.          *)
RenewAtHalf == Ttl \div 2

RenewEvery == Ttl \div 3

Timeout(op) ==
    CASE op = "negotiate" -> 10 * Second
      [] op = "acquire"   -> Ttl
      [] op = "renew"     -> RenewEvery
      [] op = "release"   -> 2 * Second

-----------------------------------------------------------------------------
(* The editor                                                              *)

Prune(table) == Restrict(table, {id \in DOMAIN table : table[id].left > 0})

(* Ids are generated: one that nobody knows                                *)
FreshId ==
    LET InUse == DOMAIN leases \cup {hold[h].lease : h \in Holds} \cup {answer[h].lease : h \in Holds}
                 \cup {r.lease : r \in BagToSet(late)}
                 \cup {call[h].request.lease : h \in {g \in Holds : call[g] # NoCall}}
    IN  CHOOSE id \in 1..(Cardinality(InUse) + 1) : id \notin InUse

Outcome(status, table, lease) == [status |-> status, leases |-> table, lease |-> lease]

Grant(table, r) ==
    Outcome("granted",
            [id \in DOMAIN table \cup {FreshId} |->
                IF id = FreshId THEN [hold |-> r.hold, left |-> Ttl] ELSE table[id]],
            FreshId)

(* Mutant of Acquire: one lease more than the table may hold.              *)
AcquireOneMore(r) ==
    LET table == Prune(leases)
    IN  IF Cardinality(DOMAIN table) > MaxLeases THEN Outcome("rejected", table, NoLease)
                                                 ELSE Grant(table, r)

(* Mutant of Acquire: leases that have ended keep their place.             *)
AcquireWithoutPrune(r) ==
    IF Cardinality(DOMAIN leases) >= MaxLeases THEN Outcome("rejected", leases, NoLease)
                                               ELSE Grant(leases, r)

Acquire(r) ==
    LET table == Prune(leases)
    IN  IF Cardinality(DOMAIN table) >= MaxLeases THEN Outcome("rejected", table, NoLease)
                                                  ELSE Grant(table, r)

Renew(r) ==
    LET table == Prune(leases)
    IN  IF r.lease \notin DOMAIN table THEN Outcome("expired", table, NoLease)
        ELSE IF table[r.lease].hold # r.hold THEN Outcome("rejected", table, NoLease)
        ELSE Outcome("renewed", [table EXCEPT ![r.lease].left = Ttl], r.lease)

Release(r) ==
    LET table == Prune(leases)
    IN  IF r.lease \in DOMAIN table /\ table[r.lease].hold # r.hold
        THEN Outcome("rejected", table, NoLease)
        ELSE Outcome("released", Restrict(table, DOMAIN table \ {r.lease}), NoLease)

(* UpdateForegroundLease, and the manifest, which names the process        *)
Editor(r) ==
    IF r.op = "negotiate" THEN Outcome("manifest", leases, NoLease)
    ELSE IF r.process # process THEN Outcome("rejected", leases, NoLease)
    ELSE CASE r.op = "acquire" -> Acquire(r)
           [] r.op = "renew"   -> Renew(r)
           [] r.op = "release" -> Release(r)

-----------------------------------------------------------------------------
(* The client                                                              *)

Off == [tag |-> "Off", lease |-> NoLease, target |-> 0, failures |-> 0, age |-> 0, sleep |-> 0]

Call(h, op, lease, target) ==
    [op |-> op, lost |-> FALSE, left |-> MaxDelay,
     request |-> [hold |-> h, op |-> op, lease |-> lease, process |-> target]]

Negotiate(h) == Call(h, "negotiate", NoLease, 0)

(* A granted lease, first or again                                         *)
Hold(id, target) ==
    [tag |-> "Held", lease |-> id, target |-> target, failures |-> 0, age |-> 0, sleep |-> RenewEvery]

Lapsed(failures) == [Off EXCEPT !.tag = "Lapsed", !.failures = failures, !.sleep = Backoff(failures)]

Waiting == [Off EXCEPT !.tag = "Waiting"]

(* Mutant of AfterFailure: a failed renewal never lapses.                  *)
NeverLapse(s, op) ==
    LET f == s.failures + 1
    IN  CASE op = "release" -> Off
          [] op = "renew"   -> [s EXCEPT !.failures = f, !.sleep = Backoff(f)]
          [] OTHER -> IF s.tag = "Connecting" THEN Waiting ELSE Lapsed(f)

(* What a hold makes of a request that failed or an acquire that was       *)
(* refused.  When the first acquire fails there is no hold: the host waits *)
(* as long as it likes and begins again.                                   *)
AfterFailure(s, op) ==
    LET f == s.failures + 1
    IN  CASE op = "release" -> Off
          [] op = "renew" /\ s.age < Ttl -> [s EXCEPT !.failures = f, !.sleep = Backoff(f)]
          [] op = "renew" /\ s.age >= Ttl -> Lapsed(f)
          [] OTHER -> IF s.tag = "Connecting" THEN Waiting ELSE Lapsed(f)

(* The answer o to the call of h: the client counts the age of a lease and *)
(* the sleep before its next renewal from here.                            *)
Receive(h, o) ==
    LET op == call[h].op
        Next(s, c) == hold' = [hold EXCEPT ![h] = s] /\ call' = [call EXCEPT ![h] = c]
    IN  \/ o.status = "manifest" /\ Next(hold[h], Call(h, "acquire", NoLease, o.process))
        \/ o.status = "granted" /\ Next(Hold(o.lease, call[h].request.process), NoCall)
        \/ o.status = "renewed"
             /\ Next([hold[h] EXCEPT !.failures = 0, !.age = 0, !.sleep = RenewEvery], NoCall)
        \/ op = "renew" /\ o.status \in {"expired", "rejected"} /\ Next(hold[h], Negotiate(h))
        \/ op = "acquire" /\ o.status = "rejected" /\ Next(AfterFailure(hold[h], op), NoCall)
        \/ op = "release" /\ Next(Off, NoCall)

(* One round of maintain, after its sleep                                  *)
Maintain(h) ==
    /\ call[h] = NoCall
    /\ hold[h].tag \in {"Held", "Lapsed"}
    /\ hold[h].sleep = 0
    /\ call' = [call EXCEPT ![h] = IF hold[h].tag = "Held"
                                   THEN Call(h, "renew", hold[h].lease, hold[h].target)
                                   ELSE Negotiate(h)]
    /\ UNCHANGED <<process, leases, hold, answer, late, faults, closes, restarts>>

(* The host wants a lease, or tries again after a failure.                 *)
Begin(h) ==
    /\ call[h] = NoCall
    /\ hold[h].tag \in {"Off", "Waiting"}
    /\ hold' = [hold EXCEPT ![h].tag = "Connecting"]
    /\ call' = [call EXCEPT ![h] = Negotiate(h)]
    /\ UNCHANGED <<process, leases, answer, late, faults, closes, restarts>>

(* The editor runs the request of h.                                       *)
Execute(h) ==
    /\ call[h] # NoCall
    /\ ~call[h].lost
    /\ answer[h] = NoAnswer
    /\ LET o == Editor(call[h].request)
       IN  /\ leases' = o.leases
           /\ answer' = [answer EXCEPT ![h] = [status |-> o.status, lease |-> o.lease, process |-> process]]
    /\ UNCHANGED <<process, hold, call, late, faults, closes, restarts>>

(* Its answer arrives.                                                     *)
Hear(h) ==
    /\ answer[h] # NoAnswer
    /\ Receive(h, answer[h])
    /\ answer' = [answer EXCEPT ![h] = NoAnswer]
    /\ UNCHANGED <<process, leases, late, faults, closes, restarts>>

ExecuteLate(r) ==
    /\ late' = late (-) SetToBag({r})
    /\ leases' = Editor(r).leases
    /\ UNCHANGED <<process, hold, call, answer, faults, closes, restarts>>

TimeOut(h) ==
    /\ call[h] # NoCall
    /\ call[h].lost /\ call[h].left = 0
    /\ hold' = [hold EXCEPT ![h] = AfterFailure(hold[h], call[h].op)]
    /\ call' = [call EXCEPT ![h] = NoCall]
    /\ UNCHANGED <<process, leases, answer, late, faults, closes, restarts>>

(* The request of h loses its caller.  It has run, or it will not arrive,  *)
(* or it is on its way; one for a process that has ended, or for the       *)
(* manifest, changes nothing when it arrives.                              *)
Abandon(h) ==
    \/ UNCHANGED late
    \/ /\ call[h] # NoCall
       /\ ~call[h].lost /\ answer[h] = NoAnswer
       /\ call[h].request.process = process
       /\ late' = late (+) SetToBag({call[h].request})

Closing(h) ==
    /\ closes.settled + closes.acquiring < MaxCloses
    /\ hold[h].tag # "Off"
    /\ closes' = IF call[h].op = "acquire" THEN [closes EXCEPT !.acquiring = @ + 1]
                                          ELSE [closes EXCEPT !.settled = @ + 1]
    /\ hold' = [hold EXCEPT ![h] = Off]
    /\ answer' = [answer EXCEPT ![h] = NoAnswer]
    /\ UNCHANGED <<process, leases, faults, restarts>>

(* Mutant of Close: a request in flight is left to settle the lease.       *)
CloseWhenIdle(h) ==
    /\ Closing(h)
    /\ Abandon(h)
    /\ call' = [call EXCEPT ![h] = IF hold[h].tag = "Held" /\ call[h] = NoCall
                                   THEN Call(h, "release", hold[h].lease, hold[h].target)
                                   ELSE NoCall]

(* The scope of a hold closes: maintain is interrupted, and the lease is   *)
(* released if the hold has one.                                           *)
Close(h) ==
    /\ Closing(h)
    /\ Abandon(h)
    /\ call' = [call EXCEPT ![h] = IF hold[h].tag = "Held"
                                   THEN Call(h, "release", hold[h].lease, hold[h].target)
                                   ELSE NoCall]

-----------------------------------------------------------------------------
(* Faults and time                                                         *)

Fault(h) ==
    /\ faults.renewals + faults.others < MaxFaults
    /\ call[h] # NoCall
    /\ ~call[h].lost
    /\ faults' = IF call[h].op = "renew" THEN [faults EXCEPT !.renewals = @ + 1]
                                        ELSE [faults EXCEPT !.others = @ + 1]
    /\ answer' = [answer EXCEPT ![h] = NoAnswer]
    /\ UNCHANGED <<process, leases, closes, restarts>>

(* A request or its answer is lost, or the editor is stalled: the call     *)
(* runs into its timeout.                                                  *)
Cut(h) ==
    /\ Fault(h)
    /\ Abandon(h)
    /\ call' = [call EXCEPT ![h].lost = TRUE,
                            ![h].left = Timeout(call[h].op) - (MaxDelay - @)]
    /\ UNCHANGED hold

(* The connection is refused, or breaks after the request ran: the call    *)
(* fails at once.                                                          *)
Refuse(h) ==
    /\ Fault(h)
    /\ hold' = [hold EXCEPT ![h] = AfterFailure(hold[h], call[h].op)]
    /\ call' = [call EXCEPT ![h] = NoCall]
    /\ UNCHANGED late

RestartEditor ==
    /\ restarts < MaxRestarts
    /\ restarts' = restarts + 1
    /\ process' = process + 1
    /\ leases' = <<>>
    /\ late' = EmptyBag
    /\ UNCHANGED <<hold, call, answer, faults, closes>>

Down(n) == IF n > 0 THEN n - 1 ELSE 0

(* A tick passes when no timer that fires at once is due.                  *)
Tick ==
    /\ \A h \in Holds :
          IF call[h] # NoCall THEN call[h].left > 0
          ELSE hold[h].tag \in {"Held", "Lapsed"} => hold[h].sleep > 0
    /\ leases' = [id \in DOMAIN leases |-> [leases[id] EXCEPT !.left = Down(@)]]
    /\ call' = [h \in Holds |-> IF call[h] = NoCall THEN NoCall ELSE [call[h] EXCEPT !.left = @ - 1]]
    /\ hold' = [h \in Holds |->
                  [hold[h] EXCEPT !.sleep = IF call[h] = NoCall THEN Down(@) ELSE @,
                                  !.age = IF hold[h].tag = "Held" THEN @ + 1 ELSE @]]
    /\ UNCHANGED <<process, answer, late, faults, closes, restarts>>

-----------------------------------------------------------------------------
Init ==
    /\ process = 1
    /\ leases = <<>>
    /\ hold = [h \in Holds |-> Off]
    /\ call = [h \in Holds |-> NoCall]
    /\ answer = [h \in Holds |-> NoAnswer]
    /\ late = EmptyBag
    /\ faults = [renewals |-> 0, others |-> 0]
    /\ closes = [settled |-> 0, acquiring |-> 0]
    /\ restarts = 0

Next ==
    \/ \E h \in Holds :
          \/ Begin(h) \/ Maintain(h) \/ Execute(h) \/ Hear(h)
          \/ TimeOut(h) \/ Close(h) \/ Cut(h) \/ Refuse(h)
    \/ \E r \in BagToSet(late) : ExecuteLate(r)
    \/ RestartEditor
    \/ Tick

Spec == Init /\ [][Next]_vars

(* Time passes, timers fire, the editor runs what it has, and the host     *)
(* that waits begins again.  No fairness of first wishes, closes, faults.  *)
Fairness ==
    /\ WF_vars(Tick)
    /\ WF_vars(\E r \in BagToSet(late) : ExecuteLate(r))
    /\ \A h \in Holds :
          WF_vars(Maintain(h) \/ Execute(h) \/ Hear(h) \/ TimeOut(h) \/ (hold[h].tag = "Waiting" /\ Begin(h)))

FairSpec == Spec /\ Fairness

-----------------------------------------------------------------------------
(* Properties                                                              *)

Held(h) == hold[h].tag = "Held"
Wanted(h) == hold[h].tag # "Off"
LiveLeases(h) == {id \in DOMAIN leases : leases[id].hold = h /\ leases[id].left > 0}
Backed(h) == Held(h) /\ hold[h].lease \in LiveLeases(h)

LeaseTypeOK ==
    /\ process \in 1..(MaxRestarts + 1)
    /\ Cardinality(DOMAIN leases) <= MaxLeases
    /\ \A id \in DOMAIN leases : leases[id] \in [hold : Holds, left : 0..Ttl]
    /\ \A h \in Holds : hold[h].tag \in Tags /\ (Held(h) <=> hold[h].lease # NoLease)
    /\ \A h \in Holds : call[h] # NoCall => call[h].request \in Request
    /\ \A h \in Holds : answer[h] # NoAnswer => call[h] # NoCall /\ ~call[h].lost
    /\ IsABag(late) /\ BagToSet(late) \subseteq Request

(* packages/protocol/contracts/core/v1/FOREGROUND-RESPONSIVENESS.md:       *)
(* "Renew at about a third of the TTL so one lost renewal does not end the *)
(* lease": while at most one request was disturbed and it was a renewal, a *)
(* hold that says Held has a live lease.  The second renewal comes a third *)
(* and a second after the first, and the lease has aged on the way of the  *)
(* last answer before the client counted its age and ages on the way of    *)
(* the renewal: the time to live has to be larger than all of this.        *)
OneLostRenewalIsSurvived ==
    /\ 2 * (Ttl \div 3) + Second + 2 * MaxDelay < Ttl
    /\ restarts = 0 /\ faults.others = 0 /\ faults.renewals <= 1
    => \A h \in Holds : Held(h) => Backed(h)

(* A hold says Held without an answer from the editor for at most twice    *)
(* the age at which a failure does not yet make it lapse, and a second,    *)
(* unless it is acquiring again: the sleeps between failed renewals grow,  *)
(* and only a failure makes it lapse.                                      *)
HeldIsRecent ==
    \A h \in Holds :
       Held(h) /\ (call[h] = NoCall \/ call[h].op = "renew") => hold[h].age <= 2 * (Ttl - 1) + Second

(* Requests whose answer nobody may have seen                              *)
Unheard == faults.renewals + faults.others + closes.acquiring

(* A hold has a live lease in the editor that it does not know of only for *)
(* a request whose answer was not heard: maintaining a lease never         *)
(* multiplies it, and a scope that has closed lets go of it, whatever      *)
(* maintain was doing and although a renewal may run after the release.    *)
ExtraLeasesAreUnheard ==
    \A h \in Holds :
       Cardinality(LiveLeases(h)) <= Unheard + (IF hold[h].tag = "Off" /\ call[h] = NoCall THEN 0 ELSE 1)

(* A hold that is wanted gets a live lease again, whatever was lost and    *)
(* however often the editor was restarted: leases nobody knows of end and  *)
(* give their places back.                                                 *)
HoldRecovers == \A h \in Holds : Wanted(h) ~> (Backed(h) \/ ~Wanted(h))
=============================================================================
