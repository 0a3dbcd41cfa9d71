---------------------- MODULE DnsServiceSnifferProofs ----------------------
(* What DnsServiceSniffer guarantees for any number of sniffers and any    *)
(* addresses.                                                              *)
EXTENDS DnsServiceSniffer, FiniteSetTheorems, TLAPS

USE DEF homeVars, threadVars

(* A sniffer that has not been made has not started its thread. *)
NotMade == \A n \in Sniffers : n > created => step[n] = "new"

(* Any other thread that is under way beside that of Home's sniffer was so *)
(* when this one took its lock: no thread starts later without a sniffer   *)
(* that takes its place in Home.                                           *)
OlderInv ==
  \A n, m \in Sniffers :
    (n = created /\ n # m /\ step[n] \notin {"new", "acquire"} /\ UnderWay(m))
      => m \in older[n]

DnsInv == TypeOK /\ NotMade /\ OlderInv /\ MulticastWhileListening /\ NoLeak

(* Home's sniffer is one of them, and so is the next one while it may be   *)
(* made.                                                                   *)
LEMMA CreatedRange ==
  ASSUME created \in 0..MaxSniffers
  PROVE  /\ created # 0 => created \in Sniffers
         /\ created < MaxSniffers => created + 1 \in Sniffers
BY DnsAssumption DEF Sniffers

-----------------------------------------------------------------------------
(* Types are kept by every step. *)
LEMMA TypeStep == TypeOK /\ [Next]_vars => TypeOK'
<1> SUFFICES ASSUME TypeOK, [Next]_vars PROVE TypeOK'
  OBVIOUS
<1> USE DEF TypeOK
<1>1. CASE Start
  BY <1>1, CreatedRange, DnsAssumption DEF Start
<1>2. CASE Stop
  BY <1>2 DEF Stop, InterruptedBy
<1>3. ASSUME NEW n \in Sniffers, ServiceResolved(n) \/ Deliver(n) PROVE TypeOK'
  BY <1>3 DEF ServiceResolved, Deliver
<1>4. ASSUME NEW n \in Sniffers, ThreadNext(n) PROVE TypeOK'
  <2>1. CASE Acquire(n)
    BY <2>1 DEF Acquire, UnderWay
  <2>2. CASE Wake(n)
    BY <2>2 DEF Wake
  <2>3. ASSUME NEW address \in Addresses, Create(n, address) \/ Close(n, address)
        PROVE  TypeOK'
    BY <2>3 DEF Create, Close
  <2>4. CASE Created(n)
    BY <2>4 DEF Created, ListOf
  <2>5. CASE CreateFails(n)
    BY <2>5 DEF CreateFails
  <2>6. CASE CloseFails(n)
    BY <2>6 DEF CloseFails
  <2>7. CASE Release(n)
    BY <2>7 DEF Release, LocksAfterRelease
  <2> QED BY <1>4, <2>1, <2>2, <2>3, <2>4, <2>5, <2>6, <2>7 DEF ThreadNext
<1>5. CASE UNCHANGED vars
  BY <1>5 DEF vars
<1> QED BY <1>1, <1>2, <1>3, <1>4, <1>5 DEF Next

(* A thread takes its steps only after start. *)
LEMMA NotMadeStep == TypeOK /\ NotMade /\ [Next]_vars => NotMade'
<1> SUFFICES ASSUME TypeOK, NotMade, [Next]_vars PROVE NotMade'
  OBVIOUS
<1> USE DEF NotMade, TypeOK
<1>1. CASE Start
  BY <1>1 DEF Start, Sniffers
<1>2. ASSUME NEW n \in Sniffers, ThreadNext(n) PROVE NotMade'
  <2>1. step[n] # "new" /\ created' = created
    BY <1>2 DEF ThreadNext, Acquire, Create, Close, Created, CreateFails, Wake,
                CloseFails, Release
  <2>2. \A m \in Sniffers \ {n} : step'[m] = step[m]
    BY <1>2 DEF ThreadNext, Acquire, Create, Close, Created, CreateFails, Wake,
                CloseFails, Release
  <2> QED BY <2>1, <2>2
<1>3. ASSUME UNCHANGED <<created, step>> PROVE NotMade'
  BY <1>3
<1> QED
  BY <1>1, <1>2, <1>3 DEF Next, Stop, ServiceResolved, Deliver, vars

-----------------------------------------------------------------------------
(* A thread that is under way was so a step before, or is that of the      *)
(* sniffer that Home has just made.                                        *)
LEMMA OlderStep == TypeOK /\ NotMade /\ OlderInv /\ [Next]_vars => OlderInv'
<1> SUFFICES ASSUME TypeOK, NotMade, OlderInv, [Next]_vars PROVE OlderInv'
  OBVIOUS
<1> USE DEF OlderInv, TypeOK, UnderWay
<1>1. CASE Start
  <2>1. created' = created + 1 /\ created + 1 \in Sniffers
        /\ step' = [step EXCEPT ![created + 1] = "acquire"]
    BY <1>1, CreatedRange DEF Start
  <2> QED BY <2>1
<1>2. ASSUME NEW k \in Sniffers, ThreadNext(k) PROVE OlderInv'
  <2>1. /\ created' = created /\ step[k] \notin {"new", "done"}
        /\ \A m \in Sniffers \ {k} : step'[m] = step[m] /\ older'[m] = older[m]
    BY <1>2 DEF ThreadNext, Acquire, Create, Close, Created, CreateFails, Wake,
                CloseFails, Release
  <2>2. CASE Acquire(k)
    BY <2>1, <2>2 DEF Acquire
  <2>3. CASE ~Acquire(k)
    <3>1. step[k] # "acquire" /\ older'[k] = older[k]
      BY <1>2, <2>3 DEF ThreadNext, Acquire, Create, Close, Created,
                        CreateFails, Wake, CloseFails, Release
    <3> QED BY <2>1, <3>1
  <2> QED BY <2>2, <2>3
<1>3. ASSUME UNCHANGED <<created, step, older>> PROVE OlderInv'
  BY <1>3
<1> QED
  BY <1>1, <1>2, <1>3 DEF Next, Stop, ServiceResolved, Deliver, vars

(* A lock is taken by the thread of its sniffer and dropped by that thread *)
(* when it ends to listen, or with the lock of another one: of one that    *)
(* OlderInv knows if it is Home's sniffer that loses it.                   *)
LEMMA MulticastStep ==
  TypeOK /\ NotMade /\ OlderInv /\ MulticastWhileListening /\ [Next]_vars
    => MulticastWhileListening'
<1> SUFFICES ASSUME TypeOK, NotMade, OlderInv, MulticastWhileListening, [Next]_vars
             PROVE  MulticastWhileListening'
  OBVIOUS
<1> USE DEF MulticastWhileListening, TypeOK
<1>0. created \in Nat /\ \A n \in Sniffers : n \in Nat
  BY DnsAssumption DEF Sniffers
<1>1. CASE Start
  <2>1. /\ created + 1 \in Sniffers /\ step[created + 1] = "new"
        /\ created' = created + 1 /\ UNCHANGED <<byTag, lock, older>>
        /\ step' = [step EXCEPT ![created + 1] = "acquire"]
    BY <1>1, CreatedRange DEF Start, NotMade
  <2>2. \A n \in Sniffers : Stopped(n) => Stopped(n)'
    BY <1>0, <2>1 DEF Stopped
  <2> QED BY <2>1, <2>2
<1>2. CASE Stop
  <2>1. \A n \in Sniffers : Stopped(n) => Stopped(n)'
    BY <1>2 DEF Stop, Stopped
  <2> QED BY <1>2, <2>1 DEF Stop
<1>3. ASSUME NEW k \in Sniffers, ThreadNext(k) PROVE MulticastWhileListening'
  <2>1. UNCHANGED homeVars /\ \A n \in Sniffers : Stopped(n)' = Stopped(n)
    BY <1>3 DEF ThreadNext, Acquire, Create, Close, Created, CreateFails, Wake,
                CloseFails, Release, Stopped
  <2>2. CASE Acquire(k)
    BY <2>1, <2>2 DEF Acquire
  <2>3. CASE Release(k)
    <3>1. /\ step[k] = "close" /\ step' = [step EXCEPT ![k] = "done"]
          /\ older' = older
      BY <2>3 DEF Release
    <3>2. \A n \in Sniffers : lock'[n] <=> lock[n] /\ ~byTag /\ n # k
      BY <2>3 DEF Release, LocksAfterRelease, DroppedWith
    <3>3. ASSUME NEW n \in Sniffers, step'[n] \in {"create", "sleep"}, ~lock'[n]
          PROVE  byTag' /\ (Stopped(n)' \/ \E m \in older'[n] :
                                                m < n /\ step'[m] = "done")
      <4>1. n # k /\ step'[n] = step[n] /\ n <= created
        BY <1>0, <3>1, <3>3 DEF NotMade
      <4>2. CASE ~lock[n]
        <5>1. \A m \in Sniffers : step[m] = "done" => step'[m] = "done"
          BY <3>1
        <5> QED BY <2>1, <3>1, <3>3, <4>1, <4>2, <5>1
      <4>3. CASE lock[n]
        <5>1. byTag'
          BY <2>1, <3>2, <3>3, <4>1, <4>3
        <5>2. CASE n < created
          BY <2>1, <5>1, <5>2 DEF Stopped
        <5>3. CASE n = created
          <6>1. k \in older[n]
            BY <3>1, <3>3, <4>1, <5>3 DEF OlderInv, UnderWay
          <6>2. k < n
            BY <1>0, <3>1, <4>1, <5>3 DEF NotMade
          <6> QED BY <3>1, <5>1, <6>1, <6>2
        <5> QED BY <1>0, <4>1, <5>2, <5>3
      <4> QED BY <4>2, <4>3
    <3>4. ASSUME NEW n \in Sniffers, step'[n] = "done" PROVE ~lock'[n]
      BY <3>1, <3>2, <3>4
    <3> QED BY <3>3, <3>4
  <2>4. CASE Created(k) \/ CreateFails(k) \/ Wake(k)
    BY <2>1, <2>4 DEF Created, CreateFails, Wake
  <2>5. ASSUME UNCHANGED <<step, lock, older>> PROVE MulticastWhileListening'
    BY <2>1, <2>5
  <2> QED
    BY <1>3, <2>2, <2>3, <2>4, <2>5 DEF ThreadNext, Create, Close, CloseFails
<1>4. ASSUME UNCHANGED <<created, resumed, byTag, step, lock, older>>
      PROVE  MulticastWhileListening'
  BY <1>4 DEF Stopped
<1> QED
  BY <1>1, <1>2, <1>3, <1>4 DEF Next, ServiceResolved, Deliver, vars

(* Instances are made before the list is there and closed from it. *)
LEMMA NoLeakStep == TypeOK /\ NotMade /\ NoLeak /\ [Next]_vars => NoLeak'
<1> SUFFICES ASSUME TypeOK, NotMade, NoLeak, [Next]_vars PROVE NoLeak'
  OBVIOUS
<1> USE DEF NoLeak, TypeOK
<1>1. CASE Start
  <2>1. created + 1 \in Sniffers /\ step[created + 1] = "new"
    BY <1>1, CreatedRange DEF Start, NotMade
  <2> QED BY <1>1, <2>1 DEF Start
<1>2. ASSUME NEW n \in Sniffers, ThreadNext(n) PROVE NoLeak'
  <2>1. CASE Acquire(n) \/ Wake(n)
    BY <2>1 DEF Acquire, Wake
  <2>2. ASSUME NEW address \in Addresses, Create(n, address) PROVE NoLeak'
    BY <2>2 DEF Create
  <2>3. ASSUME NEW address \in Addresses, Close(n, address) PROVE NoLeak'
    <3>1. \A m \in Sniffers \ {n} :
            sniffers'[m] = sniffers[m] /\ open'[m] = open[m]
      BY <2>3 DEF Close
    <3>2. /\ sniffers'[n] = sniffers[n] \ {address}
          /\ open'[n] = open[n] \ {address}
      BY <2>3 DEF Close
    <3>3. step' = step /\ failed' = failed /\ step[n] = "close"
      BY <2>3 DEF Close
    <3> QED BY <3>1, <3>2, <3>3
  <2>4. CASE Created(n)
    BY <2>4 DEF Created, ListOf
  <2>5. CASE CreateFails(n) \/ CloseFails(n)
    BY <2>5 DEF CreateFails, CloseFails
  <2>6. CASE Release(n)
    BY <2>6 DEF Release
  <2> QED BY <1>2, <2>1, <2>2, <2>3, <2>4, <2>5, <2>6 DEF ThreadNext
<1>3. ASSUME UNCHANGED <<step, sniffers, open, failed>> PROVE NoLeak'
  BY <1>3
<1> QED
  BY <1>1, <1>2, <1>3 DEF Next, Stop, ServiceResolved, Deliver, vars

(* The inductive invariant. *)
LEMMA InvCorrect == SafeSpec => []DnsInv
<1>1. Init => DnsInv
  <2> SUFFICES ASSUME Init PROVE DnsInv
    OBVIOUS
  <2>1. TypeOK
    <3>1. sniffers \in [Sniffers -> SUBSET Addresses]
      BY DEF Init
    <3>2. open \in [Sniffers -> SUBSET Addresses]
      BY DEF Init
    <3>3. /\ step \in [Sniffers -> {"new", "acquire", "create", "sleep", "close", "done"}]
          /\ interrupted \in [Sniffers -> BOOLEAN] /\ lock \in [Sniffers -> BOOLEAN]
          /\ posted \in [Sniffers -> BOOLEAN] /\ failed \in [Sniffers -> BOOLEAN]
      BY DEF Init
    <3>4. created \in 0..MaxSniffers
      BY DnsAssumption DEF Init
    <3>5. resumed \in BOOLEAN /\ byTag \in BOOLEAN
      BY DEF Init
    <3>6. older \in [Sniffers -> SUBSET Sniffers]
      BY DEF Init
    <3> QED BY <3>1, <3>2, <3>3, <3>4, <3>5, <3>6 DEF TypeOK
  <2>2. NotMade /\ OlderInv /\ MulticastWhileListening /\ NoLeak
    BY DEF Init, NotMade, OlderInv, MulticastWhileListening, NoLeak
  <2> QED BY <2>1, <2>2 DEF DnsInv
<1>2. DnsInv /\ [Next]_vars => DnsInv'
  BY TypeStep, NotMadeStep, OlderStep, MulticastStep, NoLeakStep DEF DnsInv
<1> QED BY <1>1, <1>2, PTL DEF SafeSpec

(* The types of DnsServiceSniffer: its thread, lock and list.              *)
THEOREM TypeCorrect == SafeSpec => []TypeOK
<1>1. DnsInv => TypeOK
  BY DEF DnsInv
<1> QED BY <1>1, InvCorrect, PTL

(* A sniffer that listens and has not been stopped has its multicast lock, *)
(* unless the WifiManager drops locks by tag and a thread that was under   *)
(* way at its acquire has made its own release since; one whose thread is  *)
(* over has released it: DnsServiceSniffer.run, its tag from line 57.      *)
THEOREM AlwaysMulticast == SafeSpec => []MulticastWhileListening
<1>1. DnsInv => MulticastWhileListening
  BY DEF DnsInv
<1> QED BY <1>1, InvCorrect, PTL

(* An instance that is not on the list to be closed belongs to a sniffer   *)
(* that is still making them, or has met an exception: getSnifferList.     *)
THEOREM NeverLeaks == SafeSpec => []NoLeak
<1>1. DnsInv => NoLeak
  BY DEF DnsInv
<1> QED BY <1>1, InvCorrect, PTL

(* A sniffer that has come to its end stays there: its lock is not taken   *)
(* and nothing is detected again, whatever the sniffers after it do.       *)
THEOREM EndIsFinal ==
  SafeSpec => [][\A n \in Sniffers : Ended(n) => Ended(n)']_vars
<1>1. DnsInv /\ [Next]_vars => [\A n \in Sniffers : Ended(n) => Ended(n)']_vars
  <2> SUFFICES ASSUME DnsInv, Next, NEW n \in Sniffers, Ended(n) PROVE Ended(n)'
    BY DEF Ended, vars
  <2> USE DEF Ended, DnsInv, TypeOK
  <2>1. CASE Start
    <3>1. created + 1 \in Sniffers /\ step[created + 1] = "new"
      BY <2>1, CreatedRange DEF Start, NotMade
    <3> QED BY <2>1, <3>1 DEF Start
  <2>2. CASE Stop
    BY <2>2 DEF Stop
  <2>3. ASSUME NEW m \in Sniffers, ServiceResolved(m) \/ Deliver(m) PROVE Ended(n)'
    BY <2>3 DEF ServiceResolved, Deliver
  <2>4. ASSUME NEW m \in Sniffers, ThreadNext(m) PROVE Ended(n)'
    <3>1. m # n
      BY <2>4 DEF ThreadNext, Acquire, Create, Close, Created, CreateFails,
                  Wake, CloseFails, Release
    <3>2. /\ step'[n] = step[n] /\ ~lock'[n] /\ failed'[n] = failed[n]
          /\ open'[n] = open[n] /\ posted'[n] = posted[n]
      BY <2>4, <3>1 DEF ThreadNext, Acquire, Create, Close, Created,
                        CreateFails, Wake, CloseFails, Release, LocksAfterRelease
    <3> QED BY <3>2
  <2> QED BY <2>1, <2>2, <2>3, <2>4 DEF Next
<1> QED BY <1>1, InvCorrect, PTL DEF SafeSpec

-----------------------------------------------------------------------------
(* The interrupt of stop is not lost on a thread that is not asleep yet,   *)
(* and the thread of a sniffer that was made is under way.                 *)
InterruptWaits ==
  \A n \in Sniffers :
    /\ n <= created => step[n] # "new"
    /\ (Stopped(n) /\ step[n] \in {"acquire", "create", "sleep"}) => interrupted[n]

(* Nothing keeps the thread waiting: it sleeps until it is interrupted,    *)
(* and then no more.                                                       *)
ThreadReady(n) ==
  step[n] \in {"acquire", "create", "close"} \/ (step[n] = "sleep" /\ interrupted[n])

StopIsHeard == \A n \in Sniffers : Stopped(n) => step[n] = "done" \/ ThreadReady(n)

(* How many steps its thread has before it at most: two for each address,  *)
(* one to make an instance and one to close it, and those in between.      *)
Work(n) ==
  LET addresses == Cardinality(Addresses)
  IN  [new     |-> 2 * addresses + 5,
       acquire |-> 2 * addresses + 4,
       create  |-> Cardinality(Addresses \ open[n]) + addresses + 3,
       sleep   |-> addresses + 2,
       close   |-> Cardinality(sniffers[n]) + 1,
       done    |-> 0][step[n]]

(* Each step of the thread of a sniffer brings its end nearer, and no step *)
(* of another thread, nor stop or the next onResume, puts it off.          *)
EndComesNearer ==
  [][\A n \in Sniffers : /\ Work(n)' <= Work(n)
                         /\ ThreadNext(n) => Work(n)' < Work(n)]_vars

(* stop sets the flag of the thread it finds at any step, and only the     *)
(* sleep clears it.                                                        *)
LEMMA InterruptStep == DnsInv /\ InterruptWaits /\ [Next]_vars => InterruptWaits'
<1> SUFFICES ASSUME DnsInv, InterruptWaits, [Next]_vars PROVE InterruptWaits'
  OBVIOUS
<1> USE DEF InterruptWaits, DnsInv, TypeOK
<1>0. created \in Nat /\ \A n \in Sniffers : n \in Nat
  BY DnsAssumption DEF Sniffers
<1>1. CASE Start
  <2>1. ~resumed /\ created' = created + 1 /\ resumed'
        /\ UNCHANGED interrupted
        /\ step' = [step EXCEPT ![created + 1] = "acquire"]
    BY <1>1 DEF Start
  <2>2. ASSUME NEW n \in Sniffers
        PROVE  /\ n <= created' => step'[n] # "new"
               /\ (Stopped(n)' /\ step'[n] \in {"acquire", "create", "sleep"})
                    => interrupted'[n]
    <3>1. CASE n = created + 1
      <4>1. ~Stopped(n)' /\ step'[n] = "acquire"
        BY <1>0, <2>1, <3>1 DEF Stopped
      <4> QED BY <4>1
    <3>2. CASE n # created + 1
      <4>1. step'[n] = step[n] /\ (n <= created' => n <= created)
        BY <1>0, <2>1, <3>2
      <4>2. Stopped(n)' => Stopped(n)
        BY <1>0, <2>1, <3>2 DEF Stopped
      <4> QED BY <2>1, <4>1, <4>2
    <3> QED BY <3>1, <3>2
  <2> QED BY <2>2
<1>2. CASE Stop
  BY <1>0, <1>2 DEF Stop, InterruptedBy, Stopped
<1>3. ASSUME NEW n \in Sniffers, ThreadNext(n) PROVE InterruptWaits'
  <2>1. UNCHANGED <<created, resumed>>
        /\ \A m \in Sniffers \ {n} : step'[m] = step[m] /\ interrupted'[m] = interrupted[m]
    BY <1>3 DEF ThreadNext, Acquire, Create, Close, Created, CreateFails, Wake,
                CloseFails, Release
  <2>2. CASE Wake(n)
    BY <2>1, <2>2 DEF Wake, Stopped
  <2>3. ASSUME Acquire(n) \/ Created(n) \/ CreateFails(n)
        PROVE  InterruptWaits'
    <3>1. /\ step[n] \in {"acquire", "create"} /\ step'[n] \in {"create", "sleep"}
          /\ interrupted'[n] = interrupted[n]
      BY <2>3 DEF Acquire, Created, CreateFails
    <3> QED BY <2>1, <3>1 DEF Stopped
  <2>4. CASE Release(n)
    BY <2>1, <2>4 DEF Release, Stopped
  <2>5. ASSUME UNCHANGED <<step, interrupted>> PROVE InterruptWaits'
    BY <2>1, <2>5 DEF Stopped
  <2> QED
    BY <1>3, <2>2, <2>3, <2>4, <2>5 DEF ThreadNext, Create, Close, CloseFails
<1>4. ASSUME UNCHANGED <<created, resumed, step, interrupted>> PROVE InterruptWaits'
  BY <1>4 DEF Stopped
<1> QED
  BY <1>1, <1>2, <1>3, <1>4 DEF Next, ServiceResolved, Deliver, vars

(* A sniffer that onPause stops hears it, at whichever step its thread is: *)
(* from then on that thread never waits, until it is done.                 *)
THEOREM StopAlwaysHeard == SafeSpec => []StopIsHeard
<1>1. Init => InterruptWaits
  <2> SUFFICES ASSUME Init, NEW n \in Sniffers
               PROVE  ~(n <= created) /\ step[n] \notin {"acquire", "create", "sleep"}
    BY DEF InterruptWaits
  <2>1. n \in Nat \ {0} /\ created = 0 /\ step[n] = "new"
    BY DnsAssumption DEF Init, Sniffers
  <2> QED BY <2>1
<1>2. DnsInv /\ InterruptWaits => StopIsHeard
  <2> SUFFICES ASSUME DnsInv, InterruptWaits, NEW n \in Sniffers, Stopped(n)
               PROVE  step[n] = "done" \/ ThreadReady(n)
    BY DEF StopIsHeard
  <2>1. n <= created
    BY DnsAssumption DEF Stopped, Sniffers, DnsInv, TypeOK
  <2>2. step[n] # "new" /\ (step[n] = "sleep" => interrupted[n])
    BY <2>1 DEF InterruptWaits
  <2> QED BY <2>2 DEF ThreadReady, DnsInv, TypeOK
<1> QED BY <1>1, <1>2, InvCorrect, InterruptStep, PTL DEF SafeSpec

(* The work of a thread at each of its steps. *)
LEMMA WorkIs ==
  ASSUME TypeOK, IsFiniteSet(Addresses), NEW n \in Sniffers
  PROVE  /\ Cardinality(Addresses) \in Nat
         /\ IsFiniteSet(sniffers[n]) /\ IsFiniteSet(Addresses \ open[n])
         /\ Cardinality(sniffers[n]) \in Nat
         /\ Cardinality(sniffers[n]) <= Cardinality(Addresses)
         /\ Cardinality(Addresses \ open[n]) \in Nat
         /\ step[n] = "new"     => Work(n) = 2 * Cardinality(Addresses) + 5
         /\ step[n] = "acquire" => Work(n) = 2 * Cardinality(Addresses) + 4
         /\ step[n] = "create"  =>
              Work(n) = Cardinality(Addresses \ open[n]) + Cardinality(Addresses) + 3
         /\ step[n] = "sleep"   => Work(n) = Cardinality(Addresses) + 2
         /\ step[n] = "close"   => Work(n) = Cardinality(sniffers[n]) + 1
         /\ step[n] = "done"    => Work(n) = 0
         /\ Work(n) \in Nat
<1>1. sniffers[n] \in SUBSET Addresses /\ Addresses \ open[n] \in SUBSET Addresses
  BY DEF TypeOK
<1>2. /\ IsFiniteSet(sniffers[n]) /\ Cardinality(sniffers[n]) <= Cardinality(Addresses)
      /\ IsFiniteSet(Addresses \ open[n])
      /\ Cardinality(Addresses \ open[n]) <= Cardinality(Addresses)
  BY <1>1, FS_Subset
<1>3. /\ Cardinality(Addresses) \in Nat /\ Cardinality(sniffers[n]) \in Nat
      /\ Cardinality(Addresses \ open[n]) \in Nat
  BY <1>2, FS_CardinalityType
<1>4. /\ step[n] = "new"     => Work(n) = 2 * Cardinality(Addresses) + 5
      /\ step[n] = "acquire" => Work(n) = 2 * Cardinality(Addresses) + 4
      /\ step[n] = "create"  =>
           Work(n) = Cardinality(Addresses \ open[n]) + Cardinality(Addresses) + 3
      /\ step[n] = "sleep"   => Work(n) = Cardinality(Addresses) + 2
      /\ step[n] = "close"   => Work(n) = Cardinality(sniffers[n]) + 1
      /\ step[n] = "done"    => Work(n) = 0
  BY DEF Work
<1>5. step[n] \in {"new", "acquire", "create", "sleep", "close", "done"}
  BY DEF TypeOK
<1>6. Work(n) \in Nat
  BY <1>3, <1>4, <1>5
<1> QED BY <1>2, <1>3, <1>4, <1>6

(* A step of its thread takes some of it away. *)
LEMMA ThreadWorks ==
  ASSUME TypeOK, TypeOK', IsFiniteSet(Addresses), NEW n \in Sniffers, ThreadNext(n)
  PROVE  Work(n)' <= Work(n) /\ Work(n)' < Work(n)
<1> DEFINE A == Cardinality(Addresses)
           C == Cardinality(Addresses \ open[n])
           S == Cardinality(sniffers[n])
<1>1. /\ A \in Nat
      /\ IsFiniteSet(sniffers[n]) /\ IsFiniteSet(Addresses \ open[n])
      /\ S \in Nat /\ S <= A /\ C \in Nat
      /\ step[n] = "acquire" => Work(n) = 2 * A + 4
      /\ step[n] = "create"  => Work(n) = C + A + 3
      /\ step[n] = "sleep"   => Work(n) = A + 2
      /\ step[n] = "close"   => Work(n) = S + 1
  BY WorkIs
<1>2. /\ C' \in Nat /\ C' <= A /\ S' \in Nat /\ S' <= A
      /\ step'[n] = "create"  => Work(n)' = C' + A + 3
      /\ step'[n] = "sleep"   => Work(n)' = A + 2
      /\ step'[n] = "close"   => Work(n)' = S' + 1
      /\ step'[n] = "done"    => Work(n)' = 0
  <2>1. sniffers'[n] \in SUBSET Addresses /\ Addresses \ open'[n] \in SUBSET Addresses
    BY DEF TypeOK
  <2>2. /\ IsFiniteSet(sniffers'[n]) /\ S' <= A
        /\ IsFiniteSet(Addresses \ open'[n]) /\ C' <= A
    BY <2>1, FS_Subset
  <2>3. S' \in Nat /\ C' \in Nat
    BY <2>2, FS_CardinalityType
  <2>4. /\ step'[n] = "create"  => Work(n)' = C' + A + 3
        /\ step'[n] = "sleep"   => Work(n)' = A + 2
        /\ step'[n] = "close"   => Work(n)' = S' + 1
        /\ step'[n] = "done"    => Work(n)' = 0
    BY DEF Work
  <2> QED BY <2>2, <2>3, <2>4
<1>3. ASSUME Acquire(n) PROVE Work(n)' < Work(n)
  <2>1. step[n] = "acquire" /\ step'[n] = "create"
    BY <1>3 DEF Acquire, TypeOK
  <2>2. Work(n) = 2 * A + 4 /\ Work(n)' = C' + A + 3
    BY <1>1, <1>2, <2>1
  <2>3. A \in Nat /\ C' \in Nat /\ C' <= A
    BY <1>1, <1>2
  <2>4. \A a, c \in Nat : c <= a => c + a + 3 < 2 * a + 4
    OBVIOUS
  <2> HIDE DEF A, C, S
  <2> QED BY <2>2, <2>3, <2>4
<1>4. ASSUME NEW address \in Addresses, Create(n, address) PROVE Work(n)' < Work(n)
  <2>1. step[n] = "create" /\ step'[n] = "create" /\ address \in Addresses \ open[n]
        /\ Addresses \ open'[n] = (Addresses \ open[n]) \ {address}
    BY <1>4 DEF Create, TypeOK
  <2>2. C' = C - 1
    <3>1. Cardinality((Addresses \ open[n]) \ {address}) = C - 1
      BY <1>1, <2>1, FS_RemoveElement
    <3> QED BY <2>1, <3>1
  <2> HIDE DEF A, C, S
  <2> QED BY <1>1, <1>2, <2>1, <2>2
<1>5. ASSUME Created(n) \/ CreateFails(n) PROVE Work(n)' < Work(n)
  <2>1. step[n] = "create" /\ step'[n] = "sleep"
    BY <1>5 DEF Created, CreateFails, TypeOK
  <2> HIDE DEF A, C, S
  <2> QED BY <1>1, <1>2, <2>1
<1>6. ASSUME Wake(n) PROVE Work(n)' < Work(n)
  <2>1. step[n] = "sleep" /\ step'[n] = "close"
    BY <1>6 DEF Wake, TypeOK
  <2>2. Work(n) = A + 2 /\ Work(n)' = S' + 1
    BY <1>1, <1>2, <2>1
  <2>3. A \in Nat /\ S' \in Nat /\ S' <= A
    BY <1>1, <1>2
  <2>4. \A a, s \in Nat : s <= a => s + 1 < a + 2
    OBVIOUS
  <2> HIDE DEF A, C, S
  <2> QED BY <2>2, <2>3, <2>4
<1>7. ASSUME NEW address \in Addresses, Close(n, address) PROVE Work(n)' < Work(n)
  <2>1. step[n] = "close" /\ step'[n] = "close" /\ address \in sniffers[n]
        /\ sniffers'[n] = sniffers[n] \ {address}
    BY <1>7 DEF Close, TypeOK
  <2>2. S' = S - 1
    <3>1. Cardinality(sniffers[n] \ {address}) = S - 1
      BY <1>1, <2>1, FS_RemoveElement
    <3> QED BY <2>1, <3>1
  <2> HIDE DEF A, C, S
  <2> QED BY <1>1, <1>2, <2>1, <2>2
<1>8. ASSUME CloseFails(n) PROVE Work(n)' < Work(n)
  <2>1. step[n] = "close" /\ step'[n] = "close" /\ sniffers[n] # {}
        /\ sniffers'[n] = {}
    BY <1>8 DEF CloseFails, TypeOK
  <2>2. S' = 0 /\ S # 0
    BY <1>1, <2>1, FS_EmptySet
  <2> HIDE DEF A, C, S
  <2> QED BY <1>1, <1>2, <2>1, <2>2
<1>9. ASSUME Release(n) PROVE Work(n)' < Work(n)
  <2>1. step[n] = "close" /\ step'[n] = "done"
    BY <1>9 DEF Release, TypeOK
  <2> HIDE DEF A, C, S
  <2> QED BY <1>1, <1>2, <2>1
<1>10. Work(n)' < Work(n)
  BY <1>3, <1>4, <1>5, <1>6, <1>7, <1>8, <1>9 DEF ThreadNext
<1>11. Work(n)' \in Nat /\ Work(n) \in Nat
  <2>1. step'[n] \in {"new", "acquire", "create", "sleep", "close", "done"}
        /\ step'[n] # "new" /\ step'[n] # "acquire"
    BY DEF ThreadNext, Acquire, Create, Close, Created, CreateFails, Wake,
           CloseFails, Release, TypeOK
  <2> HIDE DEF A, C, S
  <2> QED BY <1>1, <1>2, <2>1, WorkIs
<1> QED BY <1>10, <1>11

(* The step of the thread of a sniffer lets those of others be as they are.*)
LEMMA OthersWait ==
  ASSUME TypeOK, NotMade, TypeOK', IsFiniteSet(Addresses), NEW n \in Sniffers,
         Next, ~ThreadNext(n)
  PROVE  Work(n)' <= Work(n)
<1>1. Work(n) \in Nat
  BY WorkIs
<1>2. ASSUME step'[n] = step[n], open'[n] = open[n], sniffers'[n] = sniffers[n]
      PROVE  Work(n)' <= Work(n)
  <2>1. Work(n)' = Work(n)
    BY <1>2 DEF Work
  <2> QED BY <1>1, <2>1
<1>3. CASE Start
  <2>1. created + 1 \in Sniffers /\ step[created + 1] = "new"
    BY <1>3, CreatedRange, DnsAssumption DEF Start, NotMade, TypeOK
  <2>2. CASE n = created + 1
    <3>1. step[n] = "new" /\ step'[n] = "acquire"
      BY <1>3, <2>1, <2>2 DEF Start, TypeOK
    <3>2. Work(n) = 2 * Cardinality(Addresses) + 5 /\ Cardinality(Addresses) \in Nat
      BY <3>1, WorkIs
    <3>3. Work(n)' = 2 * Cardinality(Addresses) + 4
      BY <3>1 DEF Work
    <3> QED BY <3>2, <3>3
  <2>3. CASE n # created + 1
    BY <1>2, <1>3, <2>3 DEF Start, TypeOK
  <2> QED BY <2>2, <2>3
<1>4. CASE Stop
  BY <1>2, <1>4 DEF Stop
<1>5. ASSUME NEW m \in Sniffers, ServiceResolved(m) \/ Deliver(m)
      PROVE  Work(n)' <= Work(n)
  BY <1>2, <1>5 DEF ServiceResolved, Deliver
<1>6. ASSUME NEW m \in Sniffers, ThreadNext(m) PROVE Work(n)' <= Work(n)
  <2>1. m # n
    BY <1>6
  <2>2. step'[n] = step[n] /\ open'[n] = open[n] /\ sniffers'[n] = sniffers[n]
    BY <1>6, <2>1 DEF ThreadNext, Acquire, Create, Close, Created, CreateFails,
                      Wake, CloseFails, Release, TypeOK
  <2> QED BY <1>2, <2>2
<1> QED BY <1>3, <1>4, <1>5, <1>6 DEF Next

(* With finitely many addresses, the thread of a sniffer is done after a   *)
(* number of steps that is known when it starts, however many sniffers     *)
(* follow: with StopAlwaysHeard, onPause does end it.                      *)
THEOREM EndAlwaysNearer ==
  IsFiniteSet(Addresses) /\ SafeSpec
    => EndComesNearer /\ [](\A n \in Sniffers : Work(n) \in Nat)
<1> SUFFICES ASSUME IsFiniteSet(Addresses)
             PROVE  SafeSpec => EndComesNearer /\ [](\A n \in Sniffers : Work(n) \in Nat)
  OBVIOUS
<1>1. DnsInv => \A n \in Sniffers : Work(n) \in Nat
  BY WorkIs DEF DnsInv
<1>2. DnsInv /\ DnsInv' /\ [Next]_vars
        => [\A n \in Sniffers : /\ Work(n)' <= Work(n)
                                /\ ThreadNext(n) => Work(n)' < Work(n)]_vars
  <2> SUFFICES ASSUME DnsInv, DnsInv', Next, NEW n \in Sniffers
               PROVE  /\ Work(n)' <= Work(n)
                      /\ ThreadNext(n) => Work(n)' < Work(n)
    OBVIOUS
  <2>1. TypeOK /\ NotMade /\ TypeOK'
    BY DEF DnsInv
  <2>2. ThreadNext(n) => Work(n)' <= Work(n) /\ Work(n)' < Work(n)
    BY <2>1, ThreadWorks
  <2>3. ~ThreadNext(n) => Work(n)' <= Work(n)
    BY <2>1, OthersWait
  <2> QED BY <2>2, <2>3
<1> QED BY <1>1, <1>2, InvCorrect, PTL DEF SafeSpec, EndComesNearer

=============================================================================
