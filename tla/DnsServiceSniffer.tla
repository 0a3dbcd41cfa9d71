------------------------- MODULE DnsServiceSniffer -------------------------
(***************************************************************************)
(* The JmDNS sniffers that Home makes one after the other: one for each    *)
(* onResume, stopped by the next onPause.                                  *)
(*                                                                         *)
(* Each has a thread that takes a multicast lock, makes a JmDNS instance   *)
(* for each address of the device and sleeps until stop interrupts it.     *)
(* Nothing waits for that thread: it may still be at any step while the    *)
(* next sniffers run, and an exception may take it past some of its work.  *)
(* Each has a MulticastLock of its own, but all of them are created with   *)
(* one tag, the name of the package, by which a WifiManager may drop them. *)
(***************************************************************************)
EXTENDS Naturals, FiniteSets

CONSTANTS
  Addresses,       \* multicast addresses of the device
  MaxSniffers      \* bound: times onResume is called

ASSUME DnsAssumption == MaxSniffers \in Nat

VARIABLES
  created,       \* sniffers that have been made; the last one is Home's
  resumed,       \* between onResume and onPause
  byTag,         \* how the WifiManager of the device drops locks
  step,          \* of the thread of each sniffer
  interrupted,   \* its interrupt flag
  lock,          \* the WifiManager has its mMulticastLock
  sniffers,      \* its list: addresses of the instances to close
  open,          \* addresses of its JmDNS instances that exist
  posted,        \* a detection of it is waiting for the main thread
  failed,        \* history: one of its calls threw an IOException
  older          \* history: threads under way when it acquired its lock

homeVars   == <<created, resumed, byTag>>
threadVars == <<step, interrupted, lock, sniffers, failed, older>>
vars == <<homeVars, threadVars, open, posted>>

Sniffers == 1..MaxSniffers

-----------------------------------------------------------------------------
Init ==
  /\ created = 0 /\ resumed = FALSE /\ byTag \in BOOLEAN
  /\ step = [n \in Sniffers |-> "new"]
  /\ interrupted = [n \in Sniffers |-> FALSE]
  /\ lock = [n \in Sniffers |-> FALSE]
  /\ sniffers = [n \in Sniffers |-> {}]
  /\ open = [n \in Sniffers |-> {}]
  /\ posted = [n \in Sniffers |-> FALSE]
  /\ failed = [n \in Sniffers |-> FALSE]
  /\ older = [n \in Sniffers |-> {}]

(* Bound: MaxSniffers.  onResume makes a sniffer and starts its thread. *)
Start ==
  /\ ~resumed /\ created < MaxSniffers
  /\ resumed' = TRUE
  /\ created' = created + 1
  /\ step' = [step EXCEPT ![created + 1] = "acquire"]
  /\ UNCHANGED <<byTag, interrupted, lock, sniffers, open, posted, failed,
                 older>>

(* Mutant: an interrupt that finds the thread awake is lost. *)
HeardInSleep(n) == step[n] = "sleep"

(* Thread.interrupt: the flag stays set until the thread sleeps. *)
InterruptedBy(n) == TRUE

(* onPause: stop interrupts the thread and drops what was posted. *)
Stop ==
  /\ resumed
  /\ resumed' = FALSE
  /\ interrupted' = [interrupted EXCEPT ![created] = InterruptedBy(created)]
  /\ posted' = [posted EXCEPT ![created] = FALSE]
  /\ UNCHANGED <<created, byTag, step, lock, sniffers, open, failed, older>>

(* serviceResolved, on a thread of an instance: onFreeboxDetected posts. *)
ServiceResolved(n) ==
  /\ open[n] # {}
  /\ posted' = [posted EXCEPT ![n] = TRUE]
  /\ UNCHANGED <<homeVars, threadVars, open>>

(* The main thread runs what is posted: Home.onFreeboxDetected. *)
Deliver(n) ==
  /\ posted[n]
  /\ posted' = [posted EXCEPT ![n] = FALSE]
  /\ UNCHANGED <<homeVars, threadVars, open>>

-----------------------------------------------------------------------------
UnderWay(n) == step[n] \notin {"new", "done"}

Acquire(n) ==
  /\ step[n] = "acquire"
  /\ lock' = [lock EXCEPT ![n] = TRUE]
  /\ older' = [older EXCEPT ![n] = {m \in Sniffers \ {n} : UnderWay(m)}]
  /\ step' = [step EXCEPT ![n] = "create"]
  /\ UNCHANGED <<homeVars, interrupted, sniffers, open, posted, failed>>

(* getSnifferList makes one more instance. *)
Create(n, address) ==
  /\ step[n] = "create" /\ address \notin open[n]
  /\ open' = [open EXCEPT ![n] = @ \cup {address}]
  /\ UNCHANGED <<homeVars, threadVars, posted>>

(* Mutant: getSnifferList returns null in any case. *)
NoList(n) == {}

ListOf(n) == open[n]

(* getSnifferList has made an instance for each address that is up.        *)
Created(n) ==
  /\ step[n] = "create"
  /\ sniffers' = [sniffers EXCEPT ![n] = ListOf(n)]
  /\ step' = [step EXCEPT ![n] = "sleep"]
  /\ UNCHANGED <<homeVars, interrupted, lock, open, posted, failed, older>>

(* getLocalHost, getNetworkInterfaces or JmDNS.create throws: the list is  *)
(* lost, and what it holds stays open.                                     *)
CreateFails(n) ==
  /\ step[n] = "create"
  /\ failed' = [failed EXCEPT ![n] = TRUE]
  /\ step' = [step EXCEPT ![n] = "sleep"]
  /\ UNCHANGED <<homeVars, interrupted, lock, sniffers, open, posted, older>>

(* Thread.sleep throws, at once if the interrupt came before it. *)
Wake(n) ==
  /\ step[n] = "sleep" /\ interrupted[n]
  /\ interrupted' = [interrupted EXCEPT ![n] = FALSE]
  /\ step' = [step EXCEPT ![n] = "close"]
  /\ UNCHANGED <<homeVars, lock, sniffers, open, posted, failed, older>>

Close(n, address) ==
  /\ step[n] = "close" /\ address \in sniffers[n]
  /\ sniffers' = [sniffers EXCEPT ![n] = @ \ {address}]
  /\ open' = [open EXCEPT ![n] = @ \ {address}]
  /\ UNCHANGED <<homeVars, step, interrupted, lock, posted, failed, older>>

(* JmDNS.close throws: this instance and those after it are left. *)
CloseFails(n) ==
  /\ step[n] = "close" /\ sniffers[n] # {}
  /\ failed' = [failed EXCEPT ![n] = TRUE]
  /\ sniffers' = [sniffers EXCEPT ![n] = {}]
  /\ UNCHANGED <<homeVars, step, interrupted, lock, open, posted, older>>

(* Mutant: the sniffers share one lock that is not reference counted. *)
AllReleased(n) == [m \in Sniffers |-> FALSE]

(* What the WifiManager drops when a lock is released.  Older releases of  *)
(* Android drop every lock of the application with that tag, later ones    *)
(* the lock itself.                                                        *)
DroppedWith(n) == IF byTag THEN Sniffers ELSE {n}

(* mMulticastLock.release, of a lock with the tag that all of them have.   *)
LocksAfterRelease(n) == [m \in Sniffers |-> lock[m] /\ m \notin DroppedWith(n)]

Release(n) ==
  /\ step[n] = "close" /\ sniffers[n] = {}
  /\ lock' = LocksAfterRelease(n)
  /\ step' = [step EXCEPT ![n] = "done"]
  /\ UNCHANGED <<homeVars, interrupted, sniffers, open, posted, failed, older>>

ThreadNext(n) ==
  \/ Acquire(n)
  \/ \E address \in Addresses : Create(n, address) \/ Close(n, address)
  \/ Created(n) \/ CreateFails(n)
  \/ Wake(n)
  \/ CloseFails(n)
  \/ Release(n)

Next ==
  \/ Start \/ Stop
  \/ \E n \in Sniffers : ServiceResolved(n) \/ Deliver(n) \/ ThreadNext(n)

(* Threads are scheduled, and the main thread runs what is posted to it.   *)
(* The user and the network are free.                                      *)
SafeSpec == Init /\ [][Next]_vars
Spec == SafeSpec /\ \A n \in Sniffers : WF_vars(ThreadNext(n)) /\ WF_vars(Deliver(n))

-----------------------------------------------------------------------------
TypeOK ==
  /\ created \in 0..MaxSniffers /\ resumed \in BOOLEAN /\ byTag \in BOOLEAN
  /\ step \in [Sniffers -> {"new", "acquire", "create", "sleep", "close", "done"}]
  /\ interrupted \in [Sniffers -> BOOLEAN]
  /\ lock \in [Sniffers -> BOOLEAN]
  /\ sniffers \in [Sniffers -> SUBSET Addresses]
  /\ open \in [Sniffers -> SUBSET Addresses]
  /\ posted \in [Sniffers -> BOOLEAN]
  /\ failed \in [Sniffers -> BOOLEAN]
  /\ older \in [Sniffers -> SUBSET Sniffers]

Stopped(n) == n < created \/ (n = created /\ ~resumed)

(* Multicast is received as long as a sniffer that has not been stopped    *)
(* listens, but on a device that drops locks by tag: there it is lost when *)
(* a thread still under way at the time of its acquire, that of a sniffer  *)
(* before it, has come to its own release since, and in no other case.  A  *)
(* thread that is over has left no lock behind, on every path.             *)
MulticastWhileListening ==
  \A n \in Sniffers :
    /\ (step[n] \in {"create", "sleep"} /\ ~lock[n]) =>
         byTag /\ (Stopped(n) \/ \E m \in older[n] : m < n /\ step[m] = "done")
    /\ step[n] = "done" => ~lock[n]

(* Every instance that exists is on the list its thread will close, or the *)
(* thread has met an exception.                                            *)
NoLeak ==
  \A n \in Sniffers :
    failed[n] \/ step[n] = "create" \/ open[n] = sniffers[n]

(* A sniffer that is stopped, at whichever step of its thread, comes to an *)
(* end with its lock released and, unless it met an exception, detects     *)
(* nothing more.                                                           *)
Ended(n) ==
  step[n] = "done" /\ ~lock[n] /\ (failed[n] \/ (open[n] = {} /\ ~posted[n]))
StopEnds == \A n \in Sniffers : Stopped(n) ~> []Ended(n)

=============================================================================
