--------------------------- MODULE BonjourSniffer ---------------------------
(***************************************************************************)
(* The Bonjour sniffers that Home makes one after the other, one for each  *)
(* onResume, over the NsdManager they share: its discoveries and the       *)
(* ResolverQueue of each sniffer.                                          *)
(*                                                                         *)
(* start and stop run on the main thread and only send requests; every     *)
(* callback runs on the one thread of NsdManager.  What the NSD service    *)
(* does is external: it resolves one service at a time and refuses others  *)
(* meanwhile, of whichever sniffer they are.                               *)
(***************************************************************************)
EXTENDS Naturals, Sequences, FiniteSets

CONSTANTS
  Types,           \* service types, in the order they are started
  Services,        \* services on the network
  MaxSniffers,     \* bound: times onResume is called
  MaxFound         \* bound: services each sniffer finds

ASSUME BonjourAssumption ==
  /\ Types \in Seq(STRING)
  /\ MaxSniffers \in Nat /\ MaxFound \in [1..MaxSniffers -> Nat]

VARIABLES
  created,       \* sniffers that have been made; the last one is Home's
  resumed,       \* between onResume and onPause
  discovery,     \* of each sniffer and type, as NsdManager has it
  mQueue,        \* ResolverQueue.mQueue
  mInProgress,   \* ResolverQueue.mInProgress
  requests,      \* resolutions asked for and not reported yet
  found,         \* history: services each sniffer has queued
  answered,      \* history: those whose resolution was reported to it
  refused        \* history: pairs of a sniffer refused and the one it waited for

homeVars  == <<created, resumed>>
queueVars == <<mQueue, mInProgress, requests, found, answered>>
vars == <<homeVars, discovery, queueVars, refused>>

Sniffers == 1..MaxSniffers

(* "failed": the listener is no longer registered. *)
Stages == {"new", "asked", "on", "failed", "ending", "off"}

Request(n, service, stage) == [sniffer |-> n, service |-> service, stage |-> stage]

-----------------------------------------------------------------------------
Init ==
  /\ created = 0 /\ resumed = FALSE
  /\ discovery = [n \in Sniffers |-> [i \in DOMAIN Types |-> "new"]]
  /\ mQueue = [n \in Sniffers |-> <<>>]
  /\ mInProgress = [n \in Sniffers |-> FALSE]
  /\ requests = {}
  /\ found = [n \in Sniffers |-> <<>>]
  /\ answered = [n \in Sniffers |-> <<>>]
  /\ refused = {}

(* Home.discloseBoxes: a new sniffer asks for each of its types. *)
Start ==
  /\ ~resumed /\ created < MaxSniffers
  /\ resumed' = TRUE
  /\ created' = created + 1
  /\ discovery' = [discovery EXCEPT ![created + 1] = [i \in DOMAIN Types |-> "asked"]]
  /\ UNCHANGED <<queueVars, refused>>

(* Mutant: only the first discovery is stopped. *)
FirstStopped(n) ==
  [i \in DOMAIN Types |-> IF i = 1 THEN "ending" ELSE discovery[n][i]]

(* stopServiceDiscovery throws for a listener that is no longer registered *)
(* and the loop ends there.                                                *)
Stopped(n) ==
  [i \in DOMAIN Types |->
     IF \E j \in 1..i : discovery[n][j] = "failed" THEN discovery[n][i] ELSE "ending"]

(* Home.concealBoxes; the queue of the resolver is left as it is. *)
Stop ==
  /\ resumed
  /\ resumed' = FALSE
  /\ discovery' = [discovery EXCEPT ![created] = Stopped(created)]
  /\ UNCHANGED <<created, queueVars, refused>>

(* onDiscoveryStarted or onStartDiscoveryFailed *)
DiscoveryAnswered(n, i) ==
  /\ discovery[n][i] = "asked"
  /\ \E stage \in {"on", "failed"} : discovery' = [discovery EXCEPT ![n][i] = stage]
  /\ UNCHANGED <<homeVars, queueVars, refused>>

(* onDiscoveryStopped or onStopDiscoveryFailed *)
DiscoveryStopped(n, i) ==
  /\ discovery[n][i] = "ending"
  /\ discovery' = [discovery EXCEPT ![n][i] = "off"]
  /\ UNCHANGED <<homeVars, queueVars, refused>>

-----------------------------------------------------------------------------
(* Mutant: resolveNext does not look at mInProgress. *)
NeverBusy(busy) == FALSE

Busy(busy) == busy

(* ResolverQueue.resolveNext, on the given queue and requests. *)
ResolveNext(n, busy, queue, asked) ==
  IF Busy(busy) \/ queue = <<>>
    THEN /\ mInProgress' = [mInProgress EXCEPT ![n] = busy]
         /\ mQueue' = [mQueue EXCEPT ![n] = queue]
         /\ requests' = asked
    ELSE /\ mInProgress' = [mInProgress EXCEPT ![n] = TRUE]
         /\ mQueue' = [mQueue EXCEPT ![n] = Tail(queue)]
         /\ requests' = asked \cup {Request(n, Head(queue), "sent")}

(* onServiceFound: ResolverQueue.add.  Services are still found while a    *)
(* discovery is ending, and each one as often as it is announced.          *)
ServiceFound(n, i, service) ==
  /\ discovery[n][i] \in {"on", "ending"}
  /\ Len(found[n]) < MaxFound[n]
  /\ found' = [found EXCEPT ![n] = Append(@, service)]
  /\ ResolveNext(n, mInProgress[n], Append(mQueue[n], service), requests)
  /\ UNCHANGED <<homeVars, discovery, answered, refused>>

Resolving == {request \in requests : request.stage = "resolving"}

Moved(request, stage) ==
  (requests \ {request}) \cup {[request EXCEPT !.stage = stage]}

(* The NSD service takes a request, or refuses it. *)
Take(request) ==
  /\ request.stage = "sent"
  /\ IF Resolving = {}
       THEN /\ requests' = Moved(request, "resolving")
            /\ UNCHANGED refused
       ELSE /\ requests' = Moved(request, "failed")
            /\ refused' = refused \cup {<<request.sniffer, other.sniffer>> : other \in Resolving}
  /\ UNCHANGED <<homeVars, discovery, mQueue, mInProgress, found, answered>>

(* It comes to a result. *)
Resolve(request) ==
  /\ request.stage = "resolving"
  /\ \E stage \in {"resolved", "failed"} : requests' = Moved(request, stage)
  /\ UNCHANGED <<homeVars, discovery, mQueue, mInProgress, found, answered, refused>>

(* Mutant: a failure does not let the queue go on. *)
BusyAfterFailure(request) == request.stage = "failed"

(* resolutionReceived *)
BusyAfter(request) == FALSE

(* onServiceResolved, which detects a box if it is one, or onResolveFailed;*)
(* either way, resolutionReceived.                                         *)
Answer(request) ==
  LET n == request.sniffer
  IN  /\ request.stage \in {"resolved", "failed"}
      /\ answered' = [answered EXCEPT ![n] = Append(@, request.service)]
      /\ ResolveNext(n, BusyAfter(request), mQueue[n], requests \ {request})
      /\ UNCHANGED <<homeVars, discovery, found, refused>>

ServiceNext ==
  \/ \E n \in Sniffers, i \in DOMAIN Types :
       DiscoveryAnswered(n, i) \/ DiscoveryStopped(n, i)
  \/ \E request \in requests : Take(request) \/ Resolve(request) \/ Answer(request)

Next ==
  \/ Start \/ Stop
  \/ \E n \in Sniffers, i \in DOMAIN Types, service \in Services : ServiceFound(n, i, service)
  \/ ServiceNext

(* External: the NSD service reports a result for what it is asked.  The   *)
(* user and the network are free.                                          *)
SafeSpec == Init /\ [][Next]_vars
Spec == SafeSpec /\ WF_vars(ServiceNext)

-----------------------------------------------------------------------------
TypeOK ==
  /\ created \in 0..MaxSniffers /\ resumed \in BOOLEAN
  /\ discovery \in [Sniffers -> [DOMAIN Types -> Stages]]
  /\ mQueue \in [Sniffers -> Seq(Services)]
  /\ mInProgress \in [Sniffers -> BOOLEAN]
  /\ requests \subseteq [sniffer : Sniffers, service : Services,
                         stage : {"sent", "resolving", "resolved", "failed"}]
  /\ found \in [Sniffers -> Seq(Services)]
  /\ answered \in [Sniffers -> Seq(Services)]
  /\ refused \subseteq Sniffers \X Sniffers

RequestsOf(n) == {request \in requests : request.sniffer = n}

(* A sniffer has at most one request, while it is in progress; services    *)
(* wait only for that.                                                     *)
OneRequest ==
  \A n \in Sniffers :
    /\ \A one, other \in RequestsOf(n) : one = other
    /\ mInProgress[n] <=> RequestsOf(n) # {}
    /\ mQueue[n] # <<>> => mInProgress[n]

(* Every service that is found is resolved once, in the order in which     *)
(* they were found: none is lost, repeated or overtaken between the queue, *)
(* the service and the answers, sniffers that are stopped included.        *)
InOrder ==
  \A n \in Sniffers :
    LET asked == IF RequestsOf(n) = {} THEN <<>>
                 ELSE <<(CHOOSE request \in RequestsOf(n) : TRUE).service>>
    IN  found[n] = answered[n] \o asked \o mQueue[n]

(* The queue of a sniffer keeps its own requests from being refused: only  *)
(* one that is still resolving for an older or a newer sniffer refuses.    *)
RefusedByOther == \A pair \in refused : pair[1] # pair[2]

(* A sniffer that is stopped leaves a discovery running only behind one    *)
(* that could not be started.                                              *)
Ended(n) == n < created \/ (n = created /\ ~resumed)
StopIsComplete ==
  \A n \in Sniffers : \A i \in DOMAIN Types :
    (Ended(n) /\ discovery[n][i] \in {"asked", "on"}) =>
      \E j \in 1..(i - 1) : discovery[n][j] = "failed"

(* A sniffer that is stopped comes to rest: its discoveries end, and what  *)
(* it had queued is resolved, the failures and refusals included; unless a *)
(* discovery is left running.                                              *)
Running(n) == \E i \in DOMAIN Types : discovery[n][i] \in {"asked", "on"}
AtRest(n) ==
  /\ mQueue[n] = <<>> /\ RequestsOf(n) = {}
  /\ \A i \in DOMAIN Types : discovery[n][i] \in {"failed", "off"}
StopComesToRest ==
  \A n \in Sniffers : Ended(n) ~> [](AtRest(n) \/ Running(n))

=============================================================================
