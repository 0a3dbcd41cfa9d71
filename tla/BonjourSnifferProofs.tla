----------------------- MODULE BonjourSnifferProofs -----------------------
(* What BonjourSniffer guarantees for any service types, services and      *)
(* number of sniffers.                                                     *)
EXTENDS BonjourSniffer, SequenceTheorems, TLAPS

USE DEF homeVars, queueVars

Requests == [sniffer : Sniffers, service : Services,
             stage : {"sent", "resolving", "resolved", "failed"}]

(* Home's sniffer is one of them, and so is the next one while it may be   *)
(* made; the positions of types are numbers.                               *)
LEMMA Ranges ==
  ASSUME created \in 0..MaxSniffers
  PROVE  /\ created # 0 => created \in Sniffers
         /\ created < MaxSniffers => created + 1 \in Sniffers
         /\ DOMAIN Types \subseteq Nat
BY BonjourAssumption DEF Sniffers

(* What resolveNext does, when it may not go on and when it may.           *)
LEMMA ResolveNextIs ==
  ASSUME NEW n \in Sniffers, NEW busy \in BOOLEAN, NEW queue \in Seq(Services),
         NEW asked, ResolveNext(n, busy, queue, asked)
  PROVE  \/ /\ busy \/ queue = <<>>
            /\ mInProgress' = [mInProgress EXCEPT ![n] = busy]
            /\ mQueue' = [mQueue EXCEPT ![n] = queue]
            /\ requests' = asked
         \/ /\ ~busy /\ queue # <<>>
            /\ mInProgress' = [mInProgress EXCEPT ![n] = TRUE]
            /\ mQueue' = [mQueue EXCEPT ![n] = Tail(queue)]
            /\ requests' = asked \cup {Request(n, Head(queue), "sent")}
            /\ Head(queue) \in Services /\ Tail(queue) \in Seq(Services)
            /\ Request(n, Head(queue), "sent") \in Requests
BY DEF ResolveNext, Busy, Request, Requests

(* It keeps the types of the resolver. *)
LEMMA ResolveNextType ==
  ASSUME TypeOK, NEW n \in Sniffers, NEW busy \in BOOLEAN,
         NEW queue \in Seq(Services), NEW asked \in SUBSET Requests,
         ResolveNext(n, busy, queue, asked)
  PROVE  /\ mQueue' \in [Sniffers -> Seq(Services)]
         /\ mInProgress' \in [Sniffers -> BOOLEAN]
         /\ requests' \subseteq Requests
<1>1. mQueue \in [Sniffers -> Seq(Services)] /\ mInProgress \in [Sniffers -> BOOLEAN]
  BY DEF TypeOK
<1>2. mQueue' \in [Sniffers -> Seq(Services)]
  BY <1>1, ResolveNextIs
<1>3. mInProgress' = [mInProgress EXCEPT ![n] = busy]
      \/ mInProgress' = [mInProgress EXCEPT ![n] = TRUE]
  BY ResolveNextIs
<1>4. mInProgress' \in [Sniffers -> BOOLEAN]
  BY <1>1, <1>3
<1>5. requests' = asked \/ \E request \in Requests : requests' = asked \cup {request}
  BY ResolveNextIs
<1> QED BY <1>2, <1>4, <1>5

-----------------------------------------------------------------------------
(* Types are kept by every step. *)
LEMMA TypeStep == TypeOK /\ [Next]_vars => TypeOK'
<1> SUFFICES ASSUME TypeOK, [Next]_vars PROVE TypeOK'
  OBVIOUS
<1>0. requests \subseteq Requests
  BY DEF TypeOK, Requests
<1>1. CASE Start
  <2>1. created' \in 0..MaxSniffers
    BY <1>1, BonjourAssumption DEF Start, TypeOK
  <2>2. discovery' \in [Sniffers -> [DOMAIN Types -> Stages]]
    BY <1>1 DEF Start, TypeOK, Stages
  <2> QED BY <1>1, <2>1, <2>2 DEF Start, TypeOK
<1>2. CASE Stop
  <2>1. ASSUME NEW n \in Sniffers PROVE Stopped(n) \in [DOMAIN Types -> Stages]
    BY DEF Stopped, TypeOK, Stages
  <2>2. discovery' \in [Sniffers -> [DOMAIN Types -> Stages]]
    BY <1>2, <2>1 DEF Stop, TypeOK
  <2> QED BY <1>2, <2>2 DEF Stop, TypeOK
<1>3. ASSUME NEW n \in Sniffers, NEW i \in DOMAIN Types,
             DiscoveryAnswered(n, i) \/ DiscoveryStopped(n, i)
      PROVE  TypeOK'
  <2>1. \E stage \in Stages : discovery' = [discovery EXCEPT ![n][i] = stage]
    BY <1>3 DEF DiscoveryAnswered, DiscoveryStopped, Stages
  <2>2. discovery \in [Sniffers -> [DOMAIN Types -> Stages]]
    BY DEF TypeOK
  <2>3. discovery' \in [Sniffers -> [DOMAIN Types -> Stages]]
    BY <2>1, <2>2
  <2> QED BY <1>3, <2>3 DEF DiscoveryAnswered, DiscoveryStopped, TypeOK
<1>4. ASSUME NEW n \in Sniffers, NEW i \in DOMAIN Types,
             NEW service \in Services, ServiceFound(n, i, service)
      PROVE  TypeOK'
  <2>1. Append(mQueue[n], service) \in Seq(Services) /\ mInProgress[n] \in BOOLEAN
    BY DEF TypeOK
  <2>2. found' \in [Sniffers -> Seq(Services)]
    BY <1>4 DEF ServiceFound, TypeOK
  <2>3. ResolveNext(n, mInProgress[n], Append(mQueue[n], service), requests)
    BY <1>4 DEF ServiceFound
  <2> QED BY <1>0, <1>4, <2>1, <2>2, <2>3, ResolveNextType
          DEF ServiceFound, TypeOK, Requests
<1>5. ASSUME NEW request \in requests, Take(request) \/ Resolve(request)
      PROVE  TypeOK'
  <2>1. request \in Requests /\ request.sniffer \in Sniffers
    BY <1>0 DEF Requests
  <2>2. \A stage \in {"resolving", "resolved", "failed"} :
          Moved(request, stage) \subseteq Requests
    BY <1>0, <2>1 DEF Moved, Requests
  <2>3. requests' \subseteq Requests
    BY <1>5, <2>2 DEF Take, Resolve
  <2>4. refused' \subseteq Sniffers \X Sniffers
    BY <1>0, <1>5, <2>1 DEF Take, Resolve, Resolving, TypeOK, Requests
  <2> QED BY <1>5, <2>3, <2>4 DEF Take, Resolve, TypeOK, Requests
<1>6. ASSUME NEW request \in requests, Answer(request) PROVE TypeOK'
  <2> DEFINE n == request.sniffer
  <2>1. n \in Sniffers /\ request.service \in Services
    BY <1>0 DEF Requests
  <2>2. answered' \in [Sniffers -> Seq(Services)]
    BY <1>6, <2>1 DEF Answer, TypeOK
  <2>3. /\ ResolveNext(n, FALSE, mQueue[n], requests \ {request})
        /\ mQueue[n] \in Seq(Services)
    BY <1>6, <2>1 DEF Answer, BusyAfter, TypeOK
  <2> HIDE DEF n
  <2>4. /\ mQueue' \in [Sniffers -> Seq(Services)]
        /\ mInProgress' \in [Sniffers -> BOOLEAN] /\ requests' \subseteq Requests
    BY <1>0, <2>1, <2>3, ResolveNextType
  <2> QED BY <1>6, <2>2, <2>4 DEF Answer, TypeOK, Requests
<1>7. CASE UNCHANGED vars
  BY <1>7 DEF vars, TypeOK
<1> QED BY <1>1, <1>2, <1>3, <1>4, <1>5, <1>6, <1>7 DEF Next, ServiceNext

-----------------------------------------------------------------------------
(* What a step does to the queue and the requests of one sniffer, while it *)
(* leaves those of the others alone.                                       *)
OthersKept(n) ==
  \A m \in Sniffers \ {n} : /\ RequestsOf(m)' = RequestsOf(m)
                            /\ mQueue'[m] = mQueue[m]
                            /\ mInProgress'[m] = mInProgress[m]

Becomes(n, asked, queue) ==
  /\ RequestsOf(n)' = asked
  /\ mQueue'[n] = queue
  /\ mInProgress'[n] = (asked # {})

(* A sniffer that has a request has only that one. *)
LEMMA OnlyRequest ==
  ASSUME TypeOK, OneRequest, NEW request \in requests
  PROVE  /\ request.sniffer \in Sniffers /\ request.service \in Services
         /\ RequestsOf(request.sniffer) = {request}
<1>1. request.sniffer \in Sniffers /\ request.service \in Services
  BY DEF TypeOK
<1>2. request \in RequestsOf(request.sniffer)
  BY DEF RequestsOf
<1> QED BY <1>1, <1>2 DEF OneRequest

(* onServiceFound queues the service, or asks for it at once. *)
LEMMA FoundStep ==
  ASSUME TypeOK, OneRequest, NEW n \in Sniffers, NEW i \in DOMAIN Types,
         NEW service \in Services, ServiceFound(n, i, service)
  PROVE  /\ OthersKept(n)
         /\ \/ /\ RequestsOf(n) # {}
               /\ Becomes(n, RequestsOf(n), Append(mQueue[n], service))
            \/ /\ RequestsOf(n) = {} /\ mQueue[n] = <<>>
               /\ Becomes(n, {Request(n, service, "sent")}, <<>>)
<1>0. mQueue \in [Sniffers -> Seq(Services)] /\ mInProgress \in [Sniffers -> BOOLEAN]
  BY DEF TypeOK
<1>1. mInProgress[n] <=> RequestsOf(n) # {}
  BY DEF OneRequest
<1>2. mQueue[n] # <<>> => mInProgress[n]
  BY DEF OneRequest
<1>3. /\ ResolveNext(n, mInProgress[n], Append(mQueue[n], service), requests)
      /\ Append(mQueue[n], service) \in Seq(Services) /\ Append(mQueue[n], service) # <<>>
  BY <1>0 DEF ServiceFound
<1>4. CASE mInProgress[n]
  <2>1. /\ mInProgress' = [mInProgress EXCEPT ![n] = mInProgress[n]]
        /\ mQueue' = [mQueue EXCEPT ![n] = Append(mQueue[n], service)]
        /\ requests' = requests
    BY <1>0, <1>3, <1>4, ResolveNextIs
  <2> QED BY <1>0, <1>1, <1>4, <2>1 DEF OthersKept, Becomes, RequestsOf
<1>5. CASE ~mInProgress[n]
  <2>1. mQueue[n] = <<>>
    BY <1>2, <1>5
  <2>2. Append(mQueue[n], service) = <<service>>
    BY <2>1
  <2>3. /\ Head(<<service>>) = service /\ Tail(<<service>>) = <<>>
        /\ <<service>> \in Seq(Services) /\ <<service>> # <<>>
    OBVIOUS
  <2>4. mInProgress[n] = FALSE
    BY <1>0, <1>5
  <2>5. ResolveNext(n, FALSE, <<service>>, requests)
    BY <1>3, <2>2, <2>4
  <2>6. /\ mInProgress' = [mInProgress EXCEPT ![n] = TRUE]
        /\ mQueue' = [mQueue EXCEPT ![n] = <<>>]
        /\ requests' = requests \cup {Request(n, service, "sent")}
    BY <2>3, <2>5, ResolveNextIs
  <2>7. Request(n, service, "sent").sniffer = n
    BY DEF Request
  <2>8. RequestsOf(n)' = {Request(n, service, "sent")}
    BY <1>1, <1>5, <2>6, <2>7 DEF RequestsOf
  <2>9. \A m \in Sniffers \ {n} : RequestsOf(m)' = RequestsOf(m)
    BY <2>6, <2>7 DEF RequestsOf
  <2> QED BY <1>0, <1>1, <1>5, <2>1, <2>6, <2>8, <2>9 DEF OthersKept, Becomes
<1> QED BY <1>0, <1>4, <1>5

(* An answer lets the queue go on. *)
LEMMA AnswerStep ==
  ASSUME TypeOK, OneRequest, NEW request \in requests, Answer(request),
         NEW n, n = request.sniffer
  PROVE  /\ OthersKept(n)
         /\ \/ mQueue[n] = <<>> /\ Becomes(n, {}, <<>>)
            \/ /\ mQueue[n] # <<>>
               /\ Becomes(n, {Request(n, Head(mQueue[n]), "sent")}, Tail(mQueue[n]))
<1>0. mQueue \in [Sniffers -> Seq(Services)] /\ mInProgress \in [Sniffers -> BOOLEAN]
  BY DEF TypeOK
<1>1. n \in Sniffers /\ RequestsOf(n) = {request}
  BY OnlyRequest
<1>2. ResolveNext(n, FALSE, mQueue[n], requests \ {request}) /\ mQueue[n] \in Seq(Services)
  BY <1>0, <1>1 DEF Answer, BusyAfter
<1>3. CASE mQueue[n] = <<>>
  <2>1. /\ mInProgress' = [mInProgress EXCEPT ![n] = FALSE]
        /\ mQueue' = [mQueue EXCEPT ![n] = mQueue[n]]
        /\ requests' = requests \ {request}
    BY <1>1, <1>2, <1>3, ResolveNextIs
  <2>2. RequestsOf(n)' = {}
    BY <1>1, <2>1 DEF RequestsOf
  <2>3. \A m \in Sniffers \ {n} : RequestsOf(m)' = RequestsOf(m)
    BY <2>1 DEF RequestsOf
  <2> QED BY <1>0, <1>1, <1>3, <2>1, <2>2, <2>3 DEF OthersKept, Becomes
<1>4. CASE mQueue[n] # <<>>
  <2> DEFINE next == Request(n, Head(mQueue[n]), "sent")
  <2>1. /\ mInProgress' = [mInProgress EXCEPT ![n] = TRUE]
        /\ mQueue' = [mQueue EXCEPT ![n] = Tail(mQueue[n])]
        /\ requests' = (requests \ {request}) \cup {next}
    BY <1>1, <1>2, <1>4, ResolveNextIs
  <2>2. next.sniffer = n
    BY DEF Request
  <2> HIDE DEF next
  <2>3. RequestsOf(n)' = {next}
    BY <1>1, <2>1, <2>2 DEF RequestsOf
  <2>4. \A m \in Sniffers \ {n} : RequestsOf(m)' = RequestsOf(m)
    BY <2>1, <2>2 DEF RequestsOf
  <2> QED BY <1>0, <1>1, <1>4, <2>1, <2>3, <2>4 DEF OthersKept, Becomes, next
<1> QED BY <1>3, <1>4

(* The service moves a request on. *)
LEMMA ServiceStep ==
  ASSUME TypeOK, OneRequest, NEW request \in requests,
         Take(request) \/ Resolve(request), NEW n, n = request.sniffer
  PROVE  /\ OthersKept(n)
         /\ \E moved : /\ moved.service = request.service
                       /\ Becomes(n, {moved}, mQueue[n])
<1>1. n \in Sniffers /\ RequestsOf(n) = {request} /\ mInProgress[n]
  BY OnlyRequest DEF OneRequest
<1>2. PICK stage : requests' = Moved(request, stage)
  BY DEF Take, Resolve
<1> DEFINE moved == [request EXCEPT !.stage = stage]
<1>3. moved.sniffer = n /\ moved.service = request.service
  BY DEF TypeOK
<1>4. requests' = (requests \ {request}) \cup {moved}
  BY <1>2 DEF Moved
<1> HIDE DEF moved
<1>5. RequestsOf(n)' = {moved}
  BY <1>1, <1>3, <1>4 DEF RequestsOf
<1>6. \A m \in Sniffers \ {n} : RequestsOf(m)' = RequestsOf(m)
  BY <1>3, <1>4 DEF RequestsOf
<1>7. mQueue' = mQueue /\ mInProgress' = mInProgress
  BY DEF Take, Resolve
<1> QED BY <1>1, <1>3, <1>5, <1>6, <1>7 DEF OthersKept, Becomes

(* One request at a time, for each sniffer. *)
LEMMA OneRequestStep == TypeOK /\ OneRequest /\ [Next]_vars => OneRequest'
<1> SUFFICES ASSUME TypeOK, OneRequest, [Next]_vars PROVE OneRequest'
  OBVIOUS
<1>1. ASSUME NEW n \in Sniffers, OthersKept(n), NEW asked, NEW queue,
             Becomes(n, asked, queue), \A one, other \in asked : one = other,
             queue # <<>> => asked # {}
      PROVE  OneRequest'
  BY <1>1 DEF OneRequest, OthersKept, Becomes
<1>2. ASSUME NEW n \in Sniffers, NEW i \in DOMAIN Types,
             NEW service \in Services, ServiceFound(n, i, service)
      PROVE  OneRequest'
  <2>1. \A one, other \in RequestsOf(n) : one = other
    BY DEF OneRequest
  <2>2. CASE RequestsOf(n) # {} /\ Becomes(n, RequestsOf(n), Append(mQueue[n], service))
    BY <1>1, <1>2, <2>1, <2>2, FoundStep
  <2>3. CASE Becomes(n, {Request(n, service, "sent")}, <<>>)
    BY <1>1, <1>2, <2>3, FoundStep
  <2> QED BY <1>2, <2>2, <2>3, FoundStep
<1>3. ASSUME NEW request \in requests, Take(request) \/ Resolve(request)
      PROVE  OneRequest'
  <2> DEFINE n == request.sniffer
  <2>1. n \in Sniffers
    BY OnlyRequest
  <2>2. OthersKept(n) /\ \E moved : Becomes(n, {moved}, mQueue[n])
    BY <1>3, ServiceStep
  <2> HIDE DEF n
  <2>3. PICK moved : Becomes(n, {moved}, mQueue[n])
    BY <2>2
  <2> QED BY <1>1, <2>1, <2>2, <2>3
<1>4. ASSUME NEW request \in requests, Answer(request) PROVE OneRequest'
  <2> DEFINE n == request.sniffer
  <2>1. n \in Sniffers
    BY OnlyRequest
  <2>2. /\ OthersKept(n)
        /\ \/ Becomes(n, {}, <<>>)
           \/ Becomes(n, {Request(n, Head(mQueue[n]), "sent")}, Tail(mQueue[n]))
    BY <1>4, AnswerStep
  <2> HIDE DEF n
  <2>3. CASE Becomes(n, {}, <<>>)
    BY <1>1, <2>1, <2>2, <2>3
  <2>4. CASE Becomes(n, {Request(n, Head(mQueue[n]), "sent")}, Tail(mQueue[n]))
    BY <1>1, <2>1, <2>2, <2>4
  <2> QED BY <2>2, <2>3, <2>4
<1>5. ASSUME UNCHANGED <<mQueue, mInProgress, requests>> PROVE OneRequest'
  BY <1>5 DEF OneRequest, RequestsOf
<1> QED
  BY <1>2, <1>3, <1>4, <1>5 DEF Next, ServiceNext, Start, Stop,
     DiscoveryAnswered, DiscoveryStopped, vars

-----------------------------------------------------------------------------
(* The service asked for by the only one of some requests. *)
Asked(asked) ==
  IF asked = {} THEN <<>> ELSE <<(CHOOSE request \in asked : TRUE).service>>

(* None, or the one there is. *)
LEMMA AskedIs ==
  /\ Asked({}) = <<>>
  /\ \A request : Asked({request}) = <<request.service>>
BY DEF Asked

(* A request is for the service it was made for. *)
LEMMA RequestService ==
  \A n, service, stage : Request(n, service, stage).service = service
BY DEF Request

(* How a row of services goes on at either end. *)
LEMMA RowAppend ==
  ASSUME NEW a \in Seq(Services), NEW b \in Seq(Services),
         NEW c \in Seq(Services), NEW e \in Services
  PROVE  Append(a \o b \o c, e) = a \o b \o Append(c, e)
<1>1. <<e>> \in Seq(Services) /\ a \o b \in Seq(Services)
  BY ConcatProperties
<1>2. Append(a \o b \o c, e) = (a \o b \o c) \o <<e>>
  BY <1>1, ConcatProperties, AppendIsConcat
<1>3. @ = (a \o b) \o (c \o <<e>>)
  BY <1>1, ConcatAssociative
<1>4. c \o <<e>> = Append(c, e)
  BY AppendIsConcat
<1> QED BY <1>2, <1>3, <1>4

(* A service that is taken from the queue moves to the one in progress, and *)
(* from there to those that were asked for, at the same place in the row.  *)
LEMMA RowShift ==
  ASSUME NEW a \in Seq(Services), NEW c \in Seq(Services), NEW e \in Services
  PROVE  /\ Append(a, e) = a \o <<e>> \o <<>>
         /\ a \o <<e>> \o <<>> = Append(a, e) \o <<>> \o <<>>
         /\ c # <<>> => a \o <<e>> \o c = Append(a, e) \o <<Head(c)>> \o Tail(c)
<1>1. /\ Append(a, e) = a \o <<e>> /\ Append(a, e) \in Seq(Services)
      /\ <<e>> \in Seq(Services)
  BY AppendIsConcat, AppendProperties
<1>2. \A row \in Seq(Services) : row \o <<>> = row
  BY ConcatEmptySeq
<1>3. ASSUME c # <<>> PROVE Append(a, e) \o c = Append(a, e) \o <<Head(c)>> \o Tail(c)
  <2>1. /\ Head(c) \in Services /\ Tail(c) \in Seq(Services)
        /\ Len(Tail(c)) = Len(c) - 1
        /\ \A i \in 1..Len(Tail(c)) : Tail(c)[i] = c[i + 1]
    BY <1>3, HeadTailProperties
  <2>2. <<Head(c)>> \in Seq(Services) /\ Len(<<Head(c)>>) = 1
    BY <2>1
  <2>3. /\ <<Head(c)>> \o Tail(c) \in Seq(Services)
        /\ Len(<<Head(c)>> \o Tail(c)) = Len(c)
        /\ \A i \in 1..Len(c) : (<<Head(c)>> \o Tail(c))[i] =
              IF i <= 1 THEN <<Head(c)>>[i] ELSE Tail(c)[i - 1]
    BY <1>3, <2>1, <2>2, ConcatProperties, LenProperties
  <2>4. \A i \in 1..Len(c) : (<<Head(c)>> \o Tail(c))[i] = c[i]
    BY <1>3, <2>1, <2>3, LenProperties
  <2>5. <<Head(c)>> \o Tail(c) = c
    BY <2>3, <2>4, SeqEqual
  <2> QED BY <1>1, <2>1, <2>2, <2>5, ConcatAssociative
<1> QED BY <1>1, <1>2, <1>3

(* What is found goes to the end of the queue or is asked for, and what is *)
(* answered is what was asked for.                                         *)
LEMMA InOrderStep ==
  TypeOK /\ OneRequest /\ InOrder /\ [Next]_vars => InOrder'
<1> SUFFICES ASSUME TypeOK, OneRequest, InOrder, [Next]_vars PROVE InOrder'
  OBVIOUS
<1>0. /\ mQueue \in [Sniffers -> Seq(Services)] /\ found \in [Sniffers -> Seq(Services)]
      /\ answered \in [Sniffers -> Seq(Services)]
  BY DEF TypeOK
<1>1. \A m \in Sniffers :
        found[m] = answered[m] \o Asked(RequestsOf(m)) \o mQueue[m]
  BY DEF InOrder, Asked
<1>2. ASSUME NEW n \in Sniffers, OthersKept(n),
             \A m \in Sniffers \ {n} : found'[m] = found[m] /\ answered'[m] = answered[m],
             NEW asked, NEW queue, Becomes(n, asked, queue),
             found'[n] = answered'[n] \o Asked(asked) \o queue
      PROVE  InOrder'
  <2>1. \A m \in Sniffers :
          found'[m] = answered'[m] \o Asked(RequestsOf(m)') \o mQueue'[m]
    BY <1>1, <1>2 DEF OthersKept, Becomes
  <2> QED BY <2>1 DEF InOrder, Asked
<1>3. ASSUME NEW n \in Sniffers, NEW i \in DOMAIN Types,
             NEW service \in Services, ServiceFound(n, i, service)
      PROVE  InOrder'
  <2>1. /\ answered' = answered /\ found'[n] = Append(found[n], service)
        /\ \A m \in Sniffers \ {n} : found'[m] = found[m] /\ answered'[m] = answered[m]
    BY <1>0, <1>3 DEF ServiceFound
  <2>2. CASE RequestsOf(n) # {} /\ Becomes(n, RequestsOf(n), Append(mQueue[n], service))
    <3>1. PICK request \in RequestsOf(n) : RequestsOf(n) = {request}
      BY <2>2 DEF OneRequest
    <3>2. request.service \in Services
      BY <3>1, OnlyRequest DEF RequestsOf
    <3>3. Asked(RequestsOf(n)) = <<request.service>>
      BY <3>1, AskedIs
    <3>4. Asked(RequestsOf(n)) \in Seq(Services)
      BY <3>2, <3>3
    <3>5. Append(found[n], service)
            = answered[n] \o Asked(RequestsOf(n)) \o Append(mQueue[n], service)
      <4>1. answered[n] \in Seq(Services) /\ mQueue[n] \in Seq(Services)
        BY <1>0
      <4>2. Append(answered[n] \o Asked(RequestsOf(n)) \o mQueue[n], service)
              = answered[n] \o Asked(RequestsOf(n)) \o Append(mQueue[n], service)
        BY <3>4, <4>1, RowAppend
      <4> QED BY <1>1, <4>2
    <3>6. found'[n] = answered'[n] \o Asked(RequestsOf(n)) \o Append(mQueue[n], service)
      BY <2>1, <3>5
    <3> QED BY <1>2, <1>3, <2>1, <2>2, <3>6, FoundStep
  <2>3. CASE /\ RequestsOf(n) = {} /\ mQueue[n] = <<>>
             /\ Becomes(n, {Request(n, service, "sent")}, <<>>)
    <3>1. Asked({Request(n, service, "sent")}) = <<service>>
      BY AskedIs, RequestService
    <3>2. found[n] = answered[n] \o <<>> \o <<>>
      BY <1>1, <2>3, AskedIs
    <3>3. found[n] = answered[n]
      BY <1>0, <3>2
    <3>4. found'[n] = answered'[n] \o <<service>> \o <<>>
      BY <1>0, <2>1, <3>3, RowShift
    <3> QED BY <1>2, <1>3, <2>1, <2>3, <3>1, <3>4, FoundStep
  <2> QED BY <1>3, <2>2, <2>3, FoundStep
<1>4. ASSUME NEW request \in requests, Take(request) \/ Resolve(request)
      PROVE  InOrder'
  <2> DEFINE n == request.sniffer
  <2>1. n \in Sniffers /\ RequestsOf(n) = {request}
    BY OnlyRequest
  <2>2. /\ OthersKept(n)
        /\ \E moved : moved.service = request.service /\ Becomes(n, {moved}, mQueue[n])
    BY <1>4, ServiceStep
  <2>3. found' = found /\ answered' = answered
    BY <1>4 DEF Take, Resolve
  <2> HIDE DEF n
  <2>4. PICK moved : moved.service = request.service /\ Becomes(n, {moved}, mQueue[n])
    BY <2>2
  <2>5. Asked({moved}) = Asked(RequestsOf(n))
    BY <2>1, <2>4, AskedIs
  <2>6. found'[n] = answered'[n] \o Asked({moved}) \o mQueue[n]
    BY <1>1, <2>1, <2>3, <2>5
  <2> QED BY <1>2, <2>1, <2>2, <2>3, <2>4, <2>6
<1>5. ASSUME NEW request \in requests, Answer(request) PROVE InOrder'
  <2> DEFINE n == request.sniffer
             s == request.service
  <2>1. n \in Sniffers /\ s \in Services /\ RequestsOf(n) = {request}
    BY OnlyRequest
  <2>2. /\ OthersKept(n)
        /\ \/ mQueue[n] = <<>> /\ Becomes(n, {}, <<>>)
           \/ /\ mQueue[n] # <<>>
              /\ Becomes(n, {Request(n, Head(mQueue[n]), "sent")}, Tail(mQueue[n]))
    BY <1>5, AnswerStep
  <2>3. /\ found' = found /\ answered'[n] = Append(answered[n], s)
        /\ \A m \in Sniffers \ {n} : found'[m] = found[m] /\ answered'[m] = answered[m]
    BY <1>0, <1>5, <2>1 DEF Answer
  <2>4. Asked({request}) = <<s>>
    BY AskedIs
  <2> HIDE DEF n, s
  <2>5. found[n] = answered[n] \o <<s>> \o mQueue[n]
    BY <1>1, <2>1, <2>4
  <2>6. CASE mQueue[n] = <<>> /\ Becomes(n, {}, <<>>)
    <3>1. found'[n] = answered'[n] \o <<>> \o <<>>
      BY <1>0, <2>1, <2>3, <2>5, <2>6, RowShift
    <3> QED BY <1>2, <2>1, <2>2, <2>3, <2>6, <3>1, AskedIs
  <2>7. CASE /\ mQueue[n] # <<>>
             /\ Becomes(n, {Request(n, Head(mQueue[n]), "sent")}, Tail(mQueue[n]))
    <3>1. found'[n] = answered'[n] \o <<Head(mQueue[n])>> \o Tail(mQueue[n])
      BY <1>0, <2>1, <2>3, <2>5, <2>7, RowShift
    <3>2. Asked({Request(n, Head(mQueue[n]), "sent")}) = <<Head(mQueue[n])>>
      BY AskedIs, RequestService
    <3> QED BY <1>2, <2>1, <2>2, <2>3, <2>7, <3>1, <3>2
  <2> QED BY <2>2, <2>6, <2>7
<1>6. ASSUME UNCHANGED <<mQueue, requests, found, answered>> PROVE InOrder'
  BY <1>6 DEF InOrder, RequestsOf
<1> QED
  BY <1>3, <1>4, <1>5, <1>6 DEF Next, ServiceNext, Start, Stop,
     DiscoveryAnswered, DiscoveryStopped, vars

(* A request is refused for one that is of another sniffer, as it is not   *)
(* the same one.                                                           *)
LEMMA RefusedStep ==
  TypeOK /\ OneRequest /\ RefusedByOther /\ [Next]_vars => RefusedByOther'
<1> SUFFICES ASSUME TypeOK, OneRequest, RefusedByOther, [Next]_vars
             PROVE  RefusedByOther'
  OBVIOUS
<1>1. ASSUME NEW request \in requests, Take(request) PROVE RefusedByOther'
  <2>1. ASSUME NEW other \in Resolving PROVE other.sniffer # request.sniffer
    <3>1. other \in requests /\ other # request
      BY <1>1 DEF Take, Resolving
    <3> QED BY <3>1, OnlyRequest
  <2> QED BY <1>1, <2>1 DEF Take, RefusedByOther
<1>2. ASSUME UNCHANGED refused PROVE RefusedByOther'
  BY <1>2 DEF RefusedByOther
<1> QED
  BY <1>1, <1>2 DEF Next, ServiceNext, Start, Stop, DiscoveryAnswered,
     DiscoveryStopped, ServiceFound, Resolve, Answer, vars

-----------------------------------------------------------------------------
(* A discovery of a sniffer that has ended changes only to its end, and    *)
(* the loop of stop stops at the first one that could not be started.      *)
LEMMA CompleteStep == TypeOK /\ StopIsComplete /\ [Next]_vars => StopIsComplete'
<1> SUFFICES ASSUME TypeOK, StopIsComplete, [Next]_vars PROVE StopIsComplete'
  OBVIOUS
<1>0. /\ discovery \in [Sniffers -> [DOMAIN Types -> Stages]] /\ DOMAIN Types \subseteq Nat
      /\ created \in Nat /\ Sniffers \subseteq Nat
  BY Ranges, BonjourAssumption DEF TypeOK, Sniffers
<1>1. CASE Start
  <2> SUFFICES ASSUME NEW n \in Sniffers, NEW i \in DOMAIN Types, Ended(n)',
                      discovery'[n][i] \in {"asked", "on"}
               PROVE  \E j \in 1..(i - 1) : discovery'[n][j] = "failed"
    BY DEF StopIsComplete
  <2>1. Ended(n) /\ n # created + 1
    BY <1>0, <1>1 DEF Start, Ended
  <2>2. discovery'[n] = discovery[n]
    BY <1>0, <1>1, <2>1 DEF Start
  <2> QED BY <2>1, <2>2 DEF StopIsComplete
<1>2. CASE Stop
  <2> SUFFICES ASSUME NEW n \in Sniffers, NEW i \in DOMAIN Types, Ended(n)',
                      discovery'[n][i] \in {"asked", "on"}
               PROVE  \E j \in 1..(i - 1) : discovery'[n][j] = "failed"
    BY DEF StopIsComplete
  <2>1. CASE n = created
    <3>1. \A j \in DOMAIN Types :
            discovery'[n][j] = IF \E k \in 1..j : discovery[n][k] = "failed"
                               THEN discovery[n][j] ELSE "ending"
      BY <1>0, <1>2, <2>1 DEF Stop, Stopped
    <3>2. PICK j \in 1..i : discovery[n][j] = "failed"
      BY <3>1
    <3>3. j \in DOMAIN Types
      BY <1>0, <3>2, BonjourAssumption
    <3>4. discovery'[n][j] = "failed"
      BY <1>0, <3>1, <3>2, <3>3
    <3>5. j # i
      BY <3>4
    <3> QED BY <1>0, <3>2, <3>4, <3>5
  <2>2. CASE n # created
    <3>1. Ended(n) /\ discovery'[n] = discovery[n]
      BY <1>0, <1>2, <2>2 DEF Stop, Ended
    <3> QED BY <3>1 DEF StopIsComplete
  <2> QED BY <2>1, <2>2
<1>3. ASSUME NEW n \in Sniffers, NEW i \in DOMAIN Types,
             DiscoveryAnswered(n, i) \/ DiscoveryStopped(n, i)
      PROVE  StopIsComplete'
  <2>1. PICK stage \in {"on", "failed", "off"} :
          /\ discovery' = [discovery EXCEPT ![n][i] = stage]
          /\ discovery[n][i] \in {"asked", "ending"}
          /\ stage = "on" => discovery[n][i] = "asked"
    BY <1>3 DEF DiscoveryAnswered, DiscoveryStopped
  <2>2. /\ discovery'[n][i] = stage
        /\ \A m \in Sniffers : \A k \in DOMAIN Types :
             m # n \/ k # i => discovery'[m][k] = discovery[m][k]
    BY <1>0, <2>1
  <2> SUFFICES ASSUME NEW m \in Sniffers, NEW k \in DOMAIN Types, Ended(m)',
                      discovery'[m][k] \in {"asked", "on"}
               PROVE  \E j \in 1..(k - 1) : discovery'[m][j] = "failed"
    BY DEF StopIsComplete
  <2>3. Ended(m) /\ discovery[m][k] \in {"asked", "on"}
    BY <1>3, <2>1, <2>2 DEF DiscoveryAnswered, DiscoveryStopped, Ended
  <2>4. PICK j \in 1..(k - 1) : discovery[m][j] = "failed"
    BY <2>3 DEF StopIsComplete
  <2>5. j \in DOMAIN Types
    BY <1>0, <2>4, BonjourAssumption
  <2>6. discovery'[m][j] = "failed"
    BY <2>1, <2>2, <2>4, <2>5
  <2> QED BY <2>4, <2>6
<1>4. ASSUME UNCHANGED <<created, resumed, discovery>> PROVE StopIsComplete'
  BY <1>4 DEF StopIsComplete, Ended
<1> QED
  BY <1>1, <1>2, <1>3, <1>4 DEF Next, ServiceNext, ServiceFound, Take, Resolve,
     Answer, vars

-----------------------------------------------------------------------------
BonjourInv == TypeOK /\ OneRequest /\ InOrder /\ RefusedByOther /\ StopIsComplete

(* The inductive invariant. *)
LEMMA InvCorrect == SafeSpec => []BonjourInv
<1>1. Init => BonjourInv
  <2> SUFFICES ASSUME Init PROVE BonjourInv
    OBVIOUS
  <2>1. created \in 0..MaxSniffers
    BY BonjourAssumption DEF Init
  <2>2. /\ discovery \in [Sniffers -> [DOMAIN Types -> Stages]]
        /\ mInProgress \in [Sniffers -> BOOLEAN]
    BY DEF Init, Stages
  <2>3. /\ mQueue \in [Sniffers -> Seq(Services)] /\ found \in [Sniffers -> Seq(Services)]
        /\ answered \in [Sniffers -> Seq(Services)]
    BY DEF Init
  <2>4. requests = {} /\ refused = {} /\ resumed \in BOOLEAN
    BY DEF Init
  <2>5. TypeOK
    BY <2>1, <2>2, <2>3, <2>4 DEF TypeOK
  <2>6. OneRequest
    BY DEF Init, OneRequest, RequestsOf
  <2>7. InOrder
    <3>1. \A n \in Sniffers : /\ RequestsOf(n) = {} /\ found[n] = <<>>
                               /\ answered[n] = <<>> /\ mQueue[n] = <<>>
      BY DEF Init, RequestsOf
    <3>2. <<>> \o <<>> \o <<>> = <<>>
      OBVIOUS
    <3> QED BY <3>1, <3>2 DEF InOrder
  <2>8. RefusedByOther
    BY <2>4 DEF RefusedByOther
  <2>9. StopIsComplete
    BY DEF Init, StopIsComplete
  <2> QED BY <2>5, <2>6, <2>7, <2>8, <2>9 DEF BonjourInv
<1>2. BonjourInv /\ [Next]_vars => BonjourInv'
  BY TypeStep, OneRequestStep, InOrderStep, RefusedStep, CompleteStep DEF BonjourInv
<1> QED BY <1>1, <1>2, PTL DEF SafeSpec

(* The types of BonjourSniffer: its discoveries and its resolver queue.    *)
THEOREM TypeCorrect == SafeSpec => []TypeOK
<1>1. BonjourInv => TypeOK
  BY DEF BonjourInv
<1> QED BY <1>1, InvCorrect, PTL

(* mInProgress says whether the one request of ResolverQueue is out, and   *)
(* services wait in mQueue only while it is.                               *)
THEOREM AlwaysOneRequest == SafeSpec => []OneRequest
<1>1. BonjourInv => OneRequest
  BY DEF BonjourInv
<1> QED BY <1>1, InvCorrect, PTL

(* ResolverQueue has every service that onServiceFound gives it resolved   *)
(* once, in order.                                                         *)
THEOREM AlwaysInOrder == SafeSpec => []InOrder
<1>1. BonjourInv => InOrder
  BY DEF BonjourInv
<1> QED BY <1>1, InvCorrect, PTL

(* A resolution is only refused because of another sniffer's.              *)
THEOREM OnlyOthersRefuse == SafeSpec => []RefusedByOther
<1>1. BonjourInv => RefusedByOther
  BY DEF BonjourInv
<1> QED BY <1>1, InvCorrect, PTL

(* BonjourSniffer.stop leaves a discovery running only behind one that     *)
(* could not be started.                                                   *)
THEOREM AlwaysComplete == SafeSpec => []StopIsComplete
<1>1. BonjourInv => StopIsComplete
  BY DEF BonjourInv
<1> QED BY <1>1, InvCorrect, PTL

(* A sniffer that has ended and come to rest never asks for a resolution   *)
(* again, whatever the sniffers after it do.                               *)
THEOREM RestIsFinal ==
  SafeSpec => [][\A n \in Sniffers : Ended(n) /\ AtRest(n) => AtRest(n)']_vars
<1>1. BonjourInv /\ [Next]_vars
        => [\A n \in Sniffers : Ended(n) /\ AtRest(n) => AtRest(n)']_vars
  <2> SUFFICES ASSUME BonjourInv, Next, NEW n \in Sniffers, Ended(n), AtRest(n)
               PROVE  AtRest(n)'
    OBVIOUS
  <2>0. /\ TypeOK /\ OneRequest /\ RequestsOf(n) = {} /\ mQueue[n] = <<>>
        /\ \A i \in DOMAIN Types : discovery[n][i] \in {"failed", "off"}
        /\ discovery \in [Sniffers -> [DOMAIN Types -> Stages]]
        /\ created \in Nat /\ Sniffers \subseteq Nat
    <3>1. TypeOK /\ OneRequest
      BY DEF BonjourInv
    <3>2. /\ RequestsOf(n) = {} /\ mQueue[n] = <<>>
          /\ \A i \in DOMAIN Types : discovery[n][i] \in {"failed", "off"}
      BY DEF AtRest
    <3>3. /\ discovery \in [Sniffers -> [DOMAIN Types -> Stages]]
          /\ created \in 0..MaxSniffers
      BY <3>1 DEF TypeOK
    <3>4. created \in Nat /\ Sniffers \subseteq Nat
      BY <3>3, BonjourAssumption DEF Sniffers
    <3> QED BY <3>1, <3>2, <3>3, <3>4
  <2>1. CASE Start \/ Stop
    <3>1. discovery'[n] = discovery[n]
      BY <2>0, <2>1 DEF Start, Stop, Ended
    <3>2. mQueue' = mQueue /\ requests' = requests
      BY <2>1 DEF Start, Stop
    <3> QED BY <2>0, <3>1, <3>2 DEF AtRest, RequestsOf
  <2>2. ASSUME NEW m \in Sniffers, NEW i \in DOMAIN Types,
               DiscoveryAnswered(m, i) \/ DiscoveryStopped(m, i)
        PROVE  AtRest(n)'
    <3>1. discovery[m][i] \in {"asked", "ending"}
      BY <2>2 DEF DiscoveryAnswered, DiscoveryStopped
    <3>2. m # n
      BY <2>0, <3>1
    <3>3. discovery'[n] = discovery[n] /\ mQueue' = mQueue /\ requests' = requests
      BY <2>0, <2>2, <3>2 DEF DiscoveryAnswered, DiscoveryStopped
    <3> QED BY <2>0, <3>3 DEF AtRest, RequestsOf
  <2>3. ASSUME NEW m \in Sniffers, m # n, OthersKept(m), discovery' = discovery
        PROVE  AtRest(n)'
    BY <2>0, <2>3 DEF AtRest, OthersKept
  <2>4. ASSUME NEW m \in Sniffers, NEW i \in DOMAIN Types, NEW service \in Services,
               ServiceFound(m, i, service)
        PROVE  AtRest(n)'
    <3>1. m # n /\ discovery' = discovery
      BY <2>0, <2>4 DEF ServiceFound
    <3> QED BY <2>0, <2>3, <2>4, <3>1, FoundStep
  <2>5. ASSUME NEW request \in requests, Take(request) \/ Resolve(request) \/ Answer(request)
        PROVE  AtRest(n)'
    <3> DEFINE m == request.sniffer
    <3>1. m \in Sniffers /\ m # n
      BY <2>0, OnlyRequest
    <3>2. OthersKept(m) /\ discovery' = discovery
      BY <2>0, <2>5, ServiceStep, AnswerStep DEF Take, Resolve, Answer
    <3> HIDE DEF m
    <3> QED BY <2>3, <3>1, <3>2
  <2> QED BY <2>1, <2>2, <2>4, <2>5 DEF Next, ServiceNext
<1> QED BY <1>1, InvCorrect, PTL DEF SafeSpec

-----------------------------------------------------------------------------
(* What is left to do for a request at each of its stages, and for those   *)
(* that wait: to be taken, resolved and answered.                          *)
StepsOf(request) ==
  [sent |-> 3, resolving |-> 2, resolved |-> 1, failed |-> 1][request.stage]

AskedLeft(n) ==
  IF RequestsOf(n) = {} THEN 0 ELSE StepsOf(CHOOSE request \in RequestsOf(n) : TRUE)

QueueLeft(n) == 3 * Len(mQueue[n]) + AskedLeft(n)

(* As long as anything is left, the sniffer has a request, and whichever   *)
(* stage that is at, NsdManager has a step to take for it.                 *)
QueueServed == \A n \in Sniffers : QueueLeft(n) # 0 => RequestsOf(n) # {}

Served(n) ==
  \E request \in RequestsOf(n) : Take(request) \/ Resolve(request) \/ Answer(request)

Finds(n) ==
  \E i \in DOMAIN Types, service \in Services : ServiceFound(n, i, service)

(* Each step for a request of a sniffer, a refusal and a failure included, *)
(* brings its queue nearer to its end; only a service that the sniffer     *)
(* itself finds adds to it, no step of another sniffer does.               *)
QueueRunsDown ==
  [][\A n \in Sniffers : /\ Served(n) => QueueLeft(n)' < QueueLeft(n)
                         /\ ~Finds(n) => QueueLeft(n)' <= QueueLeft(n)]_vars

(* The one request of a sniffer, and what is left to do for it. *)
LEMMA StepsAre ==
  /\ \A request \in Requests : StepsOf(request) \in 1..3
  /\ \A n : RequestsOf(n) = {} => AskedLeft(n) = 0
  /\ \A n, request : RequestsOf(n) = {request} => AskedLeft(n) = StepsOf(request)
<1>1. ASSUME NEW request \in Requests PROVE StepsOf(request) \in 1..3
  BY DEF Requests, StepsOf
<1>2. \A n, request : RequestsOf(n) = {request} => AskedLeft(n) = StepsOf(request)
  BY DEF AskedLeft
<1> QED BY <1>1, <1>2 DEF AskedLeft

(* What is left is a number, 0 when there is neither a request nor a queue.*)
LEMMA QueueLeftIs ==
  ASSUME TypeOK, OneRequest, NEW n \in Sniffers
  PROVE  /\ Len(mQueue[n]) \in Nat /\ AskedLeft(n) \in Nat /\ QueueLeft(n) \in Nat
         /\ QueueLeft(n) = 3 * Len(mQueue[n]) + AskedLeft(n)
         /\ QueueLeft(n) # 0 <=> RequestsOf(n) # {}
<1>1. mQueue[n] \in Seq(Services) /\ requests \subseteq Requests
  BY DEF TypeOK, Requests
<1>2. Len(mQueue[n]) \in Nat
  BY <1>1
<1>3. CASE RequestsOf(n) = {}
  <2>1. AskedLeft(n) = 0
    BY <1>3, StepsAre
  <2>2. mQueue[n] = <<>>
    BY <1>3 DEF OneRequest
  <2> QED BY <1>2, <1>3, <2>1, <2>2 DEF QueueLeft
<1>4. CASE RequestsOf(n) # {}
  <2>1. PICK request \in requests : request.sniffer = n
    BY <1>4 DEF RequestsOf
  <2>2. RequestsOf(n) = {request} /\ request \in Requests
    BY <1>1, <2>1, OnlyRequest
  <2>3. AskedLeft(n) \in 1..3
    BY <2>2, StepsAre
  <2>4. QueueLeft(n) = 3 * Len(mQueue[n]) + AskedLeft(n)
    BY DEF QueueLeft
  <2> QED BY <1>2, <1>4, <2>3, <2>4
<1> QED BY <1>3, <1>4

(* The service brings the request it moves nearer to its answer. *)
LEMMA MovedStep ==
  ASSUME TypeOK, OneRequest, NEW request \in requests,
         Take(request) \/ Resolve(request), NEW n, n = request.sniffer
  PROVE  /\ OthersKept(n)
         /\ \E moved \in Requests : /\ StepsOf(moved) < StepsOf(request)
                                    /\ Becomes(n, {moved}, mQueue[n])
<1>1. n \in Sniffers /\ RequestsOf(n) = {request} /\ mInProgress[n]
  BY OnlyRequest DEF OneRequest
<1>2. request \in Requests
  BY DEF TypeOK, Requests
<1>3. PICK stage \in {"resolving", "resolved", "failed"} :
        /\ requests' = Moved(request, stage)
        /\ \/ request.stage = "sent"
           \/ request.stage = "resolving" /\ stage # "resolving"
  BY DEF Take, Resolve
<1> DEFINE moved == [request EXCEPT !.stage = stage]
<1>4. /\ moved \in Requests /\ moved.sniffer = n /\ moved.stage = stage
  BY <1>2 DEF Requests
<1>5. requests' = (requests \ {request}) \cup {moved}
  BY <1>3 DEF Moved
<1> HIDE DEF moved
<1>6. StepsOf(moved) < StepsOf(request)
  BY <1>3, <1>4 DEF StepsOf
<1>7. RequestsOf(n)' = {moved}
  BY <1>1, <1>4, <1>5 DEF RequestsOf
<1>8. \A m \in Sniffers \ {n} : RequestsOf(m)' = RequestsOf(m)
  BY <1>4, <1>5 DEF RequestsOf
<1>9. mQueue' = mQueue /\ mInProgress' = mInProgress
  BY DEF Take, Resolve
<1> QED BY <1>1, <1>4, <1>6, <1>7, <1>8, <1>9 DEF OthersKept, Becomes

(* What a step leaves of a queue and its request is what is left to do. *)
LEMMA LeftAfter ==
  ASSUME NEW n, NEW request \in Requests, NEW queue, Becomes(n, {request}, queue)
  PROVE  QueueLeft(n)' = 3 * Len(queue) + StepsOf(request)
<1>1. RequestsOf(n)' = {request} /\ mQueue'[n] = queue
  BY DEF Becomes
<1>2. (CHOOSE one \in {request} : TRUE) = request
  OBVIOUS
<1>3. AskedLeft(n)' = StepsOf(request)
  BY <1>1, <1>2 DEF AskedLeft
<1> QED BY <1>1, <1>3 DEF QueueLeft

(* Steps of other sniffers, and of the discoveries, leave it alone. *)
LEMMA LeftKept ==
  ASSUME NEW n, RequestsOf(n)' = RequestsOf(n), mQueue'[n] = mQueue[n]
  PROVE  QueueLeft(n)' = QueueLeft(n)
BY DEF QueueLeft, AskedLeft

(* A step for its request. *)
LEMMA ServedStep ==
  ASSUME TypeOK, OneRequest, NEW n \in Sniffers, NEW request \in RequestsOf(n),
         Take(request) \/ Resolve(request) \/ Answer(request)
  PROVE  QueueLeft(n)' < QueueLeft(n) /\ QueueLeft(n)' <= QueueLeft(n)
<1>1. request \in requests /\ request \in Requests /\ n = request.sniffer
      /\ mQueue[n] \in Seq(Services)
  BY DEF RequestsOf, TypeOK, Requests
<1>2. RequestsOf(n) = {request}
  BY <1>1, OnlyRequest
<1>3. /\ QueueLeft(n) = 3 * Len(mQueue[n]) + StepsOf(request)
      /\ Len(mQueue[n]) \in Nat /\ StepsOf(request) \in 1..3
  BY <1>1, <1>2, QueueLeftIs, StepsAre
<1>4. CASE Take(request) \/ Resolve(request)
  <2>1. PICK moved \in Requests : /\ StepsOf(moved) < StepsOf(request)
                                  /\ Becomes(n, {moved}, mQueue[n])
    BY <1>1, <1>4, MovedStep
  <2>2. QueueLeft(n)' = 3 * Len(mQueue[n]) + StepsOf(moved) /\ StepsOf(moved) \in 1..3
    BY <2>1, LeftAfter, StepsAre
  <2> QED BY <1>3, <2>1, <2>2
<1>5. CASE Answer(request)
  <2>1. CASE mQueue[n] = <<>> /\ Becomes(n, {}, <<>>)
    <3>1. AskedLeft(n)' = 0 /\ Len(mQueue'[n]) = 0
      BY <2>1 DEF AskedLeft, Becomes
    <3>2. QueueLeft(n)' = 0
      BY <3>1 DEF QueueLeft
    <3> QED BY <1>3, <3>2
  <2>2. CASE /\ mQueue[n] # <<>>
             /\ Becomes(n, {Request(n, Head(mQueue[n]), "sent")}, Tail(mQueue[n]))
    <3> DEFINE next == Request(n, Head(mQueue[n]), "sent")
    <3>1. next \in Requests /\ StepsOf(next) = 3
      BY <1>1, <2>2 DEF Request, Requests, StepsOf
    <3>2. Becomes(n, {next}, Tail(mQueue[n]))
      BY <2>2
    <3>3. Len(Tail(mQueue[n])) = Len(mQueue[n]) - 1
      BY <1>1, <2>2
    <3>4. request.stage \in {"resolved", "failed"}
      BY <1>5 DEF Answer
    <3>5. StepsOf(request) = 1
      BY <3>4 DEF StepsOf
    <3> HIDE DEF next
    <3>6. QueueLeft(n)' = 3 * Len(Tail(mQueue[n])) + 3
      BY <3>1, <3>2, LeftAfter
    <3> QED BY <1>3, <3>3, <3>5, <3>6
  <2> QED BY <1>1, <1>5, <2>1, <2>2, AnswerStep
<1> QED BY <1>4, <1>5

(* A step that is not for it, and finds it nothing. *)
LEMMA UnservedStep ==
  ASSUME TypeOK, OneRequest, NEW n \in Sniffers, Next, ~Served(n), ~Finds(n)
  PROVE  QueueLeft(n)' = QueueLeft(n)
<1>1. ASSUME NEW m \in Sniffers \ {n}, OthersKept(m)
      PROVE  QueueLeft(n)' = QueueLeft(n)
  BY <1>1, LeftKept DEF OthersKept
<1>2. ASSUME NEW m \in Sniffers, NEW i \in DOMAIN Types, NEW service \in Services,
             ServiceFound(m, i, service)
      PROVE  QueueLeft(n)' = QueueLeft(n)
  <2>1. m # n
    BY <1>2 DEF Finds
  <2> QED BY <1>1, <1>2, <2>1, FoundStep
<1>3. ASSUME NEW request \in requests,
             Take(request) \/ Resolve(request) \/ Answer(request)
      PROVE  QueueLeft(n)' = QueueLeft(n)
  <2>1. request.sniffer \in Sniffers /\ request.sniffer # n
    BY <1>3, OnlyRequest DEF Served, RequestsOf
  <2>2. OthersKept(request.sniffer)
    BY <1>3, ServiceStep, AnswerStep
  <2> QED BY <1>1, <2>1, <2>2
<1>4. ASSUME UNCHANGED <<mQueue, requests>> PROVE QueueLeft(n)' = QueueLeft(n)
  <2>1. RequestsOf(n)' = RequestsOf(n)
    BY <1>4 DEF RequestsOf
  <2> QED BY <1>4, <2>1, LeftKept
<1> QED
  BY <1>2, <1>3, <1>4 DEF Next, ServiceNext, Start, Stop, DiscoveryAnswered,
                          DiscoveryStopped

(* The queue of a sniffer is worked off: while anything is in it NsdManager*)
(* has a request of it to take, to resolve or to answer, and each such     *)
(* step leaves less to do, failures, refusals and a stop of the sniffer in *)
(* between included (ResolverQueue.java).                                  *)
THEOREM QueueAlwaysRunsDown == SafeSpec => []QueueServed /\ QueueRunsDown
<1>1. TypeOK /\ OneRequest => QueueServed
  BY QueueLeftIs DEF QueueServed
<1>2. TypeOK /\ OneRequest /\ [Next]_vars
        => [\A n \in Sniffers : /\ Served(n) => QueueLeft(n)' < QueueLeft(n)
                                /\ ~Finds(n) => QueueLeft(n)' <= QueueLeft(n)]_vars
  <2> SUFFICES ASSUME TypeOK, OneRequest, Next, NEW n \in Sniffers
               PROVE  /\ Served(n) => QueueLeft(n)' < QueueLeft(n)
                      /\ ~Finds(n) => QueueLeft(n)' <= QueueLeft(n)
    OBVIOUS
  <2>1. Served(n) => QueueLeft(n)' < QueueLeft(n) /\ QueueLeft(n)' <= QueueLeft(n)
    BY ServedStep DEF Served
  <2>2. ~Served(n) /\ ~Finds(n) => QueueLeft(n)' = QueueLeft(n) /\ QueueLeft(n) \in Nat
    BY UnservedStep, QueueLeftIs
  <2>3. ~Served(n) /\ ~Finds(n) => QueueLeft(n)' <= QueueLeft(n)
    BY <2>2
  <2> QED BY <2>1, <2>3
<1>3. BonjourInv => TypeOK /\ OneRequest
  BY DEF BonjourInv
<1> QED BY <1>1, <1>2, <1>3, InvCorrect, PTL DEF SafeSpec, QueueRunsDown

=============================================================================
