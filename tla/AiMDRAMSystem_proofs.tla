------------------------ MODULE AiMDRAMSystem_proofs ------------------------
(***************************************************************************)
(* Proofs about the AiM DMA, for any number of channels, any size of the    *)
(* ISR queue, any trace, and any refusals and callbacks of the controllers. *)
(***************************************************************************)
EXTENDS AiMDRAMSystem, FiniteSetTheorems, FunctionTheorems, SequenceTheorems, TLAPS

-----------------------------------------------------------------------------
(* The inductive invariant *)

(* The id of the host request that is, or will be, the head of the queue.   *)
HeadId == Completed + 1

(* The queue holds consecutive host requests.                               *)
QueueIds ==
  /\ Completed \in Nat
  /\ \A i \in DOMAIN request_queue : request_queue[i] = Completed + i

(* The head of the queue has been decoded and is not complete.              *)
Decoded == stalled # 0 \/ \E c \in Channels : remaining[c] # <<>>

(* What is left to deliver of the head: pend[c] for channel c.              *)
OfHead(pend) ==
  \A c \in Channels : \A i \in DOMAIN pend[c] :
    /\ pend[c][i].hid = HeadId
    /\ pend[c][i].ch = c
    /\ pend[c][i].op = opcode(trace[HeadId])

BlockingOf(pend) ==
  {r \in UNION {{pend[c][i] : i \in DOMAIN pend[c]} : c \in Channels} :
      AiM_DMA_blocking(r.op)}

(* Controllers call back only accepted requests of the head.                *)
AwaitingOfHead ==
  \A r \in awaiting :
    /\ r.hid = HeadId
    /\ r.op = opcode(trace[HeadId])
    /\ AiM_DMA_blocking(r.op)
    /\ \E i \in DOMAIN delivered[r.ch] : delivered[r.ch][i] = r

(* Nothing of a host request leaves before it is decoded.                   *)
DeliveredIds ==
  \A c \in Channels : \A i \in DOMAIN delivered[c] :
    \/ delivered[c][i].hid <= Completed
    \/ Decoded /\ delivered[c][i].hid = HeadId

Has(s, id, i) == \E j \in DOMAIN s : s[j].hid = id /\ s[j].idx = i

(* Every request of the head is with its controller or in pend.             *)
Covered(pend) ==
  \A c \in Targets(trace[HeadId]) : \A i \in 1 .. trace[HeadId].opsize :
    Has(delivered[c], HeadId, i) \/ Has(pend[c], HeadId, i)

Ascending(s) == \A i, j \in DOMAIN s : i < j => Earlier(s[i], s[j])

StalledInv == IsFiniteSet(Outstanding) /\ StalledExact

(* EOC is the last line the frontend reads.                                 *)
EOCReadLast == \A i \in 1 .. (Len(trace) - 1) : trace[i].op # "ISR_EOC"

QueueInv ==
  /\ QueueIds
  /\ Decoded => request_queue # <<>>
  /\ EOCReadLast
  /\ exc # "receive"

HeadInv ==
  /\ OfHead(remaining)
  /\ AwaitingOfHead
  /\ StalledInv
  /\ DeliveredIds
  /\ Decoded => Covered(remaining)

DmaInv ==
  /\ TypeOK
  /\ QueueInv
  /\ HeadInv
  /\ DeliveryInOrder
  /\ CompletedIsDelivered
  /\ EOCIsLast

-----------------------------------------------------------------------------
(* Sequences *)

(* took and left hold the elements of p, one after the other.               *)
Splits(p, took, left) ==
  /\ Len(left) = Len(p) - Len(took)
  /\ \A i \in 1 .. Len(took) : took[i] = p[i]
  /\ \A i \in 1 .. Len(left) : left[i] = p[Len(took) + i]

(* A sequence with these elements is p.                                     *)
LEMMA SplitElements ==
  ASSUME NEW S, NEW p \in Seq(S), NEW took \in Seq(S), NEW left \in Seq(S), NEW w \in Seq(S),
         Splits(p, took, left),
         Len(w) = Len(took) + Len(left),
         \A i \in 1 .. Len(took) + Len(left) :
           w[i] = IF i <= Len(took) THEN took[i] ELSE left[i - Len(took)]
  PROVE  w = p
<1>1. Len(took) \in Nat /\ Len(left) \in Nat /\ Len(p) \in Nat
  OBVIOUS
<1>2. Len(w) = Len(p)
  BY <1>1 DEF Splits
<1>3. ASSUME NEW i \in 1 .. Len(w) PROVE w[i] = p[i]
  <2>1. CASE i <= Len(took)
    BY <1>1, <2>1 DEF Splits
  <2>2. CASE ~(i <= Len(took))
    <3>1. i - Len(took) \in 1 .. Len(left)
      BY <1>1, <2>2
    <3>2. w[i] = left[i - Len(took)]
      BY <2>2
    <3>3. left[i - Len(took)] = p[Len(took) + (i - Len(took))]
      BY <3>1 DEF Splits
    <3> QED BY <1>1, <3>2, <3>3
  <2> QED BY <2>1, <2>2
<1>4. w \in [1 .. Len(p) -> S] /\ p \in [1 .. Len(p) -> S]
  BY <1>2, LenProperties
<1> QED BY <1>2, <1>3, <1>4

(* Concatenation is associative.                                            *)
LEMMA Associative ==
  ASSUME NEW S
  PROVE  \A d, t, l \in Seq(S) : (d \o t) \o l = d \o (t \o l)
BY ConcatAssociative, SMTT(30)

(* What is taken from p and what is left of it make up p again.             *)
LEMMA SplitSeq ==
  ASSUME NEW S, NEW d \in Seq(S), NEW p \in Seq(S), NEW took \in Seq(S), NEW left \in Seq(S)
  PROVE  Splits(p, took, left) => (d \o took) \o left = d \o p
<1>1. (d \o took) \o left = d \o (took \o left)
  BY Associative, SMTT(60)
<1>2. /\ took \o left \in Seq(S)
      /\ Len(took \o left) = Len(took) + Len(left)
      /\ \A i \in 1 .. Len(took) + Len(left) :
           (took \o left)[i] = IF i <= Len(took) THEN took[i] ELSE left[i - Len(took)]
  BY ConcatProperties
<1>3. Splits(p, took, left) => took \o left = p
  BY <1>2, SplitElements
<1> QED BY <1>1, <1>3

(* A channel that had d takes the first a of p, has then d2, and r is left. *)
Takes(S, d, p, a, d2, r) ==
  /\ d2 \in Seq(S) /\ r \in Seq(S)
  /\ Len(r) = Len(p) - a
  /\ \A i \in DOMAIN r : r[i] = p[a + i]
  /\ Len(d2) = Len(d) + a
  /\ \A i \in DOMAIN d : d2[i] = d[i]
  /\ \A i \in 1 .. a : d2[Len(d) + i] = p[i]
  /\ d2 \o r = d \o p

(* Deliver gives a channel what it takes, and keeps the rest, in order.     *)
LEMMA DeliverSeq ==
  ASSUME NEW S, NEW d \in Seq(S), NEW p \in Seq(S), NEW a \in 0 .. Len(p)
  PROVE  Takes(S, d, p, a, d \o SubSeq(p, 1, a), SubSeq(p, a + 1, Len(p)))
<1> DEFINE took == SubSeq(p, 1, a)
           left == SubSeq(p, a + 1, Len(p))
<1>1. took \in Seq(S) /\ Len(took) = a /\ \A i \in 1 .. a : took[i] = p[i]
  BY SubSeqProperties
<1>2. left \in Seq(S) /\ Len(left) = Len(p) - a /\ \A i \in DOMAIN left : left[i] = p[a + i]
  BY SubSeqProperties
<1>3. /\ d \o took \in Seq(S) /\ Len(d \o took) = Len(d) + a
      /\ \A i \in 1 .. (Len(d) + a) :
           (d \o took)[i] = IF i <= Len(d) THEN d[i] ELSE took[i - Len(d)]
  BY <1>1, ConcatProperties
<1> HIDE DEF took, left
<1>4. (d \o took) \o left = d \o p
  <2>1. Splits(p, took, left)
    BY <1>1, <1>2 DEF Splits
  <2>2. took \in Seq(S) /\ left \in Seq(S)
    BY <1>1, <1>2
  <2> QED BY <2>1, <2>2, SplitSeq, SMTT(60)
<1>5. \A i \in DOMAIN d : (d \o took)[i] = d[i]
  BY <1>3
<1>6. \A i \in 1 .. a : (d \o took)[Len(d) + i] = p[i]
  BY <1>1, <1>3
<1> QED BY <1>1, <1>2, <1>3, <1>4, <1>5, <1>6 DEF Takes, took, left

(* DeliverSeq in the form in which it is instantiated per channel.          *)
LEMMA DeliverSeqs ==
  ASSUME NEW S
  PROVE  \A d, p \in Seq(S) : \A a \in 0 .. Len(p) :
           Takes(S, d, p, a, d \o SubSeq(p, 1, a), SubSeq(p, a + 1, Len(p)))
BY DeliverSeq

(* The same for all channels.                                               *)
LEMMA Delivered ==
  ASSUME delivered \in [Channels -> Seq(AimReq)], NEW pend \in [Channels -> Seq(AimReq)],
         NEW acc, Accepts(pend, acc), Deliver(pend, acc)
  PROVE  /\ delivered' \in [Channels -> Seq(AimReq)]
         /\ remaining' \in [Channels -> Seq(AimReq)]
         /\ \A c \in Channels :
              /\ acc[c] \in 0 .. Len(pend[c])
              /\ Takes(AimReq, delivered[c], pend[c], acc[c], delivered'[c], remaining'[c])
<1> HIDE DEF AimReq
<1>1. /\ delivered' = [c \in Channels |-> delivered[c] \o SubSeq(pend[c], 1, acc[c])]
      /\ remaining' = [c \in Channels |-> SubSeq(pend[c], acc[c] + 1, Len(pend[c]))]
  BY DEF Deliver
<1>2. ASSUME NEW c \in Channels
      PROVE  /\ acc[c] \in 0 .. Len(pend[c])
             /\ Takes(AimReq, delivered[c], pend[c], acc[c], delivered'[c], remaining'[c])
  <2>1. acc[c] \in 0 .. Len(pend[c]) /\ delivered[c] \in Seq(AimReq) /\ pend[c] \in Seq(AimReq)
    BY DEF Accepts
  <2>2. /\ delivered'[c] = delivered[c] \o SubSeq(pend[c], 1, acc[c])
        /\ remaining'[c] = SubSeq(pend[c], acc[c] + 1, Len(pend[c]))
    BY <1>1
  <2>3. Takes(AimReq, delivered[c], pend[c], acc[c], delivered[c] \o SubSeq(pend[c], 1, acc[c]),
              SubSeq(pend[c], acc[c] + 1, Len(pend[c])))
    BY <2>1, DeliverSeqs, Zenon
  <2> QED BY <2>1, <2>2, <2>3
<1>3. \A c \in Channels : delivered'[c] \in Seq(AimReq) /\ remaining'[c] \in Seq(AimReq)
  BY <1>2 DEF Takes
<1> QED BY <1>1, <1>2, <1>3

(* The elements of a concatenation.                                         *)
LEMMA ConcatElements ==
  ASSUME NEW S, NEW d \in Seq(S), NEW p \in Seq(S)
  PROVE  /\ d \o p \in Seq(S)
         /\ DOMAIN d = 1 .. Len(d) /\ Len(d) \in Nat
         /\ DOMAIN p = 1 .. Len(p) /\ Len(p) \in Nat
         /\ DOMAIN (d \o p) = 1 .. (Len(d) + Len(p))
         /\ \A i \in 1 .. Len(d) : (d \o p)[i] = d[i]
         /\ \A i \in 1 .. Len(p) : (d \o p)[Len(d) + i] = p[i]
<1>1. /\ d \o p \in Seq(S)
      /\ Len(d \o p) = Len(d) + Len(p)
      /\ \A i \in 1 .. Len(d) + Len(p) :
           (d \o p)[i] = IF i <= Len(d) THEN d[i] ELSE p[i - Len(d)]
  BY ConcatProperties
<1>2. Len(d) \in Nat /\ Len(p) \in Nat
  OBVIOUS
<1>3. ASSUME NEW i \in 1 .. Len(p) PROVE (d \o p)[Len(d) + i] = p[i]
  <2>1. Len(d) + i \in 1 .. Len(d) + Len(p) /\ ~(Len(d) + i <= Len(d)) /\ (Len(d) + i) - Len(d) = i
    BY <1>2
  <2> QED BY <1>1, <2>1
<1> QED BY <1>1, <1>2, <1>3

(* A concatenation ascends when its parts do, and one comes before the      *)
(* other.                                                                   *)
LEMMA AscendingConcat ==
  ASSUME NEW S, NEW d \in Seq(S), NEW p \in Seq(S)
  PROVE  Ascending(d \o p) <=>
           /\ Ascending(d)
           /\ Ascending(p)
           /\ \A i \in DOMAIN d, j \in DOMAIN p : Earlier(d[i], p[j])
<1> DEFINE m == Len(d)
           n == Len(p)
           w == d \o p
<1>1. /\ DOMAIN d = 1 .. m /\ m \in Nat
      /\ DOMAIN p = 1 .. n /\ n \in Nat
      /\ DOMAIN w = 1 .. (m + n)
      /\ \A i \in 1 .. m : w[i] = d[i]
      /\ \A i \in 1 .. n : w[m + i] = p[i]
  BY ConcatElements
<1> HIDE DEF m, n, w
<1>2. ASSUME Ascending(w) PROVE Ascending(d) /\ Ascending(p) /\ \A i \in DOMAIN d, j \in DOMAIN p : Earlier(d[i], p[j])
  <2>1. Ascending(d)
    BY <1>1, <1>2 DEF Ascending
  <2>2. ASSUME NEW i \in 1 .. n, NEW j \in 1 .. n, i < j PROVE Earlier(p[i], p[j])
    <3>1. m + i \in 1 .. (m + n) /\ m + j \in 1 .. (m + n) /\ m + i < m + j
      BY <1>1, <2>2
    <3> QED BY <1>1, <1>2, <3>1 DEF Ascending
  <2>3. ASSUME NEW i \in 1 .. m, NEW j \in 1 .. n PROVE Earlier(d[i], p[j])
    <3>1. i \in 1 .. (m + n) /\ m + j \in 1 .. (m + n) /\ i < m + j
      BY <1>1
    <3> QED BY <1>1, <1>2, <3>1 DEF Ascending
  <2> QED BY <1>1, <2>1, <2>2, <2>3 DEF Ascending
<1>3. ASSUME Ascending(d), Ascending(p), \A i \in DOMAIN d, j \in DOMAIN p : Earlier(d[i], p[j]),
             NEW i \in 1 .. (m + n), NEW j \in 1 .. (m + n), i < j
      PROVE  Earlier(w[i], w[j])
  <2>1. CASE j <= m
    BY <1>1, <1>3, <2>1 DEF Ascending
  <2>2. CASE i <= m /\ m < j
    <3>1. i \in 1 .. m /\ j - m \in 1 .. n /\ m + (j - m) = j
      BY <1>1, <2>2
    <3>2. w[i] = d[i] /\ w[j] = p[j - m]
      BY <1>1, <3>1
    <3> QED BY <1>1, <1>3, <3>1, <3>2
  <2>3. CASE m < i
    <3>1. i - m \in 1 .. n /\ j - m \in 1 .. n /\ m + (i - m) = i /\ m + (j - m) = j /\ i - m < j - m
      BY <1>1, <1>3, <2>3, SMTT(30)
    <3>2. w[i] = p[i - m] /\ w[j] = p[j - m]
      BY <1>1, <3>1
    <3> QED BY <1>1, <1>3, <3>1, <3>2 DEF Ascending
  <2> QED BY <1>1, <1>3, <2>1, <2>2, <2>3
<1>4. (Ascending(d) /\ Ascending(p) /\ \A i \in DOMAIN d, j \in DOMAIN p : Earlier(d[i], p[j])) => Ascending(w)
  BY <1>1, <1>3 DEF Ascending
<1> QED BY <1>2, <1>4 DEF w

-----------------------------------------------------------------------------
(* One tick of the DMA: it offers pend, the controllers accept acc of it    *)
(* and call back served.  n is the counter before the callbacks.            *)

Offered(pend, n) ==
  /\ pend \in [Channels -> Seq(AimReq)]
  /\ request_queue # <<>>
  /\ OfHead(pend)
  /\ IsFiniteSet(awaiting \cup BlockingOf(pend))
  /\ n = Cardinality(awaiting \cup BlockingOf(pend))
  /\ \A c \in Channels : Ascending(delivered[c] \o pend[c])
  /\ \A c \in Channels : \A i \in DOMAIN delivered[c] : delivered[c][i].hid <= HeadId
  /\ Covered(pend)

Delivers(pend, n, acc, served) ==
  /\ Accepts(pend, acc)
  /\ Servable(served)
  /\ Deliver(pend, acc)
  /\ awaiting' = (awaiting \ served) \cup NowAwaiting(pend, acc)
  /\ Receive(served,
             IF n = 0 /\ AllAccepted(pend, acc) THEN Tail(request_queue) ELSE request_queue,
             n)
  /\ UNCHANGED <<trace, remaining_req>>

Completes(pend, n, acc, served) ==
  \/ n = 0 /\ AllAccepted(pend, acc)
  \/ CompletesHead(served, n)

(* What is left of an offer.                                                *)
Left(pend, acc) ==
  \A c \in Channels :
    /\ acc[c] \in 0 .. Len(pend[c])
    /\ pend[c] \in Seq(AimReq) /\ remaining'[c] \in Seq(AimReq)
    /\ Len(remaining'[c]) = Len(pend[c]) - acc[c]
    /\ \A i \in DOMAIN remaining'[c] : remaining'[c][i] = pend[c][acc[c] + i]

(* Deliver leaves in remaining what it did not hand over.                   *)
LEMMA LeftOf ==
  ASSUME delivered \in [Channels -> Seq(AimReq)], NEW pend \in [Channels -> Seq(AimReq)],
         NEW acc, Accepts(pend, acc), Deliver(pend, acc)
  PROVE  Left(pend, acc)
<1> HIDE DEF AimReq
<1>1. /\ remaining' \in [Channels -> Seq(AimReq)]
      /\ \A c \in Channels :
           /\ acc[c] \in 0 .. Len(pend[c])
           /\ Takes(AimReq, delivered[c], pend[c], acc[c], delivered'[c], remaining'[c])
  BY Delivered
<1> QED BY <1>1 DEF Takes, Left

(* Every blocking request that was offered is now with its controller, or   *)
(* still to be delivered.                                                   *)
LEMMA TakenOrLeft ==
  ASSUME delivered \in [Channels -> Seq(AimReq)], NEW pend \in [Channels -> Seq(AimReq)],
         NEW acc, Accepts(pend, acc), Deliver(pend, acc)
  PROVE  NowAwaiting(pend, acc) \cup BlockingOf(remaining)' = BlockingOf(pend)
<1> DEFINE now == NowAwaiting(pend, acc)
           left == BlockingOf(remaining)'
<1> HIDE DEF AimReq
<1>1. \A c \in Channels :
        /\ acc[c] \in 0 .. Len(pend[c])
        /\ pend[c] \in Seq(AimReq) /\ remaining'[c] \in Seq(AimReq)
        /\ Len(remaining'[c]) = Len(pend[c]) - acc[c]
        /\ \A i \in DOMAIN remaining'[c] : remaining'[c][i] = pend[c][acc[c] + i]
  BY LeftOf, SMTT(30) DEF Left
<1>2. ASSUME NEW r \in now PROVE r \in BlockingOf(pend)
  <2>1a. PICK c \in Channels : \E i \in 1 .. acc[c] : r = pend[c][i]
    BY DEF NowAwaiting
  <2>1. PICK i \in 1 .. acc[c] : r = pend[c][i]
    BY <2>1a
  <2>2. i \in DOMAIN pend[c]
    BY <1>1
  <2> QED BY <2>1, <2>2 DEF NowAwaiting, BlockingOf
<1>3. ASSUME NEW r \in left PROVE r \in BlockingOf(pend)
  <2>1a. PICK c \in Channels : \E i \in DOMAIN remaining'[c] : r = remaining'[c][i]
    BY DEF BlockingOf
  <2>1. PICK i \in DOMAIN remaining'[c] : r = remaining'[c][i]
    BY <2>1a
  <2>2. acc[c] + i \in DOMAIN pend[c]
    BY <1>1
  <2>3. r = pend[c][acc[c] + i]
    BY <1>1, <2>1
  <2> QED BY <2>2, <2>3 DEF BlockingOf
<1>4. ASSUME NEW r \in BlockingOf(pend) PROVE r \in now \cup left
  <2>1a. PICK c \in Channels : \E i \in DOMAIN pend[c] : r = pend[c][i]
    BY DEF BlockingOf
  <2>1. PICK i \in DOMAIN pend[c] : r = pend[c][i]
    BY <2>1a
  <2>2. i \in 1 .. Len(pend[c]) /\ acc[c] \in Nat
    BY <1>1
  <2>3. CASE i <= acc[c]
    <3>1. i \in 1 .. acc[c]
      BY <2>2, <2>3
    <3> QED BY <2>1, <3>1 DEF NowAwaiting, BlockingOf
  <2>4. CASE ~(i <= acc[c])
    <3>1. i - acc[c] \in DOMAIN remaining'[c]
      BY <1>1, <2>2, <2>4
    <3>2. remaining'[c][i - acc[c]] = pend[c][acc[c] + (i - acc[c])]
      BY <1>1, <3>1
    <3>3. r = remaining'[c][i - acc[c]]
      BY <2>1, <2>2, <3>2
    <3> QED BY <3>1, <3>3 DEF BlockingOf
  <2> QED BY <2>3, <2>4
<1> QED BY <1>2, <1>3, <1>4

(* Nothing that is offered has been accepted before.                        *)
LEMMA OfferedOnce ==
  ASSUME TypeOK, AwaitingOfHead, NEW pend, NEW n, Offered(pend, n)
  PROVE  awaiting \cap BlockingOf(pend) = {}
<1> HIDE DEF AimReq
<1> SUFFICES ASSUME NEW r \in awaiting, r \in BlockingOf(pend) PROVE FALSE
  OBVIOUS
<1>1a. PICK c \in Channels : \E i \in DOMAIN pend[c] : r = pend[c][i]
  BY DEF BlockingOf
<1>1. PICK i \in DOMAIN pend[c] : r = pend[c][i]
  BY <1>1a
<1>2. r.ch = c
  BY <1>1 DEF Offered, OfHead
<1>3. PICK j \in DOMAIN delivered[c] : r = delivered[c][j]
  BY <1>2 DEF AwaitingOfHead
<1>4. delivered[c] \in Seq(AimReq) /\ pend[c] \in Seq(AimReq)
  BY DEF TypeOK, Offered
<1>5. Ascending(delivered[c] \o pend[c])
  BY DEF Offered
<1>6. Earlier(r, r)
  <2>1. \A a \in DOMAIN delivered[c], b \in DOMAIN pend[c] : Earlier(delivered[c][a], pend[c][b])
    BY <1>4, <1>5, AscendingConcat
  <2> QED BY <1>1, <1>3, <2>1
<1>7. r \in AimReq
  BY DEF TypeOK
<1> QED BY <1>6, <1>7 DEF Earlier, AimReq

(* What a tick of the DMA amounts to: the counter stays exact, receive()    *)
(* does not fail, and the head leaves the queue exactly when nothing of it  *)
(* is left to deliver or to call back.                                      *)
LEMMA DeliverOutcome ==
  ASSUME TypeOK, QueueInv, AwaitingOfHead, NEW pend, NEW n, NEW acc, NEW served,
         Offered(pend, n), Delivers(pend, n, acc, served)
  PROVE  /\ IsFiniteSet(Outstanding') /\ stalled' = Cardinality(Outstanding')
         /\ exc' = exc
         /\ request_queue' = IF Completes(pend, n, acc, served) THEN Tail(request_queue)
                                                               ELSE request_queue
         /\ Completes(pend, n, acc, served) =>
              stalled' = 0 /\ Outstanding' = {} /\ \A c \in Channels : remaining'[c] = <<>>
         /\ ~Completes(pend, n, acc, served) => Decoded'
         /\ m_trace_reached_calledback' =
              IF CompletesHead(served, n) THEN ReachedCalledback(Head(request_queue))
                                          ELSE m_trace_reached_calledback
<1> DEFINE Out == awaiting \cup BlockingOf(pend)
           q == IF n = 0 /\ AllAccepted(pend, acc) THEN Tail(request_queue) ELSE request_queue
<1>1. IsFiniteSet(Out) /\ n = Cardinality(Out) /\ n \in Nat
  BY FS_CardinalityType DEF Offered
<1>2. served \subseteq Out /\ IsFiniteSet(served)
  BY <1>1, FS_Subset DEF Delivers, Servable
<1>3. Cardinality(served) \in Nat /\ Cardinality(served) <= n
  BY <1>1, <1>2, FS_Subset, FS_CardinalityType
<1>4. Outstanding' = Out \ served
  <2>1. Outstanding' = awaiting' \cup BlockingOf(remaining)'
    BY DEF Outstanding, BlockingRemaining, BlockingOf
  <2>2. NowAwaiting(pend, acc) \cup BlockingOf(remaining)' = BlockingOf(pend)
    BY TakenOrLeft DEF TypeOK, Offered, Delivers
  <2>3. awaiting \cap BlockingOf(pend) = {}
    BY OfferedOnce
  <2>4. awaiting' = (awaiting \ served) \cup NowAwaiting(pend, acc) /\ served \subseteq awaiting
    BY DEF Delivers, Servable
  <2> QED BY <2>1, <2>2, <2>3, <2>4
<1>5. IsFiniteSet(Out \ served) /\ Cardinality(Out \ served) = n - Cardinality(served)
  <2>1. Out \cap served = served
    BY <1>2
  <2> QED BY <1>1, <2>1, FS_Difference
<1>6. served # {} <=> Cardinality(served) # 0
  BY <1>2, FS_EmptySet
<1>7. request_queue # <<>> /\ request_queue \in Seq(Nat) /\ Head(request_queue) = HeadId
  BY DEF Offered, TypeOK, QueueInv, QueueIds, HeadId
<1>8. n = 0 => served = {}
  BY <1>3, <1>6
<1>left. Left(pend, acc)
  <2>1. /\ delivered \in [Channels -> Seq(AimReq)] /\ pend \in [Channels -> Seq(AimReq)]
        /\ Accepts(pend, acc) /\ Deliver(pend, acc)
    BY DEF Offered, Delivers, TypeOK
  <2> QED BY <2>1, LeftOf
<1>9. ~ReceiveFails(served, q, n)
  <2> SUFFICES ASSUME served # {} PROVE q # <<>> /\ (\A r \in served : r.hid = Head(q)) /\ ~(Cardinality(served) > n)
    BY DEF ReceiveFails
  <2>1. q = request_queue
    BY <1>8
  <2>2. \A r \in served : r.hid = HeadId
    BY DEF AwaitingOfHead, Delivers, Servable
  <2> HIDE DEF q
  <2> QED BY <1>1, <1>3, <1>7, <2>1, <2>2
<1>10. /\ stalled' = n - Cardinality(served)
       /\ request_queue' = IF CompletesHead(served, n) THEN Tail(q) ELSE q
       /\ m_trace_reached_calledback' =
            IF CompletesHead(served, n) THEN ReachedCalledback(Head(q)) ELSE m_trace_reached_calledback
       /\ exc' = exc
  BY <1>9 DEF Delivers, Receive, ReachedCalledback
<1>11. CompletesHead(served, n) => n # 0 /\ q = request_queue
  BY <1>3, <1>6 DEF CompletesHead
<1>12. ASSUME Completes(pend, n, acc, served)
       PROVE  stalled' = 0 /\ Outstanding' = {} /\ \A c \in Channels : remaining'[c] = <<>>
  <2>1. Cardinality(Outstanding') = 0
    BY <1>3, <1>4, <1>5, <1>8, <1>12, FS_EmptySet DEF Completes, CompletesHead
  <2>2. Outstanding' = {}
    BY <1>4, <1>5, <2>1, FS_EmptySet
  <2>3. ASSUME NEW c \in Channels PROVE remaining'[c] = <<>>
    <3>1. /\ acc[c] \in 0 .. Len(pend[c])
          /\ pend[c] \in Seq(AimReq) /\ remaining'[c] \in Seq(AimReq)
          /\ Len(remaining'[c]) = Len(pend[c]) - acc[c]
          /\ \A i \in DOMAIN remaining'[c] : remaining'[c][i] = pend[c][acc[c] + i]
      BY <1>left DEF Left
    <3>2. CASE n = 0 /\ AllAccepted(pend, acc)
      <4> HIDE DEF AimReq
      <4>1. Len(remaining'[c]) = 0
        BY <3>1, <3>2 DEF AllAccepted
      <4> QED BY <3>1, <4>1, EmptySeq
    <3>3. CASE CompletesHead(served, n)
      <4>1. PICK r \in served : TRUE
        BY <3>3 DEF CompletesHead
      <4>2. AiM_DMA_blocking(opcode(trace[HeadId]))
        BY <4>1 DEF AwaitingOfHead, Delivers, Servable
      <4>3. SUFFICES ASSUME remaining'[c] # <<>> PROVE FALSE
        OBVIOUS
      <4> HIDE DEF AimReq
      <4>4. 1 \in DOMAIN remaining'[c]
        BY <3>1, <4>3
      <4>5. remaining'[c][1] = pend[c][acc[c] + 1] /\ acc[c] + 1 \in DOMAIN pend[c]
        BY <3>1, <4>4
      <4>6. AiM_DMA_blocking(remaining'[c][1].op)
        BY <4>2, <4>5 DEF Offered, OfHead
      <4>7. remaining'[c][1] \in Outstanding'
        BY <4>4, <4>6 DEF Outstanding, BlockingRemaining
      <4> QED BY <2>2, <4>7
    <3> QED BY <1>12, <3>2, <3>3 DEF Completes
  <2> QED BY <1>4, <1>5, <1>10, <2>1, <2>2, <2>3
<1>13. ASSUME ~Completes(pend, n, acc, served) PROVE Decoded'
  <2>1. CASE n # 0
    <3>1. n # Cardinality(served)
      BY <1>6, <1>13, <2>1 DEF Completes, CompletesHead
    <3>2. stalled' # 0
      BY <1>1, <1>3, <1>10, <3>1
    <3> QED BY <3>2 DEF Decoded
  <2>2. CASE n = 0
    <3>1. PICK c \in Channels : acc[c] # Len(pend[c])
      BY <1>13, <2>2 DEF Completes, AllAccepted
    <3>2. /\ acc[c] \in 0 .. Len(pend[c])
          /\ pend[c] \in Seq(AimReq) /\ remaining'[c] \in Seq(AimReq)
          /\ Len(remaining'[c]) = Len(pend[c]) - acc[c]
      BY <1>left DEF Left
    <3> HIDE DEF AimReq
    <3>3. Len(remaining'[c]) # 0
      BY <3>1, <3>2
    <3>4. remaining'[c] # <<>>
      BY <3>2, <3>3
    <3> QED BY <3>4 DEF Decoded
  <2> QED BY <2>1, <2>2
<1>14. request_queue' = IF Completes(pend, n, acc, served) THEN Tail(request_queue) ELSE request_queue
  BY <1>10, <1>11 DEF Completes
<1> QED BY <1>4, <1>5, <1>10, <1>11, <1>12, <1>13, <1>14

(* What the controllers have afterwards: what they had, and what they took. *)
Grown(pend, acc) ==
  \A c \in Channels :
    /\ \A i \in DOMAIN delivered[c] : i \in DOMAIN delivered'[c] /\ delivered'[c][i] = delivered[c][i]
    /\ \A i \in DOMAIN pend[c] : i <= acc[c] => \E j \in DOMAIN delivered'[c] : delivered'[c][j] = pend[c][i]
    /\ \A j \in DOMAIN delivered'[c] :
         \/ \E i \in DOMAIN delivered[c] : delivered'[c][j] = delivered[c][i]
         \/ \E i \in DOMAIN pend[c] : delivered'[c][j] = pend[c][i]
    /\ delivered'[c] \o remaining'[c] = delivered[c] \o pend[c]

(* Deliver only appends to what a channel has been given.                   *)
LEMMA GrownBy ==
  ASSUME delivered \in [Channels -> Seq(AimReq)], NEW pend \in [Channels -> Seq(AimReq)],
         NEW acc, Accepts(pend, acc), Deliver(pend, acc)
  PROVE  Grown(pend, acc) /\ delivered' \in [Channels -> Seq(AimReq)]
                          /\ remaining' \in [Channels -> Seq(AimReq)]
<1> HIDE DEF AimReq
<1>1. /\ delivered' \in [Channels -> Seq(AimReq)]
      /\ remaining' \in [Channels -> Seq(AimReq)]
      /\ \A c \in Channels :
           /\ acc[c] \in 0 .. Len(pend[c])
           /\ Takes(AimReq, delivered[c], pend[c], acc[c], delivered'[c], remaining'[c])
  BY Delivered
<1>2. ASSUME NEW c \in Channels
      PROVE  /\ \A i \in DOMAIN delivered[c] : i \in DOMAIN delivered'[c] /\ delivered'[c][i] = delivered[c][i]
             /\ \A i \in DOMAIN pend[c] : i <= acc[c] => \E j \in DOMAIN delivered'[c] : delivered'[c][j] = pend[c][i]
             /\ \A j \in DOMAIN delivered'[c] :
                  \/ \E i \in DOMAIN delivered[c] : delivered'[c][j] = delivered[c][i]
                  \/ \E i \in DOMAIN pend[c] : delivered'[c][j] = pend[c][i]
             /\ delivered'[c] \o remaining'[c] = delivered[c] \o pend[c]
  <2> DEFINE d == delivered[c]
             p == pend[c]
             a == acc[c]
             e == delivered'[c]
  <2>1. /\ d \in Seq(AimReq) /\ p \in Seq(AimReq) /\ e \in Seq(AimReq)
        /\ a \in 0 .. Len(p)
        /\ Len(e) = Len(d) + a
        /\ \A i \in DOMAIN d : e[i] = d[i]
        /\ \A i \in 1 .. a : e[Len(d) + i] = p[i]
        /\ delivered'[c] \o remaining'[c] = d \o p
    BY <1>1 DEF Takes
  <2> HIDE DEF d, p, a, e
  <2>2. /\ DOMAIN d = 1 .. Len(d) /\ Len(d) \in Nat
        /\ DOMAIN p = 1 .. Len(p) /\ Len(p) \in Nat
        /\ DOMAIN e = 1 .. Len(d) + a
    BY <2>1
  <2>3. \A i \in DOMAIN d : i \in DOMAIN e /\ e[i] = d[i]
    BY <2>1, <2>2
  <2>4. ASSUME NEW i \in DOMAIN p, i <= a PROVE \E j \in DOMAIN e : e[j] = p[i]
    <3>1. Len(d) + i \in DOMAIN e /\ i \in 1 .. a
      BY <2>1, <2>2, <2>4
    <3> QED BY <2>1, <3>1
  <2>5. ASSUME NEW j \in DOMAIN e
        PROVE  (\E i \in DOMAIN d : e[j] = d[i]) \/ (\E i \in DOMAIN p : e[j] = p[i])
    <3>1. CASE j <= Len(d)
      <4>1. j \in DOMAIN d
        BY <2>2, <3>1
      <4> QED BY <2>1, <4>1
    <3>2. CASE ~(j <= Len(d))
      <4>1. j - Len(d) \in 1 .. a /\ j - Len(d) \in DOMAIN p /\ Len(d) + (j - Len(d)) = j
        BY <2>1, <2>2, <3>2
      <4>2. e[Len(d) + (j - Len(d))] = p[j - Len(d)]
        BY <2>1, <4>1
      <4> QED BY <4>1, <4>2
    <3> QED BY <3>1, <3>2
  <2> QED BY <2>1, <2>3, <2>4, <2>5 DEF d, p, a, e
<1> QED BY <1>1, <1>2 DEF Grown

(* The queue's ids are places in the trace.                                 *)
LEMMA QueueFacts ==
  ASSUME TypeOK, QueueIds
  PROVE  /\ Len(trace) \in Nat /\ Len(request_queue) \in Nat
         /\ Len(trace) = Completed + Len(request_queue) + (IF remaining_req THEN 1 ELSE 0)
         /\ HeadId \in Nat \ {0} /\ HeadId = Completed + 1
         /\ request_queue # <<>> =>
              /\ Head(request_queue) = HeadId
              /\ HeadId \in 1 .. Len(trace) /\ HeadId \in DOMAIN trace
              /\ Tail(request_queue) \in Seq(Nat)
              /\ Len(Tail(request_queue)) = Len(request_queue) - 1
              /\ \A i \in DOMAIN Tail(request_queue) : Tail(request_queue)[i] = HeadId + i
<1> HIDE DEF HostTemplate
<1>1. /\ Len(trace) \in Nat /\ request_queue \in Seq(Nat) /\ Len(request_queue) \in Nat
      /\ Completed \in Nat /\ remaining_req \in BOOLEAN /\ DOMAIN trace = 1 .. Len(trace)
  BY DEF TypeOK, QueueIds
<1>2. Len(trace) = Completed + Len(request_queue) + (IF remaining_req THEN 1 ELSE 0)
  BY <1>1 DEF Completed
<1>3. HeadId \in Nat \ {0} /\ HeadId = Completed + 1
  BY <1>1 DEF HeadId
<1>4. ASSUME request_queue # <<>>
      PROVE  /\ Head(request_queue) = HeadId
             /\ HeadId \in 1 .. Len(trace)
             /\ Tail(request_queue) \in Seq(Nat)
             /\ Len(Tail(request_queue)) = Len(request_queue) - 1
             /\ \A i \in DOMAIN Tail(request_queue) : Tail(request_queue)[i] = HeadId + i
  <2>1. Len(request_queue) > 0 /\ 1 \in DOMAIN request_queue
    BY <1>1, <1>4
  <2>2. Head(request_queue) = HeadId
    BY <1>1, <1>3, <2>1 DEF QueueIds
  <2>3. HeadId \in 1 .. Len(trace)
    BY <1>1, <1>2, <1>3, <2>1
  <2>4. /\ Tail(request_queue) \in Seq(Nat)
        /\ Len(Tail(request_queue)) = Len(request_queue) - 1
        /\ \A i \in 1 .. Len(Tail(request_queue)) : Tail(request_queue)[i] = request_queue[i + 1]
    BY <1>1, <1>4, HeadTailProperties
  <2>5. ASSUME NEW i \in DOMAIN Tail(request_queue)
        PROVE  Tail(request_queue)[i] = HeadId + i
    <3>1. i \in 1 .. Len(Tail(request_queue))
      BY <2>4
    <3>2. i + 1 \in DOMAIN request_queue
      BY <1>1, <2>4, <3>1
    <3>3. request_queue[i + 1] = Completed + (i + 1)
      BY <3>2 DEF QueueIds
    <3> QED BY <1>1, <1>3, <2>4, <3>1, <3>3
  <2> QED BY <2>2, <2>3, <2>4, <2>5
<1> QED BY <1>1, <1>2, <1>3, <1>4

(* A host request goes to channels that exist.                              *)
LEMMA TargetsType ==
  ASSUME NEW h \in HostTemplate
  PROVE  Targets(h) \subseteq Channels
<1>1. h.mask \in SUBSET Channels /\ MAX_CHANNEL_COUNT \in Nat
  BY SystemAssumption DEF HostTemplate
<1>2. \A bit \in h.mask : FindFirstChannelIndex(bit) \in Channels
  BY <1>1 DEF FindFirstChannelIndex, Channels
<1> QED BY <1>1, <1>2 DEF Targets

(* A tick of the DMA keeps the invariant, and completes at most one host    *)
(* request.                                                                 *)
LEMMA DeliverInv ==
  ASSUME DmaInv, Running, NEW pend, NEW n, NEW acc, NEW served,
         Offered(pend, n), Delivers(pend, n, acc, served)
  PROVE  /\ QueueInv' /\ HeadInv'
         /\ DeliveryInOrder' /\ CompletedIsDelivered' /\ EOCIsLast'
         /\ Completed' \in {Completed, Completed + 1}
<1> DEFINE done == Completes(pend, n, acc, served)
<1>1. TypeOK /\ QueueInv /\ QueueIds /\ AwaitingOfHead /\ EOCReadLast
  BY DEF DmaInv, QueueInv, HeadInv
<1>2. /\ IsFiniteSet(Outstanding') /\ stalled' = Cardinality(Outstanding')
      /\ exc' = exc
      /\ request_queue' = IF done THEN Tail(request_queue) ELSE request_queue
      /\ done => stalled' = 0 /\ Outstanding' = {} /\ \A c \in Channels : remaining'[c] = <<>>
      /\ ~done => Decoded'
      /\ m_trace_reached_calledback' =
           IF CompletesHead(served, n) THEN ReachedCalledback(Head(request_queue))
                                       ELSE m_trace_reached_calledback
  BY <1>1, DeliverOutcome
<1>3. /\ Len(trace) \in Nat /\ Len(request_queue) \in Nat
      /\ Len(trace) = Completed + Len(request_queue) + (IF remaining_req THEN 1 ELSE 0)
      /\ HeadId \in Nat \ {0} /\ HeadId = Completed + 1 /\ Completed \in Nat
      /\ Head(request_queue) = HeadId
      /\ HeadId \in 1 .. Len(trace) /\ HeadId \in DOMAIN trace
      /\ Tail(request_queue) \in Seq(Nat)
      /\ Len(Tail(request_queue)) = Len(request_queue) - 1
      /\ \A i \in DOMAIN Tail(request_queue) : Tail(request_queue)[i] = HeadId + i
      /\ request_queue # <<>>
  BY <1>1, QueueFacts DEF Offered, QueueIds
<1>4. trace' = trace /\ remaining_req' = remaining_req /\ remaining_req \in BOOLEAN
  BY <1>1 DEF Delivers, TypeOK
<1>5. /\ Completed' = IF done THEN Completed + 1 ELSE Completed
      /\ HeadId' = IF done THEN HeadId + 1 ELSE HeadId
  <2>1. Completed' = Completed + (Len(request_queue) - Len(request_queue'))
    BY <1>2, <1>3, <1>4 DEF Completed
  <2>2. Completed' = IF done THEN Completed + 1 ELSE Completed
    BY <1>2, <1>3, <2>1
  <2> QED BY <1>3, <2>2 DEF HeadId
<1>6. done => ~Decoded'
  BY <1>2 DEF Decoded
<1>7. /\ delivered \in [Channels -> Seq(AimReq)] /\ pend \in [Channels -> Seq(AimReq)]
      /\ Accepts(pend, acc) /\ Deliver(pend, acc)
  BY <1>1 DEF Offered, Delivers, TypeOK
<1>8. /\ Grown(pend, acc) /\ Left(pend, acc)
      /\ delivered' \in [Channels -> Seq(AimReq)] /\ remaining' \in [Channels -> Seq(AimReq)]
  BY <1>7, GrownBy, LeftOf
<1> HIDE DEF done, AimReq
<1>9. QueueInv'
  <2>1. QueueIds'
    <3>1. CASE done
      BY <1>2, <1>3, <1>5, <3>1 DEF QueueIds
    <3>2. CASE ~done
      BY <1>1, <1>2, <1>3, <1>5, <3>2 DEF QueueIds
    <3> QED BY <3>1, <3>2
  <2>2. Decoded' => request_queue' # <<>>
    BY <1>2, <1>3, <1>6
  <2>3. EOCReadLast'
    BY <1>1, <1>4 DEF EOCReadLast
  <2> QED BY <1>1, <1>2, <2>1, <2>2, <2>3 DEF QueueInv
<1>10. OfHead(remaining)'
  <2> SUFFICES ASSUME NEW c \in Channels, NEW i \in DOMAIN remaining'[c]
               PROVE  /\ remaining'[c][i].hid = HeadId'
                      /\ remaining'[c][i].ch = c
                      /\ remaining'[c][i].op = opcode(trace[HeadId])'
    BY DEF OfHead
  <2>1. ~done
    <3> SUFFICES ASSUME done PROVE FALSE
      OBVIOUS
    <3>1. remaining'[c] = <<>>
      BY <1>2
    <3> QED BY <3>1
  <2>2. acc[c] + i \in DOMAIN pend[c] /\ remaining'[c][i] = pend[c][acc[c] + i]
    BY <1>8 DEF Left
  <2>3. HeadId' = HeadId /\ opcode(trace[HeadId])' = opcode(trace[HeadId])
    BY <1>4, <1>5, <2>1 DEF opcode
  <2> QED BY <2>2, <2>3 DEF Offered, OfHead
<1>11. AwaitingOfHead'
  <2> SUFFICES ASSUME NEW r \in awaiting'
               PROVE  /\ r.hid = HeadId' /\ r.op = opcode(trace[HeadId])'
                      /\ AiM_DMA_blocking(r.op)
                      /\ \E i \in DOMAIN delivered'[r.ch] : delivered'[r.ch][i] = r
    BY DEF AwaitingOfHead
  <2>1. ~done
    BY <1>2 DEF Outstanding
  <2>2. HeadId' = HeadId /\ opcode(trace[HeadId])' = opcode(trace[HeadId])
    BY <1>4, <1>5, <2>1 DEF opcode
  <2>3. CASE r \in awaiting
    <3>1. r.ch \in Channels
      BY <1>1, <2>3 DEF TypeOK, AimReq
    <3> QED BY <1>1, <1>8, <2>2, <2>3, <3>1 DEF AwaitingOfHead, Grown
  <2>4. CASE r \in NowAwaiting(pend, acc)
    <3>1. PICK c \in Channels : \E i \in 1 .. acc[c] : r = pend[c][i]
      BY <2>4 DEF NowAwaiting
    <3>2. PICK i \in 1 .. acc[c] : r = pend[c][i]
      BY <3>1
    <3>3. i \in DOMAIN pend[c] /\ i <= acc[c]
      BY <1>8, <3>2 DEF Left
    <3>4. r.hid = HeadId /\ r.ch = c /\ r.op = opcode(trace[HeadId])
      BY <3>2, <3>3 DEF Offered, OfHead
    <3>5. \E j \in DOMAIN delivered'[c] : delivered'[c][j] = r
      BY <1>8, <3>2, <3>3 DEF Grown
    <3>6. AiM_DMA_blocking(r.op)
      BY <2>4 DEF NowAwaiting
    <3> QED BY <2>2, <3>4, <3>5, <3>6
  <2> QED BY <2>3, <2>4 DEF Delivers
<1>12. StalledInv'
  BY <1>2 DEF StalledInv, StalledExact
<1>13. ASSUME NEW c \in Channels, NEW j \in DOMAIN delivered'[c]
       PROVE  delivered'[c][j].hid \in Nat /\ delivered'[c][j].hid <= HeadId
  <2>1. delivered'[c][j] \in AimReq
    BY <1>8, ElementOfSeq
  <2>2. delivered'[c][j].hid \in Nat
    BY <2>1 DEF AimReq
  <2>3. CASE \E i \in DOMAIN delivered[c] : delivered'[c][j] = delivered[c][i]
    BY <2>2, <2>3 DEF Offered
  <2>4. CASE \E i \in DOMAIN pend[c] : delivered'[c][j] = pend[c][i]
    BY <1>3, <2>2, <2>4 DEF Offered, OfHead
  <2> QED BY <1>8, <2>2, <2>3, <2>4 DEF Grown
<1>14. DeliveredIds'
  <2> SUFFICES ASSUME NEW c \in Channels, NEW j \in DOMAIN delivered'[c]
               PROVE  \/ delivered'[c][j].hid <= Completed'
                      \/ Decoded' /\ delivered'[c][j].hid = HeadId'
    BY DEF DeliveredIds
  <2>1. CASE done
    BY <1>3, <1>5, <1>13, <2>1
  <2>2. CASE ~done
    BY <1>2, <1>3, <1>5, <1>13, <2>2
  <2> QED BY <2>1, <2>2
<1>15. ASSUME NEW c \in Channels, NEW id, NEW i, Has(delivered[c], id, i) PROVE Has(delivered'[c], id, i)
  BY <1>8, <1>15 DEF Has, Grown
<1>16. ASSUME NEW c \in Channels, NEW id, NEW i, Has(pend[c], id, i)
       PROVE  Has(delivered'[c], id, i) \/ Has(remaining'[c], id, i)
  <2>1. PICK k \in DOMAIN pend[c] : pend[c][k].hid = id /\ pend[c][k].idx = i
    BY <1>16 DEF Has
  <2>2. CASE k <= acc[c]
    BY <1>8, <2>1, <2>2 DEF Has, Grown
  <2>3. CASE ~(k <= acc[c])
    <3>1. k - acc[c] \in DOMAIN remaining'[c] /\ acc[c] + (k - acc[c]) = k
      BY <1>8, <2>3 DEF Left
    <3>2. remaining'[c][k - acc[c]] = pend[c][k]
      BY <1>8, <3>1 DEF Left
    <3> QED BY <2>1, <3>1, <3>2 DEF Has
  <2> QED BY <2>2, <2>3
<1>17. trace[HeadId] \in HostTemplate /\ Targets(trace[HeadId]) \subseteq Channels
  <2>1. trace[HeadId] \in HostTemplate
    BY <1>1, <1>3, ElementOfSeq DEF TypeOK
  <2> QED BY <2>1, TargetsType
<1>18. ASSUME NEW c \in Targets(trace[HeadId]), NEW i \in 1 .. trace[HeadId].opsize
       PROVE  Has(delivered'[c], HeadId, i) \/ Has(remaining'[c], HeadId, i)
  BY <1>15, <1>16, <1>17 DEF Offered, Covered
<1>19. Decoded' => Covered(remaining)'
  <2> SUFFICES ASSUME ~done PROVE Covered(remaining)'
    BY <1>6
  <2>1. HeadId' = HeadId /\ trace'[HeadId'] = trace[HeadId] /\ Targets(trace[HeadId])' = Targets(trace[HeadId])
    BY <1>4, <1>5 DEF Targets, opcode
  <2> QED BY <1>18, <2>1 DEF Covered
<1>20. DeliveryInOrder'
  <2> SUFFICES ASSUME NEW c \in Channels PROVE Ascending(delivered'[c] \o remaining'[c])
    BY DEF DeliveryInOrder, Ascending
  <2> QED BY <1>8 DEF Offered, Grown
<1>21. CompletedIsDelivered'
  <2> SUFFICES ASSUME NEW id \in 1 .. Completed', NEW c \in Targets(trace[id]), NEW i \in 1 .. trace[id].opsize
               PROVE  Has(delivered'[c], id, i)
    BY <1>4 DEF CompletedIsDelivered, Has, Targets, opcode
  <2>1. CASE id \in 1 .. Completed
    <3>1. Has(delivered[c], id, i)
      BY <2>1 DEF DmaInv, CompletedIsDelivered, Has
    <3>2. id \in DOMAIN trace
      BY <1>1, <1>3, <2>1 DEF TypeOK
    <3>3. trace[id] \in HostTemplate
      BY <1>1, <3>2, ElementOfSeq DEF TypeOK
    <3>4. c \in Channels
      BY <3>3, TargetsType
    <3> QED BY <1>15, <3>1, <3>4
  <2>2. CASE id \notin 1 .. Completed
    <3>1. id = HeadId /\ done
      BY <1>3, <1>5, <2>2
    <3>2. c \in Channels /\ remaining'[c] = <<>>
      BY <1>2, <1>17, <3>1
    <3>3. ~Has(remaining'[c], HeadId, i)
      BY <3>2 DEF Has
    <3> QED BY <1>18, <3>1, <3>3
  <2> QED BY <2>1, <2>2
<1>22. EOCIsLast'
  <2> SUFFICES ASSUME m_trace_reached_calledback'
               PROVE  request_queue' = <<>> /\ ~remaining_req' /\ Outstanding' = {}
                      /\ \A c \in Channels : remaining'[c] = <<>>
    BY DEF EOCIsLast
  <2>1. CompletesHead(served, n) /\ trace[HeadId].op = "ISR_EOC"
    BY <1>2, <1>3 DEF Running, ReachedCalledback
  <2>2. done
    BY <2>1 DEF done, Completes
  <2>3. HeadId = Len(trace)
    BY <1>1, <1>3, <2>1 DEF EOCReadLast
  <2>4. Len(request_queue) = 1 /\ ~remaining_req
    BY <1>3, <1>4, <2>3
  <2>5. Tail(request_queue) = <<>>
    <3>1. Tail(request_queue) \in Seq(Nat) /\ Len(Tail(request_queue)) = 0
      BY <1>3, <2>4
    <3> QED BY <3>1, EmptySeq
  <2> QED BY <1>2, <1>4, <2>2, <2>4, <2>5
<1> QED BY <1>3, <1>5, <1>9, <1>10, <1>11, <1>12, <1>14, <1>19, <1>20, <1>21, <1>22 DEF HeadInv

-----------------------------------------------------------------------------
(* What the two kinds of tick offer *)

(* A tick that finds undelivered requests offers those.                     *)
LEMMA OldOffer ==
  ASSUME DmaInv, Decoded
  PROVE  Offered(remaining, stalled)
<1>1. TypeOK /\ QueueInv /\ HeadInv /\ DeliveryInOrder
  BY DEF DmaInv
<1>2. remaining \in [Channels -> Seq(AimReq)] /\ request_queue # <<>> /\ OfHead(remaining) /\ Covered(remaining)
  BY <1>1 DEF TypeOK, QueueInv, HeadInv
<1>3. IsFiniteSet(awaiting \cup BlockingOf(remaining)) /\ stalled = Cardinality(awaiting \cup BlockingOf(remaining))
  <2>1. Outstanding = awaiting \cup BlockingOf(remaining)
    BY DEF Outstanding, BlockingRemaining, BlockingOf
  <2> QED BY <1>1, <2>1 DEF HeadInv, StalledInv, StalledExact
<1>4. \A c \in Channels : Ascending(delivered[c] \o remaining[c])
  BY <1>1 DEF DeliveryInOrder, Ascending
<1>5. ASSUME NEW c \in Channels, NEW i \in DOMAIN delivered[c]
      PROVE  delivered[c][i].hid <= HeadId
  <2>1. Completed \in Nat
    BY <1>1 DEF QueueInv, QueueIds
  <2>2. delivered[c][i] \in AimReq
    BY <1>1, ElementOfSeq DEF TypeOK
  <2>3. delivered[c][i].hid \in Nat
    BY <2>2 DEF AimReq
  <2> QED BY <1>1, <2>1, <2>3 DEF HeadInv, DeliveredIds, HeadId
<1> QED BY <1>2, <1>3, <1>4, <1>5 DEF Offered

(* The requests of one host request.                                        *)
LEMMA SubReqsFacts ==
  ASSUME NEW h \in HostTemplate, NEW id \in Nat, NEW cfr \in [CFRNames -> Int], NEW c \in Channels
  PROVE  /\ SubReqs(id, h, cfr, c) \in Seq(AimReq)
         /\ DOMAIN SubReqs(id, h, cfr, c) = IF c \in Targets(h) THEN 1 .. h.opsize ELSE {}
         /\ \A i \in DOMAIN SubReqs(id, h, cfr, c) :
              /\ SubReqs(id, h, cfr, c)[i].hid = id
              /\ SubReqs(id, h, cfr, c)[i].idx = i
              /\ SubReqs(id, h, cfr, c)[i].ch = c
              /\ SubReqs(id, h, cfr, c)[i].op = opcode(h)
<1> DEFINE R(i) == [hid |-> id, idx |-> i, ch |-> c, op |-> opcode(h),
                    cfr |-> [r \in CFRNames |-> IF r \in CFRsOf(opcode(h)) THEN cfr[r] ELSE -1]]
<1>1. h.opsize \in Nat /\ opcode(h) \in HostOps
  BY DEF HostTemplate, opcode, HostOps, Opcode, BarrierOpcodes
<1>2. \A i \in Nat : R(i) \in AimReq
  BY <1>1 DEF AimReq
<1>3. \A i \in Nat : R(i).hid = id /\ R(i).idx = i /\ R(i).ch = c /\ R(i).op = opcode(h)
  OBVIOUS
<1>4. SubReqs(id, h, cfr, c) = IF c \in Targets(h) THEN [i \in 1 .. h.opsize |-> R(i)] ELSE <<>>
  BY DEF SubReqs
<1> HIDE DEF R, AimReq
<1>5. CASE c \in Targets(h)
  <2>1. [i \in 1 .. h.opsize |-> R(i)] \in Seq(AimReq)
    BY <1>1, <1>2, IsASeq
  <2> QED BY <1>1, <1>3, <1>4, <1>5, <2>1
<1>6. CASE c \notin Targets(h)
  <2>1. SubReqs(id, h, cfr, c) = <<>>
    BY <1>4, <1>6
  <2> QED BY <1>6, <2>1
<1> QED BY <1>5, <1>6

(* stalled_AiM_requests is set to the number of blocking requests that a    *)
(* host request unrolls into.                                               *)
LEMMA StallsCounts ==
  ASSUME NEW h \in HostTemplate, NEW id \in Nat, NEW cfr \in [CFRNames -> Int],
         NEW pend, pend = [c \in Channels |-> SubReqs(id, h, cfr, c)]
  PROVE  IsFiniteSet(BlockingOf(pend)) /\ Cardinality(BlockingOf(pend)) = Stalls(h)
<1>1. \A c \in Channels :
        /\ DOMAIN pend[c] = IF c \in Targets(h) THEN 1 .. h.opsize ELSE {}
        /\ \A i \in DOMAIN pend[c] :
             pend[c][i].idx = i /\ pend[c][i].ch = c /\ pend[c][i].op = opcode(h)
  BY SubReqsFacts
<1>2. h.opsize \in Nat /\ Targets(h) \subseteq Channels
  BY TargetsType DEF HostTemplate
<1>3. IsFiniteSet(Targets(h)) /\ Cardinality(Targets(h)) \in Nat
  <2>1. IsFiniteSet(Channels)
    BY SystemAssumption, FS_Interval DEF Channels
  <2>2. IsFiniteSet(Targets(h))
    BY <1>2, <2>1, FS_Subset
  <2> QED BY <2>2, FS_CardinalityType
<1>4. CASE ~AiM_DMA_blocking(opcode(h))
  <2>1. BlockingOf(pend) = {}
    BY <1>1, <1>4 DEF BlockingOf
  <2> QED BY <1>4, <2>1, FS_EmptySet DEF Stalls
<1>5. CASE AiM_DMA_blocking(opcode(h))
  <2> DEFINE P == (1 .. h.opsize) \X Targets(h)
             f == [x \in P |-> pend[x[2]][x[1]]]
  <2>1. IsFiniteSet(1 .. h.opsize) /\ Cardinality(1 .. h.opsize) = h.opsize
    BY <1>2, FS_Interval, SMTT(30)
  <2>2. IsFiniteSet(P) /\ Cardinality(P) = h.opsize * Cardinality(Targets(h))
    BY <1>3, <2>1, FS_Product
  <2>3. ASSUME NEW x \in P
        PROVE  /\ x[1] \in 1 .. h.opsize /\ x[2] \in Targets(h) /\ x[2] \in Channels
               /\ x[1] \in DOMAIN pend[x[2]]
               /\ f[x].idx = x[1] /\ f[x].ch = x[2] /\ f[x] = pend[x[2]][x[1]]
               /\ f[x].op = opcode(h)
    <3>1. x[1] \in 1 .. h.opsize /\ x[2] \in Targets(h)
      OBVIOUS
    <3>2. x[2] \in Channels
      BY <1>2, <3>1
    <3>3. x[1] \in DOMAIN pend[x[2]]
      BY <1>1, <3>1, <3>2
    <3>4. f[x] = pend[x[2]][x[1]]
      OBVIOUS
    <3> QED BY <1>1, <3>1, <3>2, <3>3, <3>4
  <2>4. f \in [P -> BlockingOf(pend)]
    <3>1. ASSUME NEW x \in P PROVE f[x] \in BlockingOf(pend)
      <4>1. /\ x[2] \in Channels /\ x[1] \in DOMAIN pend[x[2]]
            /\ f[x] = pend[x[2]][x[1]] /\ AiM_DMA_blocking(f[x].op)
        BY <1>5, <2>3
      <4> HIDE DEF P, f
      <4> QED BY <4>1 DEF BlockingOf
    <3> QED BY <3>1
  <2>5. ASSUME NEW x \in P, NEW y \in P, f[x] = f[y] PROVE x = y
    <3>1. f[x].idx = x[1] /\ f[x].ch = x[2] /\ f[y].idx = y[1] /\ f[y].ch = y[2]
      BY <2>3
    <3>2. x[1] = y[1] /\ x[2] = y[2]
      <4> HIDE DEF P, f
      <4> QED BY <2>5, <3>1
    <3> QED BY <3>2
  <2>6. ASSUME NEW r \in BlockingOf(pend) PROVE \E x \in P : f[x] = r
    <3>1. PICK c \in Channels : \E i \in DOMAIN pend[c] : r = pend[c][i]
      BY DEF BlockingOf
    <3>2. PICK i \in DOMAIN pend[c] : r = pend[c][i]
      BY <3>1
    <3>3. i \in 1 .. h.opsize /\ c \in Targets(h)
      BY <1>1, <3>2
    <3>4. <<i, c>> \in P
      BY <3>3
    <3>5. f[<<i, c>>] = r
      BY <3>2, <3>4
    <3> QED BY <3>4, <3>5
  <2>7. f \in Bijection(P, BlockingOf(pend))
    BY <2>4, <2>5, <2>6, Fun_IsBij, ZenonT(60)
  <2>8. ExistsBijection(P, BlockingOf(pend))
    BY <2>7 DEF ExistsBijection
  <2> HIDE DEF P, f
  <2> QED BY <1>5, <2>2, <2>8, FS_Bijection DEF Stalls
<1> QED BY <1>4, <1>5

(* What the DMA decodes is a complete offer of the head.                    *)
LEMMA NewOffer ==
  ASSUME DmaInv, ~Decoded, request_queue # <<>>, NEW pend,
         pend = [c \in Channels |-> SubReqs(HeadId, trace[HeadId], CFR_values, c)]
  PROVE  Offered(pend, Stalls(trace[HeadId]))
<1> DEFINE h == trace[HeadId]
<1>1. TypeOK /\ QueueInv /\ HeadInv /\ QueueIds /\ DeliveredIds /\ DeliveryInOrder
  BY DEF DmaInv, QueueInv, HeadInv
<1>2. HeadId \in Nat /\ HeadId = Completed + 1 /\ Completed \in Nat /\ HeadId \in DOMAIN trace
  BY <1>1, QueueFacts DEF QueueIds
<1>3. h \in HostTemplate /\ CFR_values \in [CFRNames -> Int]
  <2> HIDE DEF HostTemplate
  <2> QED BY <1>1, <1>2, ElementOfSeq DEF TypeOK
<1> HIDE DEF h
<1>3a. pend = [c \in Channels |-> SubReqs(HeadId, h, CFR_values, c)]
  BY DEF h
<1>4. ASSUME NEW c \in Channels
      PROVE  /\ pend[c] \in Seq(AimReq)
             /\ DOMAIN pend[c] = IF c \in Targets(h) THEN 1 .. h.opsize ELSE {}
             /\ \A i \in DOMAIN pend[c] :
                  /\ pend[c][i].hid = HeadId
                  /\ pend[c][i].idx = i
                  /\ pend[c][i].ch = c
                  /\ pend[c][i].op = opcode(h)
  <2>1. pend[c] = SubReqs(HeadId, h, CFR_values, c)
    BY <1>3a
  <2> QED BY <1>2, <1>3, <2>1, SubReqsFacts
<1>5. IsFiniteSet(BlockingOf(pend)) /\ Cardinality(BlockingOf(pend)) = Stalls(h)
  BY <1>2, <1>3, <1>3a, StallsCounts
<1>6. awaiting = {}
  <2>1. IsFiniteSet(Outstanding) /\ Cardinality(Outstanding) = 0
    BY <1>1 DEF HeadInv, StalledInv, StalledExact, Decoded
  <2>2. Outstanding = {}
    BY <2>1, FS_EmptySet
  <2> QED BY <2>2 DEF Outstanding
<1>7. IsFiniteSet(awaiting \cup BlockingOf(pend)) /\ Stalls(h) = Cardinality(awaiting \cup BlockingOf(pend))
  <2>1. awaiting \cup BlockingOf(pend) = BlockingOf(pend)
    BY <1>6
  <2> QED BY <1>5, <2>1
<1>8. \A c \in Channels : \A i \in DOMAIN delivered[c] : delivered[c][i].hid <= Completed
  BY <1>1 DEF DeliveredIds
<1>9. ASSUME NEW c \in Channels PROVE Ascending(delivered[c] \o pend[c])
  <2> HIDE DEF AimReq
  <2>1. delivered[c] \in Seq(AimReq) /\ remaining[c] \in Seq(AimReq) /\ pend[c] \in Seq(AimReq)
    BY <1>1, <1>4 DEF TypeOK
  <2>2. Ascending(delivered[c] \o remaining[c])
    BY <1>1 DEF DeliveryInOrder, Ascending
  <2>3. Ascending(delivered[c])
    BY <2>1, <2>2, AscendingConcat
  <2>4. Ascending(pend[c])
    BY <1>4 DEF Ascending, Earlier
  <2>5. ASSUME NEW i \in DOMAIN delivered[c], NEW j \in DOMAIN pend[c]
        PROVE  Earlier(delivered[c][i], pend[c][j])
    <3>1. delivered[c][i].hid <= Completed /\ pend[c][j].hid = HeadId
      BY <1>4, <1>8
    <3>2. delivered[c][i].hid \in Nat
      <4>1. delivered[c][i] \in AimReq
        BY <2>1, ElementOfSeq
      <4> QED BY <4>1 DEF AimReq
    <3> QED BY <1>2, <3>1, <3>2 DEF Earlier
  <2> QED BY <2>1, <2>3, <2>4, <2>5, AscendingConcat
<1>10. ASSUME NEW c \in Channels, NEW i \in DOMAIN delivered[c]
       PROVE  delivered[c][i].hid <= HeadId
  <2> HIDE DEF AimReq
  <2>1. delivered[c] \in Seq(AimReq)
    BY <1>1 DEF TypeOK
  <2>2. delivered[c][i] \in AimReq
    BY <2>1, ElementOfSeq
  <2>3. delivered[c][i].hid \in Nat
    BY <2>2 DEF AimReq
  <2> QED BY <1>2, <1>8, <2>3
<1>11. OfHead(pend)
  BY <1>4 DEF OfHead, h
<1>12. Covered(pend)
  <2>1. Targets(h) \subseteq Channels
    BY <1>3, TargetsType
  <2>2. ASSUME NEW c \in Targets(h), NEW i \in 1 .. h.opsize PROVE Has(pend[c], HeadId, i)
    <3>1. c \in Channels /\ i \in DOMAIN pend[c]
      BY <1>4, <2>1
    <3>2. pend[c][i].hid = HeadId /\ pend[c][i].idx = i
      BY <1>4, <3>1
    <3> QED BY <3>1, <3>2 DEF Has
  <2> QED BY <2>2 DEF Covered, h
<1>13. pend \in [Channels -> Seq(AimReq)]
  <2> HIDE DEF AimReq
  <2> QED BY <1>3a, <1>4
<1> QED BY <1>7, <1>9, <1>10, <1>11, <1>12, <1>13 DEF Offered, h

LEMMA DeliverType ==
  ASSUME DmaInv, NEW pend, NEW n, NEW acc, NEW served,
         Offered(pend, n), Delivers(pend, n, acc, served), CFR_values' \in [CFRNames -> Int]
  PROVE  TypeOK'
<1> HIDE DEF AimReq, HostTemplate
<1>1. TypeOK /\ QueueInv /\ QueueIds /\ AwaitingOfHead
  BY DEF DmaInv, QueueInv, HeadInv
<1>2. /\ IsFiniteSet(Outstanding') /\ stalled' = Cardinality(Outstanding')
      /\ exc' = exc
      /\ request_queue' = IF Completes(pend, n, acc, served) THEN Tail(request_queue)
                                                            ELSE request_queue
      /\ m_trace_reached_calledback' =
           IF CompletesHead(served, n) THEN ReachedCalledback(Head(request_queue))
                                       ELSE m_trace_reached_calledback
  BY <1>1, DeliverOutcome
<1>3. /\ delivered \in [Channels -> Seq(AimReq)] /\ pend \in [Channels -> Seq(AimReq)]
      /\ Accepts(pend, acc) /\ Deliver(pend, acc) /\ request_queue # <<>>
      /\ awaiting' = (awaiting \ served) \cup NowAwaiting(pend, acc)
      /\ trace' = trace /\ remaining_req' = remaining_req
  BY <1>1 DEF Offered, Delivers, TypeOK
<1>4. delivered' \in [Channels -> Seq(AimReq)] /\ remaining' \in [Channels -> Seq(AimReq)]
  BY <1>3, GrownBy
<1>5. stalled' \in Nat
  BY <1>2, FS_CardinalityType
<1>6. /\ Tail(request_queue) \in Seq(Nat) /\ Len(Tail(request_queue)) = Len(request_queue) - 1
      /\ Len(request_queue) \in Nat
  BY <1>1, <1>3, QueueFacts
<1>7. request_queue' \in Seq(Nat) /\ Len(request_queue') <= ISR_SIZE
  BY <1>1, <1>2, <1>6, SystemAssumption DEF TypeOK
<1>8. awaiting' \subseteq AimReq
  <2>1. ASSUME NEW r \in NowAwaiting(pend, acc) PROVE r \in AimReq
    <3>1. PICK c \in Channels : \E i \in 1 .. acc[c] : r = pend[c][i]
      BY DEF NowAwaiting
    <3>2. PICK i \in 1 .. acc[c] : r = pend[c][i]
      BY <3>1
    <3>3. pend[c] \in Seq(AimReq) /\ acc[c] \in 0 .. Len(pend[c])
      BY <1>3 DEF Accepts
    <3>4. i \in 1 .. Len(pend[c])
      BY <3>3
    <3> QED BY <3>2, <3>3, <3>4, ElementOfSeq
  <2>2. awaiting \subseteq AimReq
    BY <1>1 DEF TypeOK
  <2> QED BY <1>3, <2>1, <2>2
<1>9. m_trace_reached_calledback' \in BOOLEAN
  BY <1>1, <1>2 DEF TypeOK, ReachedCalledback
<1> QED BY <1>1, <1>2, <1>3, <1>4, <1>5, <1>7, <1>8, <1>9 DEF TypeOK

-----------------------------------------------------------------------------
(* The steps *)

(* What a step must keep: the invariant, and at most one completion.        *)
Keeps == DmaInv' /\ Completed' \in {Completed, Completed + 1}

(* A tick of the DMA that offers pend keeps the whole invariant.            *)
LEMMA DeliverKeeps ==
  ASSUME DmaInv, Running, NEW pend, NEW n, NEW acc, NEW served,
         Offered(pend, n), Delivers(pend, n, acc, served), CFR_values' \in [CFRNames -> Int]
  PROVE  Keeps
<1>1. TypeOK'
  BY DeliverType
<1>2. /\ QueueInv' /\ HeadInv'
      /\ DeliveryInOrder' /\ CompletedIsDelivered' /\ EOCIsLast'
      /\ Completed' \in {Completed, Completed + 1}
  BY DeliverInv
<1> QED BY <1>1, <1>2 DEF Keeps, DmaInv

(* tick() that retries what was refused: it offers remaining.               *)
LEMMA DrainKeeps ==
  ASSUME DmaInv, NEW acc, NEW served, TickDrain(acc, served)
  PROVE  Keeps
<1>1. Running /\ Decoded
  BY DEF TickDrain, Decoded
<1>2. Offered(remaining, stalled)
  BY <1>1, OldOffer
<1>3. Delivers(remaining, stalled, acc, served)
  BY DEF TickDrain, Delivers, DrainPops
<1>4. CFR_values' \in [CFRNames -> Int]
  BY DEF TickDrain, DmaInv, TypeOK
<1> QED BY <1>1, <1>2, <1>3, <1>4, DeliverKeeps

(* tick() that decodes the head: it offers what the head unrolls into.      *)
LEMMA DecodeKeeps ==
  ASSUME DmaInv, NEW acc, NEW served, TickDecode(acc, served)
  PROVE  Keeps
<1> DEFINE h    == trace[HeadId]
           pend == [c \in Channels |-> SubReqs(HeadId, h, CFR_values, c)]
<1>1. Running /\ ~Decoded /\ request_queue # <<>>
  BY DEF TickDecode, Decoded
<1>2. TypeOK /\ QueueIds
  BY DEF DmaInv, QueueInv
<1>3. Head(request_queue) = HeadId /\ HeadId \in DOMAIN trace
  BY <1>1, <1>2, QueueFacts
<1>4. h \in HostTemplate
  <2> HIDE DEF HostTemplate
  <2> QED BY <1>2, <1>3, ElementOfSeq DEF TypeOK
<1>5. Offered(pend, Stalls(h))
  BY <1>1, NewOffer
<1>6. Delivers(pend, Stalls(h), acc, served)
  BY <1>3 DEF TickDecode, Delivers
<1>7. CFR_values' \in [CFRNames -> Int]
  <2>1. h.data \in Int
    BY <1>4 DEF HostTemplate
  <2>2. CFR_values' = IF h.op = "W_CFR"
                        THEN [CFR_values EXCEPT ![address_to_CFR(h.addr)] = h.data]
                        ELSE CFR_values
    BY <1>3 DEF TickDecode
  <2>3. CFR_values \in [CFRNames -> Int]
    BY <1>2 DEF TypeOK
  <2> HIDE DEF h
  <2> QED BY <2>1, <2>2, <2>3
<1> HIDE DEF h, pend
<1> QED BY <1>1, <1>5, <1>6, <1>7, DeliverKeeps

(* A step that leaves the DMA and the frontend alone.                       *)
LEMMA UnchangedKeeps ==
  ASSUME DmaInv,
         UNCHANGED <<frontendVars, systemVars, awaiting, delivered, m_trace_reached_calledback>>,
         exc' \in {exc, "trace", "decode"}
  PROVE  Keeps
<1>1. /\ trace' = trace /\ remaining_req' = remaining_req /\ request_queue' = request_queue
      /\ remaining' = remaining /\ stalled' = stalled /\ CFR_values' = CFR_values
      /\ awaiting' = awaiting /\ delivered' = delivered
      /\ m_trace_reached_calledback' = m_trace_reached_calledback
  BY DEF frontendVars, systemVars
<1>2. Completed' = Completed /\ Decoded' = Decoded /\ Outstanding' = Outstanding
  BY <1>1 DEF Completed, Decoded, Outstanding, BlockingRemaining
<1>3. HeadId' = HeadId
  BY <1>2 DEF HeadId
<1>4. TypeOK'
  BY <1>1 DEF DmaInv, TypeOK
<1>5. QueueInv'
  <2>1. QueueInv
    BY DEF DmaInv
  <2>2. QueueIds' /\ EOCReadLast'
    BY <1>1, <1>2, <2>1 DEF QueueInv, QueueIds, EOCReadLast
  <2>3. exc' # "receive"
    BY <2>1 DEF QueueInv
  <2> QED BY <1>1, <1>2, <2>1, <2>2, <2>3 DEF QueueInv
<1>6. HeadInv'
  <2>1. HeadInv
    BY DEF DmaInv
  <2>2. OfHead(remaining)'
    BY <1>1, <1>3, <2>1 DEF HeadInv, OfHead
  <2>3. AwaitingOfHead' /\ DeliveredIds'
    BY <1>1, <1>2, <1>3, <2>1 DEF HeadInv, AwaitingOfHead, DeliveredIds
  <2>4. StalledInv'
    BY <1>1, <1>2, <2>1 DEF HeadInv, StalledInv, StalledExact
  <2>5. Decoded' => Covered(remaining)'
    BY <1>1, <1>2, <1>3, <2>1 DEF HeadInv, Covered
  <2> QED BY <2>2, <2>3, <2>4, <2>5 DEF HeadInv
<1>7. DeliveryInOrder' /\ CompletedIsDelivered' /\ EOCIsLast'
  <2>1. DeliveryInOrder /\ CompletedIsDelivered /\ EOCIsLast
    BY DEF DmaInv
  <2>2. DeliveryInOrder'
    BY <1>1, <2>1 DEF DeliveryInOrder
  <2>3. CompletedIsDelivered'
    BY <1>1, <1>2, <2>1 DEF CompletedIsDelivered
  <2>4. EOCIsLast'
    BY <1>1, <1>2, <2>1 DEF EOCIsLast
  <2> QED BY <2>2, <2>3, <2>4
<1>8. Completed' \in {Completed, Completed + 1}
  BY <1>2
<1> QED BY <1>4, <1>5, <1>6, <1>7, <1>8 DEF Keeps, DmaInv

(* Without a queue there is nothing to serve.                               *)
LEMMA NothingOutstanding ==
  ASSUME DmaInv, stalled = 0
  PROVE  awaiting = {}
<1>1. IsFiniteSet(Outstanding) /\ Cardinality(Outstanding) = 0
  BY DEF DmaInv, HeadInv, StalledInv, StalledExact
<1>2. Outstanding = {}
  BY <1>1, FS_EmptySet
<1> QED BY <1>2 DEF Outstanding

(* tick() that only waits: it offers nothing, and receive() may be called.  *)
LEMMA WaitOffers ==
  ASSUME DmaInv, NEW served, TickWait(served)
  PROVE  \/ UNCHANGED vars
         \/ /\ Decoded
            /\ \E acc : Offered(remaining, stalled) /\ Delivers(remaining, stalled, acc, served)
<1>1. TypeOK /\ QueueInv
  BY DEF DmaInv
<1>2. /\ Running /\ \A c \in Channels : remaining[c] = <<>>
      /\ stalled # 0 \/ request_queue = <<>>
      /\ Servable(served)
      /\ awaiting' = awaiting \ served
      /\ Receive(served, request_queue, stalled)
      /\ UNCHANGED <<trace, remaining_req, remaining, CFR_values, delivered>>
  BY DEF TickWait
<1>3. CASE stalled = 0
  <2>1. awaiting = {} /\ served = {}
    BY <1>2, <1>3, NothingOutstanding DEF Servable
  <2>2. Cardinality({}) = 0
    BY FS_EmptySet
  <2>3. /\ request_queue' = request_queue /\ stalled' = stalled /\ exc' = exc
        /\ m_trace_reached_calledback' = m_trace_reached_calledback
    BY <1>2, <1>3, <2>1, <2>2 DEF Receive, ReceiveFails, CompletesHead
  <2> QED BY <1>2, <2>1, <2>3 DEF vars, frontendVars, systemVars
<1>4. CASE stalled # 0
  <2> DEFINE acc == [c \in Channels |-> 0]
  <2> HIDE DEF AimReq
  <2>1. Decoded
    BY <1>4 DEF Decoded
  <2>2. Offered(remaining, stalled)
    BY <2>1, OldOffer
  <2>3. remaining \in [Channels -> Seq(AimReq)] /\ delivered \in [Channels -> Seq(AimReq)]
    BY <1>1 DEF TypeOK
  <2>4. Accepts(remaining, acc)
    BY <1>2 DEF Accepts
  <2>5. Deliver(remaining, acc)
    <3>1. ASSUME NEW c \in Channels
          PROVE  /\ SubSeq(remaining[c], acc[c] + 1, Len(remaining[c])) = remaining[c]
                 /\ delivered[c] \o SubSeq(remaining[c], 1, acc[c]) = delivered[c]
      <4>1. remaining[c] = <<>> /\ acc[c] = 0 /\ delivered[c] \in Seq(AimReq)
        BY <1>2, <2>3
      <4>2. SubSeq(remaining[c], 1, 0) = <<>> /\ Len(remaining[c]) = 0
        BY <4>1
      <4>3. delivered[c] \o << >> = delivered[c]
        BY <4>1, ConcatEmptySeq
      <4> QED BY <4>1, <4>2, <4>3
    <3>2. remaining = [c \in Channels |-> remaining[c]] /\ delivered = [c \in Channels |-> delivered[c]]
      BY <2>3
    <3> QED BY <1>2, <3>1, <3>2 DEF Deliver
  <2>6. NowAwaiting(remaining, acc) = {}
    BY DEF NowAwaiting
  <2>7. Delivers(remaining, stalled, acc, served)
    BY <1>2, <1>4, <2>4, <2>5, <2>6 DEF Delivers
  <2> HIDE DEF acc
  <2> QED BY <2>1, <2>2, <2>7
<1> QED BY <1>3, <1>4

(* So it keeps the invariant as any other tick does.                        *)
LEMMA WaitKeeps ==
  ASSUME DmaInv, NEW served, TickWait(served)
  PROVE  Keeps
<1>1. CASE UNCHANGED vars
  BY <1>1, UnchangedKeeps DEF vars
<1>2. ASSUME NEW acc, Offered(remaining, stalled), Delivers(remaining, stalled, acc, served)
      PROVE  Keeps
  <2>1. Running /\ CFR_values' \in [CFRNames -> Int]
    BY DEF TickWait, DmaInv, TypeOK
  <2> QED BY <1>2, <2>1, DeliverKeeps
<1> QED BY <1>1, <1>2, WaitOffers

(* A step of the frontend: the trace may grow, and its last line may enter  *)
(* the queue.                                                               *)
Frontend ==
  /\ \A i \in 1 .. Len(trace) : trace'[i] = trace[i]
  /\ Completed' = Completed
  /\ EOCReadLast'
  /\ \/ request_queue' = request_queue
     \/ /\ request_queue' = Append(request_queue, Completed + Len(request_queue) + 1)
        /\ Len(request_queue) < ISR_SIZE
  /\ trace' \in Seq(HostTemplate)
  /\ remaining_req' \in BOOLEAN
  /\ UNCHANGED <<remaining, stalled, CFR_values, awaiting, delivered,
                 m_trace_reached_calledback, exc>>

(* A step of the frontend does not disturb the head of the queue.           *)
LEMMA FrontendKeeps ==
  ASSUME DmaInv, Running, Frontend
  PROVE  Keeps
<1> HIDE DEF AimReq, HostTemplate
<1>1. TypeOK /\ QueueInv /\ QueueIds /\ HeadInv
  BY DEF DmaInv, QueueInv
<1>2. /\ remaining' = remaining /\ stalled' = stalled /\ CFR_values' = CFR_values
      /\ awaiting' = awaiting /\ delivered' = delivered
      /\ m_trace_reached_calledback' = m_trace_reached_calledback /\ exc' = exc
      /\ Completed' = Completed
  BY DEF Frontend
<1>3. HeadId' = HeadId /\ Decoded' = Decoded /\ Outstanding' = Outstanding
  BY <1>2 DEF HeadId, Decoded, Outstanding, BlockingRemaining
<1>4. /\ Len(trace) \in Nat /\ Len(request_queue) \in Nat /\ Completed \in Nat
      /\ Completed <= Len(trace)
      /\ request_queue \in Seq(Nat) /\ Len(request_queue) <= ISR_SIZE
      /\ request_queue # <<>> => HeadId \in 1 .. Len(trace)
  <2>1. /\ Len(trace) \in Nat /\ Len(request_queue) \in Nat /\ Completed \in Nat
        /\ Len(trace) = Completed + Len(request_queue) + (IF remaining_req THEN 1 ELSE 0)
        /\ request_queue # <<>> => HeadId \in 1 .. Len(trace)
    BY <1>1, QueueFacts DEF QueueIds
  <2>2. request_queue \in Seq(Nat) /\ Len(request_queue) <= ISR_SIZE
    BY <1>1 DEF TypeOK
  <2> QED BY <2>1, <2>2
<1>5. Decoded => trace'[HeadId'] = trace[HeadId]
  <2>1. Decoded => HeadId \in 1 .. Len(trace)
    BY <1>1, <1>4 DEF QueueInv
  <2> QED BY <1>3, <2>1 DEF Frontend
<1>6. /\ request_queue' \in Seq(Nat) /\ Len(request_queue') <= ISR_SIZE
      /\ \A i \in DOMAIN request_queue' : request_queue'[i] = Completed + i
      /\ request_queue # <<>> => request_queue' # <<>>
  <2>1. CASE request_queue' = request_queue
    BY <1>1, <1>4, <2>1 DEF QueueIds
  <2>2. CASE /\ request_queue' = Append(request_queue, Completed + Len(request_queue) + 1)
             /\ Len(request_queue) < ISR_SIZE
    <3> DEFINE n == Len(request_queue)
               q == Append(request_queue, Completed + n + 1)
    <3>1. n \in Nat /\ Completed + n + 1 \in Nat
      BY <1>4
    <3>2. /\ q \in Seq(Nat) /\ Len(q) = n + 1
          /\ \A i \in 1 .. n : q[i] = request_queue[i]
          /\ q[n + 1] = Completed + n + 1
      BY <1>4, <3>1, AppendProperties
    <3>3. \A i \in 1 .. n : request_queue[i] = Completed + i
      BY <1>1, <1>4 DEF QueueIds
    <3>4. DOMAIN q = 1 .. (n + 1) /\ q # <<>>
      BY <3>1, <3>2
    <3>5. n < ISR_SIZE /\ request_queue' = q
      BY <2>2
    <3>6. n + 1 <= ISR_SIZE
      BY <3>1, <3>5, SystemAssumption
    <3> HIDE DEF n, q
    <3>7. \A i \in DOMAIN q : q[i] = Completed + i
      BY <1>4, <3>1, <3>2, <3>3, <3>4
    <3> QED BY <3>2, <3>4, <3>5, <3>6, <3>7
  <2> QED BY <2>1, <2>2 DEF Frontend
<1>7. TypeOK'
  BY <1>1, <1>2, <1>6 DEF TypeOK, Frontend
<1>8. QueueInv'
  <2>1. QueueIds'
    BY <1>2, <1>4, <1>6 DEF QueueIds
  <2>2. Decoded' => request_queue' # <<>>
    BY <1>1, <1>3, <1>6 DEF QueueInv
  <2>3. EOCReadLast'
    BY DEF Frontend
  <2>4. exc' # "receive"
    BY <1>1, <1>2 DEF QueueInv
  <2> QED BY <2>1, <2>2, <2>3, <2>4 DEF QueueInv
<1>9. HeadInv'
  <2>1. OfHead(remaining)'
    <3> SUFFICES ASSUME NEW c \in Channels, NEW i \in DOMAIN remaining[c]
                 PROVE  /\ remaining[c][i].hid = HeadId
                        /\ remaining[c][i].ch = c
                        /\ remaining[c][i].op = opcode(trace'[HeadId'])
      BY <1>2, <1>3 DEF OfHead, opcode
    <3>1. Decoded
      BY DEF Decoded
    <3> QED BY <1>1, <1>5, <3>1 DEF HeadInv, OfHead
  <2>2. AwaitingOfHead'
    <3> SUFFICES ASSUME NEW r \in awaiting
                 PROVE  /\ r.hid = HeadId
                        /\ r.op = opcode(trace'[HeadId'])
                        /\ AiM_DMA_blocking(r.op)
                        /\ \E i \in DOMAIN delivered[r.ch] : delivered[r.ch][i] = r
      BY <1>2, <1>3 DEF AwaitingOfHead, opcode, AiM_DMA_blocking
    <3>1. Decoded
      BY NothingOutstanding DEF Decoded
    <3> QED BY <1>1, <1>5, <3>1 DEF HeadInv, AwaitingOfHead
  <2>3. DeliveredIds'
    BY <1>1, <1>2, <1>3 DEF HeadInv, DeliveredIds
  <2>4. StalledInv'
    BY <1>1, <1>2, <1>3 DEF HeadInv, StalledInv, StalledExact
  <2>5. Decoded' => Covered(remaining)'
    <3>1. ASSUME Decoded PROVE Covered(remaining)'
      <4>1. Covered(remaining) /\ trace'[HeadId'] = trace[HeadId]
        BY <1>1, <1>5, <3>1 DEF HeadInv
      <4> QED BY <1>2, <1>3, <4>1 DEF Covered, Has, Targets
    <3> QED BY <1>3, <3>1
  <2> QED BY <2>1, <2>2, <2>3, <2>4, <2>5 DEF HeadInv
<1>10. DeliveryInOrder'
  BY <1>2 DEF DmaInv, DeliveryInOrder
<1>11. CompletedIsDelivered'
  <2> SUFFICES ASSUME NEW id \in 1 .. Completed,
                      NEW c \in Targets(trace'[id]), NEW i \in 1 .. trace'[id].opsize
               PROVE  \E j \in DOMAIN delivered[c] : delivered[c][j].hid = id /\ delivered[c][j].idx = i
    BY <1>2 DEF CompletedIsDelivered, Targets
  <2>1. id \in 1 .. Len(trace)
    BY <1>4
  <2>2. trace'[id] = trace[id]
    BY <2>1 DEF Frontend
  <2> QED BY <2>2 DEF DmaInv, CompletedIsDelivered
<1>12. EOCIsLast'
  BY <1>2 DEF Running, EOCIsLast
<1>13. Completed' \in {Completed, Completed + 1}
  BY <1>2
<1> QED BY <1>7, <1>8, <1>9, <1>10, <1>11, <1>12, <1>13 DEF Keeps, DmaInv

(* AiMTrace::tick that reads: the line enters the queue, or is held back.   *)
LEMMA ReadIsFrontend ==
  ASSUME DmaInv, ReadHostRequest
  PROVE  Running /\ Frontend
<1> HIDE DEF HostTemplate
<1>1. TypeOK /\ QueueInv /\ QueueIds
  BY DEF DmaInv, QueueInv
<1>2. /\ Running /\ ~remaining_req /\ ~m_trace_reached_EOC
      /\ UNCHANGED <<remaining, stalled, CFR_values, awaiting, delivered,
                     m_trace_reached_calledback, exc>>
  BY DEF ReadHostRequest
<1>3. PICK t \in HostInputs : trace' = Append(trace, t) /\ send(Len(trace) + 1)
  BY DEF ReadHostRequest
<1>4. /\ Len(trace) \in Nat /\ Len(request_queue) \in Nat /\ Completed \in Nat
      /\ Len(trace) = Completed + Len(request_queue)
  <2>1. /\ Len(trace) \in Nat /\ Len(request_queue) \in Nat /\ Completed \in Nat
        /\ Len(trace) = Completed + Len(request_queue) + (IF remaining_req THEN 1 ELSE 0)
    BY <1>1, QueueFacts DEF QueueIds
  <2> QED BY <1>2, <2>1
<1>5. /\ trace' \in Seq(HostTemplate) /\ Len(trace') = Len(trace) + 1
      /\ \A i \in 1 .. Len(trace) : trace'[i] = trace[i]
  <2>1. trace \in Seq(HostTemplate) /\ t \in HostTemplate
    BY <1>1, SystemAssumption DEF TypeOK
  <2> QED BY <1>3, <2>1, AppendProperties
<1>6. EOCReadLast'
  <2>1. ASSUME NEW i \in 1 .. Len(trace) PROVE trace[i].op # "ISR_EOC"
    <3>1. CASE i = Len(trace)
      BY <1>2, <1>4, <3>1 DEF m_trace_reached_EOC
    <3>2. CASE i # Len(trace)
      BY <1>1, <1>4, <3>2 DEF QueueInv, EOCReadLast
    <3> QED BY <3>1, <3>2
  <2>2. Len(trace') - 1 = Len(trace)
    BY <1>4, <1>5
  <2>3. \A i \in 1 .. (Len(trace') - 1) : trace'[i].op # "ISR_EOC"
    BY <1>5, <2>1, <2>2
  <2> QED BY <2>3 DEF EOCReadLast
<1>7. /\ remaining_req' \in BOOLEAN
      /\ Completed' = Completed
      /\ \/ request_queue' = request_queue
         \/ /\ request_queue' = Append(request_queue, Completed + Len(request_queue) + 1)
            /\ Len(request_queue) < ISR_SIZE
  <2>1. request_queue \in Seq(Nat) /\ Len(request_queue) <= ISR_SIZE /\ ISR_SIZE \in Nat
    BY <1>1, SystemAssumption DEF TypeOK
  <2>2. CASE Len(request_queue) = ISR_SIZE
    <3>1. remaining_req' = TRUE /\ request_queue' = request_queue
      BY <1>3, <2>2 DEF send
    <3>2. Completed' = Completed
      BY <1>2, <1>4, <1>5, <3>1 DEF Completed
    <3> QED BY <3>1, <3>2
  <2>3. CASE Len(request_queue) # ISR_SIZE
    <3>1. remaining_req' = FALSE /\ request_queue' = Append(request_queue, Len(trace) + 1)
      BY <1>3, <2>3 DEF send
    <3>2. Len(request_queue') = Len(request_queue) + 1
      BY <1>4, <2>1, <3>1, AppendProperties
    <3>3. Completed' = Completed
      BY <1>2, <1>4, <1>5, <3>1, <3>2 DEF Completed
    <3>4. Len(request_queue) < ISR_SIZE
      BY <1>4, <2>1, <2>3
    <3> QED BY <1>4, <3>1, <3>3, <3>4
  <2> QED BY <2>2, <2>3
<1>8. Frontend
  BY <1>2, <1>5, <1>6, <1>7 DEF Frontend
<1> QED BY <1>2, <1>8

(* AiMTrace::tick that retries: the line it holds is the next id in order.  *)
LEMMA ResendIsFrontend ==
  ASSUME DmaInv, ResendHostRequest
  PROVE  Running /\ Frontend
<1> HIDE DEF HostTemplate
<1>1. TypeOK /\ QueueInv /\ QueueIds
  BY DEF DmaInv, QueueInv
<1>2. /\ Running /\ remaining_req /\ send(Len(trace)) /\ trace' = trace
      /\ UNCHANGED <<remaining, stalled, CFR_values, awaiting, delivered,
                     m_trace_reached_calledback, exc>>
  BY DEF ResendHostRequest
<1>3. /\ Len(trace) \in Nat /\ Len(request_queue) \in Nat /\ Completed \in Nat
      /\ Len(trace) = Completed + Len(request_queue) + 1
  <2>1. /\ Len(trace) \in Nat /\ Len(request_queue) \in Nat /\ Completed \in Nat
        /\ Len(trace) = Completed + Len(request_queue) + (IF remaining_req THEN 1 ELSE 0)
    BY <1>1, QueueFacts DEF QueueIds
  <2> QED BY <1>2, <2>1
<1>4. trace' \in Seq(HostTemplate) /\ EOCReadLast'
  BY <1>1, <1>2 DEF TypeOK, QueueInv, EOCReadLast
<1>5. /\ remaining_req' \in BOOLEAN
      /\ Completed' = Completed
      /\ \/ request_queue' = request_queue
         \/ /\ request_queue' = Append(request_queue, Completed + Len(request_queue) + 1)
            /\ Len(request_queue) < ISR_SIZE
  <2>1. request_queue \in Seq(Nat) /\ Len(request_queue) <= ISR_SIZE /\ ISR_SIZE \in Nat
    BY <1>1, SystemAssumption DEF TypeOK
  <2>2. CASE Len(request_queue) = ISR_SIZE
    <3>1. remaining_req' = TRUE /\ request_queue' = request_queue
      BY <1>2, <2>2 DEF send
    <3>2. Completed' = Completed
      BY <1>2, <3>1 DEF Completed
    <3> QED BY <3>1, <3>2
  <2>3. CASE Len(request_queue) # ISR_SIZE
    <3>1. remaining_req' = FALSE /\ request_queue' = Append(request_queue, Len(trace))
      BY <1>2, <2>3 DEF send
    <3>2. Len(request_queue') = Len(request_queue) + 1
      BY <1>3, <2>1, <3>1, AppendProperties
    <3>3. Completed' = Completed
      BY <1>2, <1>3, <3>1, <3>2 DEF Completed
    <3>4. Len(request_queue) < ISR_SIZE
      BY <1>3, <2>1, <2>3
    <3> QED BY <1>3, <3>1, <3>3, <3>4
  <2> QED BY <2>2, <2>3
<1>6. Frontend
  BY <1>2, <1>4, <1>5 DEF Frontend
<1> QED BY <1>2, <1>6

(* The initial state satisfies the invariant.                               *)
LEMMA InitInv ==
  ASSUME Init
  PROVE  DmaInv
<1> HIDE DEF AimReq, HostTemplate
<1>1. /\ trace = <<>> /\ ~remaining_req /\ request_queue = <<>> /\ stalled = 0
      /\ awaiting = {} /\ ~m_trace_reached_calledback /\ exc = "none"
      /\ \A c \in Channels : remaining[c] = <<>> /\ delivered[c] = <<>>
  BY DEF Init
<1>2. TypeOK
  <2>1. ISR_SIZE \in Nat /\ Len(<<>>) = 0
    BY SystemAssumption
  <2>2. CFR_values \in [CFRNames -> Int]
    BY DEF Init
  <2>3. <<>> \in Seq(HostTemplate) /\ <<>> \in Seq(Nat) /\ <<>> \in Seq(AimReq)
    BY EmptySeq
  <2>4. remaining \in [Channels -> Seq(AimReq)] /\ delivered \in [Channels -> Seq(AimReq)]
    BY <2>3 DEF Init
  <2>5. remaining_req \in BOOLEAN /\ m_trace_reached_calledback \in BOOLEAN
    BY DEF Init
  <2>6. request_queue \in Seq(Nat) /\ Len(request_queue) <= ISR_SIZE /\ stalled \in Nat
    BY <1>1, <2>1, <2>3
  <2> QED BY <1>1, <2>2, <2>3, <2>4, <2>5, <2>6 DEF TypeOK
<1>3. Completed = 0
  <2>1. Len(<<>>) = 0
    OBVIOUS
  <2>2. Completed = 0 - 0 - 0
    BY <1>1, <2>1 DEF Completed
  <2> QED BY <2>2
<1>4. ~Decoded /\ BlockingRemaining = {} /\ Outstanding = {}
  BY <1>1 DEF Decoded, BlockingRemaining, Outstanding
<1>5. QueueInv
  BY <1>1, <1>3, <1>4 DEF QueueInv, QueueIds, EOCReadLast
<1>6. IsFiniteSet({}) /\ Cardinality({}) = 0
  BY FS_EmptySet
<1>7. StalledInv
  BY <1>1, <1>4, <1>6 DEF StalledInv, StalledExact
<1>8. HeadInv
  BY <1>1, <1>4, <1>7 DEF HeadInv, OfHead, AwaitingOfHead, DeliveredIds
<1>9. DeliveryInOrder
  <2>1. \A c \in Channels : delivered[c] \o remaining[c] = <<>>
    BY <1>1
  <2>2. DOMAIN <<>> = {}
    OBVIOUS
  <2>3. \A c \in Channels : DOMAIN (delivered[c] \o remaining[c]) = {}
    BY <2>1, <2>2, Zenon
  <2> QED BY <2>3 DEF DeliveryInOrder
<1>10. CompletedIsDelivered /\ EOCIsLast
  BY <1>1, <1>3 DEF CompletedIsDelivered, EOCIsLast
<1> QED BY <1>2, <1>5, <1>8, <1>9, <1>10 DEF DmaInv

(* Every step keeps the invariant and completes at most one host request.   *)
LEMMA NextKeeps ==
  ASSUME DmaInv, [Next]_vars
  PROVE  Keeps
<1>1. CASE ReadHostRequest
  BY <1>1, ReadIsFrontend, FrontendKeeps
<1>2. CASE ReadThrows
  BY <1>2, UnchangedKeeps DEF ReadThrows
<1>3. CASE ResendHostRequest
  BY <1>3, ResendIsFrontend, FrontendKeeps
<1>4. ASSUME NEW acc, NEW served, TickDrain(acc, served) PROVE Keeps
  BY <1>4, DrainKeeps
<1>5. ASSUME NEW acc, NEW served, TickDecode(acc, served) PROVE Keeps
  BY <1>5, DecodeKeeps
<1>6. ASSUME NEW served, TickWait(served) PROVE Keeps
  BY <1>6, WaitKeeps
<1>7. CASE TickDecodeThrows
  BY <1>7, UnchangedKeeps DEF TickDecodeThrows
<1>8. CASE Finished \/ UNCHANGED vars
  BY <1>8, UnchangedKeeps DEF Finished, vars
<1> QED BY <1>1, <1>2, <1>3, <1>4, <1>5, <1>6, <1>7, <1>8 DEF Next

-----------------------------------------------------------------------------
(* The theorems *)

(* DmaInv holds in every reachable state.                                   *)
LEMMA Invariance == Spec => []DmaInv
<1>1. Init => DmaInv
  BY InitInv
<1>2. DmaInv /\ [Next]_vars => DmaInv'
  BY NextKeeps DEF Keeps
<1> QED BY <1>1, <1>2, PTL DEF Spec

(* The DMA and the frontend keep their declared state, and the ISR queue is *)
(* never longer than its capacity, although send() tests only for equality. *)
THEOREM TypeCorrect == Spec => []TypeOK
<1>1. DmaInv => TypeOK
  BY DEF DmaInv
<1> QED BY <1>1, Invariance, PTL

(* stalled_AiM_requests is the number of blocking requests that no          *)
(* controller has called back, whatever was refused in between.             *)
THEOREM CounterIsExact == Spec => []StalledExact
<1>1. DmaInv => StalledExact
  BY DEF DmaInv, HeadInv, StalledInv
<1> QED BY <1>1, Invariance, PTL

(* receive() never meets a request of another host request than the head's, *)
(* so the exception it would throw is unreachable.                          *)
THEOREM ReceiveIsSafe == Spec => []ReceiveNeverThrows
<1>1. DmaInv => ReceiveNeverThrows
  BY DEF DmaInv, QueueInv, ReceiveNeverThrows
<1> QED BY <1>1, Invariance, PTL

(* While a blocking request is outstanding, it is of the queue's head and   *)
(* tick() has let nothing of a later host request reach a controller.       *)
THEOREM Blocking == Spec => []BlockedUntilServed
<1>1. DmaInv => BlockedUntilServed
  <2> SUFFICES ASSUME DmaInv, Outstanding # {} PROVE BlockedUntilServed
    BY DEF BlockedUntilServed
  <2>1. TypeOK /\ QueueInv /\ QueueIds /\ HeadInv
    BY DEF DmaInv, QueueInv
  <2>2. Decoded
    <3>1. CASE awaiting # {}
      BY <3>1, NothingOutstanding DEF Decoded
    <3>2. CASE BlockingRemaining # {}
      BY <3>2 DEF BlockingRemaining, Decoded
    <3> QED BY <3>1, <3>2 DEF Outstanding
  <2>3. request_queue # <<>> /\ Head(request_queue) = HeadId
    BY <2>1, <2>2, QueueFacts DEF QueueInv
  <2>4. ASSUME NEW r \in Outstanding PROVE r.hid = HeadId
    <3>1. CASE r \in awaiting
      BY <2>1, <3>1 DEF HeadInv, AwaitingOfHead
    <3>2. CASE r \in BlockingRemaining
      <4>1. PICK c \in Channels : \E i \in DOMAIN remaining[c] : r = remaining[c][i]
        BY <3>2 DEF BlockingRemaining
      <4>2. PICK i \in DOMAIN remaining[c] : r = remaining[c][i]
        BY <4>1
      <4> QED BY <2>1, <4>2 DEF HeadInv, OfHead
    <3> QED BY <3>1, <3>2 DEF Outstanding
  <2>5. \A c \in Channels : \A i \in DOMAIN delivered[c] : delivered[c][i].hid <= HeadId
    BY <2>2, OldOffer DEF Offered
  <2> QED BY <2>3, <2>4, <2>5 DEF BlockedUntilServed
<1> QED BY <1>1, Invariance, PTL

(* Refusals never reorder, drop or repeat what tick() sends to a channel.   *)
THEOREM InOrder == Spec => []DeliveryInOrder
<1>1. DmaInv => DeliveryInOrder
  BY DEF DmaInv
<1> QED BY <1>1, Invariance, PTL

(* tick() and receive() pop a host request only when all the requests it    *)
(* unrolls into have been accepted.                                         *)
THEOREM NothingDropped == Spec => []CompletedIsDelivered
<1>1. DmaInv => CompletedIsDelivered
  BY DEF DmaInv
<1> QED BY <1>1, Invariance, PTL

(* The callback that ends the main loop comes when nothing of the trace is  *)
(* queued, undelivered or unserved.                                         *)
THEOREM EndOfTrace == Spec => []EOCIsLast
<1>1. DmaInv => EOCIsLast
  BY DEF DmaInv
<1> QED BY <1>1, Invariance, PTL

(* The two pops of request_queue, in tick() and in receive(), never both    *)
(* happen in one tick, and no step brings a host request back.              *)
THEOREM SingleCompletion == Spec => OneCompletionPerTick
<1>1. DmaInv /\ [Next]_vars => [Completed' \in {Completed, Completed + 1}]_vars
  BY NextKeeps DEF Keeps
<1> QED BY <1>1, Invariance, PTL DEF Spec, OneCompletionPerTick

-----------------------------------------------------------------------------
(* The configuration registers are handed out in program order: a request   *)
(* carries the values that the trace had set before it, however far the     *)
(* frontend has read ahead, and however late the channel accepts it.        *)

-----------------------------------------------------------------------------
(* The inductive invariant of the registers *)

(* Whether a line writes a register, and the writes up to line id.          *)
IsWrite(line, reg) == line.op = "W_CFR" /\ line.addr = CFRAddress[reg]

Writes(lines, id, reg) == {i \in 1 .. id : IsWrite(lines[i], reg)}

(* The value that the last of some writes leaves, and the value of a        *)
(* register after line id: CFRAt, for any trace.                            *)
LastValue(lines, writes, reg) ==
  IF writes = {} THEN (IF reg = "EWMUL_BG" THEN 1 ELSE 0)
  ELSE lines[CHOOSE i \in writes : \A k \in writes : k <= i].data

ValueAt(lines, id, reg) == LastValue(lines, Writes(lines, id, reg), reg)

(* Of several writes, one is the last.                                      *)
LastWrites ==
  \A id \in 0 .. Len(trace), reg \in CFRNames :
    \/ Writes(trace, id, reg) = {}
    \/ \E i \in Writes(trace, id, reg) : \A k \in Writes(trace, id, reg) : k <= i

(* The last host request that the DMA has decoded.                          *)
DecodedId == IF Decoded THEN HeadId ELSE Completed

(* The registers hold what the decoded part of the trace has written.       *)
Registers == \A reg \in CFRNames : CFR_values[reg] = ValueAt(trace, DecodedId, reg)

(* A request carries the values at its place in the trace.                  *)
Carries(lines, r) == \A reg \in CFRsOf(r.op) : r.cfr[reg] = ValueAt(lines, r.hid, reg)

RequestsCarry(lines, s) == \A c \in Channels : \A i \in DOMAIN s[c] : Carries(lines, s[c][i])

ConfigInv ==
  /\ LastWrites
  /\ Registers
  /\ RequestsCarry(trace, delivered)
  /\ RequestsCarry(trace, remaining)

-----------------------------------------------------------------------------
(* The value of a register along the trace *)

(* The register map of address_to_CFR is the one of the trace format.       *)
LEMMA RegisterNames ==
  /\ CFRNames = {"BROADCAST", "EWMUL_BG", "AFM"}
  /\ \A op : CFRsOf(op) \subseteq CFRNames
  /\ \A addr \in 0 .. 2, reg \in CFRNames : address_to_CFR(addr) = reg <=> addr = CFRAddress[reg]
BY DEF CFRNames, CFRsOf, address_to_CFR, CFRAddress

(* A line sets the register that it writes, and no other.                   *)
LEMMA NextValue ==
  ASSUME NEW lines, NEW id \in Nat, NEW reg
  PROVE  ValueAt(lines, id + 1, reg) =
           IF IsWrite(lines[id + 1], reg) THEN lines[id + 1].data ELSE ValueAt(lines, id, reg)
<1>1. 1 .. (id + 1) = (1 .. id) \cup {id + 1}
  OBVIOUS
<1>2. CASE IsWrite(lines[id + 1], reg)
  <2> DEFINE W == Writes(lines, id + 1, reg)
             last == CHOOSE i \in W : \A k \in W : k <= i
  <2>1. id + 1 \in W /\ \A k \in W : k \in Nat /\ k <= id + 1
    BY <1>2 DEF Writes
  <2>2. last \in W /\ \A k \in W : k <= last
    BY <2>1
  <2>3. last = id + 1
    <3> HIDE DEF last, W
    <3> QED BY <2>1, <2>2
  <2> QED BY <1>2, <2>1, <2>3 DEF ValueAt, LastValue
<1>3. CASE ~IsWrite(lines[id + 1], reg)
  <2>1. Writes(lines, id + 1, reg) = Writes(lines, id, reg)
    BY <1>1, <1>3 DEF Writes
  <2> QED BY <1>3, <2>1 DEF ValueAt
<1> QED BY <1>2, <1>3

(* What the frontend reads later does not change what a line finds.         *)
LEMMA StableValue ==
  ASSUME LastWrites, Len(trace) \in Nat, NEW lines, \A i \in 1 .. Len(trace) : lines[i] = trace[i],
         NEW id \in 0 .. Len(trace), NEW reg \in CFRNames
  PROVE  /\ Writes(lines, id, reg) = Writes(trace, id, reg)
         /\ ValueAt(lines, id, reg) = ValueAt(trace, id, reg)
<1> DEFINE W == Writes(trace, id, reg)
           last == CHOOSE i \in W : \A k \in W : k <= i
<1>1. \A i \in 1 .. id : lines[i] = trace[i]
  OBVIOUS
<1>2. Writes(lines, id, reg) = W
  BY <1>1 DEF Writes
<1>3. W # {} => last \in 1 .. id
  <2>1. W # {} => \E i \in W : \A k \in W : k <= i
    BY DEF LastWrites
  <2>2. W # {} => last \in W
    BY <2>1
  <2> QED BY <2>2 DEF Writes
<1>4. ValueAt(lines, id, reg) = LastValue(lines, W, reg) /\ ValueAt(trace, id, reg) = LastValue(trace, W, reg)
  BY <1>2 DEF ValueAt
<1>5. LastValue(lines, W, reg) = LastValue(trace, W, reg)
  BY <1>1, <1>3 DEF LastValue
<1> QED BY <1>2, <1>4, <1>5

-----------------------------------------------------------------------------
(* Steps *)

(* The ids of what is delivered and of what is left are lines of the trace. *)
LEMMA Lines ==
  ASSUME DmaInv
  PROVE  /\ Len(trace) \in Nat /\ Completed \in Nat /\ HeadId = Completed + 1
         /\ DecodedId \in 0 .. Len(trace)
         /\ Decoded => HeadId \in 1 .. Len(trace)
         /\ \A c \in Channels : \A i \in DOMAIN delivered[c] :
              delivered[c][i].hid \in 0 .. DecodedId
         /\ \A c \in Channels : \A i \in DOMAIN remaining[c] : remaining[c][i].hid = DecodedId
<1>1. TypeOK /\ QueueInv /\ QueueIds /\ HeadInv
  BY DEF DmaInv, QueueInv
<1>2. /\ Len(trace) \in Nat /\ Len(request_queue) \in Nat /\ Completed \in Nat
      /\ Len(trace) = Completed + Len(request_queue) + (IF remaining_req THEN 1 ELSE 0)
      /\ HeadId = Completed + 1
      /\ request_queue # <<>> => HeadId \in 1 .. Len(trace)
  BY <1>1, QueueFacts DEF QueueIds
<1>3. Decoded => HeadId \in 1 .. Len(trace)
  BY <1>1, <1>2 DEF QueueInv
<1>4. DecodedId \in 0 .. Len(trace)
  BY <1>2, <1>3 DEF DecodedId
<1>5. ASSUME NEW c \in Channels, NEW i \in DOMAIN delivered[c]
      PROVE  delivered[c][i].hid \in 0 .. DecodedId
  <2>1. delivered[c][i] \in AimReq
    BY <1>1, ElementOfSeq DEF TypeOK
  <2>2. delivered[c][i].hid \in Nat
    BY <2>1 DEF AimReq
  <2>3. delivered[c][i].hid <= Completed \/ (Decoded /\ delivered[c][i].hid = HeadId)
    BY <1>1 DEF HeadInv, DeliveredIds
  <2> QED BY <1>2, <2>2, <2>3 DEF DecodedId
<1>6. ASSUME NEW c \in Channels, NEW i \in DOMAIN remaining[c]
      PROVE  remaining[c][i].hid = DecodedId
  <2>1. Decoded
    BY <1>6 DEF Decoded
  <2> QED BY <1>1, <2>1 DEF HeadInv, OfHead, DecodedId
<1> QED BY <1>2, <1>3, <1>4, <1>5, <1>6

(* After a tick that offers the head, complete or not, the head is the last *)
(* that was decoded.                                                        *)
LEMMA DeliverDecodes ==
  ASSUME DmaInv, Running, NEW pend, NEW n, NEW acc, NEW served,
         Offered(pend, n), Delivers(pend, n, acc, served)
  PROVE  DecodedId' = HeadId
<1> DEFINE done == Completes(pend, n, acc, served)
<1>1. TypeOK /\ QueueInv /\ QueueIds /\ AwaitingOfHead
  BY DEF DmaInv, QueueInv, HeadInv
<1>2. /\ request_queue' = IF done THEN Tail(request_queue) ELSE request_queue
      /\ done => stalled' = 0 /\ \A c \in Channels : remaining'[c] = <<>>
      /\ ~done => Decoded'
  BY <1>1, DeliverOutcome
<1>3. trace' = trace /\ remaining_req' = remaining_req /\ request_queue # <<>>
  BY DEF Delivers, Offered
<1>4. /\ Len(trace) \in Nat /\ Len(request_queue) \in Nat /\ Completed \in Nat
      /\ HeadId = Completed + 1
      /\ Len(Tail(request_queue)) = Len(request_queue) - 1
  BY <1>1, <1>3, QueueFacts DEF QueueIds
<1>5. CASE done
  <2>1. Completed' = Completed + 1
    BY <1>2, <1>3, <1>4, <1>5 DEF Completed
  <2>2. ~Decoded'
    BY <1>2, <1>5 DEF Decoded
  <2> QED BY <1>4, <2>1, <2>2 DEF DecodedId
<1>6. CASE ~done
  <2>1. Completed' = Completed
    BY <1>2, <1>3, <1>6 DEF Completed
  <2> QED BY <1>2, <1>6, <2>1 DEF DecodedId, HeadId
<1> QED BY <1>5, <1>6

(* What is delivered, and what is left, comes from the offer.               *)
LEMMA DeliverCarries ==
  ASSUME DmaInv, NEW pend, NEW n, NEW acc, NEW served,
         Offered(pend, n), Delivers(pend, n, acc, served),
         RequestsCarry(trace, delivered), RequestsCarry(trace, pend)
  PROVE  RequestsCarry(trace', delivered') /\ RequestsCarry(trace', remaining')
<1> HIDE DEF AimReq
<1>1. /\ trace' = trace /\ Accepts(pend, acc) /\ Deliver(pend, acc)
      /\ pend \in [Channels -> Seq(AimReq)] /\ delivered \in [Channels -> Seq(AimReq)]
  BY DEF Delivers, Offered, DmaInv, TypeOK
<1>2. Grown(pend, acc) /\ Left(pend, acc)
  BY <1>1, GrownBy, LeftOf
<1>3. ASSUME NEW c \in Channels, NEW j \in DOMAIN delivered'[c]
      PROVE  Carries(trace, delivered'[c][j])
  BY <1>2 DEF Grown, RequestsCarry
<1>4. ASSUME NEW c \in Channels, NEW j \in DOMAIN remaining'[c]
      PROVE  Carries(trace, remaining'[c][j])
  <2>1. /\ acc[c] \in 0 .. Len(pend[c]) /\ pend[c] \in Seq(AimReq)
        /\ remaining'[c] \in Seq(AimReq)
        /\ Len(remaining'[c]) = Len(pend[c]) - acc[c]
        /\ remaining'[c][j] = pend[c][acc[c] + j]
    BY <1>2 DEF Left
  <2>2. acc[c] + j \in DOMAIN pend[c]
    BY <2>1
  <2> QED BY <2>1, <2>2 DEF RequestsCarry
<1> QED BY <1>1, <1>3, <1>4 DEF RequestsCarry

(* What the DMA decodes carries the values before the head, which are those *)
(* after it: a request that carries a register does not write one.          *)
LEMMA DecodeCarries ==
  ASSUME DmaInv, Registers, ~Decoded, request_queue # <<>>, NEW pend,
         pend = [c \in Channels |-> SubReqs(HeadId, trace[HeadId], CFR_values, c)]
  PROVE  RequestsCarry(trace, pend)
<1> DEFINE h == trace[HeadId]
<1>1. Completed \in Nat /\ HeadId = Completed + 1 /\ DecodedId = Completed
  BY Lines DEF DecodedId
<1> HIDE DEF h
<1>2. ASSUME NEW c \in Channels, NEW i \in DOMAIN pend[c]
      PROVE  /\ pend[c][i].hid = HeadId /\ pend[c][i].op = opcode(h)
             /\ \A reg \in CFRsOf(opcode(h)) : pend[c][i].cfr[reg] = CFR_values[reg]
  <2>1. pend[c] = SubReqs(HeadId, h, CFR_values, c)
    BY DEF h
  <2>2. c \in Targets(h)
    <3>1. c \notin Targets(h) => pend[c] = <<>>
      BY <2>1 DEF SubReqs
    <3> QED BY <1>2, <3>1
  <2>3. pend[c][i] = [hid |-> HeadId, idx |-> i, ch |-> c, op |-> opcode(h),
                      cfr |-> [r \in CFRNames |-> IF r \in CFRsOf(opcode(h)) THEN CFR_values[r] ELSE -1]]
    BY <2>1, <2>2 DEF SubReqs
  <2> QED BY <2>3, RegisterNames
<1>3. ASSUME NEW reg \in CFRsOf(opcode(h))
      PROVE  CFR_values[reg] = ValueAt(trace, HeadId, reg)
  <2>1. reg \in CFRNames
    BY RegisterNames
  <2>2. h.op # "W_CFR"
    BY <1>3 DEF CFRsOf, opcode
  <2>3. ~IsWrite(trace[Completed + 1], reg)
    BY <1>1, <2>2 DEF IsWrite, h
  <2>4. ValueAt(trace, HeadId, reg) = ValueAt(trace, Completed, reg)
    BY <1>1, <2>3, NextValue
  <2> QED BY <1>1, <2>1, <2>4 DEF Registers
<1> QED BY <1>2, <1>3 DEF RequestsCarry, Carries

(* tick() that retries what was refused, or only waits: it offers remaining. *)
LEMMA OldOfferKeeps ==
  ASSUME DmaInv, ConfigInv, Running, Decoded, NEW acc, NEW served,
         Delivers(remaining, stalled, acc, served), CFR_values' = CFR_values
  PROVE  ConfigInv'
<1>1. Offered(remaining, stalled)
  BY OldOffer
<1>2. trace' = trace
  BY DEF Delivers
<1>3. DecodedId' = DecodedId
  BY <1>1, DeliverDecodes DEF DecodedId
<1>4. RequestsCarry(trace', delivered') /\ RequestsCarry(trace', remaining')
  BY <1>1, DeliverCarries DEF ConfigInv
<1>5. LastWrites' /\ Registers'
  BY <1>2, <1>3 DEF ConfigInv, LastWrites, Registers
<1> QED BY <1>4, <1>5 DEF ConfigInv

(* tick() that decodes the head: a W_CFR sets its register.                 *)
LEMMA DecodeConfig ==
  ASSUME DmaInv, ConfigInv, NEW acc, NEW served, TickDecode(acc, served)
  PROVE  ConfigInv'
<1> DEFINE h    == trace[HeadId]
           pend == [c \in Channels |-> SubReqs(HeadId, h, CFR_values, c)]
<1>1. Running /\ ~Decoded /\ request_queue # <<>>
  BY DEF TickDecode, Decoded
<1>2. TypeOK /\ QueueIds
  BY DEF DmaInv, QueueInv
<1>3. Head(request_queue) = HeadId
  BY <1>1, <1>2, QueueFacts
<1>4. /\ trace' = trace
      /\ h.op = "W_CFR" => h.addr \in 0 .. 2
      /\ CFR_values' = IF h.op = "W_CFR"
                          THEN [CFR_values EXCEPT ![address_to_CFR(h.addr)] = h.data]
                          ELSE CFR_values
  BY <1>3 DEF TickDecode, DecodeThrows
<1>5. Offered(pend, Stalls(h))
  BY <1>1, NewOffer
<1>6. Delivers(pend, Stalls(h), acc, served)
  BY <1>3 DEF TickDecode, Delivers
<1>7. RequestsCarry(trace, pend)
  BY <1>1, DecodeCarries DEF ConfigInv
<1> HIDE DEF pend
<1>8. DecodedId' = HeadId
  BY <1>1, <1>5, <1>6, DeliverDecodes
<1>9. RequestsCarry(trace', delivered') /\ RequestsCarry(trace', remaining')
  BY <1>5, <1>6, <1>7, DeliverCarries DEF ConfigInv
<1>10. Completed \in Nat /\ HeadId = Completed + 1 /\ DecodedId = Completed
  BY <1>1, Lines DEF DecodedId
<1>11. ASSUME NEW reg \in CFRNames
       PROVE  CFR_values'[reg] = ValueAt(trace, HeadId, reg)
  <2>1. ValueAt(trace, HeadId, reg) = IF IsWrite(h, reg) THEN h.data ELSE CFR_values[reg]
    <3>1. CFR_values[reg] = ValueAt(trace, Completed, reg)
      BY <1>10 DEF ConfigInv, Registers
    <3> QED BY <1>10, <3>1, NextValue
  <2>2. h.op = "W_CFR" => (address_to_CFR(h.addr) = reg <=> h.addr = CFRAddress[reg])
    BY <1>4, RegisterNames
  <2>3. CFR_values \in [CFRNames -> Int]
    BY <1>2 DEF TypeOK
  <2> HIDE DEF h
  <2> QED BY <1>4, <2>1, <2>2, <2>3 DEF IsWrite
<1>12. LastWrites' /\ Registers'
  BY <1>4, <1>8, <1>11 DEF ConfigInv, LastWrites, Registers
<1> QED BY <1>9, <1>12 DEF ConfigInv

(* The frontend: what it reads comes after every line that was decoded.     *)
LEMMA FrontendConfig ==
  ASSUME DmaInv, ConfigInv, trace' \in Seq(HostTemplate),
         Len(trace') \in {Len(trace), Len(trace) + 1},
         \A i \in 1 .. Len(trace) : trace'[i] = trace[i],
         Completed' = Completed,
         UNCHANGED <<remaining, stalled, CFR_values, delivered>>
  PROVE  ConfigInv'
<1>1. /\ Len(trace) \in Nat
      /\ DecodedId \in 0 .. Len(trace)
      /\ \A c \in Channels : \A i \in DOMAIN delivered[c] : delivered[c][i].hid \in 0 .. Len(trace)
      /\ \A c \in Channels : \A i \in DOMAIN remaining[c] : remaining[c][i].hid \in 0 .. Len(trace)
  BY Lines
<1>2. DecodedId' = DecodedId
  BY DEF DecodedId, Decoded, HeadId
<1>3. LastWrites
  BY DEF ConfigInv
<1> DEFINE lines == trace'
<1>4. \A i \in 1 .. Len(trace) : lines[i] = trace[i]
  OBVIOUS
<1>5. ASSUME NEW id \in 0 .. Len(trace), NEW reg \in CFRNames
      PROVE  Writes(lines, id, reg) = Writes(trace, id, reg) /\ ValueAt(lines, id, reg) = ValueAt(trace, id, reg)
  <2> HIDE DEF lines
  <2> QED BY <1>1, <1>3, <1>4, StableValue
<1>6. Registers'
  BY <1>1, <1>2, <1>5 DEF ConfigInv, Registers
<1>7. RequestsCarry(trace', delivered') /\ RequestsCarry(trace', remaining')
  BY <1>1, <1>5, RegisterNames DEF ConfigInv, RequestsCarry, Carries
<1>8. ASSUME NEW id \in 0 .. Len(trace'), NEW reg \in CFRNames
      PROVE  \/ Writes(lines, id, reg) = {}
             \/ \E i \in Writes(lines, id, reg) : \A k \in Writes(lines, id, reg) : k <= i
  <2>1. CASE id \in 0 .. Len(trace)
    BY <1>3, <1>5, <2>1 DEF LastWrites
  <2>2. CASE id = Len(trace) + 1
    <3> HIDE DEF lines
    <3>1. CASE IsWrite(lines[id], reg)
      <4>1. id \in Writes(lines, id, reg) /\ \A k \in Writes(lines, id, reg) : k <= id
        BY <1>1, <2>2, <3>1 DEF Writes
      <4> QED BY <4>1
    <3>2. CASE ~IsWrite(lines[id], reg)
      <4>1. Writes(lines, id, reg) = Writes(lines, Len(trace), reg)
        BY <1>1, <2>2, <3>2 DEF Writes
      <4>2. Writes(lines, Len(trace), reg) = Writes(trace, Len(trace), reg)
        BY <1>1, <1>5
      <4> QED BY <1>1, <1>3, <4>1, <4>2 DEF LastWrites
    <3> QED BY <3>1, <3>2
  <2> QED BY <1>1, <2>1, <2>2
<1>9. LastWrites'
  BY <1>8 DEF LastWrites
<1> QED BY <1>6, <1>7, <1>9 DEF ConfigInv

(* AiMTrace::tick keeps the registers' history, whether it reads a line or  *)
(* sends again the one that the full queue refused.                         *)
LEMMA ReadConfig ==
  ASSUME DmaInv, ConfigInv, ReadHostRequest \/ ResendHostRequest
  PROVE  ConfigInv'
<1> HIDE DEF HostTemplate
<1>1. trace \in Seq(HostTemplate)
  BY DEF DmaInv, TypeOK
<1>2. Completed' = Completed
  BY ReadIsFrontend, ResendIsFrontend DEF Frontend
<1>3. UNCHANGED <<remaining, stalled, CFR_values, delivered>>
  BY DEF ReadHostRequest, ResendHostRequest
<1>4. CASE ReadHostRequest
  <2>1. PICK t \in HostInputs : trace' = Append(trace, t)
    BY <1>4 DEF ReadHostRequest
  <2>2. t \in HostTemplate
    BY SystemAssumption
  <2>3. /\ trace' \in Seq(HostTemplate) /\ Len(trace') = Len(trace) + 1
        /\ \A i \in 1 .. Len(trace) : trace'[i] = trace[i]
    BY <1>1, <2>1, <2>2, AppendProperties
  <2> QED BY <1>2, <1>3, <2>3, FrontendConfig
<1>5. CASE ResendHostRequest
  <2>1. trace' = trace
    BY <1>5 DEF ResendHostRequest
  <2> QED BY <1>1, <1>2, <1>3, <2>1, FrontendConfig
<1> QED BY <1>4, <1>5

(* A step that leaves the DMA and the frontend alone.                       *)
LEMMA UnchangedConfig ==
  ASSUME ConfigInv, UNCHANGED <<frontendVars, systemVars, delivered>>
  PROVE  ConfigInv'
<1>1. /\ trace' = trace /\ remaining_req' = remaining_req /\ request_queue' = request_queue
      /\ remaining' = remaining /\ stalled' = stalled /\ CFR_values' = CFR_values
      /\ delivered' = delivered
  BY DEF frontendVars, systemVars
<1>2. DecodedId' = DecodedId
  BY <1>1 DEF DecodedId, Decoded, HeadId, Completed
<1> QED BY <1>1, <1>2 DEF ConfigInv, LastWrites, Registers, RequestsCarry

(* Every step keeps the registers' history.                                 *)
LEMMA NextConfig ==
  ASSUME DmaInv, ConfigInv, [Next]_vars
  PROVE  ConfigInv'
<1>1. CASE ReadHostRequest \/ ResendHostRequest
  BY <1>1, ReadConfig
<1>2. ASSUME NEW acc, NEW served, TickDrain(acc, served) PROVE ConfigInv'
  <2>1. Running /\ Decoded /\ CFR_values' = CFR_values
    BY <1>2 DEF TickDrain, Decoded
  <2>2. Delivers(remaining, stalled, acc, served)
    BY <1>2 DEF TickDrain, Delivers, DrainPops
  <2> QED BY <2>1, <2>2, OldOfferKeeps
<1>3. ASSUME NEW acc, NEW served, TickDecode(acc, served) PROVE ConfigInv'
  BY <1>3, DecodeConfig
<1>4. ASSUME NEW served, TickWait(served) PROVE ConfigInv'
  <2>1. Running /\ CFR_values' = CFR_values
    BY <1>4 DEF TickWait
  <2>2. CASE UNCHANGED vars
    BY <2>2, UnchangedConfig DEF vars
  <2>3. ASSUME Decoded, NEW acc, Delivers(remaining, stalled, acc, served) PROVE ConfigInv'
    BY <2>1, <2>3, OldOfferKeeps
  <2> QED BY <1>4, <2>2, <2>3, WaitOffers
<1>5. CASE ReadThrows \/ TickDecodeThrows \/ Finished \/ UNCHANGED vars
  BY <1>5, UnchangedConfig DEF ReadThrows, TickDecodeThrows, Finished, vars
<1> QED BY <1>1, <1>2, <1>3, <1>4, <1>5 DEF Next

(* The registers start with their declared values.                          *)
LEMMA InitConfig ==
  ASSUME Init
  PROVE  ConfigInv
<1>1. /\ trace = <<>> /\ \A c \in Channels : remaining[c] = <<>> /\ delivered[c] = <<>>
      /\ CFR_values = [r \in CFRNames |-> IF r = "EWMUL_BG" THEN 1 ELSE 0]
  BY DEF Init
<1>2. DecodedId = 0
  <2>1. Len(<<>>) = 0
    OBVIOUS
  <2>2. Completed = 0 - 0 - 0
    BY <2>1 DEF Init, Completed
  <2>3. ~Decoded
    BY DEF Init, Decoded
  <2> QED BY <2>2, <2>3 DEF DecodedId
<1>3. \A reg \in CFRNames : Writes(trace, 0, reg) = {}
  BY DEF Writes
<1>4. LastWrites
  <2>1. 0 .. Len(trace) = {0}
    BY <1>1
  <2> QED BY <1>3, <2>1 DEF LastWrites
<1>5. Registers
  BY <1>1, <1>2, <1>3 DEF Registers, ValueAt, LastValue
<1>6. RequestsCarry(trace, delivered) /\ RequestsCarry(trace, remaining)
  BY <1>1 DEF RequestsCarry
<1> QED BY <1>4, <1>5, <1>6 DEF ConfigInv

-----------------------------------------------------------------------------
(* The theorems *)

(* ConfigInv holds in every reachable state.                                *)
LEMMA ConfigInvariance == Spec => []ConfigInv
<1>1. Init => ConfigInv
  BY InitConfig
<1>2. DmaInv /\ ConfigInv /\ [Next]_vars => ConfigInv'
  BY NextConfig
<1> QED BY <1>1, <1>2, Invariance, PTL DEF Spec

(* tick() decodes with CFR_values: a request carries what the last writes   *)
(* before it in the trace have set, although the frontend has read ahead,   *)
(* and although its channel may accept it many ticks later.                 *)
THEOREM ConfigOrder == Spec => []ConfigInProgramOrder
<1>1. ConfigInv => ConfigInProgramOrder
  <2> SUFFICES ASSUME ConfigInv,
                      NEW c \in Channels, NEW j \in DOMAIN delivered[c],
                      NEW reg \in CFRsOf(delivered[c][j].op)
               PROVE  delivered[c][j].cfr[reg] = CFRAt(delivered[c][j].hid, reg)
    BY DEF ConfigInProgramOrder
  <2>1. delivered[c][j].cfr[reg] = ValueAt(trace, delivered[c][j].hid, reg)
    BY DEF ConfigInv, RequestsCarry, Carries
  <2>2. ValueAt(trace, delivered[c][j].hid, reg) = CFRAt(delivered[c][j].hid, reg)
    BY DEF ValueAt, LastValue, Writes, IsWrite, CFRAt
  <2> QED BY <2>1, <2>2
<1> QED BY <1>1, ConfigInvariance, PTL
=============================================================================
