--------------------------- MODULE FixedDelay_proofs ---------------------------
(***************************************************************************)
(* Proofs about FixedDelay, for any directions, numbers of packets, delays  *)
(* and bounds on the times that are told apart.  Whatever the MQTT thread   *)
(* does between the steps of a handler, no packet is lost or sent twice,    *)
(* those that were made to wait keep their order.  As long as the packet    *)
(* thread stays out of the change handler, a handler is on its way for      *)
(* those that wait, for when they are due or before, and if time passes no  *)
(* handler that is due they also leave on time.                            *)
(***************************************************************************)
EXTENDS MCFixedDelay, SequenceTheorems, FiniteSetTheorems, TLAPS

(* What the operators of AsioTimer make of a timer. *)
LEMMA TimerFields ==
  ASSUME NEW t \in Timer
  PROVE  t.waiting \in Nat /\ t.ready \in Nat /\ t.expiry \in Int
BY DEF Timer

LEMMA CloserInt ==
  ASSUME NEW e \in Int
  PROVE  Closer(e) \in Int /\ (Closer(e) = e \/ Closer(e) = e - 1)
BY MaxLateAssumption DEF Closer, Far

LEMMA WaitTimer ==
  ASSUME NEW t \in Timer
  PROVE  /\ AsyncWait(t) \in Timer
         /\ AsyncWait(t).waiting = t.waiting + 1 /\ AsyncWait(t).ready = t.ready
         /\ AsyncWait(t).expiry = t.expiry
BY DEF Timer, AsyncWait

LEMMA ExpiresTimer ==
  ASSUME NEW t \in Timer, NEW e \in Int
  PROVE  /\ ExpiresAt(t, e) \in Timer
         /\ ExpiresAt(t, e).waiting = 0 /\ ExpiresAt(t, e).ready = t.ready
         /\ ExpiresAt(t, e).expiry = e
BY DEF Timer, ExpiresAt

LEMMA StartTimer ==
  ASSUME NEW t \in Timer, NEW e \in Int
  PROVE  /\ Start(t, e) \in Timer
         /\ Start(t, e).waiting = 1 /\ Start(t, e).ready = t.ready /\ Start(t, e).expiry = e
<1>. DEFINE u == ExpiresAt(t, e)
<1>1. u \in Timer /\ u.waiting = 0 /\ u.ready = t.ready /\ u.expiry = e
  BY ExpiresTimer
<1>. HIDE DEF u
<1>2. /\ AsyncWait(u) \in Timer /\ AsyncWait(u).waiting = u.waiting + 1
      /\ AsyncWait(u).ready = u.ready /\ AsyncWait(u).expiry = u.expiry
  BY <1>1, WaitTimer
<1>. QED
  BY <1>1, <1>2 DEF Start, u

LEMMA CollectTimer ==
  ASSUME NEW t \in Timer
  PROVE  /\ Collect(t) \in Timer
         /\ Collect(t).waiting = 0 /\ Collect(t).ready = t.ready + t.waiting
         /\ Collect(t).expiry = t.expiry
<1>. DEFINE n == t.ready + t.waiting
            u == [t EXCEPT !.ready = n]
<1>1. n \in Nat
  BY DEF Timer
<1>. HIDE DEF n
<1>2. u \in Timer /\ u.ready = n /\ u.expiry = t.expiry
  BY <1>1 DEF Timer
<1>3. Collect(t) = [u EXCEPT !.waiting = 0]
  BY DEF Collect, n, Timer
<1>. HIDE DEF u
<1>4. [u EXCEPT !.waiting = 0] \in Timer /\ [u EXCEPT !.waiting = 0].waiting = 0
      /\ [u EXCEPT !.waiting = 0].ready = u.ready /\ [u EXCEPT !.waiting = 0].expiry = u.expiry
  BY <1>2 DEF Timer
<1>. QED
  BY <1>2, <1>3, <1>4 DEF n

LEMMA ReturnTimer ==
  ASSUME NEW t \in Timer
  PROVE  /\ t.ready > 0 => Return(t) \in Timer
         /\ Return(t).waiting = t.waiting /\ Return(t).ready = t.ready - 1
         /\ Return(t).expiry = t.expiry
BY DEF Timer, Return

LEMMA TockTimer ==
  ASSUME NEW t \in Timer
  PROVE  /\ Tock(t) \in Timer
         /\ Tock(t).waiting = t.waiting /\ Tock(t).ready = t.ready
         /\ Tock(t).expiry = Closer(t.expiry)
<1>1. Closer(t.expiry) \in Int
  BY TimerFields, CloserInt
<1>. QED
  BY <1>1 DEF Timer, Tock

LEMMA CancelTimer ==
  ASSUME NEW t \in Timer
  PROVE  Cancel(t) \in Timer /\ Cancel(t).ready = t.ready
BY DEF Timer, Cancel

----------------------------------------------------------------------------
(* Sequences of packets *)

LEMMA FunctionIsSeq ==
  ASSUME NEW n \in Nat, NEW S, NEW f \in [1..n -> S]
  PROVE  f \in Seq(S) /\ Len(f) = n
<1>1. f \in Seq(S)
  BY SeqDef
<1>2. 1..Len(f) = 1..n /\ Len(f) \in Nat
  BY <1>1, LenProperties
<1>. QED
  BY <1>1, <1>2

LEMMA Regroup ==
  ASSUME NEW x \in Seq(Nat), NEW y \in Seq(Nat), NEW z \in Seq(Nat)
  PROVE  (x \o y) \o z = x \o (y \o z)
BY ConcatAssociative, SMTT(30)

LEMMA NumbersSeq ==
  ASSUME NEW q \in Seq(Entry)
  PROVE  /\ Numbers(q) \in Seq(Nat) /\ Len(Numbers(q)) = Len(q)
         /\ \A i \in 1..Len(q) : Numbers(q)[i] = q[i].id
<1>1. Len(q) \in Nat /\ \A i \in 1..Len(q) : q[i] \in Entry
  BY LenProperties, ElementOfSeq
<1>2. \A i \in 1..Len(q) : q[i].id \in Nat
  BY <1>1 DEF Entry
<1>3. Numbers(q) \in [1..Len(q) -> Nat]
  BY <1>2 DEF Numbers
<1>4. \A i \in 1..Len(q) : Numbers(q)[i] = q[i].id
  BY DEF Numbers
<1>. QED
  BY <1>1, <1>3, <1>4, FunctionIsSeq

LEMMA DueCounts ==
  ASSUME NEW q \in Seq(Entry)
  PROVE  DueCount(q) \in 0..Len(q)
<1>1. Len(q) \in Nat
  BY LenProperties
<1>2. IsFiniteSet(1..Len(q)) /\ Cardinality(1..Len(q)) = Len(q)
  <2>1. /\ IsFiniteSet(1..Len(q))
        /\ Cardinality(1..Len(q)) = IF 1 > Len(q) THEN 0 ELSE Len(q) - 1 + 1
    BY <1>1, FS_Interval
  <2>. QED
    BY <1>1, <2>1
<1>. DEFINE D == {n \in 1..Len(q) : \A i \in 1..n : Deadline(q[i]) <= 0}
<1>3. D \in SUBSET (1..Len(q))
  OBVIOUS
<1>. HIDE DEF D
<1>4. IsFiniteSet(D) /\ Cardinality(D) <= Len(q)
  BY <1>2, <1>3, FS_Subset
<1>5. Cardinality(D) \in Nat
  BY <1>4, FS_CardinalityType
<1>6. DueCount(q) = Cardinality(D)
  BY DEF DueCount, D
<1>. QED
  BY <1>1, <1>4, <1>5, <1>6

(* What is taken from the front of a queue and what stays are the queue. *)
LEMMA Parts ==
  ASSUME NEW q \in Seq(Entry), NEW n \in 0..Len(q)
  PROVE  /\ SubSeq(q, 1, n) \in Seq(Entry) /\ SubSeq(q, n + 1, Len(q)) \in Seq(Entry)
         /\ Numbers(SubSeq(q, 1, n)) \o Numbers(SubSeq(q, n + 1, Len(q))) = Numbers(q)
<1>0. Len(q) \in Nat /\ \A i \in 1..Len(q) : q[i] \in Entry
  BY LenProperties, ElementOfSeq
<1>. DEFINE a == SubSeq(q, 1, n)
            b == SubSeq(q, n + 1, Len(q))
<1>1. /\ a \in Seq(Entry) /\ Len(a) = n
      /\ \A i \in 1..n : a[i] = q[i]
  <2>1. \A i \in 1..n : q[i] \in Entry
    BY <1>0
  <2>2. /\ SubSeq(q, 1, n) \in Seq(Entry)
        /\ Len(SubSeq(q, 1, n)) = IF 1 <= n THEN n - 1 + 1 ELSE 0
        /\ \A i \in 1..n - 1 + 1 : SubSeq(q, 1, n)[i] = q[1 + i - 1]
    BY <1>0, <2>1, SubSeqProperties
  <2>. QED
    BY <1>0, <2>2
<1>2. /\ b \in Seq(Entry) /\ Len(b) = Len(q) - n
      /\ \A i \in 1..Len(q) - n : b[i] = q[n + i]
  <2>1. \A i \in n + 1..Len(q) : q[i] \in Entry
    BY <1>0
  <2>2. /\ SubSeq(q, n + 1, Len(q)) \in Seq(Entry)
        /\ Len(SubSeq(q, n + 1, Len(q))) = IF n + 1 <= Len(q) THEN Len(q) - (n + 1) + 1 ELSE 0
        /\ \A i \in 1..Len(q) - (n + 1) + 1 : SubSeq(q, n + 1, Len(q))[i] = q[(n + 1) + i - 1]
    BY <1>0, <2>1, SubSeqProperties
  <2>3. Len(q) - (n + 1) + 1 = Len(q) - n /\ \A i \in 1..Len(q) - n : (n + 1) + i - 1 = n + i
    BY <1>0
  <2>4. Len(b) = Len(q) - n
    <3>1. CASE n + 1 <= Len(q)
      BY <2>2, <2>3, <3>1
    <3>2. CASE ~ (n + 1 <= Len(q))
      <4>1. Len(q) - n = 0
        BY <1>0, <3>2
      <4>. QED
        BY <2>2, <3>2, <4>1
    <3>. QED
      BY <3>1, <3>2
  <2>5. ASSUME NEW i \in 1..Len(q) - n
        PROVE  b[i] = q[n + i]
    BY <2>2, <2>3
  <2>. QED
    BY <2>2, <2>4, <2>5
<1>. HIDE DEF a, b
<1>3. /\ Numbers(a) \in Seq(Nat) /\ Len(Numbers(a)) = n
      /\ \A i \in 1..n : Numbers(a)[i] = q[i].id
  BY <1>1, NumbersSeq
<1>4. /\ Numbers(b) \in Seq(Nat) /\ Len(Numbers(b)) = Len(q) - n
      /\ \A i \in 1..Len(q) - n : Numbers(b)[i] = q[n + i].id
  BY <1>2, NumbersSeq
<1>5. /\ Numbers(a) \o Numbers(b) \in Seq(Nat)
      /\ Len(Numbers(a) \o Numbers(b)) = n + (Len(q) - n)
      /\ \A i \in 1..n + (Len(q) - n) :
           (Numbers(a) \o Numbers(b))[i] = IF i <= n THEN Numbers(a)[i] ELSE Numbers(b)[i - n]
  BY <1>3, <1>4, ConcatProperties
<1>6. n + (Len(q) - n) = Len(q)
  BY <1>0
<1>7. ASSUME NEW i \in 1..Len(q)
      PROVE  (Numbers(a) \o Numbers(b))[i] = Numbers(q)[i]
  <2>1. Numbers(q)[i] = q[i].id
    BY NumbersSeq
  <2>2. CASE i <= n
    BY <1>0, <1>3, <1>5, <1>6, <2>1, <2>2
  <2>3. CASE ~ (i <= n)
    <3>1. i - n \in 1..Len(q) - n /\ n + (i - n) = i
      BY <1>0, <2>3
    <3>2. Numbers(b)[i - n] = q[n + (i - n)].id
      BY <1>4, <3>1
    <3>. QED
      BY <1>5, <1>6, <2>1, <2>3, <3>1, <3>2
  <2>. QED
    BY <2>2, <2>3
<1>8. Numbers(a) \o Numbers(b) = Numbers(q)
  <2>1. Numbers(q) \in Seq(Nat) /\ Len(Numbers(q)) = Len(q)
    BY NumbersSeq
  <2>. QED
    BY <1>5, <1>6, <1>7, <2>1, SeqEqual
<1>. QED
  BY <1>1, <1>2, <1>8 DEF a, b

(* A packet grows older and stays where and what it is. *)
LEMMA OlderEntry ==
  ASSUME NEW e \in Entry
  PROVE  /\ Older(e) \in Entry /\ Older(e).id = e.id
         /\ Older(e).age <= e.age + 1 /\ e.age \in Nat /\ Older(e).age \in Nat
<1>. DEFINE n == IF e.age < MaxAge THEN e.age + 1 ELSE e.age
<1>1. n \in 0..MaxAge /\ n <= e.age + 1 /\ e.age \in Nat /\ n \in Nat
  BY FixedDelayAssumption DEF Entry
<1>2. Older(e) = [e EXCEPT !.age = n]
  BY DEF Older
<1>. HIDE DEF n
<1>. QED
  BY <1>1, <1>2 DEF Entry

LEMMA OlderQueue ==
  ASSUME NEW q \in Seq(Entry)
  PROVE  LET o == [i \in DOMAIN q |-> Older(q[i])]
         IN  /\ o \in Seq(Entry) /\ Len(o) = Len(q)
             /\ \A i \in 1..Len(q) : o[i] = Older(q[i])
             /\ Numbers(o) = Numbers(q)
<1>. DEFINE o == [i \in DOMAIN q |-> Older(q[i])]
<1>0. Len(q) \in Nat /\ DOMAIN q = 1..Len(q) /\ \A i \in 1..Len(q) : q[i] \in Entry
  BY LenProperties, ElementOfSeq
<1>1. o \in [1..Len(q) -> Entry] /\ \A i \in 1..Len(q) : o[i] = Older(q[i])
  BY <1>0, OlderEntry
<1>2. o \in Seq(Entry) /\ Len(o) = Len(q)
  <2>. HIDE DEF o
  <2>. QED
    BY <1>0, <1>1, FunctionIsSeq
<1>3. Numbers(o) = Numbers(q)
  <2>1. \A i \in 1..Len(q) : o[i].id = q[i].id
    BY <1>0, <1>1, OlderEntry
  <2>. HIDE DEF o
  <2>2. \A i \in 1..Len(q) : Numbers(o)[i] = Numbers(q)[i]
    BY <1>2, <2>1, NumbersSeq
  <2>. QED
    BY <1>2, <2>2, NumbersSeq, SeqEqual
<1>. QED
  BY <1>1, <1>2, <1>3

----------------------------------------------------------------------------
(* The actions *)

LEMMA Cases ==
  ASSUME [Next]_vars
  PROVE  \/ Fire \/ Tick \/ SetTimeout
         \/ (\E s \in Sides : Receive(s)) \/ (\E s \in Sides : Process(s))
         \/ (\E s \in Sides : ReadFront(s)) \/ (\E d \in Delays : SetDelay(d))
         \/ UNCHANGED vars
BY DEF Next, Packet, Change, Message

LEMMA Types ==
  ASSUME TypeOK, NEW s \in Sides
  PROVE  /\ packet_queue[s] \in Seq(Entry) /\ timer[s] \in Timer
         /\ received[s] \in Nat /\ sent[s] \in Seq(Nat) /\ delay \in Nat
         /\ All(s) \in Seq(Nat)
<1>1. /\ packet_queue[s] \in Seq(Entry) /\ timer[s] \in Timer
      /\ received[s] \in Nat /\ sent[s] \in Seq(Nat) /\ delay \in Nat
  BY FixedDelayAssumption DEF TypeOK, Far
<1>2. Numbers(packet_queue[s]) \in Seq(Nat)
  BY <1>1, NumbersSeq
<1>. QED
  BY <1>1, <1>2, ConcatProperties DEF All

(* A packet received goes to the end of what is sent, or of what is queued; in
   an empty queue it has the timer set for it. *)
LEMMA Receives ==
  ASSUME TypeOK, NEW s \in Sides, Receive(s)
  PROVE  /\ received' = [received EXCEPT ![s] = received[s] + 1]
         /\ packet_queue' \in [Sides -> Seq(Entry)] /\ sent' \in [Sides -> Seq(Nat)]
         /\ timer' \in [Sides -> Timer]
         /\ \A t \in Sides \ {s} : /\ packet_queue'[t] = packet_queue[t]
                                  /\ sent'[t] = sent[t] /\ timer'[t] = timer[t]
         /\ \/ /\ delay = 0
               /\ sent'[s] = Append(sent[s], received[s] + 1)
               /\ packet_queue'[s] = packet_queue[s] /\ timer'[s] = timer[s]
            \/ /\ delay # 0
               /\ sent'[s] = sent[s] /\ packet_queue'[s] # <<>>
               /\ Numbers(packet_queue'[s]) = Append(Numbers(packet_queue[s]), received[s] + 1)
               /\ ~ Empty(s) => /\ timer'[s] = timer[s]
                               /\ Head(packet_queue'[s]) = Head(packet_queue[s])
               /\ Empty(s) => /\ timer'[s].waiting = 1 /\ timer'[s].expiry = delay
                             /\ Head(packet_queue'[s]).age = 0
         /\ UNCHANGED <<delay, changing, front>>
<1>. DEFINE r == received[s] + 1
            e == [id |-> r, age |-> 0]
            q == packet_queue[s]
<1>0. /\ q \in Seq(Entry) /\ timer[s] \in Timer /\ r \in Nat /\ sent[s] \in Seq(Nat)
      /\ delay \in Int
  BY Types
<1>1. e \in Entry /\ e.id = r /\ e.age = 0
  BY <1>0, FixedDelayAssumption DEF Entry
<1>2. received' = [received EXCEPT ![s] = r] /\ received'[s] = r
  BY DEF Receive, TypeOK
<1>3. UNCHANGED <<delay, changing, front>>
  BY DEF Receive
<1>4. CASE delay = 0
  <2>1. sent' = [sent EXCEPT ![s] = Append(sent[s], r)] /\ UNCHANGED <<packet_queue, timer>>
    BY <1>2, <1>4 DEF Receive
  <2>2. Append(sent[s], r) \in Seq(Nat)
    BY <1>0, AppendProperties
  <2>. HIDE DEF r
  <2>3. /\ sent' \in [Sides -> Seq(Nat)] /\ sent'[s] = Append(sent[s], r)
        /\ \A t \in Sides \ {s} : sent'[t] = sent[t]
    BY <2>1, <2>2 DEF TypeOK
  <2>4. packet_queue' = packet_queue /\ timer' = timer
    BY <2>1
  <2>. QED
    BY <1>2, <1>3, <1>4, <2>3, <2>4 DEF TypeOK, r
<1>5. CASE delay # 0
  <2>. HIDE DEF r, e, q
  <2>1. /\ packet_queue' = [packet_queue EXCEPT ![s] = Append(q, e)]
        /\ timer' = IF q = <<>> THEN [timer EXCEPT ![s] = Start(timer[s], delay)] ELSE timer
        /\ sent' = sent
    BY <1>2, <1>5 DEF Receive, Empty, q, e
  <2>2. /\ Append(q, e) \in Seq(Entry) /\ Append(q, e) # <<>>
        /\ Len(Append(q, e)) = Len(q) + 1
        /\ \A i \in 1..Len(q) : Append(q, e)[i] = q[i]
        /\ Append(q, e)[Len(q) + 1] = e
    BY <1>0, <1>1, AppendProperties
  <2>3. Head(Append(q, e)) = IF q = <<>> THEN e ELSE Head(q)
    BY <1>0, HeadTailAppend
  <2>4. /\ Start(timer[s], delay) \in Timer /\ Start(timer[s], delay).waiting = 1
        /\ Start(timer[s], delay).expiry = delay
    BY <1>0, StartTimer
  <2>5. Numbers(Append(q, e)) = Append(Numbers(q), r)
    <3>1. /\ Numbers(q) \in Seq(Nat) /\ Len(Numbers(q)) = Len(q) /\ Len(q) \in Nat
          /\ \A i \in 1..Len(q) : Numbers(q)[i] = q[i].id
      BY <1>0, NumbersSeq, LenProperties
    <3>2. /\ Numbers(Append(q, e)) \in Seq(Nat) /\ Len(Numbers(Append(q, e))) = Len(q) + 1
          /\ \A i \in 1..Len(q) + 1 : Numbers(Append(q, e))[i] = Append(q, e)[i].id
      BY <2>2, NumbersSeq
    <3>3. /\ Append(Numbers(q), r) \in Seq(Nat) /\ Len(Append(Numbers(q), r)) = Len(q) + 1
          /\ \A i \in 1..Len(q) : Append(Numbers(q), r)[i] = Numbers(q)[i]
          /\ Append(Numbers(q), r)[Len(q) + 1] = r
      BY <1>0, <3>1, AppendProperties
    <3>4. ASSUME NEW i \in 1..Len(q) + 1
          PROVE  Numbers(Append(q, e))[i] = Append(Numbers(q), r)[i]
      <4>1. CASE i \in 1..Len(q)
        BY <2>2, <3>1, <3>2, <3>3, <4>1
      <4>2. CASE i = Len(q) + 1
        BY <1>1, <2>2, <3>2, <3>3, <4>2
      <4>. QED
        BY <3>1, <4>1, <4>2
    <3>. QED
      BY <3>2, <3>3, <3>4, SeqEqual
  <2>6. /\ packet_queue' \in [Sides -> Seq(Entry)] /\ packet_queue'[s] = Append(q, e)
        /\ \A t \in Sides \ {s} : packet_queue'[t] = packet_queue[t]
    BY <2>1, <2>2 DEF TypeOK
  <2>7. /\ timer' \in [Sides -> Timer]
        /\ \A t \in Sides \ {s} : timer'[t] = timer[t]
        /\ timer'[s] = IF q = <<>> THEN Start(timer[s], delay) ELSE timer[s]
    BY <2>1, <2>4 DEF TypeOK
  <2>8. q = packet_queue[s] /\ (Empty(s) <=> q = <<>>)
    BY DEF q, Empty
  <2>9. sent' \in [Sides -> Seq(Nat)] /\ sent'[s] = sent[s]
        /\ \A t \in Sides \ {s} : sent'[t] = sent[t]
    BY <2>1 DEF TypeOK
  <2>10. /\ ~ Empty(s) => /\ timer'[s] = timer[s]
                         /\ Head(packet_queue'[s]) = Head(packet_queue[s])
         /\ Empty(s) => /\ timer'[s].waiting = 1 /\ timer'[s].expiry = delay
                       /\ Head(packet_queue'[s]).age = 0
    BY <1>1, <2>3, <2>4, <2>6, <2>7, <2>8
  <2>11. packet_queue'[s] # <<>> /\ Numbers(packet_queue'[s]) = Append(Numbers(packet_queue[s]), r)
    BY <2>2, <2>5, <2>6, <2>8
  <2>. QED
    BY <1>2, <1>3, <1>5, <2>6, <2>7, <2>9, <2>10, <2>11 DEF r
<1>. QED
  BY <1>4, <1>5

(* processQueue moves packets from the front of the queue to the end of what is
   sent, and sets the timer for the packet that is then at the front. *)
LEMMA Processes ==
  ASSUME TypeOK, NEW s \in Sides, Process(s)
  PROVE  /\ packet_queue' \in [Sides -> Seq(Entry)] /\ sent' \in [Sides -> Seq(Nat)]
         /\ timer' \in [Sides -> Timer]
         /\ \A t \in Sides \ {s} : /\ packet_queue'[t] = packet_queue[t]
                                  /\ sent'[t] = sent[t] /\ timer'[t] = timer[t]
         /\ sent'[s] \o Numbers(packet_queue'[s]) = All(s)
         /\ packet_queue'[s] # <<>> => /\ timer'[s].waiting = 1
                                      /\ timer'[s].expiry = delay - Head(packet_queue'[s]).age
         /\ timer'[s].ready = timer[s].ready - 1
         /\ UNCHANGED <<delay, received, changing, front>>
<1>. DEFINE q == packet_queue[s]
            n == DueCount(q)
            go == SubSeq(q, 1, n)
            rest == SubSeq(q, n + 1, Len(q))
            done == Return(timer[s])
<1>0. q \in Seq(Entry) /\ timer[s] \in Timer /\ sent[s] \in Seq(Nat) /\ delay \in Nat
  BY Types
<1>1. n \in 0..Len(q)
  BY <1>0, DueCounts
<1>2. /\ timer[s].ready > 0
      /\ sent' = [sent EXCEPT ![s] = sent[s] \o Numbers(go)]
      /\ packet_queue' = [packet_queue EXCEPT ![s] = rest]
      /\ timer' = [timer EXCEPT ![s] = IF rest = <<>> THEN done ELSE Start(done, Deadline(Head(rest)))]
      /\ UNCHANGED <<delay, received, changing, front>>
  BY DEF Process
<1>3. go \in Seq(Entry) /\ rest \in Seq(Entry) /\ Numbers(go) \o Numbers(rest) = Numbers(q)
  <2>. HIDE DEF q, n
  <2>. QED
    BY <1>0, <1>1, Parts
<1>4. done \in Timer /\ done.ready = timer[s].ready - 1
  BY <1>0, <1>2, ReturnTimer
<1>. HIDE DEF go, rest, done, n, q
<1>5. Numbers(go) \in Seq(Nat) /\ Numbers(rest) \in Seq(Nat)
  BY <1>3, NumbersSeq
<1>6. /\ sent' \in [Sides -> Seq(Nat)] /\ sent'[s] = sent[s] \o Numbers(go)
      /\ \A t \in Sides \ {s} : sent'[t] = sent[t]
  <2>1. sent[s] \o Numbers(go) \in Seq(Nat)
    BY <1>0, <1>5, ConcatProperties
  <2>. QED
    BY <1>2, <2>1 DEF TypeOK
<1>7. /\ packet_queue' \in [Sides -> Seq(Entry)] /\ packet_queue'[s] = rest
      /\ \A t \in Sides \ {s} : packet_queue'[t] = packet_queue[t]
  BY <1>2, <1>3 DEF TypeOK
<1>8. ASSUME rest # <<>>
      PROVE  /\ Deadline(Head(rest)) = delay - Head(rest).age
             /\ Start(done, Deadline(Head(rest))) \in Timer
             /\ Start(done, Deadline(Head(rest))).waiting = 1
             /\ Start(done, Deadline(Head(rest))).ready = done.ready
             /\ Start(done, Deadline(Head(rest))).expiry = Deadline(Head(rest))
  <2>1. Head(rest) \in Entry
    BY <1>3, <1>8, HeadTailProperties
  <2>2. Head(rest).age \in Int
    BY <2>1 DEF Entry
  <2>3. Deadline(Head(rest)) \in Int /\ Deadline(Head(rest)) = delay - Head(rest).age
    BY <1>0, <2>2 DEF Deadline
  <2>. QED
    BY <1>4, <2>3, StartTimer
<1>9. /\ timer' \in [Sides -> Timer]
      /\ \A t \in Sides \ {s} : timer'[t] = timer[t]
      /\ timer'[s] = IF rest = <<>> THEN done ELSE Start(done, Deadline(Head(rest)))
  <2>. DEFINE v == IF rest = <<>> THEN done ELSE Start(done, Deadline(Head(rest)))
  <2>1. v \in Timer
    BY <1>4, <1>8
  <2>2. timer' = [timer EXCEPT ![s] = v]
    BY <1>2
  <2>. HIDE DEF v
  <2>3. timer' \in [Sides -> Timer] /\ (\A t \in Sides \ {s} : timer'[t] = timer[t]) /\ timer'[s] = v
    BY <2>1, <2>2 DEF TypeOK
  <2>. QED
    BY <2>3 DEF v
<1>10. sent'[s] \o Numbers(packet_queue'[s]) = All(s)
  <2>. DEFINE x == sent[s]
              y == Numbers(go)
              z == Numbers(rest)
  <2>0. x \in Seq(Nat) /\ y \in Seq(Nat) /\ z \in Seq(Nat)
    BY <1>0, <1>5
  <2>. HIDE DEF x, y, z
  <2>1. (x \o y) \o z = x \o (y \o z)
    BY <2>0, Regroup
  <2>. QED
    BY <1>3, <1>6, <1>7, <2>1 DEF All, q, x, y, z
<1>. QED
  BY <1>2, <1>4, <1>6, <1>7, <1>8, <1>9, <1>10

(* Time passes for the packets as it does for the timers. *)
LEMMA Ticks ==
  ASSUME TypeOK, Tick
  PROVE  /\ packet_queue' \in [Sides -> Seq(Entry)] /\ timer' \in [Sides -> Timer]
         /\ \A s \in Sides :
              /\ Numbers(packet_queue'[s]) = Numbers(packet_queue[s])
              /\ packet_queue'[s] = <<>> <=> packet_queue[s] = <<>>
              /\ packet_queue[s] # <<>> => Head(packet_queue'[s]) = Older(Head(packet_queue[s]))
              /\ timer'[s] = Tock(timer[s])
         /\ UNCHANGED <<delay, received, sent, changing>>
         /\ front' \in [side : Sides, expiry : Int] \cup {NoFront}
         /\ front' = NoFront <=> front = NoFront
         /\ front # NoFront => front'.side = front.side /\ front'.expiry = Closer(front.expiry)
<1>1. UNCHANGED <<delay, received, sent, changing>>
  BY DEF Tick
<1>5. /\ front' \in [side : Sides, expiry : Int] \cup {NoFront}
      /\ front' = NoFront <=> front = NoFront
      /\ front # NoFront => front'.side = front.side /\ front'.expiry = Closer(front.expiry)
  <2>1. front' = [front EXCEPT !.expiry = Closer(front.expiry)]
    BY DEF Tick
  <2>2. CASE front = NoFront
    <3>1. Closer(Far) = Far
      BY DEF Closer
    <3>. QED
      BY <2>1, <2>2, <3>1 DEF NoFront
  <2>3. CASE front # NoFront
    <3>1. front \in [side : Sides, expiry : Int]
      BY <2>3 DEF TypeOK
    <3>2. Closer(front.expiry) \in Int
      BY <3>1, CloserInt
    <3>3. front' \in [side : Sides, expiry : Int] /\ front'.side = front.side
          /\ front'.expiry = Closer(front.expiry)
      BY <2>1, <3>1, <3>2
    <3>4. front' # NoFront
      BY <3>1, <3>3, FixedDelayAssumption DEF NoFront
    <3>. QED
      BY <2>3, <3>3, <3>4
  <2>. QED
    BY <2>2, <2>3
<1>2. /\ timer' \in [Sides -> Timer] /\ \A s \in Sides : timer'[s] = Tock(timer[s])
  <2>1. \A s \in Sides : Tock(timer[s]) \in Timer
    BY Types, TockTimer
  <2>. QED
    BY <2>1 DEF Tick
<1>3. ASSUME NEW s \in Sides
      PROVE  /\ packet_queue'[s] \in Seq(Entry)
             /\ Numbers(packet_queue'[s]) = Numbers(packet_queue[s])
             /\ packet_queue'[s] = <<>> <=> packet_queue[s] = <<>>
             /\ packet_queue[s] # <<>> => Head(packet_queue'[s]) = Older(Head(packet_queue[s]))
  <2>. DEFINE q == packet_queue[s]
              o == [i \in DOMAIN q |-> Older(q[i])]
  <2>1. q \in Seq(Entry) /\ packet_queue'[s] = o
    BY Types DEF Tick
  <2>. HIDE DEF q
  <2>2. /\ o \in Seq(Entry) /\ Len(o) = Len(q) /\ Numbers(o) = Numbers(q)
        /\ \A i \in 1..Len(q) : o[i] = Older(q[i])
    BY <2>1, OlderQueue
  <2>. HIDE DEF o
  <2>3. o = <<>> <=> q = <<>>
    BY <2>1, <2>2, EmptySeq
  <2>4. q # <<>> => Head(o) = Older(Head(q))
    <3>. SUFFICES ASSUME q # <<>> PROVE Head(o) = Older(Head(q))
      OBVIOUS
    <3>1. 1 \in 1..Len(q)
      BY <2>1, EmptySeq
    <3>2. Head(o) = o[1] /\ Head(q) = q[1]
      BY <2>1, <2>2, <2>3
    <3>. QED
      BY <2>2, <3>1, <3>2
  <2>. QED
    BY <2>1, <2>2, <2>3, <2>4 DEF q
<1>4. packet_queue' \in [Sides -> Seq(Entry)]
  <2>1. packet_queue' = [s \in Sides |-> packet_queue'[s]]
    BY DEF Tick
  <2>. QED
    BY <1>3, <2>1
<1>. QED
  BY <1>1, <1>2, <1>3, <1>4, <1>5

(* The reactor collects the waits of the timers that are due. *)
LEMMA Fires ==
  ASSUME TypeOK, Fire
  PROVE  /\ timer' \in [Sides -> Timer]
         /\ \A s \in Sides :
              timer'[s] = timer[s] \/ timer'[s].ready > 0
         /\ UNCHANGED <<delay, packet_queue, received, sent, changing, front>>
<1>1. ASSUME NEW s \in Sides
      PROVE  /\ Collect(timer[s]) \in Timer
             /\ Due(timer[s]) => Collect(timer[s]).ready > 0
  <2>1. timer[s] \in Timer /\ timer[s].ready \in Nat /\ timer[s].waiting \in Nat
    BY Types, TimerFields
  <2>. QED
    BY <2>1, CollectTimer DEF Due
<1>2. timer' = [s \in Sides |-> IF Due(timer[s]) THEN Collect(timer[s]) ELSE timer[s]]
  BY DEF Fire
<1>3. timer' \in [Sides -> Timer]
  BY <1>1, <1>2, Types
<1>4. \A s \in Sides : timer'[s] = timer[s] \/ timer'[s].ready > 0
  BY <1>1, <1>2
<1>. QED
  BY <1>3, <1>4 DEF Fire

(* The change handler reads the front of a queue, and then sets the timer. *)
LEMMA ReadsFront ==
  ASSUME TypeOK, NEW s \in Sides, ReadFront(s)
  PROVE  /\ front = NoFront /\ front' # NoFront
         /\ front'.side = s /\ front' \in [side : Sides, expiry : Int]
         /\ ~ Empty(s) => front'.expiry = Deadline(Head(packet_queue[s]))
         /\ timer' \in [Sides -> Timer]
         /\ \A t \in Sides \ {s} : timer'[t] = timer[t]
         /\ changing' = changing \ {s}
         /\ UNCHANGED <<delay, packet_queue, received, sent>>
<1>1. PICK e \in FrontDeadlines(packet_queue[s]) : front' = [side |-> s, expiry |-> e]
  BY DEF ReadFront
<1>2. e \in Int
  <2>1. CASE packet_queue[s] = <<>>
    BY <2>1, MaxLateAssumption DEF FrontDeadlines, Far
  <2>2. CASE packet_queue[s] # <<>>
    <3>1. Head(packet_queue[s]) \in Entry
      BY <2>2, Types, HeadTailProperties
    <3>2. Head(packet_queue[s]).age \in Int /\ delay \in Int
      BY <3>1, Types DEF Entry
    <3>. QED
      BY <2>2, <3>2 DEF FrontDeadlines, Deadline
  <2>. QED
    BY <2>1, <2>2
<1>3. ~ Empty(s) => e = Deadline(Head(packet_queue[s]))
  BY DEF FrontDeadlines, Empty
<1>4. front'.side = s /\ front'.expiry = e /\ front' \in [side : Sides, expiry : Int]
  BY <1>1, <1>2
<1>5. front' # NoFront
  BY <1>4, FixedDelayAssumption DEF NoFront
<1>6. timer' \in [Sides -> Timer] /\ \A t \in Sides \ {s} : timer'[t] = timer[t]
  BY Types, CancelTimer DEF ReadFront, TypeOK
<1>. QED
  BY <1>3, <1>4, <1>5, <1>6 DEF ReadFront

LEMMA SetsTimeout ==
  ASSUME TypeOK, SetTimeout
  PROVE  /\ front # NoFront /\ front' = NoFront /\ front.side \in Sides
         /\ timer' \in [Sides -> Timer]
         /\ timer'[front.side].waiting = 1 /\ timer'[front.side].expiry = front.expiry
         /\ \A t \in Sides \ {front.side} : timer'[t] = timer[t]
         /\ UNCHANGED <<delay, packet_queue, received, sent, changing>>
<1>1. front # NoFront /\ front.side \in Sides /\ front.expiry \in Int
  BY DEF SetTimeout, TypeOK
<1>. DEFINE f == front.side
            v == Start(timer[f], front.expiry)
<1>2. v \in Timer /\ v.waiting = 1 /\ v.expiry = front.expiry
  BY <1>1, Types, StartTimer
<1>3. timer' = [timer EXCEPT ![f] = v]
  BY DEF SetTimeout
<1>. HIDE DEF v
<1>4. timer' \in [Sides -> Timer] /\ timer'[f] = v /\ \A t \in Sides \ {f} : timer'[t] = timer[t]
  BY <1>1, <1>2, <1>3 DEF TypeOK
<1>. QED
  BY <1>1, <1>2, <1>4 DEF SetTimeout

----------------------------------------------------------------------------
LEMMA TypeStep ==
  ASSUME TypeOK, [Next]_vars
  PROVE  TypeOK'
<1>1. ASSUME NEW s \in Sides, Receive(s) PROVE TypeOK'
  <2>1. received' \in [Sides -> Nat]
    <3>1. received' = [received EXCEPT ![s] = received[s] + 1]
      BY <1>1, Receives
    <3>2. received[s] + 1 \in Nat
      BY Types
    <3>. QED
      BY <3>1, <3>2 DEF TypeOK
  <2>2. /\ packet_queue' \in [Sides -> Seq(Entry)] /\ sent' \in [Sides -> Seq(Nat)]
        /\ timer' \in [Sides -> Timer] /\ UNCHANGED <<delay, changing, front>>
    BY <1>1, Receives
  <2>. QED
    BY <2>1, <2>2 DEF TypeOK
<1>2. ASSUME NEW s \in Sides, Process(s) PROVE TypeOK'
  BY <1>2, Processes DEF TypeOK
<1>3. CASE Tick
  BY <1>3, Ticks DEF TypeOK
<1>4. CASE Fire
  BY <1>4, Fires DEF TypeOK
<1>5. CASE SetTimeout
  BY <1>5, SetsTimeout DEF TypeOK
<1>6. ASSUME NEW s \in Sides, ReadFront(s) PROVE TypeOK'
  BY <1>6, ReadsFront DEF TypeOK
<1>7. ASSUME NEW d \in Delays, SetDelay(d) PROVE TypeOK'
  BY <1>7 DEF SetDelay, TypeOK
<1>8. CASE UNCHANGED vars
  BY <1>8 DEF vars, TypeOK
<1>. QED
  BY <1>1, <1>2, <1>3, <1>4, <1>5, <1>6, <1>7, <1>8, Cases

LEMMA TypeInit == Init => TypeOK
<1>. SUFFICES ASSUME Init PROVE TypeOK
  OBVIOUS
<1>1. Unarmed \in Timer
  BY DEF Unarmed, Timer
<1>2. \A e \in FrontDeadlines(<<>>) : e \in Int
  BY MaxLateAssumption DEF FrontDeadlines, Far
<1>3. {Start(Unarmed, e) : e \in FrontDeadlines(<<>>)} \subseteq Timer
  BY <1>1, <1>2, StartTimer
<1>4. timer \in [Sides -> Timer]
  BY <1>3 DEF Init
<1>. QED
  BY <1>4 DEF Init, TypeOK

(* The type invariant. *)
THEOREM TypeCorrect == Spec => []TypeOK
<1>1. TypeOK /\ [Next]_vars => TypeOK'
  BY TypeStep
<1>. QED
  BY TypeInit, <1>1, PTL DEF Spec

----------------------------------------------------------------------------
(* What a step makes of the packets sent and queued in one direction: nothing,
   or it adds the packet received, in between if it is sent at once. *)
LEMMA AllSteps ==
  ASSUME TypeOK, [Next]_vars, NEW s \in Sides
  PROVE  \/ received'[s] = received[s] /\ All(s)' = All(s)
         \/ /\ received'[s] = received[s] + 1 /\ \E t \in Sides : Receive(t)
            /\ delay # 0 /\ All(s)' = Append(All(s), received[s] + 1)
         \/ /\ received'[s] = received[s] + 1 /\ \E t \in Sides : Receive(t)
            /\ delay = 0
            /\ All(s)' = Append(sent[s], received[s] + 1) \o Numbers(packet_queue[s])
<1>1. ASSUME NEW t \in Sides, Receive(t), s = t
      PROVE  \/ /\ received'[s] = received[s] + 1
                /\ delay # 0 /\ All(s)' = Append(All(s), received[s] + 1)
             \/ /\ received'[s] = received[s] + 1
                /\ delay = 0
                /\ All(s)' = Append(sent[s], received[s] + 1) \o Numbers(packet_queue[s])
  <2>1. received'[s] = received[s] + 1
    BY <1>1, Receives DEF TypeOK
  <2>2. CASE delay = 0
    BY <1>1, <2>1, <2>2, Receives DEF All
  <2>3. CASE delay # 0
    <3>. DEFINE x == sent[s]
                y == Numbers(packet_queue[s])
                r == received[s] + 1
    <3>1. x \in Seq(Nat) /\ y \in Seq(Nat) /\ r \in Nat
      BY Types, NumbersSeq
    <3>2. sent'[s] = x /\ Numbers(packet_queue'[s]) = Append(y, r)
      BY <1>1, <2>3, Receives
    <3>3. All(s) = x \o y /\ All(s)' = x \o Append(y, r)
      BY <3>2 DEF All
    <3>. HIDE DEF x, y, r
    <3>4. Append(y, r) = y \o <<r>> /\ <<r>> \in Seq(Nat)
      BY <3>1, AppendIsConcat
    <3>5. x \o (y \o <<r>>) = (x \o y) \o <<r>>
      BY <3>1, <3>4, Regroup
    <3>6. x \o y \in Seq(Nat)
      BY <3>1, ConcatProperties
    <3>7. Append(x \o y, r) = (x \o y) \o <<r>>
      BY <3>1, <3>6, AppendIsConcat
    <3>. QED
      BY <2>1, <2>3, <3>3, <3>4, <3>5, <3>7 DEF r
  <2>. QED
    BY <2>2, <2>3
<1>2. ASSUME NEW t \in Sides, Receive(t), s # t
      PROVE  received'[s] = received[s] /\ All(s)' = All(s)
  <2>1. sent'[s] = sent[s] /\ packet_queue'[s] = packet_queue[s] /\ received'[s] = received[s]
    BY <1>2, Receives DEF TypeOK
  <2>. QED
    BY <2>1 DEF All
<1>3. ASSUME NEW t \in Sides, Process(t)
      PROVE  received'[s] = received[s] /\ All(s)' = All(s)
  <2>1. CASE s = t
    BY <1>3, <2>1, Processes DEF All
  <2>2. CASE s # t
    BY <1>3, <2>2, Processes DEF All
  <2>. QED
    BY <2>1, <2>2
<1>4. CASE Tick
  BY <1>4, Ticks DEF All
<1>5. CASE Fire
  BY <1>5, Fires DEF All
<1>6. CASE SetTimeout
  BY <1>6, SetsTimeout DEF All
<1>7. CASE (\E t \in Sides : ReadFront(t)) \/ (\E d \in Delays : SetDelay(d))
  BY <1>7 DEF ReadFront, SetDelay, All
<1>8. CASE UNCHANGED vars
  BY <1>8 DEF vars, All
<1>. QED
  BY <1>1, <1>2, <1>3, <1>4, <1>5, <1>6, <1>7, <1>8, Cases

(* A packet inserted between two sequences: where it is, and where the others
   are. *)
LEMMA Inserted ==
  ASSUME NEW x \in Seq(Nat), NEW y \in Seq(Nat), NEW r \in Nat
  PROVE  LET a == x \o y
             b == Append(x, r) \o y
         IN  /\ Len(x) \in Nat /\ Len(a) \in Nat /\ Len(x) <= Len(a) /\ Len(b) = Len(a) + 1
             /\ b[Len(x) + 1] = r
             /\ \A i \in 1..Len(x) : b[i] = a[i]
             /\ \A i \in Len(x) + 1..Len(a) : b[i + 1] = a[i]
<1>. DEFINE a == x \o y
            z == Append(x, r)
<1>1. /\ a \in Seq(Nat) /\ Len(a) = Len(x) + Len(y)
      /\ \A i \in 1..Len(x) + Len(y) : a[i] = IF i <= Len(x) THEN x[i] ELSE y[i - Len(x)]
  BY ConcatProperties
<1>2. /\ z \in Seq(Nat) /\ Len(z) = Len(x) + 1
      /\ \A i \in 1..Len(x) : z[i] = x[i]
      /\ z[Len(x) + 1] = r
  BY AppendProperties
<1>. HIDE DEF z, a
<1>3. /\ Len(z \o y) = Len(z) + Len(y)
      /\ \A i \in 1..Len(z) + Len(y) : (z \o y)[i] = IF i <= Len(z) THEN z[i] ELSE y[i - Len(z)]
  BY <1>2, ConcatProperties
<1>4. Len(x) \in Nat /\ Len(y) \in Nat
  BY LenProperties
<1>5. (z \o y)[Len(x) + 1] = r
  BY <1>2, <1>3, <1>4
<1>6. ASSUME NEW i \in 1..Len(x)
      PROVE  (z \o y)[i] = a[i]
  <2>1. i \in 1..Len(x) + Len(y) /\ i \in 1..Len(z) + Len(y) /\ i <= Len(z) /\ i <= Len(x)
    BY <1>2, <1>4
  <2>. QED
    BY <1>1, <1>2, <1>3, <2>1
<1>7. ASSUME NEW i \in Len(x) + 1..Len(a)
      PROVE  (z \o y)[i + 1] = a[i]
  <2>1. /\ i \in 1..Len(x) + Len(y) /\ i + 1 \in 1..Len(z) + Len(y)
        /\ ~ (i + 1 <= Len(z)) /\ ~ (i <= Len(x)) /\ (i + 1) - Len(z) = i - Len(x)
    BY <1>1, <1>2, <1>4
  <2>2. a[i] = y[i - Len(x)]
    BY <1>1, <2>1
  <2>3. (z \o y)[i + 1] = y[(i + 1) - Len(z)]
    BY <1>3, <2>1
  <2>. QED
    BY <2>1, <2>2, <2>3
<1>8. Len(a) \in Nat /\ Len(x) <= Len(a) /\ Len(z \o y) = Len(a) + 1
  BY <1>1, <1>2, <1>3, <1>4
<1>. QED
  BY <1>4, <1>5, <1>6, <1>7, <1>8 DEF a, z

(* Sequence b is a with r put in at place k. *)
InsertedAt(b, a, k, r) ==
  /\ Len(a) \in Nat /\ k \in 1..Len(a) + 1 /\ Len(b) = Len(a) + 1
  /\ b[k] = r
  /\ \A i \in 1..k - 1 : b[i] = a[i]
  /\ \A i \in k..Len(a) : b[i + 1] = a[i]

LEMMA AllGrows ==
  ASSUME TypeOK, [Next]_vars, NEW s \in Sides
  PROVE  \/ received'[s] = received[s] /\ All(s)' = All(s)
         \/ /\ received'[s] = received[s] + 1 /\ \E t \in Sides : Receive(t)
            /\ \E k \in 1..Len(All(s)) + 1 :
                 /\ InsertedAt(All(s)', All(s), k, received[s] + 1)
                 /\ k <= Len(All(s)) => delay = 0
<1>. DEFINE a == All(s)
            r == received[s] + 1
<1>0. a \in Seq(Nat) /\ r \in Nat /\ sent[s] \in Seq(Nat) /\ Numbers(packet_queue[s]) \in Seq(Nat)
      /\ Len(a) \in Nat
  BY Types, NumbersSeq, LenProperties
<1>1. CASE /\ received'[s] = r /\ \E t \in Sides : Receive(t)
           /\ delay # 0 /\ All(s)' = Append(a, r)
  <2>. HIDE DEF a, r
  <2>1. InsertedAt(Append(a, r), a, Len(a) + 1, r)
    <3>1. /\ Len(Append(a, r)) = Len(a) + 1 /\ Append(a, r)[Len(a) + 1] = r
          /\ \A i \in 1..Len(a) : Append(a, r)[i] = a[i]
      BY <1>0, AppendProperties
    <3>2. (Len(a) + 1) - 1 = Len(a) /\ Len(a) + 1 \in 1..Len(a) + 1
          /\ \A i \in Len(a) + 1..Len(a) : FALSE
      BY <1>0
    <3>. QED
      BY <1>0, <3>1, <3>2 DEF InsertedAt
  <2>2. Len(a) + 1 \in 1..Len(a) + 1 /\ ~ (Len(a) + 1 <= Len(a))
    BY <1>0
  <2>3. \E k \in 1..Len(a) + 1 : InsertedAt(All(s)', a, k, r) /\ (k <= Len(a) => delay = 0)
    BY <1>1, <2>1, <2>2
  <2>. QED
    BY <1>1, <2>3 DEF a, r
<1>2. CASE /\ received'[s] = r /\ \E t \in Sides : Receive(t)
           /\ delay = 0 /\ All(s)' = Append(sent[s], r) \o Numbers(packet_queue[s])
  <2>. DEFINE x == sent[s]
              y == Numbers(packet_queue[s])
  <2>1. a = x \o y
    BY DEF All
  <2>. HIDE DEF a, r, x, y
  <2>2. /\ Len(x) \in Nat /\ Len(x) <= Len(a) /\ Len(Append(x, r) \o y) = Len(a) + 1
        /\ (Append(x, r) \o y)[Len(x) + 1] = r
        /\ \A i \in 1..Len(x) : (Append(x, r) \o y)[i] = a[i]
        /\ \A i \in Len(x) + 1..Len(a) : (Append(x, r) \o y)[i + 1] = a[i]
    <3>1. x \in Seq(Nat) /\ y \in Seq(Nat) /\ r \in Nat
      BY <1>0 DEF x, y
    <3>. QED
      BY <2>1, <3>1, Inserted
  <2>3. (Len(x) + 1) - 1 = Len(x) /\ Len(x) + 1 \in 1..Len(a) + 1
    BY <1>0, <2>2
  <2>4. InsertedAt(Append(x, r) \o y, a, Len(x) + 1, r)
    BY <1>0, <2>2, <2>3 DEF InsertedAt
  <2>5. \E k \in 1..Len(a) + 1 : InsertedAt(All(s)', a, k, r) /\ (k <= Len(a) => delay = 0)
    BY <1>2, <2>3, <2>4 DEF x, y
  <2>. QED
    BY <1>2, <2>5 DEF a, r
<1>. QED
  BY <1>1, <1>2, AllSteps

(* Every packet received has been sent or is queued, once
   (FixedDelayModule.cpp:44-60, 68-82). *)
LEMMA KeptStep ==
  ASSUME TypeOK, NoneLost, [Next]_vars
  PROVE  NoneLost'
<1>. SUFFICES ASSUME NEW s \in Sides
              PROVE  /\ Len(All(s)') = received'[s]
                     /\ {All(s)'[i] : i \in 1..Len(All(s)')} = 1..received'[s]
  BY DEF NoneLost
<1>. DEFINE a == All(s)
            b == All(s)'
            r == received[s]
<1>0. Len(a) = r /\ {a[i] : i \in 1..Len(a)} = 1..r /\ r \in Nat
  BY Types DEF NoneLost
<1>1. CASE received'[s] = r /\ b = a
  BY <1>0, <1>1
<1>2. ASSUME NEW k \in 1..Len(a) + 1, InsertedAt(b, a, k, r + 1), received'[s] = r + 1
      PROVE  Len(b) = received'[s] /\ {b[i] : i \in 1..Len(b)} = 1..received'[s]
  <2>. HIDE DEF a, b, r
  <2>1. Len(b) = r + 1 /\ k \in 1..r + 1 /\ b[k] = r + 1
        /\ (\A i \in 1..k - 1 : b[i] = a[i]) /\ (\A i \in k..r : b[i + 1] = a[i])
    BY <1>0, <1>2 DEF InsertedAt
  <2>2. \A i \in 1..r : a[i] \in 1..r
    BY <1>0
  <2>3. ASSUME NEW i \in 1..r + 1
        PROVE  b[i] \in 1..r + 1
    <3>1. CASE i < k
      BY <1>0, <2>1, <2>2, <3>1
    <3>2. CASE i = k
      BY <1>0, <2>1, <3>2
    <3>3. CASE i > k
      <4>1. i - 1 \in k..r /\ i - 1 \in 1..r /\ (i - 1) + 1 = i
        BY <1>0, <2>1, <3>3
      <4>2. b[(i - 1) + 1] = a[i - 1]
        BY <2>1, <4>1
      <4>3. a[i - 1] \in 1..r
        BY <2>2, <4>1
      <4>. QED
        BY <1>0, <4>1, <4>2, <4>3
    <3>. QED
      BY <2>1, <3>1, <3>2, <3>3
  <2>4. ASSUME NEW p \in 1..r + 1
        PROVE  \E i \in 1..r + 1 : b[i] = p
    <3>1. CASE p = r + 1
      BY <2>1, <3>1
    <3>2. CASE p \in 1..r
      <4>1. PICK i \in 1..r : a[i] = p
        BY <1>0, <3>2
      <4>2. CASE i < k
        BY <1>0, <2>1, <4>1, <4>2
      <4>3. CASE ~ (i < k)
        <5>1. i \in k..r /\ i + 1 \in 1..r + 1
          BY <1>0, <2>1, <4>3
        <5>. QED
          BY <2>1, <4>1, <5>1
      <4>. QED
        BY <4>2, <4>3
    <3>. QED
      BY <1>0, <3>1, <3>2
  <2>. QED
    BY <1>2, <2>1, <2>3, <2>4
<1>. QED
  BY <1>1, <1>2, AllGrows

LEMMA KeptInit == Init => NoneLost
<1>. SUFFICES ASSUME Init, NEW s \in Sides
              PROVE  /\ Len(All(s)) = received[s]
                     /\ {All(s)[i] : i \in 1..Len(All(s))} = 1..received[s]
  BY DEF NoneLost
<1>1. packet_queue[s] = <<>> /\ sent[s] = <<>> /\ received[s] = 0
  BY DEF Init
<1>2. <<>> \in Seq(Entry)
  BY EmptySeq
<1>3. Numbers(<<>>) \in Seq(Nat) /\ Len(Numbers(<<>>)) = 0
  BY <1>2, NumbersSeq, EmptySeq
<1>4. All(s) = Numbers(<<>>)
  BY <1>1, <1>3, ConcatEmptySeq DEF All
<1>. QED
  BY <1>1, <1>3, <1>4

THEOREM DelayNoneLost == Spec => []NoneLost
<1>1. TypeOK /\ NoneLost /\ [Next]_vars => NoneLost'
  BY KeptStep
<1>. QED
  BY KeptInit, <1>1, TypeCorrect, PTL DEF Spec

----------------------------------------------------------------------------
(* With the history. *)
LEMMA MCCases ==
  ASSUME [MCNext]_<<vars, history>>
  PROVE  /\ [Next]_vars
         /\ \/ /\ Packet
               /\ raced' = (raced \/ ~Unchanging)
               /\ express' = [s \in Sides |-> express[s] \cup
                                IF delay = 0 /\ received'[s] > received[s]
                                  THEN {received'[s]} ELSE {}]
               /\ late' = late
            \/ Tick /\ late' = (late \/ ~Unchanging \/ HandlerDue) /\ UNCHANGED <<raced, express>>
            \/ (Change \/ Message) /\ UNCHANGED history
            \/ UNCHANGED vars /\ UNCHANGED history
BY DEF MCNext, Next

LEMMA MCImplementsSpec == MCSpec => Spec
<1>1. MCInit => Init
  BY DEF MCInit
<1>2. [MCNext]_<<vars, history>> => [Next]_vars
  BY MCCases
<1>. QED
  BY <1>1, <1>2, PTL DEF MCSpec, Spec

(* Packets are added to express and never taken from it, and a packet received
   while the delay is 0 is added. *)
LEMMA ExpressGrows ==
  ASSUME TypeOK, [MCNext]_<<vars, history>>, NEW s \in Sides
  PROVE  /\ express[s] \subseteq express'[s] \/ express' = express
         /\ (\E t \in Sides : Receive(t)) /\ received'[s] = received[s] + 1 /\ delay = 0
              => received'[s] \in express'[s]
<1>1. express[s] \subseteq express'[s] \/ express' = express
  BY MCCases DEF history
<1>2. ASSUME NEW t \in Sides, Receive(t), received'[s] = received[s] + 1, delay = 0
      PROVE  received'[s] \in express'[s]
  <2>1. received'[s] > received[s] /\ received[s] \in Nat
    BY <1>2, Types
  <2>2. ~ Tick /\ ~ UNCHANGED vars /\ ~ (Change \/ Message)
    BY <2>1 DEF Tick, vars, Change, Message, SetTimeout, ReadFront, SetDelay
  <2>. QED
    BY <1>2, <2>1, <2>2, MCCases
<1>. QED
  BY <1>1, <1>2

(* Packets leave in the order they came, but for those that came while the delay
   was 0, which are sent past the others (FixedDelayModule.cpp:45): a packet is
   put in anywhere but at the end only if it is one of these. *)
LEMMA FifoStep ==
  ASSUME TypeOK, NoneLost, Fifo, [MCNext]_<<vars, history>>
  PROVE  Fifo'
<1>. SUFFICES ASSUME NEW s \in Sides,
                     NEW i \in 1..Len(All(s)'), NEW j \in 1..Len(All(s)'), i < j,
                     All(s)'[i] \notin express'[s], All(s)'[j] \notin express'[s]
              PROVE  All(s)'[i] < All(s)'[j]
  BY DEF Fifo
<1>. DEFINE a == All(s)
            b == All(s)'
            r == received[s]
<1>0. /\ Len(a) = r /\ r \in Nat /\ \A n \in 1..r : a[n] \in 1..r
      /\ \A n, m \in 1..r : n < m /\ a[n] \notin express[s] /\ a[m] \notin express[s] => a[n] < a[m]
  BY Types DEF NoneLost, Fifo
<1>1. express[s] \subseteq express'[s]
  BY ExpressGrows
<1>2. CASE b = a
  BY <1>0, <1>1, <1>2
<1>3. ASSUME received'[s] = r + 1, \E t \in Sides : Receive(t),
             NEW k \in 1..Len(a) + 1, InsertedAt(b, a, k, r + 1), k <= Len(a) => delay = 0
      PROVE  b[i] < b[j]
  <2>1. k \notin {i, j} \/ k = r + 1
    <3>1. delay = 0 => r + 1 \in express'[s]
      BY <1>3, ExpressGrows
    <3>2. b[k] = r + 1
      BY <1>3 DEF InsertedAt
    <3>3. CASE delay = 0
      BY <3>1, <3>2, <3>3
    <3>4. CASE delay # 0
      BY <1>0, <1>3, <3>4
    <3>. QED
      BY <3>3, <3>4
  <2>. DEFINE src(n) == IF n > k THEN n - 1 ELSE n
  <2>2. /\ Len(b) = r + 1 /\ k \in 1..r + 1 /\ b[k] = r + 1
        /\ (\A n \in 1..k - 1 : b[n] = a[n]) /\ (\A n \in k..r : b[n + 1] = a[n])
    BY <1>0, <1>3 DEF InsertedAt
  <2>3. i \in 1..r + 1 /\ j \in 1..r + 1
    BY <2>2
  <2>. HIDE DEF a, b, r
  <2>4. ASSUME NEW n \in 1..r + 1, n # k
        PROVE  src(n) \in 1..r /\ b[n] = a[src(n)]
    <3>1. CASE n < k
      <4>1. n \in 1..k - 1 /\ n \in 1..r /\ src(n) = n
        BY <1>0, <2>2, <3>1
      <4>. QED
        BY <2>2, <4>1
    <3>2. CASE n > k
      <4>1. n - 1 \in k..r /\ n - 1 \in 1..r /\ (n - 1) + 1 = n
        BY <1>0, <2>2, <3>2
      <4>2. b[(n - 1) + 1] = a[n - 1]
        BY <2>2, <4>1
      <4>. QED
        BY <3>2, <4>1, <4>2
    <3>. QED
      BY <2>2, <2>4, <3>1, <3>2
  <2>5. i # k
    BY <1>0, <2>1, <2>3
  <2>6. src(i) \in 1..r /\ b[i] = a[src(i)]
    BY <2>3, <2>4, <2>5
  <2>7. CASE j = k
    <3>1. a[src(i)] \in 1..r
      BY <1>0, <2>6
    <3>. QED
      BY <1>0, <2>2, <2>6, <2>7, <3>1
  <2>8. CASE j # k
    <3>1. src(j) \in 1..r /\ b[j] = a[src(j)]
      BY <2>3, <2>4, <2>8
    <3>2. src(i) < src(j)
      <4>1. i \in Int /\ j \in Int /\ k \in Int /\ r \in Int
        BY <1>0, <2>2, <2>3
      <4>2. i < j
        OBVIOUS
      <4>. QED
        BY <2>5, <2>8, <4>1, <4>2
    <3>3. a[src(i)] \notin express[s] /\ a[src(j)] \notin express[s]
      BY <1>1, <2>6, <3>1 DEF b
    <3>. QED
      BY <1>0, <2>6, <3>1, <3>2, <3>3
  <2>. QED
    BY <2>7, <2>8
<1>4. [Next]_vars
  BY MCCases
<1>. QED
  BY <1>2, <1>3, <1>4, AllGrows

THEOREM DelayFifo == MCSpec => []Fifo
<1>1. MCInit => Fifo
  <2>1. ASSUME MCInit, NEW s \in Sides PROVE 1..Len(All(s)) = {}
    <3>1. Len(All(s)) = received[s] /\ received[s] = 0
      BY <2>1, KeptInit DEF MCInit, NoneLost, Init
    <3>. QED
      BY <3>1
  <2>. QED
    BY <2>1 DEF Fifo
<1>2. TypeOK /\ NoneLost /\ Fifo /\ [MCNext]_<<vars, history>> => Fifo'
  BY FifoStep
<1>3. MCSpec => []TypeOK /\ []NoneLost
  BY MCImplementsSpec, TypeCorrect, DelayNoneLost, PTL
<1>. QED
  BY <1>1, <1>2, <1>3, PTL DEF MCSpec

----------------------------------------------------------------------------
(* As long as the packet thread has stayed out of the change handler: for a packet
   at the front of a queue the change handler is still to come, or has computed a
   time that is not too late for it, or a process handler is to run, or the timer
   is waited for and set to a time that is not too late. *)
Punctual ==
  ~ raced =>
    \A s \in Sides : ~ Empty(s) =>
      /\ \/ s \in changing
         \/ front # NoFront /\ front.side = s
         \/ timer[s].ready > 0
         \/ timer[s].waiting > 0 /\ InTime(timer[s].expiry, s)
      /\ front # NoFront /\ front.side = s => InTime(front.expiry, s)

LEMMA Fronts ==
  ASSUME TypeOK, NEW s \in Sides, ~ Empty(s)
  PROVE  /\ Head(packet_queue[s]) \in Entry /\ Head(packet_queue[s]).age \in Nat
         /\ Deadline(Head(packet_queue[s])) = delay - Head(packet_queue[s]).age
         /\ Deadline(Head(packet_queue[s])) \in Int
         /\ Deadline(Head(packet_queue[s])) < Far
<1>1. Head(packet_queue[s]) \in Entry
  BY Types, HeadTailProperties DEF Empty
<1>2. Head(packet_queue[s]).age \in Nat
  BY <1>1 DEF Entry
<1>3. delay \in 0..Far - 1
  BY FixedDelayAssumption DEF TypeOK
<1>4. delay \in Nat /\ delay < Far
  BY <1>3 DEF Far
<1>5. Deadline(Head(packet_queue[s])) = delay - Head(packet_queue[s]).age
  BY DEF Deadline
<1>6. Far \in Int
  BY DEF Far
<1>. QED
  BY <1>1, <1>2, <1>4, <1>5, <1>6

(* What is in time stays so when the clock moves. *)
LEMMA CloserInTime ==
  ASSUME NEW e \in Int, NEW d \in Int, NEW n \in Int, d < Far, n >= d - 1,
         e <= 0 \/ e <= d
  PROVE  Closer(e) <= 0 \/ Closer(e) <= n
<1>0. Far \in Int /\ Far > 0 /\ MaxLate \in Nat
  BY MaxLateAssumption DEF Far
<1>1. CASE e <= 0
  <2>1. Closer(e) \in Int /\ Closer(e) <= e
    BY CloserInt
  <2>. QED
    BY <1>1, <2>1
<1>2. CASE e > 0
  <2>1. e <= d /\ e # Far /\ ~ (e <= - MaxLate)
    BY <1>0, <1>2
  <2>2. Closer(e) = e - 1
    BY <2>1 DEF Closer
  <2>. QED
    BY <2>1, <2>2
<1>. QED
  BY <1>1, <1>2

LEMMA EarlierRace ==
  ASSUME [MCNext]_<<vars, history>>, ~ raced'
  PROVE  ~ raced
<1>1. CASE raced' = (raced \/ ~Unchanging)
  BY <1>1
<1>2. CASE raced' = raced
  BY <1>2
<1>. QED
  BY <1>1, <1>2, MCCases DEF history

LEMMA PunctualStep ==
  ASSUME TypeOK, Punctual, [MCNext]_<<vars, history>>
  PROVE  Punctual'
<1>. SUFFICES ASSUME ~ raced', NEW s \in Sides, packet_queue'[s] # <<>>
     PROVE  /\ \/ s \in changing'
               \/ front' # NoFront /\ front'.side = s
               \/ timer'[s].ready > 0
               \/ /\ timer'[s].waiting > 0
                  /\ timer'[s].expiry <= 0 \/ timer'[s].expiry <= delay' - Head(packet_queue'[s]).age
            /\ front' # NoFront /\ front'.side = s
                 => front'.expiry <= 0 \/ front'.expiry <= delay' - Head(packet_queue'[s]).age
  BY DEF Punctual, Empty, Deadline, InTime
<1>. DEFINE d(q) == delay - Head(q[s]).age
            In(e, q) == e <= 0 \/ e <= delay - Head(q).age
            Good == /\ \/ s \in changing
                       \/ front # NoFront /\ front.side = s
                       \/ timer[s].ready > 0
                       \/ timer[s].waiting > 0 /\ In(timer[s].expiry, packet_queue[s])
                    /\ front # NoFront /\ front.side = s => In(front.expiry, packet_queue[s])
<1>0. ~ raced
  BY EarlierRace
<1>g. packet_queue[s] # <<>> => Good
  BY <1>0 DEF Punctual, Empty, Deadline, InTime
<1>p. ASSUME NEW e \in Entry PROVE e.age \in Nat
  BY <1>p DEF Entry
<1>1. CASE Packet /\ raced' = (raced \/ ~Unchanging)
  <2>0. changing = {} /\ front = NoFront
    BY <1>1 DEF Unchanging
  <2>1. ASSUME NEW t \in Sides, Receive(t)
        PROVE  /\ front' = front /\ delay' = delay
               /\ timer'[s].ready > 0 \/ (timer'[s].waiting > 0 /\ In(timer'[s].expiry, packet_queue'[s]))
    <3>1. UNCHANGED <<front, delay>>
      BY <2>1, Receives
    <3>2. CASE packet_queue'[s] = packet_queue[s] /\ timer'[s] = timer[s]
      BY <1>g, <2>0, <3>1, <3>2
    <3>3. CASE s = t /\ delay # 0 /\ ~ Empty(s)
      <4>1. timer'[s] = timer[s] /\ Head(packet_queue'[s]) = Head(packet_queue[s])
        BY <2>1, <3>3, Receives
      <4>. QED
        BY <1>g, <2>0, <3>1, <3>3, <4>1 DEF Empty
    <3>4. CASE s = t /\ delay # 0 /\ Empty(s)
      <4>1. timer'[s].waiting = 1 /\ timer'[s].expiry = delay /\ Head(packet_queue'[s]).age = 0
            /\ delay \in Nat
        BY <2>1, <3>4, Receives, Types
      <4>. QED
        BY <3>1, <4>1
    <3>5. \/ packet_queue'[s] = packet_queue[s] /\ timer'[s] = timer[s]
          \/ s = t /\ delay # 0
      BY <2>1, Receives
    <3>. QED
      BY <3>2, <3>3, <3>4, <3>5
  <2>2. ASSUME NEW t \in Sides, Process(t)
        PROVE  /\ front' = front /\ delay' = delay
               /\ timer'[s].ready > 0 \/ (timer'[s].waiting > 0 /\ In(timer'[s].expiry, packet_queue'[s]))
    <3>1. UNCHANGED <<front, delay>>
      BY <2>2, Processes
    <3>2. CASE s # t
      <4>1. packet_queue'[s] = packet_queue[s] /\ timer'[s] = timer[s]
        BY <2>2, <3>2, Processes
      <4>. QED
        BY <1>g, <2>0, <3>1, <4>1
    <3>3. CASE s = t
      <4>1. timer'[s].waiting = 1 /\ timer'[s].expiry = d(packet_queue')
            /\ packet_queue' \in [Sides -> Seq(Entry)]
        BY <2>2, <3>3, Processes
      <4>2. Head(packet_queue'[s]) \in Entry
        BY <4>1, HeadTailProperties
      <4>3. d(packet_queue') \in Int
        BY <1>p, <4>2, Types
      <4>. QED
        BY <3>1, <4>1, <4>3
    <3>. QED
      BY <3>2, <3>3
  <2>3. ASSUME Fire
        PROVE  /\ front' = front /\ delay' = delay
               /\ timer'[s].ready > 0 \/ (timer'[s].waiting > 0 /\ In(timer'[s].expiry, packet_queue'[s]))
    <3>1. /\ UNCHANGED <<front, delay, packet_queue>>
          /\ timer'[s] = timer[s] \/ timer'[s].ready > 0
      BY <2>3, Fires
    <3>. QED
      BY <1>g, <2>0, <3>1
  <2>. QED
    BY <1>1, <2>0, <2>1, <2>2, <2>3 DEF Packet
<1>2. CASE Tick
  <2>1. /\ packet_queue[s] # <<>> /\ Head(packet_queue'[s]) = Older(Head(packet_queue[s]))
        /\ timer'[s] = Tock(timer[s]) /\ UNCHANGED <<delay, changing>>
        /\ front' = NoFront <=> front = NoFront
        /\ front # NoFront => front'.side = front.side /\ front'.expiry = Closer(front.expiry)
    BY <1>2, Ticks
  <2>2. ~ Empty(s)
    BY <2>1 DEF Empty
  <2>. DEFINE m == delay - Head(packet_queue[s]).age
              n == delay - Head(packet_queue'[s]).age
  <2>3. m \in Int /\ m < Far
    BY <2>2, Fronts
  <2>4. n >= m - 1 /\ n \in Int
    <3>1. Head(packet_queue[s]) \in Entry
      BY <2>2, Fronts
    <3>2. /\ Head(packet_queue'[s]).age <= Head(packet_queue[s]).age + 1
          /\ Head(packet_queue[s]).age \in Nat /\ Head(packet_queue'[s]).age \in Nat
      BY <2>1, <3>1, OlderEntry
    <3>3. delay \in Nat
      BY Types
    <3>4. \A x, y, z \in Nat : y <= x + 1 => z - y >= (z - x) - 1 /\ z - y \in Int
      OBVIOUS
    <3>. QED
      BY <3>2, <3>3, <3>4
  <2>5. /\ timer[s].expiry \in Int /\ timer'[s].waiting = timer[s].waiting
        /\ timer'[s].ready = timer[s].ready /\ timer'[s].expiry = Closer(timer[s].expiry)
    BY <2>1, Types, TockTimer, TimerFields
  <2>6. front # NoFront => front.expiry \in Int
    BY DEF TypeOK
  <2>7. Good
    BY <1>g, <2>1
  <2>. HIDE DEF m, n
  <2>8. In(timer[s].expiry, packet_queue[s]) => timer'[s].expiry <= 0 \/ timer'[s].expiry <= n
    BY <2>3, <2>4, <2>5, CloserInTime DEF m
  <2>9. front # NoFront /\ In(front.expiry, packet_queue[s]) => front'.expiry <= 0 \/ front'.expiry <= n
    BY <2>1, <2>3, <2>4, <2>6, CloserInTime DEF m
  <2>. QED
    BY <2>1, <2>5, <2>7, <2>8, <2>9 DEF n
<1>3. CASE SetTimeout
  <2>1. /\ front # NoFront /\ front' = NoFront /\ front.side \in Sides
        /\ UNCHANGED <<delay, packet_queue, changing>>
    BY <1>3, SetsTimeout
  <2>2. CASE front.side = s
    <3>1. timer'[s].waiting = 1 /\ timer'[s].expiry = front.expiry
      BY <1>3, <2>2, SetsTimeout
    <3>. QED
      BY <1>g, <2>1, <2>2, <3>1
  <2>3. CASE front.side # s
    <3>1. timer'[s] = timer[s]
      BY <1>3, <2>3, SetsTimeout
    <3>. QED
      BY <1>g, <2>1, <2>3, <3>1
  <2>. QED
    BY <2>2, <2>3
<1>4. ASSUME NEW t \in Sides, ReadFront(t)
      PROVE  /\ \/ s \in changing'
                \/ front' # NoFront /\ front'.side = s
                \/ timer'[s].ready > 0
                \/ timer'[s].waiting > 0 /\ In(timer'[s].expiry, packet_queue'[s])
             /\ front' # NoFront /\ front'.side = s => In(front'.expiry, packet_queue'[s])
             /\ delay' = delay
  <2>1. /\ front = NoFront /\ front' # NoFront /\ front'.side = t
        /\ changing' = changing \ {t} /\ UNCHANGED <<delay, packet_queue>>
    BY <1>4, ReadsFront
  <2>2. CASE s = t
    <3>1. ~ Empty(s)
      BY <2>1 DEF Empty
    <3>2. front'.expiry = d(packet_queue)
      BY <1>4, <2>2, <3>1, ReadsFront DEF Deadline
    <3>3. d(packet_queue) \in Int
      BY <3>1, Fronts
    <3>. QED
      BY <2>1, <2>2, <3>2, <3>3
  <2>3. CASE s # t
    <3>1. timer'[s] = timer[s]
      BY <1>4, <2>3, ReadsFront
    <3>. QED
      BY <1>g, <2>1, <2>3, <3>1
  <2>. QED
    BY <2>2, <2>3
<1>5. ASSUME NEW v \in Delays, SetDelay(v)
      PROVE  s \in changing' /\ front' = NoFront
  BY <1>5 DEF SetDelay, Unchanging
<1>6. CASE UNCHANGED vars
  BY <1>g, <1>6 DEF vars
<1>. QED
  BY <1>1, <1>2, <1>3, <1>4, <1>5, <1>6, MCCases DEF Change, Message

LEMMA PunctualCorrect == MCSpec => []Punctual
<1>1. MCInit => Punctual
  BY DEF MCInit, Init, Punctual, Empty
<1>2. TypeOK /\ Punctual /\ [MCNext]_<<vars, history>> => Punctual'
  BY PunctualStep
<1>. QED
  BY <1>1, <1>2, MCImplementsSpec, TypeCorrect, PTL DEF MCSpec

(* While something is queued, a handler is on its way for it, no later than when
   it is due, or the change handler is about to see to that, unless the packet
   thread has run inside the change handler (FixedDelayModule.cpp:62-66, 79). *)
THEOREM DelayTimerArmed == MCSpec => []TimerArmed
<1>1. TypeOK /\ Punctual => TimerArmed
  BY DEF Punctual, TimerArmed
<1>. QED
  BY <1>1, PunctualCorrect, MCImplementsSpec, TypeCorrect, PTL

(* No other step is one of the clock. *)
LEMMA TickAlone ==
  ASSUME TypeOK, Tick, NEW s \in Sides
  PROVE  ~ Packet /\ ~ Change /\ ~ Message
<1>1. /\ UNCHANGED <<delay, received, sent, changing>>
      /\ front' = NoFront <=> front = NoFront
      /\ \A t \in Sides : timer'[t] = Tock(timer[t])
  BY Ticks
<1>2. \A t \in Sides : timer'[t].waiting = timer[t].waiting /\ timer'[t].ready = timer[t].ready
  BY <1>1, Types, TockTimer
<1>3. ASSUME NEW t \in Sides, Receive(t) PROVE FALSE
  <2>1. received'[t] = received[t] + 1 /\ received[t] \in Nat
    BY <1>3, Receives, Types DEF TypeOK
  <2>. QED
    BY <1>1, <2>1
<1>4. ASSUME NEW t \in Sides, Process(t) PROVE FALSE
  <2>1. /\ timer'[t].ready = timer[t].ready - 1
        /\ timer[t].ready \in Nat
    BY <1>4, Processes, Types, TimerFields
  <2>. QED
    BY <1>2, <2>1
<1>5. ASSUME Fire PROVE FALSE
  <2>1. PICK t \in Sides : Due(timer[t])
    BY <1>5 DEF Fire
  <2>2. timer'[t] = Collect(timer[t])
    BY <1>5, <2>1 DEF Fire
  <2>3. timer'[t].waiting = 0 /\ timer[t].waiting > 0
    BY <2>1, <2>2, Types, CollectTimer DEF Due
  <2>. QED
    BY <1>2, <2>3
<1>6. ASSUME SetTimeout PROVE FALSE
  BY <1>1, <1>6, SetsTimeout
<1>7. ASSUME NEW t \in Sides, ReadFront(t) PROVE FALSE
  BY <1>1, <1>7, ReadsFront
<1>8. ASSUME NEW d \in Delays, SetDelay(d) PROVE FALSE
  <2>1. changing = {} /\ changing' = Sides
    BY <1>8 DEF SetDelay, Unchanging
  <2>. QED
    BY <1>1, <2>1
<1>. QED
  BY <1>3, <1>4, <1>5, <1>6, <1>7, <1>8 DEF Packet, Change, Message

(* As long as handlers run when they are due and the change handler alone, no
   packet stays longer than the delay, the one in force at that moment: the timer
   is set again for a delay that is changed (FixedDelayModule.cpp:64). *)
THEOREM DelayOnTime == MCSpec => OnTime
<1>1. ASSUME TypeOK, Punctual, [MCNext]_<<vars, history>>
      PROVE  [Tick /\ ~late' /\ ~raced =>
                \A s \in Sides : ~ Empty(s) => Deadline(Head(packet_queue[s])) > 0]_vars
  <2>. SUFFICES ASSUME Tick, ~ late', ~ raced, NEW s \in Sides, ~ Empty(s)
                PROVE  Deadline(Head(packet_queue[s])) > 0 \/ UNCHANGED vars
    OBVIOUS
  <2>1. CASE UNCHANGED vars
    BY <2>1
  <2>2. CASE late' = (late \/ ~Unchanging \/ HandlerDue)
    <3>1. changing = {} /\ front = NoFront /\ ~ (timer[s].ready > 0) /\ ~ Due(timer[s]) /\ ~ late
      BY <2>2 DEF Unchanging, HandlerDue
    <3>2. timer[s].waiting > 0 /\ InTime(timer[s].expiry, s)
      BY <1>1, <3>1 DEF Punctual
    <3>3. timer[s].expiry > 0 /\ timer[s].expiry \in Int
      BY <3>1, <3>2, <1>1, Types, TimerFields DEF Due
    <3>4. Deadline(Head(packet_queue[s])) \in Int
      BY <1>1, Fronts
    <3>. QED
      BY <3>2, <3>3, <3>4 DEF InTime
  <2>3. ~ Packet /\ ~ Change /\ ~ Message
    BY <1>1, TickAlone
  <2>. QED
    BY <1>1, <2>1, <2>2, <2>3, MCCases
<1>2. MCSpec => []TypeOK
  BY MCImplementsSpec, TypeCorrect, PTL
<1>. QED
  BY <1>1, <1>2, PunctualCorrect, PTL DEF MCSpec, OnTime
=============================================================================
