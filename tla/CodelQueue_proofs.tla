------------------------- MODULE CodelQueue_proofs -------------------------
EXTENDS CodelQueue, EcnQueue_proofs, NaturalsInduction, WellFoundedInduction, SequenceTheorems

(* Every set of natural numbers that has a member has a least one. *)
LEMMA LeastNatural ==
  ASSUME NEW S \in SUBSET Nat, S # {}
  PROVE  \E m \in S : \A k \in S : m <= k
<1> DEFINE R == {ss \in Nat \X Nat : ss[1] < ss[2]}
<1>1. IsWellFoundedOn(R, Nat)
  BY NatLessThanWellFounded DEF OpToRel
<1>2. PICK m \in S : \A k \in S : ~ (<<k, m>> \in R)
  BY <1>1, WFMin
<1>3. ASSUME NEW k \in S PROVE m <= k
  <2>1. k \in Nat /\ m \in Nat /\ <<k, m>> \notin R
    BY <1>2
  <2>2. ~ (k < m)
    BY <2>1
  <2> QED BY <2>1, <2>2
<1> QED BY <1>3

----------------------------------------------------------------------------
(* The control law is a number: INTERVAL / sqrt(n) rounded down exists. *)
LEMMA ControlLawNumber ==
  ASSUME NEW t \in Nat, NEW n \in Nat \ {0}
  PROVE  ControlLaw(t, n) \in Nat
<1> DEFINE I == INTERVAL
           S == {k \in Nat : (k + 1) * (k + 1) * n > I * I}
<1>0. I \in Nat \ {0}
  BY CodelAssumption
<1> HIDE DEF I
<1>1. (I + 1) * (I + 1) * n > I * I
  <2>1. (I + 1) * (I + 1) >= I * I + 1 /\ (I + 1) * (I + 1) \in Nat
    BY <1>0
  <2>2. \A a \in Nat : a * n >= a
    OBVIOUS
  <2> QED BY <1>0, <2>1, <2>2
<1>2. I \in S
  BY <1>0, <1>1
<1>3. PICK k \in S : \A j \in S : k <= j
  BY <1>2, LeastNatural
<1>4. k \in 0..I
  BY <1>0, <1>2, <1>3
<1>5. k * k * n <= I * I
  <2>1. CASE k = 0
    BY <1>0, <2>1
  <2>2. CASE k # 0
    <3>1. k - 1 \in Nat /\ k - 1 \notin S
      BY <1>3, <1>4, <1>0, <2>2
    <3>2. ((k - 1) + 1) * ((k - 1) + 1) * n <= I * I
      BY <1>0, <3>1
    <3> QED BY <1>4, <3>2
  <2> QED BY <2>1, <2>2
<1>6. \E j \in 0..I : j * j * n <= I * I /\ (j + 1) * (j + 1) * n > I * I
  BY <1>3, <1>4, <1>5
<1>7. (CHOOSE j \in 0..I : j * j * n <= I * I /\ (j + 1) * (j + 1) * n > I * I) \in 0..I
  BY <1>6
<1> QED BY <1>0, <1>7 DEF ControlLaw, I

(* A function defined by recursion from the number below it exists. *)
Recurs(f, a, h) == f[0] = a /\ \A j \in Nat \ {0} : f[j] = h[j][f[j - 1]]

LEMMA RecursionExists ==
  ASSUME NEW V, NEW a \in V, NEW h \in [Nat -> [V -> V]]
  PROVE  \E f \in [Nat -> V] : Recurs(f, a, h)
<1> DEFINE G(n) == {g \in [0..n -> V] : g[0] = a /\ \A j \in 1..n : g[j] = h[j][g[j - 1]]}
<1>1. ASSUME NEW n \in Nat PROVE \E g : g \in G(n)
  <2> DEFINE None == {m \in Nat : ~ \E g : g \in G(m)}
  <2>1. SUFFICES ASSUME None # {} PROVE FALSE
    OBVIOUS
  <2>2. PICK m \in None : \A k \in None : m <= k
    BY <2>1, LeastNatural
  <2>3. m # 0
    <3>1. [j \in 0..0 |-> a] \in G(0)
      OBVIOUS
    <3> QED BY <3>1
  <2>4. m \in Nat /\ m - 1 \in Nat /\ m - 1 \notin None
    <3>1. m \in Nat /\ m - 1 \in Nat /\ ~ (m <= m - 1)
      BY <2>2, <2>3
    <3> QED BY ONLY <2>2, <3>1
  <2>5. PICK g : g \in G(m - 1)
    BY <2>4
  <2> DEFINE e == [j \in 0..m |-> IF j = m THEN h[m][g[m - 1]] ELSE g[j]]
  <2>6. g \in [0..(m - 1) -> V] /\ g[0] = a /\ \A j \in 1..(m - 1) : g[j] = h[j][g[j - 1]]
    BY <2>5
  <2>7. g[m - 1] \in V
    BY <2>4, <2>6
  <2>8. e \in [0..m -> V]
    BY <2>4, <2>6, <2>7
  <2>9. e[0] = a
    BY <2>3, <2>4, <2>6
  <2>10. ASSUME NEW j \in 1..m PROVE e[j] = h[j][e[j - 1]]
    BY <2>4, <2>6
  <2>11. e \in G(m)
    BY <2>8, <2>9, <2>10
  <2> QED BY <2>2, <2>11
<1>2. ASSUME NEW n \in Nat, NEW m \in Nat, NEW g \in G(n), NEW e \in G(m),
             NEW j \in Nat, j <= n, j <= m
      PROVE  g[j] = e[j]
  <2> DEFINE Differ == {i \in 0..j : g[i] # e[i]}
  <2>1. SUFFICES ASSUME j \in Differ PROVE FALSE
    BY <1>2
  <2>2. PICK i \in Differ : \A k \in Differ : i <= k
    <3>1. Differ \in SUBSET Nat
      BY <1>2
    <3>2. Differ # {}
      BY <2>1
    <3> HIDE DEF Differ
    <3> QED BY ONLY <3>1, <3>2, LeastNatural
  <2>3. i # 0
    BY <2>2
  <2>4. i - 1 \in 0..j /\ i - 1 \notin Differ
    BY <2>2, <2>3
  <2>5. g[i - 1] = e[i - 1]
    BY <2>4
  <2>6. i \in 1..n /\ i \in 1..m
    BY <1>2, <2>2, <2>3
  <2> QED BY <2>2, <2>5, <2>6
<1> DEFINE f == [j \in Nat |-> (CHOOSE g \in G(j) : TRUE)[j]]
<1>3. ASSUME NEW j \in Nat PROVE \E g \in G(j) : f[j] = g[j]
  BY <1>1
<1> HIDE DEF f
<1>4. ASSUME NEW j \in Nat PROVE f[j] \in V /\ f[j] = IF j = 0 THEN a ELSE h[j][f[j - 1]]
  <2>1. PICK g \in G(j) : f[j] = g[j]
    BY <1>3
  <2>2. CASE j = 0
    BY <2>1, <2>2
  <2>3. CASE j # 0
    <3>1. j - 1 \in Nat
      BY <2>3
    <3>2. PICK e \in G(j - 1) : f[j - 1] = e[j - 1]
      BY <1>3, <3>1
    <3>3. g[j - 1] = e[j - 1]
      <4>1. j - 1 <= j - 1 /\ j - 1 <= j
        BY <3>1
      <4> HIDE DEF G
      <4> QED BY <1>2, <2>1, <3>1, <3>2, <4>1
    <3>4. g[j] = h[j][g[j - 1]] /\ g[j] \in V
      BY <2>1, <2>3
    <3> QED BY <2>1, <2>3, <3>2, <3>3, <3>4
  <2> QED BY <2>2, <2>3
<1>5. f = [j \in Nat |-> f[j]]
  BY DEF f
<1>6. f[0] = a /\ \A j \in Nat \ {0} : f[j] = h[j][f[j - 1]]
  BY <1>4
<1>7. f \in [Nat -> V]
  BY <1>4, <1>5
<1> QED BY <1>6, <1>7 DEF Recurs

LEMMA DueNumber ==
  ASSUME NEW d, d.next \in Nat, d.count \in Nat, NEW i \in Nat
  PROVE  Due(d, i) \in Nat
<1> DEFINE h == [j \in Nat |-> [v \in Nat |-> IF j = 0 THEN 0 ELSE ControlLaw(v, d.count + j)]]
           due[j \in Nat] == IF j = 0 THEN d.next ELSE ControlLaw(due[j - 1], d.count + j)
<1>1. h \in [Nat -> [Nat -> Nat]]
  <2>1. ASSUME NEW j \in Nat, NEW v \in Nat
        PROVE  (IF j = 0 THEN 0 ELSE ControlLaw(v, d.count + j)) \in Nat
    <3>1. CASE j = 0
      BY <3>1
    <3>2. CASE j # 0
      <4>1. d.count + j \in Nat \ {0}
        BY <3>2
      <4> QED BY <3>2, <4>1, ControlLawNumber
    <3> QED BY <3>1, <3>2
  <2> QED BY <2>1
<1>2. ASSUME NEW v \in Nat, NEW j \in Nat \ {0} PROVE h[j][v] = ControlLaw(v, d.count + j)
  OBVIOUS
<1> HIDE DEF h
<1> DEFINE a == d.next
<1>0. a \in Nat
  OBVIOUS
<1> HIDE DEF a
<1>3. PICK f \in [Nat -> Nat] : Recurs(f, a, h)
  BY <1>0, <1>1, RecursionExists
<1>4. ASSUME NEW j \in Nat
      PROVE  f[j] = IF j = 0 THEN d.next ELSE ControlLaw(f[j - 1], d.count + j)
  <2>1. CASE j = 0
    BY <1>3, <2>1 DEF a, Recurs
  <2>2. CASE j # 0
    BY <1>2, <1>3, <2>2 DEF Recurs
  <2> QED BY <2>1, <2>2
<1>5. f = [j \in Nat |-> IF j = 0 THEN d.next ELSE ControlLaw(f[j - 1], d.count + j)]
  BY <1>3, <1>4
<1>6. due = [j \in Nat |-> IF j = 0 THEN d.next ELSE ControlLaw(due[j - 1], d.count + j)]
  BY <1>5
<1> HIDE DEF due
<1>7. due[i] \in Nat
  <2> DEFINE Bad == {j \in Nat : due[j] \notin Nat}
  <2>1. SUFFICES ASSUME Bad # {} PROVE FALSE
    OBVIOUS
  <2>2. PICK m \in Bad : \A k \in Bad : m <= k
    BY <2>1, LeastNatural
  <2>3. m # 0
    BY <1>6, <2>2
  <2>4. m - 1 \in Nat /\ ~ (m <= m - 1) /\ d.count + m \in Nat \ {0}
    BY <2>2, <2>3
  <2>5. due[m - 1] \in Nat
    BY <2>2, <2>4
  <2>6. due[m] = ControlLaw(due[m - 1], d.count + m)
    BY <1>6, <2>2, <2>3
  <2>7. due[m] \in Nat
    BY <2>4, <2>5, <2>6, ControlLawNumber
  <2> QED BY <2>2, <2>7
<1> QED BY <1>7 DEF Due, due

----------------------------------------------------------------------------
(* What a dequeue comes to, of its record. *)
Clock ==
  /\ now \in Nat \ {0} /\ packet_queue \in Seq(Packet)
  /\ first_above_time \in Nat /\ drop_next \in Nat /\ count \in Nat /\ dropping \in BOOLEAN

Overdue == first_above_time # 0 /\ now >= first_above_time

Sound(d) ==
  /\ d.taken \in Nat \ {0} /\ d.above \in Nat /\ d.next \in Nat /\ d.count \in Nat
  /\ d.mark \in BOOLEAN /\ d.dropping \in BOOLEAN
  /\ packet_queue = <<>> => d.taken = 1 /\ ~ d.mark
  /\ packet_queue # <<>> => d.taken <= Len(packet_queue)
  /\ d.mark => d.taken = 1 /\ ecn_mode /\ Capable(Head(packet_queue))
  /\ d.taken > 1 \/ d.mark => Overdue
  /\ d.above # 0 =>
       /\ \A k \in 1..d.taken : Standing(k)
       /\ d.above = now + INTERVAL \/ d.above = first_above_time
  /\ d.count <= count + (d.taken - 1) + (IF d.mark THEN 1 ELSE 0)

Results ==
  [taken : Nat, ok : BOOLEAN, mark : BOOLEAN, above : Nat, next : Nat, count : Nat,
   dropping : BOOLEAN]

(* Results with some of the fields changed. *)
Taken(d, k, a, o) == [d EXCEPT !.taken = k, !.above = a, !.ok = o]
Flagging(d, c, m, x) == [d EXCEPT !.count = c, !.mark = m, !.next = x]
Entered(d, g, c, x) == [d EXCEPT !.dropping = g, !.count = c, !.next = x]
Left(d, x, a, o, g) == [d EXCEPT !.next = x, !.above = a, !.ok = o, !.dropping = g]
Counted(d, k, c) == [d EXCEPT !.taken = k, !.count = c]
Dated(d, x) == [d EXCEPT !.next = x]

(* A result with another number of packets, time above and permission to drop. *)
LEMMA ResultTaken ==
  ASSUME NEW d \in Results, NEW k \in Nat, NEW a \in Nat, NEW o \in BOOLEAN
  PROVE  LET r == Taken(d, k, a, o)
         IN  /\ r \in Results
             /\ r.taken = k /\ r.mark = d.mark /\ r.next = d.next /\ r.count = d.count
             /\ r.dropping = d.dropping /\ r.above = a /\ r.ok = o
BY DEF Results, Taken

(* A result with another mark, or state, and count and next drop. *)
LEMMA ResultMarked ==
  ASSUME NEW d \in Results, NEW c \in Nat, NEW m \in BOOLEAN, NEW x \in Nat
  PROVE  LET r == Flagging(d, c, m, x)
         IN  /\ r \in Results
             /\ r.taken = d.taken /\ r.mark = m /\ r.next = x /\ r.count = c
             /\ r.dropping = d.dropping /\ r.above = d.above
BY DEF Results, Flagging

LEMMA ResultEntering ==
  ASSUME NEW d \in Results, NEW g \in BOOLEAN, NEW c \in Nat, NEW x \in Nat
  PROVE  LET r == Entered(d, g, c, x)
         IN  /\ r \in Results
             /\ r.taken = d.taken /\ r.mark = d.mark /\ r.next = x /\ r.count = c
             /\ r.dropping = g /\ r.above = d.above
BY DEF Results, Entered

LEMMA ResultLeft ==
  ASSUME NEW d \in Results, NEW x \in Nat, NEW a \in Nat, NEW o \in BOOLEAN, NEW g \in BOOLEAN
  PROVE  LET r == Left(d, x, a, o, g)
         IN  /\ r \in Results
             /\ r.taken = d.taken /\ r.mark = d.mark /\ r.next = x /\ r.count = d.count
             /\ r.dropping = g /\ r.above = a
BY DEF Results, Left

LEMMA ResultCounted ==
  ASSUME NEW d \in Results, NEW k \in Nat, NEW c \in Nat
  PROVE  LET r == Counted(d, k, c)
         IN  /\ r \in Results
             /\ r.taken = k /\ r.mark = d.mark /\ r.next = d.next /\ r.count = c
             /\ r.dropping = d.dropping /\ r.above = d.above
BY DEF Results, Counted

LEMMA ResultNext ==
  ASSUME NEW d \in Results, NEW x \in Nat
  PROVE  LET r == Dated(d, x)
         IN  /\ r \in Results
             /\ r.taken = d.taken /\ r.mark = d.mark /\ r.next = x /\ r.count = d.count
             /\ r.dropping = d.dropping /\ r.above = d.above
BY DEF Results, Dated

Flagged(d, m) == [d EXCEPT !.mark = m]
Turned(d, g) == [d EXCEPT !.dropping = g]

LEMMA ResultFlagged ==
  ASSUME NEW d \in Results, NEW m \in BOOLEAN
  PROVE  LET r == Flagged(d, m)
         IN  /\ r \in Results
             /\ r.taken = d.taken /\ r.mark = m /\ r.next = d.next /\ r.count = d.count
             /\ r.dropping = d.dropping /\ r.above = d.above
BY DEF Results, Flagged

LEMMA ResultTurned ==
  ASSUME NEW d \in Results, NEW g \in BOOLEAN
  PROVE  LET r == Turned(d, g)
         IN  /\ r \in Results
             /\ r.taken = d.taken /\ r.mark = d.mark /\ r.next = d.next /\ r.count = d.count
             /\ r.dropping = g /\ r.above = d.above
BY DEF Results, Turned

(* dodequeue takes one packet; it may be dropped if it is one of a queue that has
   stood for long enough. *)
LEMMA DodequeueTakes ==
  ASSUME now \in Nat, NEW d \in Results
  PROVE  LET r == dodequeue(d)
             k == d.taken + 1
         IN  /\ r \in Results
             /\ r.taken = k /\ r.mark = d.mark /\ r.next = d.next /\ r.count = d.count
             /\ r.dropping = d.dropping
             /\ r.ok <=> Standing(k) /\ d.above # 0 /\ now >= d.above
             /\ r.above = IF Standing(k) THEN IF d.above = 0 THEN now + INTERVAL ELSE d.above ELSE 0
<1> DEFINE k == d.taken + 1
           a == IF d.above = 0 THEN now + INTERVAL ELSE d.above
           o == d.above # 0 /\ now >= d.above
<1>0. k \in Nat /\ a \in Nat /\ o \in BOOLEAN
  BY CodelAssumption DEF Results
<1>1. CASE Standing(k)
  <2>1. dodequeue(d) = Taken(d, k, a, o)
    BY <1>1, Zenon DEF dodequeue, Taken
  <2> HIDE DEF a, o, k
  <2>2. LET r == Taken(d, k, a, o)
        IN  /\ r \in Results
            /\ r.taken = k /\ r.mark = d.mark /\ r.next = d.next /\ r.count = d.count
            /\ r.dropping = d.dropping /\ r.above = a /\ r.ok = o
    BY <1>0, ResultTaken
  <2>3. (IF Standing(k) THEN a ELSE 0) = a /\ (o <=> Standing(k) /\ o)
    BY <1>1
  <2>4. LET r == dodequeue(d)
        IN  /\ r \in Results
            /\ r.taken = k /\ r.mark = d.mark /\ r.next = d.next /\ r.count = d.count
            /\ r.dropping = d.dropping /\ r.above = a /\ r.ok = o
    BY <2>1, <2>2, Zenon
  <2> QED BY <1>1, <2>3, <2>4, Zenon DEF a, o, k
<1>2. CASE ~ Standing(k)
  <2>1. dodequeue(d) = Taken(d, k, 0, FALSE)
    BY <1>2, Zenon DEF dodequeue, Taken
  <2> HIDE DEF k, o, a
  <2>2. LET r == Taken(d, k, 0, FALSE)
        IN  /\ r \in Results
            /\ r.taken = k /\ r.mark = d.mark /\ r.next = d.next /\ r.count = d.count
            /\ r.dropping = d.dropping /\ r.above = 0 /\ r.ok = FALSE
    <3> DEFINE zero == 0
               no == FALSE
    <3>1. zero \in Nat /\ no \in BOOLEAN
      OBVIOUS
    <3> HIDE DEF zero, no
    <3>2. LET r == Taken(d, k, zero, no)
          IN  /\ r \in Results
              /\ r.taken = k /\ r.mark = d.mark /\ r.next = d.next /\ r.count = d.count
              /\ r.dropping = d.dropping /\ r.above = zero /\ r.ok = no
      BY <1>0, <3>1, ResultTaken
    <3> QED BY <3>2 DEF zero, no
  <2> QED BY <1>2, <2>1, <2>2, Zenon DEF k
<1> QED BY <1>1, <1>2

(* The record before a dequeue, and after its first packet. *)
LEMMA FieldsResult == Clock => Fields \in Results
BY DEF Clock, Fields, Results

First == dodequeue(Fields)

LEMMA FirstDequeue ==
  ASSUME Clock
  PROVE  /\ First \in Results /\ First.taken = 1 /\ ~ First.mark
         /\ First.next = drop_next /\ First.count = count /\ First.dropping = dropping
         /\ First.ok <=> Standing(1) /\ Overdue
         /\ First.above = IF Standing(1)
                            THEN IF first_above_time = 0 THEN now + INTERVAL ELSE first_above_time
                            ELSE 0
         /\ packet_queue = <<>> => ~ Standing(1)
<1>1. packet_queue = <<>> => ~ Standing(1)
  BY DEF Standing
<1>2. /\ Fields.taken = 0 /\ ~ Fields.mark /\ Fields.next = drop_next /\ Fields.count = count
      /\ Fields.dropping = dropping /\ Fields.above = first_above_time
  BY DEF Fields
<1>3. now \in Nat /\ Fields \in Results /\ Fields.taken + 1 = 1
  BY <1>2, FieldsResult DEF Clock
<1> HIDE DEF Fields
<1>4. /\ First \in Results
      /\ First.taken = 1 /\ First.mark = Fields.mark /\ First.next = Fields.next
      /\ First.count = Fields.count /\ First.dropping = Fields.dropping
      /\ First.ok <=> Standing(1) /\ Fields.above # 0 /\ now >= Fields.above
      /\ First.above = IF Standing(1)
                         THEN IF Fields.above = 0 THEN now + INTERVAL ELSE Fields.above
                         ELSE 0
  BY <1>3, DodequeueTakes DEF First
<1> QED BY <1>1, <1>2, <1>4 DEF Overdue

(* The loop of the dropping state ends at a packet of the queue: the last one
   leaves the queue short. *)
LEMMA LoopEnds ==
  ASSUME Clock, Standing(1), NEW d, d.taken = 1
  PROVE  LET n == CHOOSE i \in 1..Len(packet_queue) :
                    LastRound(d, i) /\ \A j \in 1..(i - 1) : ~ LastRound(d, j)
         IN  /\ n \in Nat \ {0} /\ n + 1 <= Len(packet_queue)
             /\ \A k \in 1..n : Standing(k)
<1> DEFINE S == {i \in 1..Len(packet_queue) : LastRound(d, i)}
           n == CHOOSE i \in 1..Len(packet_queue) :
                  LastRound(d, i) /\ \A j \in 1..(i - 1) : ~ LastRound(d, j)
<1>0. Len(packet_queue) \in Nat /\ MAXPACKET \in Nat /\ now \in Nat
  BY CodelAssumption DEF Clock
<1>1. Len(packet_queue) >= 2
  BY <1>0 DEF Standing, Short
<1> DEFINE l == Len(packet_queue) - 1
<1>2. l \in S
  <2>1. l \in 1..Len(packet_queue) /\ 1 + l = Len(packet_queue)
    BY <1>0, <1>1
  <2>2. ~ Standing(1 + l)
    BY <1>0, <2>1 DEF Standing, Short
  <2> QED BY <2>1, <2>2 DEF LastRound
<1>3. S \in SUBSET Nat
  OBVIOUS
<1>4. PICK m \in S : \A k \in S : m <= k
  BY <1>2, <1>3, LeastNatural
<1>5. m \in 1..Len(packet_queue) /\ LastRound(d, m) /\ \A j \in 1..(m - 1) : ~ LastRound(d, j)
  BY <1>0, <1>4
<1>6. n \in 1..Len(packet_queue) /\ LastRound(d, n) /\ \A j \in 1..(n - 1) : ~ LastRound(d, j)
  BY <1>5, Zenon
<1> HIDE DEF n, S, l
<1>7. n <= l
  BY <1>0, <1>1, <1>2, <1>6 DEF l, S
<1>8. ASSUME NEW k \in 1..n PROVE Standing(k)
  <2>1. CASE k = 1
    BY <2>1
  <2>2. CASE k # 1
    <3>1. k - 1 \in 1..(n - 1) /\ 1 + (k - 1) = k
      BY <1>6, <2>2
    <3>2. ~ LastRound(d, k - 1)
      BY <1>6, <3>1
    <3> QED BY <3>1, <3>2 DEF LastRound
  <2> QED BY <2>1, <2>2
<1>9. n \in Nat \ {0} /\ n + 1 <= Len(packet_queue)
  BY <1>0, <1>6, <1>7 DEF l
<1> QED BY <1>8, <1>9 DEF n

LEMMA DroppingSound ==
  ASSUME Clock, Standing(1), Overdue, NEW c \in BOOLEAN,
         c => ecn_mode /\ Capable(Head(packet_queue)),
         NEW d \in Results, d.taken = 1, ~ d.mark, d.above = first_above_time,
         d.count = count, d.dropping
  PROVE  Sound(Dropping(d, c))
<1> DEFINE n == CHOOSE i \in 1..Len(packet_queue) :
                  LastRound(d, i) /\ \A j \in 1..(i - 1) : ~ LastRound(d, j)
           r == Counted(d, d.taken + n, d.count + n)
<1>0. /\ Len(packet_queue) \in Nat /\ MAXPACKET \in Nat /\ now \in Nat
      /\ d.next \in Nat /\ count \in Nat /\ first_above_time \in Nat
  BY CodelAssumption DEF Clock, Results
<1>1. Len(packet_queue) >= 1 /\ packet_queue # <<>>
  BY <1>0 DEF Standing, Short
<1>2. n \in Nat \ {0} /\ n + 1 <= Len(packet_queue) /\ \A k \in 1..n : Standing(k)
  BY LoopEnds
<1>4. Due(d, n) \in Nat /\ Due(d, n - 1) \in Nat
  <2>1. n \in Nat /\ n - 1 \in Nat
    BY <1>2
  <2>2. d.count \in Nat
    BY <1>0
  <2> HIDE DEF n
  <2> QED BY <1>0, <2>1, <2>2, DueNumber
<1>5. ControlLaw(d.next, d.count + 1) \in Nat
  <2>1. d.next \in Nat /\ d.count + 1 \in Nat \ {0}
    BY <1>0
  <2> QED BY <2>1, ControlLawNumber
<1>a. /\ d.dropping /\ now >= d.next <=> ~ (~ d.dropping \/ now < d.next)
  BY <1>0
<1>6. CASE now < d.next
  <2>1. Dropping(d, c) = d
    BY <1>6, <1>a, Zenon DEF Dropping
  <2>2. d.next \in Nat /\ d.mark \in BOOLEAN /\ d.dropping \in BOOLEAN
    BY DEF Results
  <2>3. Sound(d)
    BY <1>0, <1>1, <2>2 DEF Sound
  <2> QED BY <2>1, <2>3
<1>7. CASE now >= d.next /\ c
  <2> DEFINE x == ControlLaw(d.next, d.count + 1)
             y == d.count + 1
             yes == TRUE
             e == Flagging(d, y, yes, x)
  <2>1. Dropping(d, c) = e
    BY <1>7, <1>a, Zenon DEF Dropping, Flagging
  <2>2. y \in Nat /\ yes \in BOOLEAN /\ x \in Nat
    BY <1>0, <1>5
  <2>3. /\ e \in Results /\ e.taken = 1 /\ e.mark /\ e.above = first_above_time
        /\ e.next = x /\ e.count = count + 1
    <3> HIDE DEF x, y, yes
    <3>1. LET r1 == Flagging(d, y, yes, x)
          IN  /\ r1 \in Results
              /\ r1.taken = d.taken /\ r1.mark = yes /\ r1.next = x /\ r1.count = y
              /\ r1.dropping = d.dropping /\ r1.above = d.above
      BY ONLY <2>2, d \in Results, ResultMarked
    <3>2. e = Flagging(d, y, yes, x)
      OBVIOUS
    <3> HIDE DEF e
    <3> QED BY <3>1, <3>2 DEF y, yes
  <2> HIDE DEF e
  <2>4. Sound(e)
    BY <1>0, <1>1, <1>7, <2>3 DEF Sound, Results
  <2> QED BY <2>1, <2>4
<1> HIDE DEF n
<1>b. /\ r \in Results /\ r.taken = 1 + n /\ r.count = count + n
      /\ r.above = first_above_time /\ ~ r.mark
  <2> DEFINE t == d.taken + n
             y == d.count + n
  <2>1. t \in Nat /\ y \in Nat
    BY <1>0, <1>2
  <2> HIDE DEF t, y
  <2>2. LET e == Counted(d, t, y)
        IN  /\ e \in Results
            /\ e.taken = t /\ e.mark = d.mark /\ e.next = d.next /\ e.count = y
            /\ e.dropping = d.dropping /\ e.above = d.above
    BY <2>1, ResultCounted, ZenonT(60)
  <2>3. r = Counted(d, t, y)
    BY DEF t, y
  <2> HIDE DEF r
  <2>4. r \in Results /\ r.taken = t /\ r.count = y /\ r.above = d.above /\ r.mark = d.mark
    BY <2>2, <2>3, Zenon
  <2>5. t = 1 + n /\ y = count + n
    BY DEF t, y
  <2> QED BY <2>4, <2>5, Zenon
<1>8. CASE now >= d.next /\ ~ c /\ Standing(1 + n)
  <2> DEFINE e == Dated(r, Due(d, n))
  <2>1. Dropping(d, c) = e
    BY <1>8, <1>a, <1>b, Zenon DEF Dropping, n, Counted, Dated
  <2> HIDE DEF r
  <2>2. /\ e \in Results /\ e.taken = 1 + n /\ ~ e.mark /\ e.above = first_above_time
        /\ e.next = Due(d, n) /\ e.count = count + n
    <3>1. /\ e \in Results /\ e.taken = r.taken /\ e.mark = r.mark /\ e.above = r.above
          /\ e.next = Due(d, n) /\ e.count = r.count
      BY <1>b, <1>4, ResultNext, Zenon
    <3> HIDE DEF e
    <3> QED BY <1>b, <3>1
  <2>3. \A k \in 1..(1 + n) : Standing(k)
    BY <1>2, <1>8
  <2> HIDE DEF e
  <2>5. Sound(e)
    BY <1>0, <1>1, <1>2, <2>2, <2>3 DEF Sound, Results
  <2> QED BY <2>1, <2>5
<1>9. CASE now >= d.next /\ ~ c /\ ~ Standing(1 + n)
  <2> DEFINE zero == 0
             no == FALSE
             u == Due(d, n - 1)
             e == Left(r, u, zero, no, no)
  <2>1. Dropping(d, c) = e
    BY <1>9, <1>a, <1>b, Zenon DEF Dropping, n, Counted, Left
  <2> HIDE DEF r
  <2>2. e \in Results /\ e.taken = 1 + n /\ ~ e.mark /\ e.above = 0 /\ e.count = count + n
    <3>1. u \in Nat /\ zero \in Nat /\ no \in BOOLEAN /\ r \in Results
      BY <1>b, <1>4
    <3> HIDE DEF u, zero, no
    <3>2. LET r1 == Left(r, u, zero, no, no)
          IN  /\ r1 \in Results
              /\ r1.taken = r.taken /\ r1.mark = r.mark /\ r1.next = u /\ r1.count = r.count
              /\ r1.dropping = no /\ r1.above = zero
      BY ONLY <3>1, ResultLeft
    <3>3. e = Left(r, u, zero, no, no)
      OBVIOUS
    <3> HIDE DEF e, r
    <3> QED BY <1>b, <3>2, <3>3 DEF zero
  <2> HIDE DEF e
  <2>3. Sound(e)
    BY <1>0, <1>1, <1>2, <2>2 DEF Sound, Results
  <2> QED BY <2>1, <2>3
<1> QED BY <1>0, <1>6, <1>7, <1>8, <1>9

(* The dropping state is entered with a mark or a drop: one packet more is taken. *)
LEMMA EnteringSound ==
  ASSUME Clock, Standing(1), Overdue, NEW c \in BOOLEAN,
         c => ecn_mode /\ Capable(Head(packet_queue)),
         NEW d \in Results, d.taken = 1, ~ d.mark, d.above = first_above_time, d.count = count
  PROVE  Sound(Entering(d, c))
<1> DEFINE r == IF c THEN Flagged(d, TRUE) ELSE dodequeue(d)
           m == IF now - d.next < 16 * INTERVAL /\ d.count > 2 THEN d.count - 2 ELSE 1
           x == ControlLaw(now, m)
           yes == TRUE
           e == Entered(r, yes, m, x)
<1>0. /\ Len(packet_queue) \in Nat /\ MAXPACKET \in Nat /\ now \in Nat /\ INTERVAL \in Nat
      /\ d.next \in Nat /\ count \in Nat /\ first_above_time \in Nat
  BY CodelAssumption DEF Clock, Results
<1>1. Len(packet_queue) >= 2 /\ packet_queue # <<>>
  BY <1>0 DEF Standing, Short
<1>2. Entering(d, c) = e
  BY Zenon DEF Entering, Entered, Flagged
<1>3. m \in Nat \ {0} /\ m <= count + 1
  BY <1>0
<1>4. x \in Nat /\ m \in Nat /\ yes \in BOOLEAN
  <2>1. x \in Nat
    <3> HIDE DEF m
    <3> QED BY <1>0, <1>3, ControlLawNumber
  <2> QED BY <1>3, <2>1
<1> HIDE DEF m, x
<1>5. /\ r \in Results /\ (r.mark <=> c) /\ r.taken = (IF c THEN 1 ELSE 2)
      /\ r.above # 0 => (~ c => Standing(2)) /\ r.above = first_above_time
  <2>1. CASE c
    <3>1. LET f == Flagged(d, yes)
          IN  f \in Results /\ f.taken = d.taken /\ f.mark = yes /\ f.above = d.above
      <4> HIDE DEF yes
      <4> QED BY <1>4, ResultFlagged
    <3>2. r = Flagged(d, yes)
      BY <2>1
    <3> HIDE DEF r
    <3> QED BY <2>1, <3>1, <3>2
  <2>2. CASE ~ c
    <3> DEFINE f == dodequeue(d)
    <3>1. /\ f \in Results /\ f.taken = d.taken + 1 /\ f.mark = d.mark
              /\ f.above = IF Standing(d.taken + 1)
                             THEN IF d.above = 0 THEN now + INTERVAL ELSE d.above ELSE 0
      BY <1>0, DodequeueTakes, Zenon
    <3>2. r = f
      BY <2>2
    <3> HIDE DEF f
    <3>3. d.taken + 1 = 2 /\ first_above_time # 0
      BY DEF Overdue
    <3> HIDE DEF r
    <3>4. ~ f.mark /\ f.taken = 2
      BY <3>1, <3>3
    <3>5. f.above # 0 => Standing(2) /\ f.above = first_above_time
      BY <3>1, <3>3
    <3> QED BY <2>2, <3>1, <3>2, <3>4, <3>5
  <2> QED BY <2>1, <2>2
<1> HIDE DEF r
<1>6. /\ e \in Results /\ e.taken = r.taken /\ e.mark = r.mark /\ e.count = m /\ e.above = r.above
  <2> HIDE DEF yes
  <2>1. LET f == Entered(r, yes, m, x)
        IN  /\ f \in Results
            /\ f.taken = r.taken /\ f.mark = r.mark /\ f.next = x /\ f.count = m
            /\ f.dropping = yes /\ f.above = r.above
    <3>1. r \in Results /\ yes \in BOOLEAN /\ m \in Nat /\ x \in Nat
      BY <1>4, <1>5
    <3> QED BY ONLY <3>1, ResultEntering
  <2> QED BY <2>1
<1> HIDE DEF e
<1>7. Sound(e)
  <2>1. CASE c
    BY <1>0, <1>1, <1>3, <1>5, <1>6, <2>1 DEF Sound, Results
  <2>2. CASE ~ c
    <3>1. e.above # 0 => \A k \in 1..2 : Standing(k)
      BY <1>5, <1>6, <2>2
    <3> QED BY <1>0, <1>1, <1>3, <1>5, <1>6, <2>2, <3>1 DEF Sound, Results
  <2> QED BY <2>1, <2>2
<1> QED BY <1>2, <1>7

(* What a dequeue comes to, whatever state it finds. *)
LEMMA OutcomeSound ==
  ASSUME Clock
  PROVE  Sound(Outcome)
<1> DEFINE c == ecn_mode /\ Capable(Head(packet_queue))
           o == First.ok
           d == Turned(First, o)
<1>0. /\ Len(packet_queue) \in Nat /\ now \in Nat /\ INTERVAL \in Nat
      /\ drop_next \in Nat /\ count \in Nat /\ first_above_time \in Nat /\ dropping \in BOOLEAN
  BY CodelAssumption DEF Clock
<1>1. c \in BOOLEAN
  BY DEF Capable
<1>2. /\ First \in Results /\ First.taken = 1 /\ ~ First.mark
      /\ First.next = drop_next /\ First.count = count /\ First.dropping = dropping
      /\ First.ok <=> Standing(1) /\ Overdue
      /\ First.above = IF Standing(1)
                         THEN IF first_above_time = 0 THEN now + INTERVAL ELSE first_above_time
                         ELSE 0
      /\ packet_queue = <<>> => ~ Standing(1)
  BY FirstDequeue, Zenon
<1>3. packet_queue # <<>> => 1 <= Len(packet_queue)
  BY DEF Clock
<1>4. First.ok => Overdue /\ Standing(1) /\ First.above = first_above_time /\ packet_queue # <<>>
  BY <1>2 DEF Overdue
<1>5. First.above # 0 => \A k \in 1..1 : Standing(k)
  BY <1>2
<1>6. Sound(First)
  <2> HIDE DEF First
  <2>1. /\ First.above \in Nat
        /\ First.above # 0 => First.above = now + INTERVAL \/ First.above = first_above_time
    BY <1>0, <1>2
  <2>2. /\ First.taken \in Nat /\ First.next \in Nat /\ First.count \in Nat
        /\ First.dropping \in BOOLEAN /\ First.mark \in BOOLEAN
    BY <1>2 DEF Results
  <2>3. First.taken = 1 /\ ~ First.mark /\ First.count = count
    BY <1>2
  <2>4. First.count <= count + (First.taken - 1) + (IF First.mark THEN 1 ELSE 0)
    BY <1>0, <2>3
  <2>5. First.above # 0 => \A k \in 1..First.taken : Standing(k)
    BY <1>5, <2>3
  <2>6. /\ First.taken \in Nat \ {0} /\ First.above \in Nat
        /\ First.taken >= 1 /\ ~ (First.taken > 1)
    BY <2>1, <2>3
  <2>7. packet_queue # <<>> => First.taken <= Len(packet_queue)
    BY <1>3, <2>3
  <2>8. First.above # 0 =>
          /\ \A k \in 1..First.taken : Standing(k)
          /\ First.above = now + INTERVAL \/ First.above = first_above_time
    BY <2>1, <2>5, <2>6, Zenon
  <2>9. First.mark => First.taken = 1 /\ ecn_mode /\ Capable(Head(packet_queue))
    BY <2>3
  <2>10. First.taken > 1 \/ First.mark => Overdue
    BY <2>3, <2>6
  <2> QED BY <2>2, <2>3, <2>4, <2>6, <2>7, <2>8, <2>9, <2>10, Zenon DEF Sound
<1>7. CASE packet_queue = <<>>
  <2>1. Outcome = First
    BY <1>7, Zenon DEF Outcome, First
  <2> QED BY <1>6, <2>1
<1>8. CASE packet_queue # <<>> /\ First.dropping
  <2>1. Outcome = Dropping(d, c)
    BY <1>8, Zenon DEF Outcome, First, Turned
  <2>2. o \in BOOLEAN
    BY <1>2 DEF Results
  <2>3. /\ d \in Results /\ d.taken = First.taken /\ d.mark = First.mark /\ d.next = First.next
        /\ d.count = First.count /\ d.dropping = o /\ d.above = First.above
    <3> HIDE DEF o, First
    <3> QED BY <1>2, <2>2, ResultTurned
  <2> HIDE DEF d, First
  <2>4. CASE o
    <3> HIDE DEF c
    <3>1. c => ecn_mode /\ Capable(Head(packet_queue))
      BY DEF c
    <3>2. /\ Standing(1) /\ Overdue /\ d.taken = 1 /\ ~ d.mark /\ d.above = first_above_time
          /\ d.count = count /\ d.dropping
      BY <1>2, <1>4, <2>3, <2>4
    <3>3. Sound(Dropping(d, c))
      BY <1>1, <2>3, <3>1, <3>2, DroppingSound
    <3> QED BY <2>1, <3>3
  <2>5. CASE ~ o
    <3>1. Dropping(d, c) = d
      <4>1. ~ d.dropping
        BY <2>3, <2>5
      <4> HIDE DEF c, o
      <4> QED BY <4>1, Zenon DEF Dropping
    <3>2. Sound(d)
      BY <1>6, <2>2, <2>3 DEF Sound
    <3> QED BY <2>1, <3>1, <3>2
  <2> QED BY <2>4, <2>5
<1>9. CASE packet_queue # <<>> /\ ~ First.dropping /\ First.ok
  <2>1. Outcome = Entering(First, c)
    BY <1>9, Zenon DEF Outcome, First
  <2> HIDE DEF First, c
  <2>2. c => ecn_mode /\ Capable(Head(packet_queue))
    BY DEF c
  <2>3. Sound(Entering(First, c))
    BY <1>1, <1>2, <1>4, <1>9, <2>2, EnteringSound
  <2> QED BY <2>1, <2>3
<1>10. CASE packet_queue # <<>> /\ ~ First.dropping /\ ~ First.ok
  <2>1. Outcome = First
    BY <1>10, Zenon DEF Outcome, First
  <2> QED BY <1>6, <2>1
<1> QED BY <1>7, <1>8, <1>9, <1>10

----------------------------------------------------------------------------
(* Packets wait as they came; a packet is marked when it is handed on. *)
Fresh == {p \in Packet : p.ecn = p.was}

QueueInv ==
  /\ packet_queue \in Seq(Fresh) /\ delivered \in Seq(Packet)
  /\ ecn_mode \in BOOLEAN /\ buffer_size \in BufferSizes
AccountInv ==
  /\ packets \in Nat /\ packets <= MaxPackets
  /\ packets_dropped \in Nat /\ packets_marked \in Nat
  /\ packets = Len(delivered) + Len(packet_queue) + packets_dropped
  /\ packets_marked = Cardinality(MarkedIn(delivered)) /\ packets_marked <= Len(delivered)
ClockInv ==
  /\ now \in Start..(Start + Horizon) /\ target \in Targets
  /\ arrived \in Seq(Int) /\ Len(arrived) = Len(packet_queue)
  /\ \A i \in 1..Len(arrived) : arrived[i] \in Start..now
StateInv ==
  /\ first_above_time \in Nat /\ drop_next \in Nat /\ dropping \in BOOLEAN
  /\ count \in Nat /\ count <= packets_dropped + packets_marked
(* The time above the target began at least an INTERVAL before it counts, and since
   then no packet was in time nor the queue short. *)
StandingInv ==
  /\ last_short \in Nat /\ last_short <= now
  /\ first_above_time # 0 => last_short + INTERVAL <= first_above_time

CodelInv == QueueInv /\ AccountInv /\ ClockInv /\ StateInv /\ StandingInv

LEMMA FreshPacket == Fresh \subseteq Packet /\ \A s \in Seq(Fresh) : s \in Seq(Packet)
<1>1. Fresh \subseteq Packet
  BY DEF Fresh
<1>2. ASSUME NEW s \in Seq(Fresh) PROVE s \in Seq(Packet)
  BY <1>1
<1> QED BY <1>1, <1>2

LEMMA ClockTicks == CodelInv => Clock
<1> SUFFICES ASSUME CodelInv PROVE Clock
  OBVIOUS
<1>1. packet_queue \in Seq(Packet)
  BY FreshPacket DEF CodelInv, QueueInv
<1>2. now \in Nat \ {0}
  BY CodelAssumption DEF CodelInv, ClockInv, Start
<1>3. first_above_time \in Nat /\ drop_next \in Nat /\ count \in Nat /\ dropping \in BOOLEAN
  BY DEF CodelInv, StateInv
<1> QED BY <1>1, <1>2, <1>3 DEF Clock

(* Flagging shows. *)
LEMMA CapableMarked ==
  ASSUME NEW p \in Fresh, Capable(p)
  PROVE  setECN(p, CE) \in Packet /\ setECN(p, CE).ecn # setECN(p, CE).was
<1>1. p \in Packet /\ p.ecn = p.was /\ p.version \in {0, 4, 6}
  BY DEF Fresh, Packet
<1>2. p.version # 0 /\ p.ecn # CE
  BY DEF Capable, getECN, NotECT, ECT0, ECT1, CE
<1>3. CASE p.version = 4
  BY <1>1, <1>2, <1>3 DEF setECN, Packet, Codepoints
<1>4. CASE p.version = 6
  BY <1>1, <1>2, <1>4 DEF setECN, Packet, Codepoints
<1> QED BY <1>1, <1>2, <1>3, <1>4

(* A sequence whose members are in a set is one of that set. *)
LEMMA SequenceIn ==
  ASSUME NEW S, NEW T, NEW s \in Seq(S), \A i \in 1..Len(s) : s[i] \in T
  PROVE  s \in Seq(T)
OBVIOUS

(* What is left of a sequence when its first n members are taken. *)
LEMMA Rest ==
  ASSUME NEW S, NEW s \in Seq(S), NEW n \in 1..Len(s)
  PROVE  /\ SubSeq(s, n + 1, Len(s)) \in Seq(S)
         /\ Len(SubSeq(s, n + 1, Len(s))) = Len(s) - n
         /\ \A i \in 1..(Len(s) - n) : SubSeq(s, n + 1, Len(s))[i] = s[n + i]
<1> DEFINE m == n + 1
           k == Len(s)
<1>1. m \in Int /\ k \in Int /\ k - m + 1 = k - n /\ \A i \in m..k : s[i] \in S
  OBVIOUS
<1> HIDE DEF m, k
<1>2. /\ SubSeq(s, m, k) \in Seq(S) /\ Len(SubSeq(s, m, k)) = IF m <= k THEN k - m + 1 ELSE 0
      /\ \A i \in 1..(k - m + 1) : SubSeq(s, m, k)[i] = s[m + i - 1]
  BY <1>1, SubSeqProperties
<1> QED BY <1>1, <1>2 DEF m, k

(* A dequeue from a queue that is not empty hands on one of its packets, marked or
   as it came, and counts those before it as dropped. *)
LEMMA DequeueHandsOn ==
  ASSUME CodelInv, Dequeue, packet_queue # <<>>
  PROVE  LET d == Outcome
             q == packet_queue
         IN  \E p \in Packet :
               /\ d.taken \in 1..Len(q) /\ d.mark \in BOOLEAN
               /\ delivered' = Append(delivered, p)
               /\ p.ecn # p.was <=> d.mark
               /\ packet_queue' = SubSeq(q, d.taken + 1, Len(q))
               /\ arrived' = SubSeq(arrived, d.taken + 1, Len(q))
               /\ packets_dropped' = packets_dropped + (d.taken - 1)
               /\ packets_marked' = packets_marked + (IF d.mark THEN 1 ELSE 0)
<1> DEFINE d == Outcome
           q == packet_queue
           p == IF d.mark THEN setECN(q[d.taken], CE) ELSE q[d.taken]
<1>1. Sound(d) /\ Clock
  BY ClockTicks, OutcomeSound
<1>2. /\ packet_queue' = SubSeq(q, d.taken + 1, Len(q))
      /\ arrived' = SubSeq(arrived, d.taken + 1, Len(q))
      /\ delivered' = IF d.taken <= Len(q) THEN Append(delivered, p) ELSE delivered
      /\ packets_dropped' = packets_dropped + (IF q = <<>> THEN 0 ELSE d.taken - 1)
      /\ packets_marked' = packets_marked + (IF d.mark THEN 1 ELSE 0)
  BY DEF Dequeue
<1> HIDE DEF d
<1>3. d.taken \in 1..Len(q) /\ d.mark \in BOOLEAN
  BY <1>1 DEF Sound, Clock
<1>4. q \in Seq(Fresh) /\ q[d.taken] \in Fresh
  BY <1>3 DEF CodelInv, QueueInv
<1>5. p \in Packet /\ (p.ecn # p.was <=> d.mark)
  <2>1. CASE d.mark
    <3>1. d.taken = 1 /\ Capable(Head(q))
      BY <1>1, <2>1 DEF Sound
    <3>2. Head(q) = q[1]
      BY <1>4
    <3> QED BY <1>4, <2>1, <3>1, <3>2, CapableMarked
  <2>2. CASE ~ d.mark
    BY <1>4, <2>2 DEF Fresh
  <2> QED BY <2>1, <2>2
<1>6. delivered' = Append(delivered, p)
  BY <1>2, <1>3
<1> QED BY <1>2, <1>3, <1>5, <1>6 DEF d

(* One from an empty queue changes no more than the fields. *)
LEMMA DequeueNothing ==
  ASSUME CodelInv, Dequeue, packet_queue = <<>>
  PROVE  /\ packet_queue' = packet_queue /\ delivered' = delivered /\ arrived' = arrived
         /\ packets_dropped' = packets_dropped /\ packets_marked' = packets_marked
<1> DEFINE d == Outcome
<1>1. Sound(d) /\ Clock
  BY ClockTicks, OutcomeSound
<1>2. d.taken = 1 /\ ~ d.mark
  BY <1>1 DEF Sound
<1>3. Len(packet_queue) = 0 /\ arrived = <<>>
  BY DEF CodelInv, ClockInv
<1>4. /\ packet_queue' = SubSeq(packet_queue, d.taken + 1, Len(packet_queue))
      /\ arrived' = SubSeq(arrived, d.taken + 1, Len(packet_queue))
      /\ d.taken > Len(packet_queue) => delivered' = delivered
      /\ packets_dropped' = packets_dropped + (IF packet_queue = <<>> THEN 0 ELSE d.taken - 1)
      /\ packets_marked' = packets_marked + (IF d.mark THEN 1 ELSE 0)
  BY <1>2, <1>3 DEF Dequeue
<1> HIDE DEF d
<1>5. packet_queue' = <<>> /\ arrived' = <<>>
  BY <1>2, <1>3, <1>4, SubSeqEmpty
<1> QED BY <1>2, <1>3, <1>4, <1>5 DEF CodelInv, AccountInv

(* The fields that a dequeue leaves. *)
LEMMA DequeueFields ==
  ASSUME CodelInv, Dequeue
  PROVE  LET d == Outcome
         IN  /\ Sound(d)
             /\ first_above_time' = d.above /\ drop_next' = d.next /\ count' = d.count
             /\ dropping' = d.dropping
             /\ last_short' \in {now, last_short}
             /\ (\A k \in 1..d.taken : Standing(k)) => last_short' = last_short
             /\ UNCHANGED <<packets, ecn_mode, buffer_size, now, target>>
<1> DEFINE d == Outcome
<1>1. Sound(d)
  BY ClockTicks, OutcomeSound
<1>2. /\ first_above_time' = d.above /\ drop_next' = d.next /\ count' = d.count
      /\ dropping' = d.dropping
      /\ last_short' = IF \/ ~ (d.taken <= Len(packet_queue))
                          \/ \E k \in 1..d.taken : InTime(k) \/ Short(k)
                         THEN now ELSE last_short
      /\ UNCHANGED <<packets, ecn_mode, buffer_size, now, target>>
  BY DEF Dequeue
<1> HIDE DEF d
<1>3. ASSUME \A k \in 1..d.taken : Standing(k) PROVE last_short' = last_short
  <2>1. d.taken \in 1..d.taken
    BY <1>1 DEF Sound
  <2>2. d.taken <= Len(packet_queue) /\ \A k \in 1..d.taken : ~ InTime(k) /\ ~ Short(k)
    BY <1>3, <2>1 DEF Standing
  <2> QED BY <1>2, <2>2
<1> QED BY <1>1, <1>2, <1>3 DEF d

(* A dequeue keeps the queue, the account, the clock, the fields and the time the
   queue has stood. *)
LEMMA DequeueKeepsQueue ==
  ASSUME CodelInv, Dequeue
  PROVE  /\ QueueInv' /\ AccountInv' /\ ClockInv'
         /\ packets_dropped' + packets_marked'
              = packets_dropped + packets_marked
                + (IF packet_queue = <<>> THEN 0 ELSE Outcome.taken - 1)
                + (IF Outcome.mark THEN 1 ELSE 0)
<1> DEFINE d == Outcome
<1>0. /\ Sound(d) /\ UNCHANGED <<packets, ecn_mode, buffer_size, now, target>>
  BY DequeueFields
<1> HIDE DEF d
<1>1. CASE packet_queue = <<>>
  <2>1. /\ packet_queue' = packet_queue /\ delivered' = delivered /\ arrived' = arrived
        /\ packets_dropped' = packets_dropped /\ packets_marked' = packets_marked
    BY <1>1, DequeueNothing
  <2>2. ~ d.mark
    BY <1>0, <1>1 DEF Sound
  <2> QED
    BY <1>0, <1>1, <2>1, <2>2 DEF d, CodelInv, QueueInv, AccountInv, ClockInv, MarkedIn
<1>2. CASE packet_queue # <<>>
  <2> DEFINE q == packet_queue
  <2>1. PICK p \in Packet :
          /\ d.taken \in 1..Len(q) /\ d.mark \in BOOLEAN
          /\ delivered' = Append(delivered, p)
          /\ p.ecn # p.was <=> d.mark
          /\ packet_queue' = SubSeq(q, d.taken + 1, Len(q))
          /\ arrived' = SubSeq(arrived, d.taken + 1, Len(q))
          /\ packets_dropped' = packets_dropped + (d.taken - 1)
          /\ packets_marked' = packets_marked + (IF d.mark THEN 1 ELSE 0)
    BY <1>2, DequeueHandsOn DEF d
  <2>8. Len(q) \in Nat /\ d.taken \in Nat /\ d.taken >= 1 /\ d.taken <= Len(q)
    <3>1. Len(q) \in Nat
      BY DEF CodelInv, QueueInv
    <3> QED BY <2>1, <3>1
  <2>2. packet_queue' \in Seq(Fresh) /\ Len(packet_queue') = Len(q) - d.taken
    BY <2>1, Rest DEF CodelInv, QueueInv
  <2>3. delivered' \in Seq(Packet) /\ Len(delivered') = Len(delivered) + 1 /\ Len(delivered) \in Nat
    BY <2>1 DEF CodelInv, QueueInv
  <2>4. Cardinality(MarkedIn(delivered'))
          = Cardinality(MarkedIn(delivered)) + (IF d.mark THEN 1 ELSE 0)
    BY <2>1, MarkedAppend DEF CodelInv, QueueInv
  <2>5. QueueInv'
    BY <1>0, <2>2, <2>3 DEF CodelInv, QueueInv
  <2>6. AccountInv'
    <3>1. packets' = packets /\ Len(q) \in Nat /\ d.taken \in Nat
      BY <1>0, <2>1 DEF CodelInv, QueueInv
    <3>2. packets_dropped' \in Nat /\ packets_marked' \in Nat
      <4>1. (IF d.mark THEN 1 ELSE 0) \in Nat /\ d.taken - 1 \in Nat
        BY <2>8
      <4>2. packets_dropped \in Nat /\ packets_marked \in Nat
        BY DEF CodelInv, AccountInv
      <4> QED BY <2>1, <4>1, <4>2
    <3>3. packets_marked' = Cardinality(MarkedIn(delivered')) /\ packets_marked' <= Len(delivered')
      BY <2>1, <2>3, <2>4 DEF CodelInv, AccountInv
    <3>4. packets' = Len(delivered') + Len(packet_queue') + packets_dropped'
      <4>1. packets = Len(delivered) + Len(q) + packets_dropped /\ packets_dropped \in Nat
        BY DEF CodelInv, AccountInv
      <4>2. packets_dropped' = packets_dropped + (d.taken - 1)
        BY <2>1
      <4>3. ASSUME NEW l \in Nat, NEW n \in Nat, NEW t \in Nat, NEW g \in Nat
            PROVE  l + n + g = (l + 1) + (n - t) + (g + (t - 1))
        OBVIOUS
      <4>4. Len(delivered) + Len(q) + packets_dropped
              = (Len(delivered) + 1) + (Len(q) - d.taken) + (packets_dropped + (d.taken - 1))
        BY <2>3, <3>1, <4>1, <4>3
      <4> QED BY <2>2, <2>3, <3>1, <4>1, <4>2, <4>4, Zenon
    <3>5. packets' \in Nat /\ packets' <= MaxPackets
      BY <3>1 DEF CodelInv, AccountInv
    <3>6. (packets_marked = Cardinality(MarkedIn(delivered)))'
      BY <3>3 DEF MarkedIn
    <3> QED BY <3>2, <3>3, <3>4, <3>5, <3>6 DEF AccountInv
  <2>7. ClockInv'
    <3> DEFINE t == d.taken
    <3>1. arrived \in Seq(Int) /\ Len(arrived) = Len(q) /\ t \in 1..Len(arrived)
          /\ arrived' = SubSeq(arrived, t + 1, Len(arrived))
      BY <2>1 DEF CodelInv, ClockInv
    <3> HIDE DEF t
    <3>2. /\ arrived' \in Seq(Int) /\ Len(arrived') = Len(arrived) - t
          /\ \A i \in 1..(Len(arrived) - t) : arrived'[i] = arrived[t + i]
      BY <3>1, Rest, Zenon
    <3>3. ASSUME NEW i \in 1..Len(arrived') PROVE arrived'[i] \in Start..now
      <4> DEFINE m == Len(arrived)
      <4>0. m \in Nat /\ t \in 1..m /\ i \in 1..(m - t)
        BY <3>1, <3>2
      <4> HIDE DEF m
      <4>a. t + i \in 1..m
        BY <4>0
      <4>1. i \in 1..(Len(arrived) - t) /\ t + i \in 1..Len(arrived)
        BY <4>0, <4>a DEF m
      <4>2. \A k \in 1..Len(arrived) : arrived[k] \in Start..now
        BY DEF CodelInv, ClockInv
      <4>3. arrived'[i] = arrived[t + i]
        BY <3>2, <4>1, Zenon
      <4> QED BY <4>1, <4>2, <4>3, Zenon
    <3> QED BY <1>0, <2>2, <3>1, <3>2, <3>3 DEF CodelInv, ClockInv, Start, t
  <2>9. packets_dropped' + packets_marked'
          = packets_dropped + packets_marked + (d.taken - 1) + (IF d.mark THEN 1 ELSE 0)
    <3>1. packets_dropped \in Nat /\ packets_marked \in Nat
      BY DEF CodelInv, AccountInv
    <3> QED BY <2>1, <2>8, <3>1
  <2> QED BY <1>2, <2>5, <2>6, <2>7, <2>9 DEF d
<1> QED BY <1>1, <1>2

LEMMA DequeueKeepsFields ==
  ASSUME CodelInv, Dequeue
  PROVE  StateInv' /\ StandingInv'
<1> DEFINE d == Outcome
<1>1. /\ Sound(d)
      /\ first_above_time' = d.above /\ drop_next' = d.next /\ count' = d.count
      /\ dropping' = d.dropping
      /\ last_short' \in {now, last_short}
      /\ (\A k \in 1..d.taken : Standing(k)) => last_short' = last_short
      /\ UNCHANGED <<packets, ecn_mode, buffer_size, now, target>>
  BY DequeueFields
<1>2. packets_dropped' + packets_marked'
        = packets_dropped + packets_marked + (IF packet_queue = <<>> THEN 0 ELSE d.taken - 1)
          + (IF d.mark THEN 1 ELSE 0)
  BY DequeueKeepsQueue
<1> HIDE DEF d
<1>3. StateInv'
  <2>1. d.count <= packets_dropped' + packets_marked'
    <3>1. packet_queue = <<>> => d.taken = 1
      BY <1>1 DEF Sound
    <3>2. /\ d.count \in Nat /\ d.taken \in Nat /\ d.mark \in BOOLEAN
          /\ d.count <= count + (d.taken - 1) + (IF d.mark THEN 1 ELSE 0)
      BY <1>1 DEF Sound
    <3>3. /\ count \in Nat /\ packets_dropped \in Nat /\ packets_marked \in Nat
          /\ count <= packets_dropped + packets_marked
      BY DEF CodelInv, StateInv, AccountInv
    <3>4. packets_dropped' + packets_marked'
            = packets_dropped + packets_marked + (d.taken - 1) + (IF d.mark THEN 1 ELSE 0)
      BY <1>2, <3>1
    <3> QED BY <3>2, <3>3, <3>4
  <2> QED BY <1>1, <2>1 DEF Sound, StateInv
<1>4. StandingInv'
  <2>0. /\ now \in Nat /\ INTERVAL \in Nat /\ d.above \in Nat
        /\ last_short \in Nat /\ last_short <= now
    BY <1>1, CodelAssumption DEF CodelInv, ClockInv, StandingInv, Start, Sound
  <2>1. ASSUME d.above # 0 PROVE last_short' + INTERVAL <= d.above
    <3>1. last_short' = last_short
      BY <1>1, <2>1 DEF Sound
    <3>2. d.above = now + INTERVAL \/ d.above = first_above_time
      BY <1>1, <2>1 DEF Sound
    <3>3. CASE d.above = first_above_time
      BY <2>1, <3>1, <3>3 DEF CodelInv, StandingInv
    <3> QED BY <2>0, <3>1, <3>2, <3>3
  <2> QED BY <1>1, <2>0, <2>1 DEF StandingInv
<1> QED BY <1>3, <1>4

LEMMA EnqueueKeeps ==
  ASSUME CodelInv, NEW p \in Arrival, Enqueue(p)
  PROVE  CodelInv'
<1>1. p \in Packet /\ p.ecn = p.was
  BY ArrivalAsSent
<1>2. Arrive /\ UNCHANGED <<now, codel, last_short>>
  BY DEF Enqueue
<1>3. /\ packets < MaxPackets /\ packets' = packets + 1
      /\ UNCHANGED <<ecn_mode, buffer_size, delivered>>
  BY <1>2 DEF Arrive
<1>4. \/ /\ packets_dropped' = packets_dropped + 1
         /\ UNCHANGED <<packet_queue, packets_marked, arrived>>
      \/ /\ packet_queue' = Append(packet_queue, p) /\ arrived' = Append(arrived, now)
         /\ UNCHANGED <<packets_dropped, packets_marked>>
  BY DEF Enqueue, Drop, Queue
<1>5. /\ packet_queue \in Seq(Fresh) /\ delivered \in Seq(Packet) /\ arrived \in Seq(Int)
      /\ p \in Fresh /\ now \in Int /\ now \in Start..now
  BY <1>1, CodelAssumption DEF CodelInv, QueueInv, ClockInv, Fresh, Start
<1>6. QueueInv'
  <2>1. CASE packet_queue' = packet_queue
    BY <1>3, <1>5, <2>1 DEF CodelInv, QueueInv
  <2>2. CASE packet_queue' = Append(packet_queue, p)
    <3>1. packet_queue' \in Seq(Fresh)
      BY <1>5, <2>2
    <3> QED BY <1>3, <1>5, <3>1 DEF CodelInv, QueueInv
  <2> QED BY <1>4, <2>1, <2>2
<1>7. MaxPackets \in Nat
  BY EcnQueueAssumption
<1>8. AccountInv'
  <2>1. Len(packet_queue') + packets_dropped' = Len(packet_queue) + packets_dropped + 1
    BY <1>4, <1>5 DEF CodelInv, AccountInv
  <2>2. Len(packet_queue) \in Nat /\ Len(delivered) \in Nat /\ Len(packet_queue') \in Nat
    BY <1>4, <1>5
  <2>3. packets_dropped' \in Nat /\ packets_marked' = packets_marked
    BY <1>4 DEF CodelInv, AccountInv
  <2>4. MarkedIn(delivered)' = MarkedIn(delivered)
    BY <1>3 DEF MarkedIn
  <2>5. packets' = Len(delivered') + Len(packet_queue') + packets_dropped'
    <3> DEFINE l == Len(delivered)
               q == Len(packet_queue)
               d == packets_dropped
               r == Len(packet_queue')
               e == packets_dropped'
    <3>1. /\ l \in Nat /\ q \in Nat /\ r \in Nat /\ d \in Nat /\ e \in Nat
          /\ packets = l + q + d /\ r + e = q + d + 1
      BY <2>1, <2>2, <2>3 DEF CodelInv, AccountInv
    <3>2. packets' = packets + 1 /\ Len(delivered') = l
      BY <1>3
    <3> HIDE DEF l, q, d, r, e
    <3>3. (l + q + d) + 1 = l + r + e
      BY <3>1
    <3>4. packets' = l + r + e
      BY <3>1, <3>2, <3>3
    <3> QED BY <3>2, <3>4 DEF r, e
  <2>6. packets' \in Nat /\ packets' <= MaxPackets
    BY <1>3, <1>7 DEF CodelInv, AccountInv
  <2>7. packets_marked' \in Nat /\ packets_marked' <= Len(delivered')
    BY <1>3, <2>3 DEF CodelInv, AccountInv
  <2>8. packets_marked = Cardinality(MarkedIn(delivered))
    BY DEF CodelInv, AccountInv
  <2>9. (packets_marked = Cardinality(MarkedIn(delivered)))'
    BY <2>3, <2>4, <2>8, Zenon
  <2> QED BY <2>3, <2>5, <2>6, <2>7, <2>9 DEF AccountInv
<1>9. ClockInv'
  <2>1. CASE UNCHANGED <<packet_queue, arrived>>
    BY <1>2, <2>1 DEF CodelInv, ClockInv, codel, Start
  <2>2. CASE packet_queue' = Append(packet_queue, p) /\ arrived' = Append(arrived, now)
    <3>1. Len(packet_queue') = Len(packet_queue) + 1
      BY <1>5, <2>2
    <3>2. arrived' \in Seq(Int) /\ Len(arrived') = Len(arrived) + 1 /\ Len(arrived) \in Nat
          /\ arrived'[Len(arrived) + 1] = now
          /\ \A i \in 1..Len(arrived) : arrived'[i] = arrived[i]
      BY <1>5, <2>2
    <3>3. ASSUME NEW i \in 1..Len(arrived') PROVE arrived'[i] \in Start..now
      <4>1. CASE i = Len(arrived) + 1
        BY <1>5, <3>2, <4>1
      <4>2. CASE i # Len(arrived) + 1
        <5>1. i \in 1..Len(arrived)
          BY <3>2, <4>2
        <5> QED BY <3>2, <5>1 DEF CodelInv, ClockInv
      <4> QED BY <4>1, <4>2
    <3> QED BY <1>2, <3>1, <3>2, <3>3 DEF CodelInv, ClockInv, codel, Start
  <2> QED BY <1>4, <2>1, <2>2
<1>10. StateInv'
  BY <1>2, <1>4 DEF codel, CodelInv, StateInv, AccountInv
<1>11. StandingInv'
  BY <1>2 DEF codel, CodelInv, StandingInv
<1> QED BY <1>6, <1>8, <1>9, <1>10, <1>11 DEF CodelInv

LEMMA CodelStep ==
  ASSUME CodelInv, [Next]_vars
  PROVE  CodelInv'
<1>1. ASSUME NEW p \in Arrival, Enqueue(p) PROVE CodelInv'
  BY <1>1, EnqueueKeeps
<1>2. CASE Dequeue
  BY <1>2, DequeueKeepsQueue, DequeueKeepsFields DEF CodelInv
<1>3. CASE SetParameter
  <2>1. /\ UNCHANGED <<packet_queue, counters, delivered, now, arrived, first_above_time, drop_next,
                       count, dropping, last_short>>
        /\ ecn_mode' \in BOOLEAN /\ buffer_size' \in BufferSizes /\ target' \in Targets
    BY <1>3 DEF SetParameter, SetParameters, base, codel, CodelInv, QueueInv, ClockInv
  <2> QED
    BY <2>1 DEF counters, CodelInv, QueueInv, AccountInv, ClockInv, StateInv, StandingInv, MarkedIn
<1>4. CASE Tick
  <2>1. now \in Nat /\ Start \in Nat /\ Horizon \in Nat
    BY CodelAssumption DEF Start, CodelInv, ClockInv
  <2>2. now' = now + 1 /\ now' <= Start + Horizon /\ UNCHANGED <<base, arrived, codel, last_short>>
    BY <1>4, <2>1 DEF Tick
  <2>3. QueueInv' /\ AccountInv' /\ StateInv'
    BY <2>2 DEF base, counters, codel, CodelInv, QueueInv, AccountInv, StateInv, MarkedIn
  <2>4. ClockInv'
    <3>1. now' \in Start..(Start + Horizon) /\ now <= now'
      BY <2>1, <2>2 DEF CodelInv, ClockInv
    <3>2. \A i \in 1..Len(arrived) : arrived[i] \in Start..(now')
      BY <2>1, <3>1 DEF CodelInv, ClockInv
    <3> QED BY <2>2, <3>1, <3>2 DEF base, codel, CodelInv, ClockInv, Start
  <2>5. StandingInv'
    BY <2>1, <2>2 DEF codel, CodelInv, StandingInv
  <2> QED BY <2>3, <2>4, <2>5 DEF CodelInv
<1>5. CASE UNCHANGED vars
  BY <1>5 DEF vars, base, counters, codel, CodelInv, QueueInv, AccountInv, ClockInv, StateInv,
     StandingInv, MarkedIn, Start
<1> QED BY <1>1, <1>2, <1>3, <1>4, <1>5 DEF Next

LEMMA CodelInit == Init => CodelInv
<1> SUFFICES ASSUME Init PROVE CodelInv
  OBVIOUS
<1>1. /\ packet_queue = <<>> /\ delivered = <<>> /\ ecn_mode = FALSE /\ buffer_size \in BufferSizes
      /\ packets = 0 /\ packets_dropped = 0 /\ packets_marked = 0
      /\ now = Start /\ arrived = <<>> /\ last_short = Start /\ target \in Targets
      /\ first_above_time = 0 /\ drop_next = 0 /\ count = 0 /\ dropping = FALSE
  BY DEF Init, QueueInit
<1>2. MarkedIn(<<>>) = {} /\ Cardinality({}) = 0
  BY FS_EmptySet DEF MarkedIn
<1>3. Start \in Nat /\ Horizon \in Nat
  BY CodelAssumption DEF Start
<1>4. QueueInv
  <2>1. <<>> \in Seq(Fresh) /\ <<>> \in Seq(Packet) /\ FALSE \in BOOLEAN
    OBVIOUS
  <2> QED BY <1>1, <2>1, Zenon DEF QueueInv
<1>5. AccountInv
  <2>1. Cardinality(MarkedIn(delivered)) = 0
    BY <1>1, <1>2
  <2>2. Len(delivered) = 0 /\ Len(packet_queue) = 0
    BY <1>1
  <2> QED BY <1>1, <2>1, <2>2, EcnQueueAssumption DEF AccountInv
<1>6. ClockInv
  BY <1>1, <1>3 DEF ClockInv
<1>7. StateInv
  <2>1. dropping \in BOOLEAN
    BY <1>1
  <2> QED BY <1>1, <2>1 DEF StateInv
<1>8. StandingInv
  BY <1>1, <1>3 DEF StandingInv
<1> QED BY <1>4, <1>5, <1>6, <1>7, <1>8 DEF CodelInv
(* The invariant holds of every state that the queue reaches. *)
THEOREM CodelInvariant == Spec => []CodelInv
BY CodelInit, CodelStep, PTL DEF Spec

----------------------------------------------------------------------------
LEMMA InvTypes == CodelInv => TypeOK
<1> SUFFICES ASSUME CodelInv PROVE TypeOK
  OBVIOUS
<1>1. packet_queue \in Seq(Packet) /\ Len(packet_queue) \in Nat /\ Len(delivered) \in Nat
  BY FreshPacket DEF CodelInv, QueueInv
<1>2. MaxPackets \in Nat /\ CounterSize \in Nat /\ MaxPackets < CounterSize
  BY EcnQueueAssumption
<1>3. /\ packets \in Nat /\ packets <= MaxPackets
      /\ packets_dropped \in Nat /\ packets_marked \in Nat
      /\ packets = Len(delivered) + Len(packet_queue) + packets_dropped
      /\ packets_marked <= Len(delivered)
  BY DEF CodelInv, AccountInv
<1>4. /\ packets \in 0..MaxPackets /\ packets_dropped \in 0..MaxPackets
      /\ packets_marked \in 0..(CounterSize - 1)
      /\ packets_dropped + packets_marked <= MaxPackets
  BY <1>1, <1>2, <1>3
<1>5. QueueTypeOK
  BY <1>1, <1>4 DEF QueueTypeOK, CodelInv, QueueInv
<1>6. /\ count \in 0..MaxPackets /\ dropping \in BOOLEAN
      /\ first_above_time \in Nat /\ drop_next \in Nat
  BY <1>2, <1>3, <1>4 DEF CodelInv, StateInv
<1>7. /\ now \in Start..(Start + Horizon) /\ target \in Targets
      /\ Len(arrived) = Len(packet_queue)
  BY DEF CodelInv, ClockInv
<1>8. arrived \in Seq(Start..now)
  <2>1. arrived \in Seq(Int) /\ \A i \in 1..Len(arrived) : arrived[i] \in Start..now
    BY DEF CodelInv, ClockInv
  <2> QED BY <2>1, SequenceIn
<1> QED BY <1>5, <1>6, <1>7, <1>8 DEF TypeOK

(* Types and bounds of every variable: what count goes up to is the packets that came,
   though it is taken over from one dropping state to the next. *)
THEOREM TypeCorrect == Spec => []TypeOK
BY CodelInvariant, InvTypes, PTL

(* None of the packets that wait is marked: the marks are those of the packets handed on. *)
LEMMA InvMarks == CodelInv => MarksCounted
<1> SUFFICES ASSUME CodelInv PROVE MarksCounted
  OBVIOUS
<1> DEFINE n == Len(delivered)
<1>1. /\ delivered \in Seq(Packet) /\ packet_queue \in Seq(Fresh) /\ packet_queue \in Seq(Packet)
  BY FreshPacket DEF CodelInv, QueueInv
<1>2. n \in Nat /\ Len(packet_queue) \in Nat /\ Len(Through) = n + Len(packet_queue)
  BY <1>1 DEF Through
<1>3. \A i \in 1..n : Through[i] = delivered[i]
  BY <1>1 DEF Through
<1>4. ASSUME NEW i \in 1..Len(Through), i > n PROVE Through[i].ecn = Through[i].was
  <2>1. i - n \in 1..Len(packet_queue) /\ Through[i] = packet_queue[i - n]
    BY <1>1, <1>2, <1>4 DEF Through
  <2>2. packet_queue[i - n] \in Fresh
    BY <1>1, <2>1
  <2> QED BY <2>1, <2>2 DEF Fresh
<1>5. MarkedHere = MarkedIn(delivered)
  BY <1>2, <1>3, <1>4 DEF MarkedHere, MarkedIn
<1> QED BY <1>5 DEF MarksCounted, CodelInv, AccountInv

(* The counter of marks is the number of packets that dequeue marked, whichever way it
   came to mark them. *)
THEOREM MarksAccountedFor == Spec => []MarksCounted
BY CodelInvariant, InvMarks, PTL

LEMMA StandingStep ==
  ASSUME CodelInv, Dequeue, packets_dropped' # packets_dropped \/ packets_marked' # packets_marked
  PROVE  now - last_short >= INTERVAL
<1> DEFINE d == Outcome
<1>1. packet_queue # <<>>
  BY DequeueNothing
<1>2. /\ d.taken \in 1..Len(packet_queue) /\ d.mark \in BOOLEAN
      /\ packets_dropped' = packets_dropped + (d.taken - 1)
      /\ packets_marked' = packets_marked + (IF d.mark THEN 1 ELSE 0)
  BY <1>1, DequeueHandsOn
<1>3. Sound(d)
  BY ClockTicks, OutcomeSound
<1> HIDE DEF d
<1>4. d.taken > 1 \/ d.mark
  <2>1. d.taken \in Nat \ {0} /\ packets_dropped \in Nat /\ packets_marked \in Nat
    BY <1>3 DEF Sound, CodelInv, AccountInv
  <2> QED BY <1>2, <2>1
<1>5. Overdue
  BY <1>3, <1>4 DEF Sound
<1>6. /\ last_short \in Nat /\ now \in Nat /\ INTERVAL \in Nat /\ first_above_time \in Nat
      /\ last_short + INTERVAL <= first_above_time /\ now >= first_above_time
  BY <1>5, ClockTicks, CodelAssumption DEF Overdue, Clock, CodelInv, StandingInv
<1> QED BY <1>6

(* Whatever was entered and left before, a packet is dropped or marked only when for an
   INTERVAL no packet taken was in time and the queue was never short. *)
THEOREM StandingQueueOnly == Spec => ActsOnStandingQueue
<1>1. CodelInv /\ [Next]_vars =>
        [Dequeue /\ (packets_dropped' # packets_dropped \/ packets_marked' # packets_marked)
           => now - last_short >= INTERVAL]_vars
  BY StandingStep
<1> QED BY <1>1, CodelInvariant, PTL DEF Spec, ActsOnStandingQueue

LEMMA DeliversStep ==
  ASSUME CodelInv, Dequeue, packet_queue # <<>>
  PROVE  Len(delivered') = Len(delivered) + 1
<1>1. PICK p \in Packet : delivered' = Append(delivered, p)
  BY DequeueHandsOn
<1> QED BY <1>1 DEF CodelInv, QueueInv

(* A dequeue drops as many packets as it likes and still hands one on, if there was one. *)
THEOREM AlwaysDelivers == Spec => DequeueDelivers
<1>1. CodelInv /\ [Next]_vars =>
        [Dequeue /\ packet_queue # <<>> => Len(delivered') = Len(delivered) + 1]_vars
  BY DeliversStep
<1> QED BY <1>1, CodelInvariant, PTL DEF Spec, DequeueDelivers
=============================================================================
