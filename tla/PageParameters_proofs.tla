----------------------- MODULE PageParameters_proofs -----------------------
(***************************************************************************)
(* The page's subscriptions follow what it shows (SubscriptionsMatch), and *)
(* its inputs what the server has (ValuesShown).  Both are about a page    *)
(* that has nothing on its way; the invariants say what holds while        *)
(* something is: for every topic, what its last packet will make of it, or *)
(* its last message.                                                       *)
(***************************************************************************)
EXTENDS PageParameters, FiniteSetTheorems, SequenceTheorems, TLAPS

Topics == NodeTopics \cup {EveryModule}

----------------------------------------------------------------------------
(* What is on its way *)

(* A packet's topics, if it is one of the kind. *)
Named(packet, kind, t) ==
  packet.type = kind /\ IF kind = "subscribe"
                          THEN \E k \in DOMAIN packet.topics : packet.topics[k] = t
                          ELSE t \in packet.topics

Unnamed(ps, kind, t) == \A i \in DOMAIN ps : ~Named(ps[i], kind, t)

(* Once the packets have arrived, t is in a set that packets of the kind `yes' put it
   into, those of the kind `no' take it from, and that is S now. *)
Will(ps, S, t, yes, no) ==
  \/ t \in S /\ Unnamed(ps, no, t)
  \/ \E i \in DOMAIN ps :
       Named(ps[i], yes, t) /\ \A j \in DOMAIN ps : j >= i => ~Named(ps[j], no, t)

(* The last message of a topic says x; there is none. *)
Tells(ms, t, x) ==
  \E i \in DOMAIN ms :
    ms[i].topic = t /\ \A j \in DOMAIN ms : j >= i /\ ms[j].topic = t => ms[j].value = x
Silent(ms, t) == \A i \in DOMAIN ms : ms[i].topic # t

----------------------------------------------------------------------------
(* The invariants *)

(* What a parameter is, in this server and on this page. *)
Right(p) == Written(p) \cap Values

(* Packets of the page.  It sets no statistics. *)
SetPacket ==
  {packet \in [type : {"set"}, param : ParamSet, value : Values] :
     Kind[packet.param] # "statistic" /\ packet.value \in Right(packet.param) \cup {NaN}}
Packet ==
  [type : {"subscribe"}, topics : Seq(Topics)]
    \cup [type : {"unsubscribe"}, topics : SUBSET NodeTopics]
    \cup SetPacket \cup [type : {"module"}, there : BOOLEAN]

(* A message of a topic of the module says what its parameter may be. *)
ValueMessage ==
  {m \in [topic : {ValueTopic(p) : p \in ParamSet}, value : Values] :
     m.value \in Right(m.topic[2]) \cup {Empty}}
Message ==
  [topic : {Description}, value : {"description", Empty}]
    \cup ValueMessage
    \cup [topic : {OptionsTopic(p) : p \in Selects}, value : Choices \cup {Empty}]

Widget ==
  [value : Values \cup {Unknown}, changed : BOOLEAN, options : Choices \cup {{}}, text : Values]

(* What a select shows follows from its value and its options. *)
WidgetOK(p, w) ==
  /\ w \in Widget
  /\ Kind[p] = "double" => w.text \in Right(p) \cup {NaN}
  /\ p \in Selects => w.changed = FALSE /\ w.text = Choice(w.value, w.options)

ParameterOK(p) == value[p] \in Right(p) \cup {Empty}

PageType ==
  /\ shown \in BOOLEAN
  /\ subscriptions = PageEntries \cup IF shown THEN NodeEntries ELSE {}
  /\ widget \in [ParamSet -> Widget] /\ \A p \in ParamSet : WidgetOK(p, widget[p])
LinkType ==
  /\ link \in {"up", "down"}
  /\ subscribed \subseteq Topics
  /\ out \in Seq(Packet)
ServerType ==
  /\ present \in BOOLEAN
  /\ value \in [ParamSet -> Values] /\ options \in [Selects -> Choices]
  /\ \A p \in ParamSet : ParameterOK(p)
  /\ coming \in Seq(Message)
TypeInv == PageType /\ LinkType /\ ServerType

(* What is wanted will be subscribed, and nothing else. *)
Wanted(t) == \E e \in subscriptions : e.topic = t
On(t) == Will(out, subscribed, t, "subscribe", "unsubscribe")
Off(t) == Will(out, Topics \ subscribed, t, "unsubscribe", "subscribe")

SubInv ==
  /\ link = "down" => subscribed = {} /\ \A i \in DOMAIN out : out[i].type # "subscribe"
  /\ link = "up" => \A t \in Topics : IF Wanted(t) THEN On(t) ELSE Off(t)

(* What an input shows of a topic. *)
Shows(t) ==
  LET p == t[2]
      w == widget[p]
  IN  IF Len(t) = 3 THEN w.options = options[p]
      ELSE w.value = value[p] /\ (p \notin Selects => (w.changed <=> w.text # value[p]))

(* What is retained for a topic will be shown. *)
Coming(t) ==
  \E i \in DOMAIN out :
    \/ Named(out[i], "subscribe", t)
    \/ out[i].type = "set" /\ t = ValueTopic(out[i].param)
WillShow(t) ==
  \/ Coming(t)
  \/ Tells(coming, t, Retained(t))
  \/ Silent(coming, t) /\ Shows(t)

ShowInv ==
  link = "up" /\ shown /\ present => \A t \in NodeTopics : Retained(t) # Empty => WillShow(t)

PageInv == TypeInv /\ SubInv /\ ShowInv

----------------------------------------------------------------------------
(* Sequences *)

Rank(S, k) == Cardinality({j \in S : j <= k})

(* The places of a set are numbered one by one. *)
LEMMA RankFacts ==
  ASSUME NEW S \in SUBSET Int, IsFiniteSet(S)
  PROVE  /\ Cardinality(S) \in Nat
         /\ \A k \in S : Rank(S, k) \in 1..Cardinality(S)
         /\ \A k, l \in S : Rank(S, k) = Rank(S, l) => k = l
<1>2. IsFiniteSet(S) /\ Cardinality(S) \in Nat
  BY FS_CardinalityType
<1>3. \A k : IsFiniteSet({j \in S : j <= k}) /\ Rank(S, k) \in Nat /\ Rank(S, k) <= Cardinality(S)
  <2> TAKE k
  <2>1. {j \in S : j <= k} \in SUBSET S
    OBVIOUS
  <2> QED
    BY <2>1, <1>2, FS_Subset, FS_CardinalityType DEF Rank
<1>4. \A k \in S : Rank(S, k) # 0
  <2> TAKE k \in S
  <2>1. k \in {j \in S : j <= k}
    OBVIOUS
  <2> QED
    BY <2>1, <1>3, FS_EmptySet DEF Rank
<1>5. \A k, l \in S : k < l => Rank(S, k) # Rank(S, l)
  <2> TAKE k, l \in S
  <2> HAVE k < l
  <2> DEFINE K == {j \in S : j <= k}
             L == {j \in S : j <= l}
  <2>1. K \in SUBSET L /\ l \in L /\ l \notin K
    <3>1. \A j \in S : j \in Int
      OBVIOUS
    <3>2. l \in L /\ l \notin K
      BY <3>1
    <3>3. \A j \in S : j <= k => j <= l
      BY <3>1
    <3> QED
      BY <3>2, <3>3
  <2>2. IsFiniteSet(L)
    BY <1>3
  <2>3. Cardinality(L) # Cardinality(K)
    <3> HIDE DEF K, L
    <3> QED
      BY <2>1, <2>2, FS_Subset
  <2> QED
    BY <2>3 DEF Rank
<1>6. \A k \in S : Rank(S, k) \in 1..Cardinality(S)
  <2> TAKE k \in S
  <2>1. Rank(S, k) \in Nat /\ Rank(S, k) <= Cardinality(S) /\ Rank(S, k) # 0
    BY <1>3, <1>4
  <2> QED
    BY <1>2, <2>1
<1>7. \A k, l \in S : Rank(S, k) = Rank(S, l) => k = l
  BY <1>5
<1> QED
  BY <1>2, <1>6, <1>7

(* And every number is one's. *)
LEMMA RankOnto ==
  ASSUME NEW S \in SUBSET Int, IsFiniteSet(S), NEW i \in 1..Cardinality(S)
  PROVE  \E k \in S : Rank(S, k) = i
<1> DEFINE C == 1..Cardinality(S)
           T == C \ {i}
           f == [k \in S |-> Rank(S, k)]
<1>1. IsFiniteSet(S) /\ Cardinality(S) \in Nat
  BY RankFacts
<1>2. IsFiniteSet(C) /\ Cardinality(C) = Cardinality(S)
  BY <1>1, FS_Interval
<1>3. IsFiniteSet(T) /\ Cardinality(T) = Cardinality(S) - 1
  <2> HIDE DEF C
  <2>1. i \in C
    BY DEF C
  <2> QED
    BY <1>2, <2>1, FS_RemoveElement
<1>4. SUFFICES ASSUME ~ \E k \in S : Rank(S, k) = i
               PROVE  FALSE
  OBVIOUS
<1>5. f \in [S -> T]
  BY <1>4, RankFacts
<1>6. Cardinality(T) < Cardinality(S)
  BY <1>1, <1>3
<1>7. \E k, l \in S : k # l /\ f[k] = f[l]
  <2> HIDE DEF f, T
  <2> QED
    BY <1>1, <1>3, <1>5, <1>6, FS_PigeonHole
<1> QED
  BY <1>7, RankFacts

(* What is kept is what is at the places. *)
LEMMA KeptSeq ==
  ASSUME NEW s, NEW S \in SUBSET Int, IsFiniteSet(S), NEW X, \A k \in S : s[k] \in X
  PROVE  Kept(s, S) \in Seq(X)
<1> DEFINE N == Cardinality(S)
           At(i) == CHOOSE k \in S : Rank(S, k) = i
<1>1. N \in Nat
  BY RankFacts
<1>2. Kept(s, S) = [i \in 1..N |-> s[At(i)]]
  BY DEF Kept, Rank
<1>3. \A i \in 1..N : At(i) \in S
  BY RankOnto
<1> HIDE DEF N, At
<1>4. Kept(s, S) \in [1..N -> X]
  BY <1>2, <1>3
<1> QED
  BY <1>1, <1>4, SeqDef

LEMMA KeptRange ==
  ASSUME NEW s, NEW S \in SUBSET Int, IsFiniteSet(S)
  PROVE  /\ \A i \in DOMAIN Kept(s, S) : \E k \in S : Kept(s, S)[i] = s[k]
         /\ \A k \in S : \E i \in DOMAIN Kept(s, S) : Kept(s, S)[i] = s[k]
<1> DEFINE K == Kept(s, S)
           N == Cardinality(S)
           At(i) == CHOOSE k \in S : Rank(S, k) = i
<1>1. K = [i \in 1..N |-> s[At(i)]]
  BY DEF Kept, Rank
<1>2. \A i \in 1..N : At(i) \in S /\ Rank(S, At(i)) = i
  BY RankOnto
<1>3. \A k \in S : Rank(S, k) \in 1..N /\ At(Rank(S, k)) = k
  <2> HIDE DEF At
  <2> TAKE k \in S
  <2>1. Rank(S, k) \in 1..N
    BY RankFacts
  <2>2. At(Rank(S, k)) \in S /\ Rank(S, At(Rank(S, k))) = Rank(S, k)
    BY <2>1, <1>2
  <2>3. \A l, m \in S : Rank(S, l) = Rank(S, m) => l = m
    BY RankFacts
  <2> QED
    BY <2>1, <2>2, <2>3
<1> HIDE DEF K, N, At
<1>4. DOMAIN K = 1..N /\ \A i \in 1..N : K[i] = s[At(i)]
  BY <1>1
<1>5. \A i \in DOMAIN K : \E k \in S : K[i] = s[k]
  BY <1>2, <1>4
<1>6. \A k \in S : \E i \in DOMAIN K : K[i] = s[k]
  BY <1>3, <1>4
<1> QED
  BY <1>5, <1>6 DEF K

LEMMA KeptAt ==
  ASSUME NEW X, NEW s \in Seq(X), NEW S \in SUBSET DOMAIN s
  PROVE  /\ Kept(s, S) \in Seq(X)
         /\ \A i \in DOMAIN Kept(s, S) : \E k \in S : Kept(s, S)[i] = s[k]
         /\ \A k \in S : \E i \in DOMAIN Kept(s, S) : Kept(s, S)[i] = s[k]
<1>1. S \in SUBSET Int /\ IsFiniteSet(S) /\ \A k \in S : s[k] \in X
  <2>1. Len(s) \in Nat /\ S \in SUBSET (1..Len(s))
    BY LenProperties
  <2>2. IsFiniteSet(1..Len(s))
    BY <2>1, FS_Interval
  <2> QED
    BY <2>1, <2>2, FS_Subset
<1>2. Kept(s, S) \in Seq(X)
  BY <1>1, KeptSeq
<1>3. /\ \A i \in DOMAIN Kept(s, S) : \E k \in S : Kept(s, S)[i] = s[k]
      /\ \A k \in S : \E i \in DOMAIN Kept(s, S) : Kept(s, S)[i] = s[k]
  BY <1>1, KeptRange
<1> QED
  BY <1>1, <1>2, <1>3

LEMMA ConcatAt ==
  ASSUME NEW X, NEW s \in Seq(X), NEW u \in Seq(X)
  PROVE  /\ s \o u \in Seq(X)
         /\ \A i \in DOMAIN s : i \in DOMAIN (s \o u) /\ (s \o u)[i] = s[i]
         /\ \A i \in DOMAIN u : Len(s) + i \in DOMAIN (s \o u) /\ (s \o u)[Len(s) + i] = u[i]
         /\ \A i \in DOMAIN (s \o u) :
              \/ i \in DOMAIN s /\ (s \o u)[i] = s[i]
              \/ i > Len(s) /\ i - Len(s) \in DOMAIN u /\ (s \o u)[i] = u[i - Len(s)]
         /\ DOMAIN s = 1..Len(s) /\ DOMAIN u = 1..Len(u) /\ Len(s) \in Nat /\ Len(u) \in Nat
         /\ DOMAIN (s \o u) = 1..Len(s) + Len(u)
BY ConcatProperties, LenProperties

Has(s, x) == \E k \in DOMAIN s : s[k] = x

LEMMA ConcatHas ==
  ASSUME NEW X, NEW s \in Seq(X), NEW u \in Seq(X), NEW x
  PROVE  Has(s \o u, x) <=> Has(s, x) \/ Has(u, x)
<1>1. ASSUME Has(s \o u, x) PROVE Has(s, x) \/ Has(u, x)
  BY <1>1, ConcatAt DEF Has
<1>2. ASSUME NEW k \in DOMAIN s, s[k] = x PROVE Has(s \o u, x)
  BY <1>2, ConcatAt DEF Has
<1>3. ASSUME NEW k \in DOMAIN u, u[k] = x PROVE Has(s \o u, x)
  <2>1. Len(s) + k \in DOMAIN (s \o u) /\ (s \o u)[Len(s) + k] = x
    BY <1>3, ConcatAt
  <2> QED
    BY <2>1 DEF Has
<1> QED
  BY <1>1, <1>2, <1>3 DEF Has

LEMMA TailAt ==
  ASSUME NEW X, NEW s \in Seq(X), s # <<>>
  PROVE  /\ Tail(s) \in Seq(X) /\ Head(s) = s[1] /\ Head(s) \in X
         /\ DOMAIN s = 1..Len(s) /\ Len(s) \in Nat /\ 1 \in DOMAIN s
         /\ DOMAIN Tail(s) = 1..(Len(s) - 1)
         /\ \A i \in DOMAIN Tail(s) : Tail(s)[i] = s[i + 1] /\ i + 1 \in DOMAIN s
         /\ \A i \in DOMAIN s : i = 1 \/ (i - 1 \in DOMAIN Tail(s) /\ Tail(s)[i - 1] = s[i])
<1>1. s \in Seq(X) /\ s # <<>>
  OBVIOUS
<1>2. Len(s) \in Nat /\ Len(s) # 0 /\ DOMAIN s = 1..Len(s)
  BY <1>1, LenProperties, EmptySeq
<1>3. Tail(s) \in Seq(X) /\ Len(Tail(s)) = Len(s) - 1 /\ Head(s) = s[1] /\ Head(s) \in X
  BY <1>1, HeadTailProperties
<1>4. DOMAIN Tail(s) = 1..(Len(s) - 1) /\ \A i \in DOMAIN Tail(s) : Tail(s)[i] = s[i + 1]
  BY <1>1, <1>2, <1>3, LenProperties, HeadTailProperties
<1>5. 1 \in DOMAIN s /\ \A i \in DOMAIN Tail(s) : i + 1 \in DOMAIN s
  BY <1>2, <1>4
<1>6. \A i \in DOMAIN s : i = 1 \/ (i - 1 \in DOMAIN Tail(s) /\ Tail(s)[i - 1] = s[i])
  <2> SUFFICES ASSUME NEW i \in DOMAIN s, i # 1
               PROVE  i - 1 \in DOMAIN Tail(s) /\ Tail(s)[i - 1] = s[i]
    BY Zenon
  <2>1. i \in Nat /\ i <= Len(s) /\ i > 0
    BY <1>2
  <2>2. i - 1 \in DOMAIN Tail(s)
    BY <1>2, <1>4, <2>1
  <2>3. Tail(s)[i - 1] = s[(i - 1) + 1]
    BY <1>4, <2>2
  <2>4. (i - 1) + 1 = i
    BY <2>1
  <2> QED
    BY <2>2, <2>3, <2>4
<1> QED
  BY <1>2, <1>3, <1>4, <1>5, <1>6

(* What follows and does not name t changes nothing, *)
LEMMA WillConcat ==
  ASSUME NEW X, NEW s \in Seq(X), NEW u \in Seq(X), NEW S, NEW t, NEW yes, NEW no,
         Will(s, S, t, yes, no), Unnamed(u, no, t)
  PROVE  Will(s \o u, S, t, yes, no)
<1>1. CASE t \in S /\ Unnamed(s, no, t)
  <2>1. Unnamed(s \o u, no, t)
    BY <1>1, ConcatAt DEF Unnamed
  <2> QED
    BY <1>1, <2>1 DEF Will
<1>2. CASE \E i \in DOMAIN s : /\ Named(s[i], yes, t)
                               /\ \A j \in DOMAIN s : j >= i => ~Named(s[j], no, t)
  <2>1. PICK i \in DOMAIN s :
          Named(s[i], yes, t) /\ \A j \in DOMAIN s : j >= i => ~Named(s[j], no, t)
    BY <1>2
  <2>2. i \in DOMAIN (s \o u) /\ Named((s \o u)[i], yes, t)
    BY <2>1, ConcatAt
  <2>3. \A j \in DOMAIN (s \o u) : j >= i => ~Named((s \o u)[j], no, t)
    BY <2>1, ConcatAt DEF Unnamed
  <2> QED
    BY <2>2, <2>3 DEF Will
<1> QED
  BY <1>1, <1>2 DEF Will

(* a packet that names it decides, *)
LEMMA WillAdded ==
  ASSUME NEW X, NEW s \in Seq(X), NEW pk \in X, NEW S, NEW t, NEW yes, NEW no,
         Named(pk, yes, t), ~Named(pk, no, t)
  PROVE  Will(s \o <<pk>>, S, t, yes, no)
<1>1. <<pk>> \in Seq(X) /\ DOMAIN <<pk>> = {1} /\ <<pk>>[1] = pk /\ Len(<<pk>>) = 1
  OBVIOUS
<1>2. Len(s) + 1 \in DOMAIN (s \o <<pk>>) /\ (s \o <<pk>>)[Len(s) + 1] = pk
  BY <1>1, ConcatAt
<1>3. \A j \in DOMAIN (s \o <<pk>>) : j >= Len(s) + 1 => (s \o <<pk>>)[j] = pk
  <2>1. \A j \in DOMAIN (s \o <<pk>>) : j >= Len(s) + 1 => j = Len(s) + 1
    BY <1>1, ConcatAt
  <2> QED
    BY <1>2, <2>1
<1> QED
  BY <1>2, <1>3 DEF Will

(* and so it does when it arrives. *)
LEMMA WillTail ==
  ASSUME NEW X, NEW s \in Seq(X), s # <<>>, NEW S, NEW S2, NEW t, NEW yes, NEW no,
         Will(s, S, t, yes, no),
         t \in S /\ ~Named(Head(s), no, t) => t \in S2,
         Named(Head(s), yes, t) => t \in S2
  PROVE  Will(Tail(s), S2, t, yes, no)
<1>1. CASE t \in S /\ Unnamed(s, no, t)
  <2>1. Unnamed(Tail(s), no, t) /\ ~Named(Head(s), no, t)
    BY <1>1, TailAt DEF Unnamed
  <2> QED
    BY <1>1, <2>1 DEF Will
<1>2. CASE \E i \in DOMAIN s : /\ Named(s[i], yes, t)
                               /\ \A j \in DOMAIN s : j >= i => ~Named(s[j], no, t)
  <2>1. PICK i \in DOMAIN s :
          Named(s[i], yes, t) /\ \A j \in DOMAIN s : j >= i => ~Named(s[j], no, t)
    BY <1>2
  <2>2. CASE i = 1
    <3>1. t \in S2
      BY <2>1, <2>2, TailAt
    <3>2. Unnamed(Tail(s), no, t)
      BY <2>1, <2>2, TailAt DEF Unnamed
    <3> QED
      BY <3>1, <3>2 DEF Will
  <2>3. CASE i # 1
    <3>1. i - 1 \in DOMAIN Tail(s) /\ Named(Tail(s)[i - 1], yes, t)
      BY <2>1, <2>3, TailAt
    <3>2. \A j \in DOMAIN Tail(s) : j >= i - 1 => ~Named(Tail(s)[j], no, t)
      BY <2>1, TailAt
    <3> QED
      BY <3>1, <3>2 DEF Will
  <2> QED
    BY <2>2, <2>3
<1> QED
  BY <1>1, <1>2 DEF Will
(* The same of messages. *)
LEMMA TellsConcat ==
  ASSUME NEW X, NEW s \in Seq(X), NEW u \in Seq(X), NEW t, NEW x,
         \A i \in DOMAIN u : u[i].topic = t => u[i].value = x
  PROVE  /\ Tells(s, t, x) => Tells(s \o u, t, x)
         /\ (\E i \in DOMAIN u : u[i].topic = t) => Tells(s \o u, t, x)
<1>1. ASSUME Tells(s, t, x) PROVE Tells(s \o u, t, x)
  <2>1. PICK i \in DOMAIN s : /\ s[i].topic = t
                              /\ \A j \in DOMAIN s : j >= i /\ s[j].topic = t => s[j].value = x
    BY <1>1 DEF Tells
  <2>2. i \in DOMAIN (s \o u) /\ (s \o u)[i].topic = t
    BY <2>1, ConcatAt
  <2>3. \A j \in DOMAIN (s \o u) : j >= i /\ (s \o u)[j].topic = t => (s \o u)[j].value = x
    BY <2>1, ConcatAt
  <2> QED
    BY <2>2, <2>3 DEF Tells
<1>2. ASSUME NEW i \in DOMAIN u, u[i].topic = t PROVE Tells(s \o u, t, x)
  <2>1. Len(s) + i \in DOMAIN (s \o u) /\ (s \o u)[Len(s) + i].topic = t
    BY <1>2, ConcatAt
  <2>2. \A j \in DOMAIN (s \o u) :
          j >= Len(s) + i /\ (s \o u)[j].topic = t => (s \o u)[j].value = x
    <3> TAKE j \in DOMAIN (s \o u)
    <3> HAVE j >= Len(s) + i /\ (s \o u)[j].topic = t
    <3>1. j \notin DOMAIN s
      BY ConcatAt
    <3> QED
      BY <3>1, ConcatAt
  <2> QED
    BY <2>1, <2>2 DEF Tells
<1> QED
  BY <1>1, <1>2

LEMMA SilentConcat ==
  ASSUME NEW X, NEW s \in Seq(X), NEW u \in Seq(X), NEW t, Silent(s, t), Silent(u, t)
  PROVE  Silent(s \o u, t)
BY ConcatAt DEF Silent

LEMMA TellsTail ==
  ASSUME NEW X, NEW s \in Seq(X), s # <<>>, NEW t, NEW x, Tells(s, t, x)
  PROVE  \/ Tells(Tail(s), t, x)
         \/ Silent(Tail(s), t) /\ Head(s).topic = t /\ Head(s).value = x
<1>1. PICK i \in DOMAIN s : /\ s[i].topic = t
                            /\ \A j \in DOMAIN s : j >= i /\ s[j].topic = t => s[j].value = x
  BY DEF Tells
<1>2. CASE i # 1
  <2>1. i - 1 \in DOMAIN Tail(s) /\ Tail(s)[i - 1].topic = t
    BY <1>1, <1>2, TailAt
  <2>2. \A j \in DOMAIN Tail(s) :
          j >= i - 1 /\ Tail(s)[j].topic = t => Tail(s)[j].value = x
    BY <1>1, TailAt
  <2> QED
    BY <2>1, <2>2 DEF Tells
<1>3. CASE i = 1
  <2>1. \A j \in DOMAIN Tail(s) : Tail(s)[j].topic = t => Tail(s)[j].value = x
    BY <1>1, <1>3, TailAt
  <2>2. Head(s).topic = t /\ Head(s).value = x
    BY <1>1, <1>3, TailAt
  <2>3. CASE Silent(Tail(s), t)
    BY <2>2, <2>3
  <2>4. CASE ~Silent(Tail(s), t)
    <3>1. PICK j \in DOMAIN Tail(s) : Tail(s)[j].topic = t
      BY <2>4 DEF Silent
    <3> QED
      BY <2>1, <3>1 DEF Tells
  <2> QED
    BY <2>3, <2>4
<1> QED
  BY <1>2, <1>3

LEMMA SilentTail ==
  ASSUME NEW X, NEW s \in Seq(X), s # <<>>, NEW t, Silent(s, t)
  PROVE  Silent(Tail(s), t) /\ Head(s).topic # t
BY TailAt DEF Silent

----------------------------------------------------------------------------
(* Topics *)

LEMMA TopicFacts ==
  /\ \A p : /\ Len(ValueTopic(p)) = 2 /\ ValueTopic(p)[1] = "module" /\ ValueTopic(p)[2] = p
            /\ Len(OptionsTopic(p)) = 3 /\ OptionsTopic(p)[1] = "module"
            /\ OptionsTopic(p)[2] = p /\ OptionsTopic(p)[3] = "options"
            /\ ValueTopic(p) # OptionsTopic(p)
  /\ \A p, q : ValueTopic(p) # OptionsTopic(q)
  /\ \A p, q : ValueTopic(p) = ValueTopic(q) \/ OptionsTopic(p) = OptionsTopic(q) => p = q
  /\ Len(Description) = 1 /\ Description[1] = "module"
  /\ Len(EveryModule) = 1 /\ EveryModule[1] = "+" /\ EveryModule # Description
  /\ EveryModule \notin NodeTopics /\ Description \notin NodeTopics
<1>1. \A p : /\ Len(ValueTopic(p)) = 2 /\ ValueTopic(p)[1] = "module" /\ ValueTopic(p)[2] = p
             /\ Len(OptionsTopic(p)) = 3 /\ OptionsTopic(p)[1] = "module"
             /\ OptionsTopic(p)[2] = p /\ OptionsTopic(p)[3] = "options"
  BY DEF ValueTopic, OptionsTopic
<1>2. /\ Len(Description) = 1 /\ Description[1] = "module"
      /\ Len(EveryModule) = 1 /\ EveryModule[1] = "+" /\ EveryModule # Description
  BY DEF Description, EveryModule
<1>3. \A p, q : ValueTopic(p) # OptionsTopic(q)
  <2> TAKE p, q
  <2>1. Len(ValueTopic(p)) = 2 /\ Len(OptionsTopic(q)) = 3
    BY <1>1
  <2> QED
    BY <2>1
<1>4. \A p, q : ValueTopic(p) = ValueTopic(q) \/ OptionsTopic(p) = OptionsTopic(q) => p = q
  <2> TAKE p, q
  <2>1. ValueTopic(p)[2] = p /\ ValueTopic(q)[2] = q
    BY <1>1
  <2>2. OptionsTopic(p)[2] = p /\ OptionsTopic(q)[2] = q
    BY <1>1
  <2> QED
    BY <2>1, <2>2
<1>5. EveryModule \notin NodeTopics /\ Description \notin NodeTopics
  BY <1>1, <1>2 DEF NodeTopics
<1> QED
  BY <1>1, <1>2, <1>3, <1>4, <1>5

(* A topic of the module, by what it is of. *)
LEMMA NodeTopicIs ==
  ASSUME NEW t \in NodeTopics
  PROVE  /\ t[2] \in ParamSet /\ t[1] = "module" /\ t # EveryModule /\ t # Description
         /\ \/ t = ValueTopic(t[2]) /\ Len(t) = 2
            \/ t = OptionsTopic(t[2]) /\ Len(t) = 3 /\ t[2] \in Selects /\ t[3] = "options"
BY TopicFacts DEF NodeTopics, Selects

(* A topic of the module matches itself, of the topics there are; "+" matches
   descriptions, and values not. *)
LEMMA MatchesItself ==
  ASSUME NEW t \in NodeTopics, NEW u \in NodeTopics \cup {Description, EveryModule}
  PROVE  topic_matches_sub(t, u) <=> u = t
<1> DEFINE differs(i) == i > Len(u) \/ t[i] # u[i]
           decides == {i \in 1..Len(t) : differs(i) /\ t[i] # "+"}
<1>1. Len(t) \in {2, 3} /\ \A i \in 1..Len(t) : t[i] \notin {"+", "#"}
  <2>1. t[2] \notin {"+", "#"}
    BY NodeTopicIs, PageParametersAssumption
  <2> QED
    BY <2>1, NodeTopicIs
<1>2. topic_matches_sub(t, u) =
        IF decides = {} THEN Len(t) = Len(u)
        ELSE t[CHOOSE i \in decides : \A j \in decides : j <= i] = "#"
  BY DEF topic_matches_sub
<1>3. ASSUME decides # {} PROVE ~topic_matches_sub(t, u)
  <2>1. \E i \in decides : \A j \in decides : j <= i
    <3>1. \A i \in decides : i \in {1, 2, 3}
      BY <1>1
    <3> HIDE DEF decides
    <3>2. CASE 3 \in decides
      BY <3>1, <3>2
    <3>3. CASE 3 \notin decides /\ 2 \in decides
      BY <3>1, <3>3
    <3>4. CASE 3 \notin decides /\ 2 \notin decides /\ 1 \in decides
      BY <3>1, <3>4
    <3> QED
      BY <1>3, <3>1, <3>2, <3>3, <3>4
  <2> DEFINE c == CHOOSE i \in decides : \A j \in decides : j <= i
  <2>2. c \in decides
    BY <2>1
  <2> HIDE DEF c
  <2>3. t[c] # "#"
    BY <1>1, <2>2
  <2> QED
    BY <1>2, <1>3, <2>3 DEF c
<1>4. ASSUME u = t PROVE decides = {} /\ Len(t) = Len(u)
  BY <1>1, <1>4
<1>5. ASSUME decides = {}, Len(t) = Len(u) PROVE u = t
  <2>1. \A i \in 1..Len(t) : t[i] = u[i]
    BY <1>1, <1>5
  <2>2. u \in NodeTopics
    BY <1>1, <1>5, TopicFacts
  <2>3. t[2] = u[2]
    BY <1>1, <2>1
  <2> QED
    BY <1>5, <2>2, <2>3, NodeTopicIs
<1> QED
  <2> HIDE DEF decides
  <2> QED
    BY <1>2, <1>3, <1>4, <1>5

LEMMA PlusMatches ==
  ASSUME NEW u \in NodeTopics \cup {Description}
  PROVE  topic_matches_sub(EveryModule, u) <=> u = Description
<1>1. {i \in 1..Len(EveryModule) :
         (i > Len(u) \/ EveryModule[i] # u[i]) /\ EveryModule[i] # "+"} = {}
  BY TopicFacts
<1>2. topic_matches_sub(EveryModule, u) <=> Len(u) = 1
  BY <1>1, TopicFacts DEF topic_matches_sub
<1>3. u \in NodeTopics => Len(u) # 1
  BY NodeTopicIs
<1> QED
  BY <1>2, <1>3, TopicFacts
(* The list of the module's topics has each of them, and no other. *)
LEMMA ListFacts ==
  /\ NodeTopicList \in Seq(NodeTopics)
  /\ DOMAIN NodeTopicList = 1..Len(NodeTopicList) /\ Len(NodeTopicList) \in Nat
  /\ \A t \in NodeTopics : \E k \in DOMAIN NodeTopicList : NodeTopicList[k] = t
<1> DEFINE topics == [k \in 1..(2 * Len(Params)) |->
                        IF k % 2 = 1 THEN ValueTopic(Params[(k + 1) \div 2])
                                     ELSE OptionsTopic(Params[k \div 2])]
           S == {k \in DOMAIN topics : topics[k] \in NodeTopics}
           n == 2 * Len(Params)
<1>1. NodeTopicList = Kept(topics, S)
  BY DEF NodeTopicList
<1>2. Len(Params) \in Nat
  BY PageParametersAssumption, LenProperties
<1>3. n \in Nat /\ S \in SUBSET (1..n) /\ DOMAIN topics = 1..n
  BY <1>2
<1>4. \A t \in NodeTopics : \E k \in S : topics[k] = t
  <2> TAKE t \in NodeTopics
  <2>1. PICK m \in 1..Len(Params) : t[2] = Params[m]
    BY NodeTopicIs DEF ParamSet
  <2>2. CASE t = ValueTopic(t[2])
    <3>1. 2 * m - 1 \in 1..n /\ (2 * m - 1) % 2 = 1 /\ ((2 * m - 1) + 1) \div 2 = m
      BY <1>2
    <3>2. topics[2 * m - 1] = t
      BY <1>3, <2>1, <2>2, <3>1
    <3> QED
      BY <1>3, <3>1, <3>2
  <2>3. CASE t = OptionsTopic(t[2])
    <3>1. 2 * m \in 1..n /\ (2 * m) % 2 # 1 /\ (2 * m) \div 2 = m
      BY <1>2
    <3>2. topics[2 * m] = t
      BY <1>3, <2>1, <2>3, <3>1
    <3> QED
      BY <1>3, <3>1, <3>2
  <2> QED
    BY <2>2, <2>3, NodeTopicIs
<1>5. \A k \in S : topics[k] \in NodeTopics
  OBVIOUS
<1>6. S \in SUBSET Int /\ IsFiniteSet(S)
  <2> HIDE DEF topics, S, n
  <2>1. IsFiniteSet(1..n)
    BY <1>3, FS_Interval
  <2>2. IsFiniteSet(S)
    BY <1>3, <2>1, FS_Subset
  <2>3. \A k \in 1..n : k \in Int
    OBVIOUS
  <2> QED
    BY <1>3, <2>2, <2>3
<1> HIDE DEF topics, S, n
<1>7. NodeTopicList \in Seq(NodeTopics)
  BY <1>1, <1>5, <1>6, KeptSeq
<1>8. \A t \in NodeTopics : \E k \in DOMAIN NodeTopicList : NodeTopicList[k] = t
  <2> TAKE t \in NodeTopics
  <2>1. PICK k \in S : topics[k] = t
    BY <1>4
  <2> QED
    BY <1>1, <1>6, <2>1, KeptRange
<1> QED
  BY <1>7, <1>8, LenProperties

ChartTopics == {ValueTopic(p) : p \in Charted}

LEMMA ChartFacts ==
  /\ IsFiniteSet(ChartTopics) /\ ChartTopics \subseteq NodeTopics
<1>1. Charted \subseteq ParamSet
  BY PageParametersAssumption
<1>2. IsFiniteSet(ParamSet)
  <2>1. Len(Params) \in Nat
    BY PageParametersAssumption, LenProperties
  <2>2. IsFiniteSet(1..Len(Params))
    BY <2>1, FS_Interval
  <2>3. [k \in 1..Len(Params) |-> Params[k]] \in Surjection(1..Len(Params), ParamSet)
    BY DEF ParamSet, Surjection
  <2> QED
    BY <2>2, <2>3, FS_Surjection
<1>3. IsFiniteSet(Charted)
  BY <1>1, <1>2, FS_Subset
<1>4. [p \in Charted |-> ValueTopic(p)] \in Surjection(Charted, ChartTopics)
  BY DEF ChartTopics, Surjection
<1> QED
  BY <1>1, <1>3, <1>4, FS_Surjection DEF ChartTopics, NodeTopics

LEMMA WantedIs ==
  ASSUME TypeInv, NEW t
  PROVE  Wanted(t) <=> t = EveryModule \/ t \in ChartTopics \/ (shown /\ t \in NodeTopics)
<1>1. subscriptions = PageEntries \cup IF shown THEN NodeEntries ELSE {}
  BY DEF TypeInv, PageType
<1>2. (\E e \in PageEntries : e.topic = t) <=> t = EveryModule \/ t \in ChartTopics
  <2>1. \A e \in PageEntries : e.topic = EveryModule \/ e.topic \in ChartTopics
    BY DEF PageEntries, Entry, ChartTopics
  <2>2. Entry(EveryModule, "page") \in PageEntries /\ Entry(EveryModule, "page").topic = EveryModule
    BY DEF PageEntries, Entry
  <2>3. \A u \in ChartTopics : Entry(u, "chart") \in PageEntries /\ Entry(u, "chart").topic = u
    BY DEF PageEntries, Entry, ChartTopics
  <2> QED
    BY <2>1, <2>2, <2>3
<1>3. (\E e \in NodeEntries : e.topic = t) <=> t \in NodeTopics
  <2>1. \A e \in NodeEntries : e.topic \in NodeTopics
    BY DEF NodeEntries, Entry
  <2>2. \A u \in NodeTopics : Entry(u, "node") \in NodeEntries /\ Entry(u, "node").topic = u
    BY DEF NodeEntries, Entry
  <2> QED
    BY <2>1, <2>2
<1> QED
  BY <1>1, <1>2, <1>3 DEF Wanted

(* A topic of the module is given up unless a chart listens to it. *)
LEMMA DroppedIs ==
  ASSUME TypeInv, shown
  PROVE  Dropped = NodeTopics \ ChartTopics
<1> SUFFICES ASSUME NEW t \in NodeTopics
             PROVE  Cardinality({e \in subscriptions : topic_matches_sub(t, e.topic)}) = 1
                      <=> t \notin ChartTopics
  BY DEF Dropped
<1> DEFINE E == {e \in subscriptions : topic_matches_sub(t, e.topic)}
           N == {Entry(t, "node")}
<1>1. subscriptions = PageEntries \cup NodeEntries
  BY DEF TypeInv, PageType
<1>2. \A e \in subscriptions : topic_matches_sub(t, e.topic) <=> e.topic = t
  <2> TAKE e \in subscriptions
  <2>1. e.topic \in NodeTopics \cup {EveryModule, Description}
    BY <1>1, ChartFacts DEF PageEntries, NodeEntries, Entry, ChartTopics
  <2> QED
    BY <2>1, MatchesItself
<1>3. E = {e \in subscriptions : e.topic = t}
  BY <1>2
<1>4. t # EveryModule
  BY NodeTopicIs
<1>5. \A e : e \in E <=> e = Entry(t, "node") \/ (t \in ChartTopics /\ e = Entry(t, "chart"))
  BY <1>1, <1>3, <1>4 DEF PageEntries, NodeEntries, Entry, ChartTopics
<1> HIDE DEF E
<1>6. CASE t \notin ChartTopics
  <2>1. E = N
    BY <1>5, <1>6
  <2> QED
    BY <1>6, <2>1, FS_Singleton DEF E
<1>7. CASE t \in ChartTopics
  <2>1. Entry(t, "node") # Entry(t, "chart")
    BY DEF Entry
  <2>2. E = N \cup {Entry(t, "chart")}
    BY <1>5, <1>7
  <2>3. IsFiniteSet(N)
    BY FS_Singleton
  <2>4. IsFiniteSet(E)
    BY <2>2, <2>3, FS_AddElement
  <2>5. Entry(t, "node") \in E /\ Entry(t, "chart") \in E
    BY <1>5, <1>7
  <2>6. ~\E x : E = {x}
    BY <2>1, <2>5
  <2> QED
    BY <1>7, <2>4, <2>6, FS_Singleton DEF E
<1> QED
  BY <1>6, <1>7
----------------------------------------------------------------------------
(* Packets and messages *)

LEMMA PacketIs ==
  ASSUME NEW pk \in Packet
  PROVE  /\ pk.type \in {"subscribe", "unsubscribe", "set", "module"}
         /\ pk.type = "subscribe" => pk.topics \in Seq(Topics)
         /\ pk.type = "unsubscribe" => pk.topics \subseteq NodeTopics
         /\ pk.type = "set" => /\ pk.param \in ParamSet /\ Kind[pk.param] # "statistic"
                               /\ pk.value \in Values
                               /\ pk.value \in Right(pk.param) \cup {NaN}
         /\ pk.type = "module" => pk.there \in BOOLEAN
<1>1. CASE pk \in [type : {"subscribe"}, topics : Seq(Topics)]
  BY <1>1
<1>2. CASE pk \in [type : {"unsubscribe"}, topics : SUBSET NodeTopics]
  BY <1>2
<1>3. CASE pk \in SetPacket
  BY <1>3 DEF SetPacket
<1>4. CASE pk \in [type : {"module"}, there : BOOLEAN]
  BY <1>4
<1> QED
  BY <1>1, <1>2, <1>3, <1>4 DEF Packet

LEMMA MakesPacket ==
  /\ \A ts \in Seq(Topics) : Subscribe(ts) \in Packet
  /\ \A ts \in SUBSET NodeTopics : Unsubscribe(ts) \in Packet
  /\ \A there \in BOOLEAN : Module(there) \in Packet
  /\ \A p \in ParamSet, v \in Values :
       Kind[p] # "statistic" /\ v \in Right(p) \cup {NaN} => Set(p, v) \in Packet
BY DEF Packet, SetPacket, Subscribe, Unsubscribe, Module, Set

LEMMA NamedIs ==
  /\ \A ts, t : Named(Subscribe(ts), "subscribe", t) <=> \E k \in DOMAIN ts : ts[k] = t
  /\ \A ts, t : Named(Unsubscribe(ts), "unsubscribe", t) <=> t \in ts
  /\ \A ts, t : ~Named(Subscribe(ts), "unsubscribe", t) /\ ~Named(Unsubscribe(ts), "subscribe", t)
  /\ \A pk, kind, t : pk.type # kind => ~Named(pk, kind, t)
  /\ \A there : Module(there).type = "module"
  /\ \A p, v : Set(p, v).type = "set" /\ Set(p, v).param = p
BY DEF Named, Subscribe, Unsubscribe, Module, Set

LEMMA MessageIs ==
  ASSUME NEW m \in Message
  PROVE  /\ m.topic \in NodeTopics \cup {Description}
         /\ \A p \in ParamSet : m.topic = ValueTopic(p) => m.value \in Right(p) \cup {Empty}
         /\ \A p \in ParamSet : m.topic = OptionsTopic(p) => m.value \in Choices \cup {Empty}
<1>1. CASE m \in [topic : {Description}, value : {"description", Empty}]
  BY <1>1, TopicFacts DEF NodeTopics
<1>2. CASE m \in ValueMessage
  <2>1. PICK p \in ParamSet : m.topic = ValueTopic(p)
    BY <1>2 DEF ValueMessage
  <2>2. m.topic[2] = p /\ m.value \in Right(p) \cup {Empty}
    BY <1>2, <2>1, TopicFacts DEF ValueMessage
  <2> QED
    BY <2>1, <2>2, TopicFacts DEF NodeTopics
<1>3. CASE m \in [topic : {OptionsTopic(p) : p \in Selects}, value : Choices \cup {Empty}]
  BY <1>3, TopicFacts DEF NodeTopics
<1> QED
  BY <1>1, <1>2, <1>3 DEF Message

LEMMA ValuesAre ==
  /\ Low..High \subseteq Values /\ {0, 1, NaN, Empty} \subseteq Values
  /\ UNION Choices \subseteq Values
  /\ \A p \in ParamSet : Typed[p] \subseteq Values /\ Default[p] \in Values
<1> DEFINE A == UNION {Typed[p] \cup {Default[p]} : p \in ParamSet}
           B == UNION Choices
           C == Low..High
           D == {0, 1, NaN, Empty}
<1>1. Values = A \cup B \cup C \cup D
  BY DEF Values
<1>2. \A p \in ParamSet : Typed[p] \subseteq A /\ Default[p] \in A
  <2> TAKE p \in ParamSet
  <2>1. Typed[p] \cup {Default[p]} \in {Typed[q] \cup {Default[q]} : q \in ParamSet}
    OBVIOUS
  <2>2. \A v \in Typed[p] \cup {Default[p]} : v \in A
    BY <2>1
  <2> QED
    BY <2>2
<1> HIDE DEF A, B, C, D
<1>3. B \subseteq Values /\ C \subseteq Values /\ D \subseteq Values
  BY <1>1
<1>4. \A p \in ParamSet : Typed[p] \subseteq Values /\ Default[p] \in Values
  BY <1>1, <1>2
<1> QED
  BY <1>3, <1>4 DEF B, C, D

LEMMA MakesMessage ==
  /\ \A v \in {"description", Empty} : Msg(Description, v) \in Message
  /\ \A p \in ParamSet : \A v \in Right(p) \cup {Empty} : Msg(ValueTopic(p), v) \in Message
  /\ \A p \in Selects : \A v \in Choices \cup {Empty} : Msg(OptionsTopic(p), v) \in Message
<1>1. \A v \in {"description", Empty} : Msg(Description, v) \in Message
  BY DEF Message, Msg
<1>2. \A p \in ParamSet : \A v \in Right(p) \cup {Empty} : Msg(ValueTopic(p), v) \in Message
  <2> TAKE p \in ParamSet
  <2> TAKE v \in Right(p) \cup {Empty}
  <2>1. v \in Values
    BY ValuesAre DEF Right
  <2>2. Msg(ValueTopic(p), v) \in ValueMessage
    BY <2>1, TopicFacts DEF ValueMessage, Msg
  <2> QED
    BY <2>2 DEF Message
<1>3. \A p \in Selects : \A v \in Choices \cup {Empty} : Msg(OptionsTopic(p), v) \in Message
  BY DEF Message, Msg
<1> QED
  BY <1>1, <1>2, <1>3

----------------------------------------------------------------------------
(* The inputs *)

LEMMA Constants ==
  /\ \A p \in ParamSet : Kind[p] \in {"double", "bool", "select", "statistic"}
  /\ Low \in Int /\ High \in Int /\ Step \in Int /\ ServerHigh \in Int
  /\ Low <= High /\ Low <= ServerHigh /\ ServerHigh <= High
  /\ NaN \notin Int /\ Empty \notin Int /\ Empty \notin Choices
  /\ Low..High \subseteq Values /\ {0, 1, NaN, Empty} \subseteq Values
  /\ UNION Choices \subseteq Values /\ UNION Choices \subseteq Int
  /\ \A p \in ParamSet : /\ Typed[p] \subseteq Values /\ Default[p] \in Values
                         /\ Typed[p] \subseteq Right(p) \cup {NaN}
                         /\ Default[p] \in Right(p) \cup {Empty}
  /\ \A p \in ParamSet : Kind[p] = "double" => Right(p) = Int \cap Values
  /\ \A p \in ParamSet : Kind[p] = "statistic" => Right(p) = Int \cap Values
  /\ \A p \in ParamSet : Kind[p] = "bool" => Right(p) = {0, 1}
  /\ \A p \in Selects : Right(p) = Int \cap Values
  /\ \A p : p \in Selects <=> p \in ParamSet /\ Kind[p] = "select"
<1>1. /\ \A p \in ParamSet : Kind[p] \in {"double", "bool", "select", "statistic"}
      /\ Low \in Int /\ High \in Int /\ Step \in Int /\ ServerHigh \in Int
      /\ Low <= High /\ Low <= ServerHigh /\ ServerHigh <= High
      /\ NaN \notin Int /\ Empty \notin Int /\ Empty \notin Choices
  BY PageParametersAssumption
<1>2. Low..High \subseteq Values /\ {0, 1, NaN, Empty} \subseteq Values
  BY ValuesAre
<1>3. UNION Choices \subseteq Values /\ UNION Choices \subseteq Int
  <2>1. \A opts \in Choices : opts \subseteq Int
    BY PageParametersAssumption
  <2> QED
    BY <2>1, ValuesAre
<1>4. \A p \in ParamSet : Typed[p] \subseteq Values /\ Default[p] \in Values
  BY ValuesAre
<1>5. \A p \in ParamSet : /\ Typed[p] \subseteq Right(p) \cup {NaN}
                          /\ Default[p] \in Right(p) \cup {Empty}
  <2> HIDE DEF Values
  <2>1. \A p \in ParamSet : /\ Typed[p] \subseteq Written(p) \cup {NaN}
                            /\ Default[p] \in Written(p) \cup {Empty}
    BY PageParametersAssumption
  <2> QED
    BY <1>4, <2>1 DEF Right
<1>6. \A p : p \in Selects <=> p \in ParamSet /\ Kind[p] = "select"
  BY DEF Selects
<1>7. \A p \in ParamSet : Kind[p] \in {"double", "statistic"} => Right(p) = Int \cap Values
  BY DEF Right, Written
<1>8. \A p \in ParamSet : Kind[p] = "bool" => Right(p) = {0, 1}
  BY <1>2 DEF Right, Written
<1>9. \A p \in Selects : Right(p) = Int \cap Values
  BY <1>6 DEF Right, Written
<1> QED
  BY <1>1, <1>2, <1>3, <1>4, <1>5, <1>6, <1>7, <1>8, <1>9

LEMMA NewWidgetOK ==
  ASSUME NEW p \in ParamSet
  PROVE  WidgetOK(p, NewWidget(p))
<1>1. NewWidget(p) \in Widget
  BY Constants DEF NewWidget, Widget
<1>2. Kind[p] = "double" => NewWidget(p).text \in Right(p) \cup {NaN}
  BY Constants DEF NewWidget
<1>3. p \in Selects => /\ NewWidget(p).changed = FALSE
                       /\ NewWidget(p).text = Choice(NewWidget(p).value, NewWidget(p).options)
  BY Constants DEF NewWidget, Choice
<1> QED
  BY <1>1, <1>2, <1>3 DEF WidgetOK

(* A value that comes is shown; *)
LEMMA SetValueOK ==
  ASSUME NEW p \in ParamSet, NEW w, WidgetOK(p, w), NEW v \in Right(p) \cup {Empty}
  PROVE  /\ WidgetOK(p, SetValue(w, p, v))
         /\ SetValue(w, p, v).options = w.options
         /\ v # Empty => SetValue(w, p, v).value = v
         /\ v # Empty /\ p \notin Selects => /\ SetValue(w, p, v).text = v
                                             /\ SetValue(w, p, v).changed = FALSE
<1>1. w \in Widget
  BY DEF WidgetOK
<1>2. Right(p) \subseteq Values /\ Empty \in Values
  BY Constants DEF Right
<1>3. CASE p \in Selects
  <2>1. SetValue(w, p, v) = [w EXCEPT !.value = v, !.text = Choice(v, w.options)]
    BY <1>3, Constants DEF SetValue
  <2>2. Choice(v, w.options) \in Values
    BY <1>2 DEF Choice
  <2>3. /\ SetValue(w, p, v) \in Widget
        /\ SetValue(w, p, v).value = v /\ SetValue(w, p, v).options = w.options
        /\ SetValue(w, p, v).text = Choice(v, w.options)
        /\ SetValue(w, p, v).changed = w.changed
    BY <1>1, <1>2, <2>1, <2>2 DEF Widget
  <2>4. Kind[p] # "double" /\ w.changed = FALSE
    BY <1>3, Constants DEF WidgetOK
  <2> QED
    BY <1>3, <2>3, <2>4 DEF WidgetOK
<1>4. CASE p \notin Selects
  <2> DEFINE x == Parsed(p, v)
  <2>1. SetValue(w, p, v) = [w EXCEPT !.value = x, !.text = x, !.changed = FALSE]
    BY <1>4, Constants DEF SetValue
  <2>2. x \in Values /\ (v # Empty => x = v) /\ (Kind[p] = "double" => x \in Right(p) \cup {NaN})
    <3>1. CASE Kind[p] = "bool"
      BY <3>1, <1>2, Constants DEF Parsed
    <3>2. CASE Kind[p] # "bool"
      BY <1>4, <3>2, <1>2, Constants DEF Parsed
    <3> QED
      BY <3>1, <3>2
  <2> HIDE DEF x
  <2>3. /\ SetValue(w, p, v) \in Widget
        /\ SetValue(w, p, v).value = x /\ SetValue(w, p, v).options = w.options
        /\ SetValue(w, p, v).text = x /\ SetValue(w, p, v).changed = FALSE
    BY <1>1, <2>1, <2>2 DEF Widget
  <2> QED
    BY <1>4, <2>2, <2>3 DEF WidgetOK
<1> QED
  BY <1>3, <1>4

(* and so are options. *)
LEMMA SetOptionsOK ==
  ASSUME NEW p \in Selects, NEW w, WidgetOK(p, w), NEW opts \in Choices \cup {{}}
  PROVE  /\ WidgetOK(p, SetOptions(w, opts))
         /\ SetOptions(w, opts).options = opts /\ SetOptions(w, opts).value = w.value
<1>1. w \in Widget /\ w.changed = FALSE
  BY DEF WidgetOK
<1>2. Choice(w.value, opts) \in Values
  BY Constants DEF Choice
<1>3. /\ SetOptions(w, opts) \in Widget
      /\ SetOptions(w, opts).options = opts /\ SetOptions(w, opts).value = w.value
      /\ SetOptions(w, opts).text = Choice(w.value, opts)
      /\ SetOptions(w, opts).changed = FALSE
  BY <1>1, <1>2 DEF SetOptions, Widget
<1>4. Kind[p] # "double"
  BY Constants
<1> QED
  BY <1>3, <1>4 DEF WidgetOK

(* What is typed is marked as changed unless it is what the input has. *)
LEMMA EnteredOK ==
  ASSUME NEW p \in ParamSet, Kind[p] = "double", NEW w, WidgetOK(p, w), NEW t \in Typed[p]
  PROVE  /\ WidgetOK(p, Entered(w, t))
         /\ Entered(w, t).value = w.value /\ Entered(w, t).text = t
         /\ w.value # NaN => (Entered(w, t).changed <=> t # w.value)
<1>1. w \in Widget /\ t \in Values /\ t \in Right(p) \cup {NaN} /\ p \notin Selects
  BY Constants DEF WidgetOK
<1>2. /\ Entered(w, t) \in Widget
      /\ Entered(w, t).value = w.value /\ Entered(w, t).text = t
      /\ Entered(w, t).changed = (t # w.value \/ t = NaN)
  BY <1>1 DEF Entered, Widget
<1> QED
  BY <1>1, <1>2 DEF WidgetOK

(* What is taken is sent, and is a value the parameter can be set to. *)
LEMMA CommittedOK ==
  ASSUME NEW p \in ParamSet, Kind[p] # "statistic", NEW w, WidgetOK(p, w), NEW v,
         Kind[p] = "double" => v \in Int \cup {NaN} /\ (v = NaN \/ v \in Int),
         Kind[p] = "bool" => v \in {0, 1},
         p \in Selects => v \in w.options
  PROVE  /\ WidgetOK(p, Committed(p, w, v))
         /\ Committed(p, w, v).options = w.options
         /\ Committed(p, w, v).value \in Values
         /\ Committed(p, w, v).value \in Right(p) \cup {NaN}
<1> DEFINE x == IF Kind[p] = "double" THEN Clamp(v) ELSE v
<1>1. w \in Widget
  BY DEF WidgetOK
<1>2. Committed(p, w, v) = [w EXCEPT !.value = x, !.text = x, !.changed = FALSE]
  BY DEF Committed
<1>3. x \in Right(p) \cup {NaN} /\ x \in Values /\ (p \in Selects => x \in w.options)
  <2>1. CASE Kind[p] = "double"
    <3>1. Clamp(v) = NaN \/ (Clamp(v) \in Low..High)
      BY <2>1, Constants DEF Clamp
    <3>2. p \notin Selects
      BY <2>1, Constants
    <3> QED
      BY <2>1, <3>1, <3>2, Constants
  <2>2. CASE Kind[p] = "bool"
    BY <2>2, Constants
  <2>3. CASE p \in Selects
    <3>1. w.options \in Choices \cup {{}}
      BY <1>1 DEF Widget
    <3>2. v \in UNION Choices
      BY <2>3, <3>1
    <3> QED
      BY <2>3, <3>2, Constants
  <2> QED
    BY <2>1, <2>2, <2>3, Constants
<1> HIDE DEF x
<1>4. /\ Committed(p, w, v) \in Widget
      /\ Committed(p, w, v).value = x /\ Committed(p, w, v).options = w.options
      /\ Committed(p, w, v).text = x /\ Committed(p, w, v).changed = FALSE
  BY <1>1, <1>2, <1>3 DEF Widget
<1>5. p \in Selects => x = Choice(x, w.options)
  BY <1>3 DEF Choice
<1> QED
  BY <1>3, <1>4, <1>5 DEF WidgetOK
----------------------------------------------------------------------------
(* The server's messages *)

LEMMA SaidIs ==
  ASSUME NEW X, NEW ms \in Seq(X)
  PROVE  /\ Said(ms) \in Seq(X)
         /\ \A i \in DOMAIN Said(ms) : \E k \in DOMAIN ms : Said(ms)[i] = ms[k]
         /\ \A k \in DOMAIN ms :
              ms[k].value # Empty => \E i \in DOMAIN Said(ms) : Said(ms)[i] = ms[k]
<1> DEFINE S == {k \in DOMAIN ms : ms[k].value # Empty}
<1>1. S \in SUBSET DOMAIN ms
  OBVIOUS
<1>3. /\ Said(ms) \in Seq(X)
      /\ \A i \in DOMAIN Said(ms) : \E k \in S : Said(ms)[i] = ms[k]
      /\ \A k \in S : \E i \in DOMAIN Said(ms) : Said(ms)[i] = ms[k]
  <2> HIDE DEF S
  <2>1. Said(ms) = Kept(ms, S)
    BY DEF Said, S
  <2> QED
    BY <1>1, <2>1, KeptAt
<1> QED
  BY <1>3

(* A message is added if its topic is listened to. *)
LEMMA DeliverAdds ==
  ASSUME coming \in Seq(Message), NEW ms \in Seq(Message), Deliver(ms)
  PROVE  /\ coming' \in Seq(Message)
         /\ link # "up" => coming' = coming
         /\ link = "up" =>
              \E u \in Seq(Message) :
                /\ coming' = coming \o u
                /\ \A i \in DOMAIN u : \E k \in DOMAIN ms : u[i] = ms[k]
                /\ \A k \in DOMAIN ms : Heard(ms[k].topic) => \E i \in DOMAIN u : u[i] = ms[k]
<1> DEFINE S == {k \in DOMAIN ms : Heard(ms[k].topic)}
           u == Kept(ms, S)
<1>1. S \in SUBSET DOMAIN ms
  OBVIOUS
<1>3. coming' = IF link = "up" THEN coming \o u ELSE coming
  BY DEF Deliver
<1>4. /\ u \in Seq(Message)
      /\ \A i \in DOMAIN u : \E k \in S : u[i] = ms[k]
      /\ \A k \in S : \E i \in DOMAIN u : u[i] = ms[k]
  <2> HIDE DEF S
  <2> QED
    BY <1>1, KeptAt
<1>5. \A i \in DOMAIN u : \E k \in DOMAIN ms : u[i] = ms[k]
  BY <1>4
<1>6. \A k \in DOMAIN ms : Heard(ms[k].topic) => \E i \in DOMAIN u : u[i] = ms[k]
  BY <1>4
<1> HIDE DEF u, S
<1>7. coming' \in Seq(Message)
  BY <1>3, <1>4, ConcatAt
<1> QED
  BY <1>3, <1>4, <1>5, <1>6, <1>7

LEMMA OneMessage ==
  ASSUME NEW m \in Message
  PROVE  <<m>> \in Seq(Message) /\ DOMAIN <<m>> = {1} /\ <<m>>[1] = m /\ Len(<<m>>) = 1
OBVIOUS

(* What is said of a topic of the module, of parameters v and options o. *)
SaidOf(v, o, t) == IF Len(t) = 3 THEN o[t[2]] ELSE v[t[2]]

LEMMA TopicMessage ==
  ASSUME NEW o \in [Selects -> Choices],
         NEW v, \A p \in ParamSet : v[p] \in Right(p) \cup {Empty},
         NEW t \in NodeTopics
  PROVE  Msg(t, SaidOf(v, o, t)) \in Message /\ Msg(t, Empty) \in Message
<1>1. CASE t = ValueTopic(t[2]) /\ Len(t) = 2
  <2>1. v[t[2]] \in Right(t[2]) \cup {Empty} /\ t[2] \in ParamSet
    BY NodeTopicIs
  <2>2. Msg(ValueTopic(t[2]), v[t[2]]) \in Message /\ Msg(ValueTopic(t[2]), Empty) \in Message
    BY <2>1, MakesMessage
  <2> QED
    BY <1>1, <2>2 DEF SaidOf
<1>2. CASE t = OptionsTopic(t[2]) /\ Len(t) = 3 /\ t[2] \in Selects
  <2>1. o[t[2]] \in Choices
    BY <1>2
  <2>2. /\ Msg(OptionsTopic(t[2]), o[t[2]]) \in Message
        /\ Msg(OptionsTopic(t[2]), Empty) \in Message
    BY <1>2, <2>1, MakesMessage
  <2> QED
    BY <1>2, <2>2 DEF SaidOf
<1> QED
  BY <1>1, <1>2, NodeTopicIs

LEMMA NodeMessagesAre ==
  ASSUME NEW o \in [Selects -> Choices], NEW v,
         \A p \in ParamSet : v[p] \in Right(p) \cup {Empty}
  PROVE  /\ NodeMessages(v, o) \in Seq(Message) /\ DOMAIN NodeMessages(v, o) = DOMAIN NodeTopicList
         /\ \A k \in DOMAIN NodeTopicList :
              /\ NodeMessages(v, o)[k].topic = NodeTopicList[k]
              /\ NodeMessages(v, o)[k].value = SaidOf(v, o, NodeTopicList[k])
         /\ NoMessages \in Seq(Message)
<1>1. \A k \in DOMAIN NodeTopicList : NodeTopicList[k] \in NodeTopics
  BY ListFacts
<1>2. DOMAIN NodeTopicList = 1..Len(NodeTopicList) /\ Len(NodeTopicList) \in Nat
  BY ListFacts
<1>3. NodeMessages(v, o) = [k \in 1..Len(NodeTopicList) |->
                              Msg(NodeTopicList[k], SaidOf(v, o, NodeTopicList[k]))]
  BY <1>2 DEF NodeMessages, SaidOf
<1>4. NoMessages = [k \in 1..Len(NodeTopicList) |-> Msg(NodeTopicList[k], Empty)]
  BY <1>2 DEF NoMessages
<1>5. \A k \in 1..Len(NodeTopicList) :
        /\ Msg(NodeTopicList[k], SaidOf(v, o, NodeTopicList[k])) \in Message
        /\ Msg(NodeTopicList[k], Empty) \in Message
  BY <1>1, <1>2, TopicMessage
<1>6. NodeMessages(v, o) \in Seq(Message)
  <2>1. NodeMessages(v, o) \in [1..Len(NodeTopicList) -> Message]
    BY <1>3, <1>5
  <2> QED
    BY <1>2, <2>1, SeqDef
<1>7. NoMessages \in Seq(Message)
  <2>1. NoMessages \in [1..Len(NodeTopicList) -> Message]
    BY <1>4, <1>5
  <2> QED
    BY <1>2, <2>1, SeqDef
<1>8. \A k \in DOMAIN NodeTopicList :
        /\ NodeMessages(v, o)[k].topic = NodeTopicList[k]
        /\ NodeMessages(v, o)[k].value = SaidOf(v, o, NodeTopicList[k])
  BY <1>2, <1>3 DEF Msg
<1> QED
  BY <1>2, <1>3, <1>6, <1>7, <1>8

(* What the broker answers a subscription with. *)
Answers(ts) ==
  [k \in DOMAIN ts |-> Msg(IF ts[k] = EveryModule THEN Description ELSE ts[k], Retained(ts[k]))]

LEMMA AnswersAre ==
  ASSUME ServerType, NEW ts \in Seq(Topics)
  PROVE  /\ Answers(ts) \in Seq(Message) /\ DOMAIN Answers(ts) = DOMAIN ts
         /\ \A k \in DOMAIN ts :
              Answers(ts)[k] = Msg(IF ts[k] = EveryModule THEN Description ELSE ts[k], Retained(ts[k]))
<1>1. DOMAIN ts = 1..Len(ts) /\ Len(ts) \in Nat /\ \A k \in DOMAIN ts : ts[k] \in Topics
  BY LenProperties
<1>2. \A t \in Topics : Msg(IF t = EveryModule THEN Description ELSE t, Retained(t)) \in Message
  <2> TAKE t \in Topics
  <2>1. CASE t = EveryModule
    BY <2>1, MakesMessage DEF Retained
  <2>2. CASE t # EveryModule
    <3>1. t \in NodeTopics
      BY <2>2 DEF Topics
    <3>2. \A p \in ParamSet : value[p] \in Right(p) \cup {Empty}
      BY DEF ServerType, ParameterOK
    <3>3. Msg(t, SaidOf(value, options, t)) \in Message /\ Msg(t, Empty) \in Message
      BY <3>1, <3>2, TopicMessage DEF ServerType
    <3>4. Retained(t) = Empty \/ Retained(t) = SaidOf(value, options, t)
      BY <2>2 DEF Retained, SaidOf
    <3> QED
      BY <2>2, <3>3, <3>4
  <2> QED
    BY <2>1, <2>2
<1>3. \A k \in DOMAIN ts :
        /\ Answers(ts)[k] = Msg(IF ts[k] = EveryModule THEN Description ELSE ts[k], Retained(ts[k]))
        /\ Answers(ts)[k] \in Message
  BY <1>1, <1>2 DEF Answers
<1>4. Answers(ts) \in Seq(Message)
  <2>1. Answers(ts) \in [1..Len(ts) -> Message]
    BY <1>1, <1>3 DEF Answers
  <2> QED
    BY <1>1, <2>1, SeqDef
<1> QED
  BY <1>3, <1>4 DEF Answers
----------------------------------------------------------------------------
(* Types *)

ModulePackets == {<<>>} \cup {<<Module(there)>> : there \in BOOLEAN}

LEMMA ModulePacketsAre ==
  ASSUME NEW packets \in ModulePackets
  PROVE  packets \in Seq(Packet) /\ \A i \in DOMAIN packets : packets[i].type = "module"
<1>1. \A there \in BOOLEAN : Module(there) \in Packet /\ Module(there).type = "module"
  BY MakesPacket, NamedIs
<1>2. CASE packets = <<>>
  BY <1>2
<1>3. ASSUME NEW there \in BOOLEAN, packets = <<Module(there)>>
      PROVE  packets \in Seq(Packet) /\ \A i \in DOMAIN packets : packets[i].type = "module"
  BY <1>1, <1>3
<1> QED
  BY <1>2, <1>3 DEF ModulePackets

LEMMA OnePacket ==
  ASSUME NEW pk \in Packet
  PROVE  <<pk>> \in Seq(Packet) /\ DOMAIN <<pk>> = {1} /\ <<pk>>[1] = pk
OBVIOUS

LEMMA SubscribesAll ==
  NodeTopicList \in Seq(Topics) /\ Subscribe(NodeTopicList) \in Packet
<1>1. NodeTopicList \in Seq(Topics)
  BY ListFacts DEF Topics
<1> QED
  BY <1>1, MakesPacket

LEMMA AddNodeType ==
  ASSUME PageType, LinkType, ~shown, NEW packets \in ModulePackets, AddNode(packets)
  PROVE  PageType' /\ out' \in Seq(Packet)
<1>1. widget' \in [ParamSet -> Widget] /\ \A p \in ParamSet : WidgetOK(p, widget'[p])
  <2>1. \A p \in ParamSet : WidgetOK(p, NewWidget(p)) /\ NewWidget(p) \in Widget
    BY NewWidgetOK DEF WidgetOK
  <2> QED
    BY <2>1 DEF AddNode
<1>2. shown' = TRUE /\ subscriptions' = PageEntries \cup NodeEntries
  BY DEF AddNode, PageType
<1>3. out \o packets \in Seq(Packet)
  BY ModulePacketsAre, ConcatAt DEF LinkType
<1>4. out' \in Seq(Packet)
  <2>1. <<Subscribe(NodeTopicList)>> \in Seq(Packet) /\ <<>> \in Seq(Packet)
    BY SubscribesAll
  <2>2. out' = (out \o packets) \o IF link = "up" THEN <<Subscribe(NodeTopicList)>> ELSE <<>>
    BY DEF AddNode
  <2> QED
    BY <1>3, <2>1, <2>2, ConcatAt
<1> QED
  BY <1>1, <1>2, <1>4 DEF PageType

LEMMA RemoveNodeType ==
  ASSUME PageType, LinkType, shown, NEW packets \in ModulePackets, RemoveNode(packets)
  PROVE  PageType' /\ out' \in Seq(Packet)
<1>1. widget' \in [ParamSet -> Widget] /\ \A p \in ParamSet : WidgetOK(p, widget'[p])
  <2>1. \A p \in ParamSet : WidgetOK(p, NewWidget(p)) /\ NewWidget(p) \in Widget
    BY NewWidgetOK DEF WidgetOK
  <2> QED
    BY <2>1 DEF RemoveNode
<1>2. shown' = FALSE /\ subscriptions' = PageEntries
  <2>1. \A e \in PageEntries : e.by # "node"
    BY DEF PageEntries, Entry
  <2>2. \A e \in NodeEntries : e.by = "node"
    BY DEF NodeEntries, Entry
  <2>3. PageEntries \cap NodeEntries = {}
    BY <2>1, <2>2
  <2> QED
    BY <2>3 DEF RemoveNode, PageType
<1>3. Unsubscribe(Dropped) \in Packet
  BY MakesPacket DEF Dropped
<1>4. out' \in Seq(Packet)
  <2>1. out \o <<Unsubscribe(Dropped)>> \in Seq(Packet)
    BY <1>3, ConcatAt DEF LinkType
  <2>2. out' = (out \o <<Unsubscribe(Dropped)>>) \o packets
    BY DEF RemoveNode
  <2> QED
    BY <2>1, <2>2, ModulePacketsAre, ConcatAt
<1> QED
  BY <1>1, <1>2, <1>4 DEF PageType

LEMMA PublishType ==
  ASSUME PageType, LinkType, NEW p \in ParamSet, Kind[p] # "statistic", NEW v,
         Kind[p] = "double" => v \in Int \cup {NaN},
         Kind[p] = "bool" => v \in {0, 1},
         p \in Selects => v \in widget[p].options,
         Publish(p, v)
  PROVE  /\ PageType'
         /\ widget' = [widget EXCEPT ![p] = Committed(p, widget[p], v)]
         /\ WidgetOK(p, Committed(p, widget[p], v))
         /\ Committed(p, widget[p], v).options = widget[p].options
         /\ \E x : Set(p, x) \in Packet /\ out' = out \o <<Set(p, x)>>
         /\ UNCHANGED <<shown, subscriptions>>
<1> DEFINE w == Committed(p, widget[p], v)
<1>1. WidgetOK(p, widget[p])
  BY DEF PageType
<1>2. /\ WidgetOK(p, w) /\ w.options = widget[p].options
      /\ w.value \in Values /\ w.value \in Right(p) \cup {NaN}
  BY <1>1, CommittedOK
<1>3. widget' = [widget EXCEPT ![p] = w] /\ out' = Append(out, Set(p, w.value))
  BY DEF Publish
<1>4. UNCHANGED <<shown, subscriptions>>
  BY DEF Publish
<1> HIDE DEF w
<1>5. w \in Widget
  BY <1>2 DEF WidgetOK
<1>6. PageType'
  BY <1>2, <1>3, <1>4, <1>5 DEF PageType
<1>7. Set(p, w.value) \in Packet /\ out' = out \o <<Set(p, w.value)>>
  <2>1. Set(p, w.value) \in Packet
    BY <1>2, MakesPacket
  <2> QED
    BY <1>3, <2>1, AppendIsConcat DEF LinkType
<1> QED
  BY <1>2, <1>3, <1>4, <1>6, <1>7 DEF w

(* Every gesture on an input but typing publishes what can be taken. *)
LEMMA Publishes ==
  ASSUME PageType, NEW p \in ParamSet, Change(p) \/ Arrow(p) \/ Check(p) \/ Choose(p)
  PROVE  /\ shown /\ Kind[p] # "statistic"
         /\ UNCHANGED <<server, link, coming, subscribed>>
         /\ \E v : /\ Kind[p] = "double" => v \in Int \cup {NaN}
                   /\ Kind[p] = "bool" => v \in {0, 1}
                   /\ p \in Selects => v \in widget[p].options
                   /\ Publish(p, v)
<1>1. WidgetOK(p, widget[p]) /\ (p \in Selects <=> Kind[p] = "select")
  BY Constants DEF PageType
<1>2. Kind[p] = "double" => widget[p].text \in Int \cup {NaN}
  BY <1>1, Constants DEF WidgetOK
<1>3. CASE Change(p)
  BY <1>1, <1>2, <1>3 DEF Change, Gesture
<1>4. CASE Arrow(p)
  <2>1. PICK d \in {Step, -Step} :
          Publish(p, IF widget[p].text = NaN THEN NaN ELSE widget[p].text + d)
    BY <1>4 DEF Arrow
  <2> DEFINE v == IF widget[p].text = NaN THEN NaN ELSE widget[p].text + d
  <2>2. Kind[p] = "double"
    BY <1>4 DEF Arrow
  <2>3. v \in Int \cup {NaN}
    BY <1>2, <2>2, Constants
  <2>4. Publish(p, v)
    BY <2>1
  <2> HIDE DEF v
  <2> QED
    BY <1>1, <1>4, <2>2, <2>3, <2>4 DEF Arrow, Gesture
<1>5. CASE Check(p)
  <2> DEFINE v == IF widget[p].text = 1 THEN 0 ELSE 1
  <2>1. Publish(p, v) /\ Kind[p] = "bool" /\ v \in {0, 1}
    BY <1>5 DEF Check
  <2> HIDE DEF v
  <2> QED
    BY <1>1, <1>5, <2>1 DEF Check, Gesture
<1>6. CASE Choose(p)
  BY <1>1, <1>6 DEF Choose, Gesture
<1> QED
  BY <1>3, <1>4, <1>5, <1>6

LEMMA InputType ==
  ASSUME PageType, NEW p \in ParamSet, Input(p)
  PROVE  /\ PageType' /\ UNCHANGED <<shown, subscriptions, out, server, link, coming, subscribed>>
         /\ Kind[p] = "double"
         /\ \E t \in Typed[p] : widget' = [widget EXCEPT ![p] = Entered(widget[p], t)]
<1>1. /\ Kind[p] = "double"
      /\ UNCHANGED <<shown, subscriptions, out, server, link, coming, subscribed>>
  BY DEF Input, Gesture
<1>2. PICK t \in Typed[p] : widget' = [widget EXCEPT ![p] = Entered(widget[p], t)]
  BY DEF Input
<1>3. WidgetOK(p, Entered(widget[p], t))
  BY <1>1, EnteredOK DEF PageType
<1>4. PageType'
  BY <1>1, <1>2, <1>3 DEF PageType, WidgetOK
<1> QED
  BY <1>1, <1>2, <1>4
(* A message of the module, and the input it is for. *)
LEMMA HearNodeType ==
  ASSUME PageType, NEW m \in Message, m.topic \in NodeTopics, HearNode(m)
  PROVE  /\ PageType' /\ UNCHANGED <<shown, subscriptions, out>>
         /\ m.topic[2] \in ParamSet
         /\ widget' = [widget EXCEPT ![m.topic[2]] = Told(widget[m.topic[2]], m)]
         /\ WidgetOK(m.topic[2], Told(widget[m.topic[2]], m))
<1> DEFINE p == m.topic[2]
           w == Told(widget[p], m)
<1>1. /\ p \in ParamSet /\ UNCHANGED <<shown, subscriptions, out>>
      /\ widget' = [widget EXCEPT ![p] = w]
  BY NodeTopicIs DEF HearNode
<1>2. WidgetOK(p, widget[p])
  BY <1>1 DEF PageType
<1>3. WidgetOK(p, w)
  <2>1. CASE m.topic = ValueTopic(p) /\ Len(m.topic) = 2
    <3>1. m.value \in Right(p) \cup {Empty}
      BY <1>1, <2>1, MessageIs
    <3>2. w = SetValue(widget[p], p, m.value)
      BY <2>1 DEF Told
    <3> HIDE DEF w, p
    <3> QED
      BY <1>1, <1>2, <3>1, <3>2, SetValueOK
  <2>2. CASE m.topic = OptionsTopic(p) /\ Len(m.topic) = 3 /\ p \in Selects
    <3> DEFINE opts == IF m.value = Empty THEN {} ELSE m.value
    <3>1. opts \in Choices \cup {{}}
      BY <1>1, <2>2, MessageIs
    <3>2. w = SetOptions(widget[p], opts)
      BY <2>2 DEF Told
    <3> HIDE DEF w, p, opts
    <3> QED
      BY <1>2, <2>2, <3>1, <3>2, SetOptionsOK
  <2> QED
    BY <2>1, <2>2, NodeTopicIs
<1> HIDE DEF w, p
<1>4. PageType'
  BY <1>1, <1>2, <1>3 DEF PageType, WidgetOK
<1> QED
  BY <1>1, <1>3, <1>4 DEF w, p

(* What is accepted is what the parameter may be. *)
LEMMA AcceptType ==
  ASSUME ServerType, NEW p \in ParamSet, NEW v \in Values, v \in Right(p) \cup {NaN}, Accept(p, v)
  PROVE  /\ ServerType' /\ UNCHANGED <<present, options>>
         /\ value' = [value EXCEPT ![p] = Taken(p, v)]
         /\ Taken(p, v) \in Right(p) \cup {Empty}
         /\ Msg(ValueTopic(p), Taken(p, v)) \in Message
         /\ IF Kind[p] = "statistic" /\ v = value[p]
              THEN coming' = coming ELSE Deliver(<<Msg(ValueTopic(p), Taken(p, v))>>)
<1> DEFINE x == Taken(p, v)
<1>1. /\ value' = [value EXCEPT ![p] = x] /\ UNCHANGED <<present, options>>
      /\ IF Kind[p] = "statistic" /\ v = value[p]
           THEN coming' = coming ELSE Deliver(<<Msg(ValueTopic(p), x)>>)
  BY DEF Accept
<1>2. ParameterOK(p) /\ value[p] \in Values
  BY DEF ServerType
<1>3. x \in Values /\ x \in Right(p) \cup {Empty}
  <2>1. CASE v = NaN
    BY <1>2, <2>1 DEF Taken, ParameterOK
  <2>2. CASE Kind[p] = "double" /\ v # NaN
    <3>1. {Low, ServerHigh} \subseteq Values /\ {Low, ServerHigh} \subseteq Right(p)
      BY <2>2, Constants
    <3>2. x \in {Low, ServerHigh, v}
      BY <2>2 DEF Taken
    <3> HIDE DEF x
    <3> QED
      BY <2>2, <3>1, <3>2
  <2>3. CASE Kind[p] # "double" /\ v # NaN
    BY <2>3 DEF Taken
  <2> QED
    BY <2>1, <2>2, <2>3
<1> HIDE DEF x
<1>4. Msg(ValueTopic(p), x) \in Message
  BY <1>3, MakesMessage
<1>5. coming' \in Seq(Message)
  <2>1. <<Msg(ValueTopic(p), x)>> \in Seq(Message)
    BY <1>4
  <2> QED
    BY <1>1, <2>1, DeliverAdds DEF ServerType
<1>6. \A q \in ParamSet : ParameterOK(q)'
  BY <1>1, <1>3 DEF ServerType, ParameterOK
<1>7. value' \in [ParamSet -> Values] /\ options' \in [Selects -> Choices] /\ present' \in BOOLEAN
  BY <1>1, <1>3 DEF ServerType
<1> QED
  BY <1>1, <1>3, <1>4, <1>5, <1>6, <1>7 DEF ServerType, x

LEMMA AddModuleType ==
  ASSUME ServerType, AddModule
  PROVE  /\ ServerType' /\ present' = TRUE /\ value' = Default
         /\ options' \in [Selects -> Choices]
         /\ Append(Said(NodeMessages(Default, options')), Msg(Description, "description"))
              \in Seq(Message)
         /\ NodeMessages(Default, options') \in Seq(Message)
<1>1. \A p \in ParamSet : Default[p] \in Right(p) \cup {Empty} /\ Default[p] \in Values
  BY Constants
<1>2. present' = TRUE /\ value' = Default /\ options' \in [Selects -> Choices]
  BY DEF AddModule
<1> DEFINE ns == NodeMessages(Default, options')
           ms == Append(Said(ns), Msg(Description, "description"))
<1>3. ns \in Seq(Message)
  BY <1>1, <1>2, NodeMessagesAre
<1>4. Deliver(ms)
  BY DEF AddModule
<1> HIDE DEF ns
<1>5. Said(ns) \in Seq(Message)
  BY <1>3, SaidIs
<1>6. ms \in Seq(Message)
  BY <1>5, MakesMessage, AppendProperties
<1> HIDE DEF ms
<1>7. coming' \in Seq(Message)
  BY <1>4, <1>6, DeliverAdds DEF ServerType
<1>8. Default \in [ParamSet -> Values]
  BY <1>1, PageParametersAssumption
<1>9. \A p \in ParamSet : ParameterOK(p)'
  BY <1>1, <1>2 DEF ParameterOK
<1> QED
  BY <1>2, <1>3, <1>6, <1>7, <1>8, <1>9 DEF ServerType, ns, ms

LEMMA RemoveModuleType ==
  ASSUME ServerType, RemoveModule
  PROVE  ServerType' /\ present' = FALSE
<1>1. \A p \in ParamSet : value[p] \in Right(p) \cup {Empty}
  BY DEF ServerType, ParameterOK
<1>2. NoMessages \in Seq(Message)
  BY <1>1, NodeMessagesAre DEF ServerType
<1>3. <<Msg(Description, Empty)>> \o NoMessages \in Seq(Message)
  <2>1. <<Msg(Description, Empty)>> \in Seq(Message)
    BY MakesMessage
  <2> QED
    BY <1>2, <2>1, ConcatAt
<1>4. coming' \in Seq(Message)
  BY <1>3, DeliverAdds DEF RemoveModule, ServerType
<1>5. present' = FALSE /\ UNCHANGED <<value, options>>
  BY DEF RemoveModule
<1> QED
  BY <1>4, <1>5 DEF ServerType, ParameterOK
----------------------------------------------------------------------------
(* The steps *)

(* Which callback a message calls. *)
Called(m) == {e.by : e \in {s \in subscriptions : topic_matches_sub(s.topic, m.topic)}}

LEMMA CalledIs ==
  ASSUME PageType, NEW m \in Message
  PROVE  /\ "page" \in Called(m) <=> m.topic = Description
         /\ "node" \in Called(m) <=> shown /\ m.topic \in NodeTopics
<1>1. m.topic \in NodeTopics \cup {Description}
  BY MessageIs
<1>2. \A by : by \in Called(m) <=>
        \E e \in subscriptions : e.by = by /\ topic_matches_sub(e.topic, m.topic)
  BY DEF Called
<1>3. \A e \in PageEntries : e.by = "page" <=> e = Entry(EveryModule, "page")
  BY DEF PageEntries, Entry
<1>4. \A e \in PageEntries : e.by # "node"
  BY DEF PageEntries, Entry
<1>5. \A e \in NodeEntries : e.by = "node" /\ e.topic \in NodeTopics
  BY DEF NodeEntries, Entry
<1>6. Entry(EveryModule, "page") \in PageEntries /\ Entry(EveryModule, "page").topic = EveryModule
        /\ Entry(EveryModule, "page").by = "page"
  BY DEF PageEntries, Entry
<1>7. \A t \in NodeTopics : Entry(t, "node") \in NodeEntries /\ Entry(t, "node").topic = t
  BY DEF NodeEntries, Entry
<1>8. topic_matches_sub(EveryModule, m.topic) <=> m.topic = Description
  BY <1>1, PlusMatches
<1>9. \A t \in NodeTopics : topic_matches_sub(t, m.topic) <=> m.topic = t
  BY <1>1, MatchesItself
<1>10. subscriptions = PageEntries \cup IF shown THEN NodeEntries ELSE {}
  BY DEF PageType
<1>11. "page" \in Called(m) <=> m.topic = Description
  BY <1>2, <1>3, <1>5, <1>6, <1>8, <1>10
<1>12. "node" \in Called(m) <=> shown /\ m.topic \in NodeTopics
  BY <1>2, <1>4, <1>5, <1>7, <1>9, <1>10
<1> QED
  BY <1>11, <1>12

(* What a message does to the page. *)
LEMMA ReceiveIs ==
  ASSUME PageType, ServerType, Receive
  PROVE  /\ link = "up" /\ coming # <<>> /\ coming' = Tail(coming) /\ Head(coming) \in Message
         /\ UNCHANGED <<server, link, subscribed>>
         /\ \/ Head(coming).topic = Description /\ HearModule(Head(coming).value # Empty)
            \/ shown /\ Head(coming).topic \in NodeTopics /\ HearNode(Head(coming))
            \/ ~shown /\ UNCHANGED <<client, out>>
<1> DEFINE m == Head(coming)
<1>1. m \in Message
  BY TailAt DEF Receive, ServerType
<1>2. (CASE "page" \in Called(m) -> HearModule(m.value # Empty)
         [] "node" \in Called(m) -> HearNode(m)
         [] OTHER -> UNCHANGED <<client, out>>)
  BY DEF Receive, Called
<1>3. m.topic \in NodeTopics \cup {Description}
  BY <1>1, MessageIs
<1>4. /\ "page" \in Called(m) <=> m.topic = Description
      /\ "node" \in Called(m) <=> shown /\ m.topic \in NodeTopics
  BY <1>1, CalledIs
<1>5. \/ m.topic = Description /\ HearModule(m.value # Empty)
      \/ shown /\ m.topic \in NodeTopics /\ HearNode(m)
      \/ ~shown /\ UNCHANGED <<client, out>>
  <2> HIDE DEF m
  <2>1. CASE "page" \in Called(m)
    BY <1>2, <1>4, <2>1
  <2>2. CASE "page" \notin Called(m) /\ "node" \in Called(m)
    BY <1>2, <1>4, <2>2
  <2>3. CASE "page" \notin Called(m) /\ "node" \notin Called(m)
    BY <1>2, <1>3, <1>4, <2>3
  <2> QED
    BY <2>1, <2>2, <2>3
<1> QED
  BY <1>1, <1>5 DEF Receive

(* What a packet does to the server and the broker. *)
LEMMA ArriveIs ==
  ASSUME LinkType, ServerType, Arrive
  PROVE  /\ link = "up" /\ out # <<>> /\ out' = Tail(out) /\ Head(out) \in Packet
         /\ UNCHANGED <<client, link>>
         /\ \/ /\ Head(out).type = "subscribe" /\ UNCHANGED server
               /\ subscribed' = subscribed \cup {Head(out).topics[k] : k \in 1..Len(Head(out).topics)}
               /\ coming' = coming \o Said(Answers(Head(out).topics))
            \/ /\ Head(out).type = "unsubscribe" /\ UNCHANGED <<server, coming>>
               /\ subscribed' = subscribed \ Head(out).topics
            \/ /\ Head(out).type = "set" /\ UNCHANGED subscribed
               /\ IF present THEN Accept(Head(out).param, Head(out).value)
                             ELSE UNCHANGED <<server, coming>>
            \/ /\ Head(out).type = "module" /\ UNCHANGED subscribed
               /\ \/ UNCHANGED <<server, coming>>
                  \/ ~present /\ AddModule
                  \/ present /\ RemoveModule
<1>1. link = "up" /\ out # <<>> /\ out' = Tail(out) /\ UNCHANGED <<client, link>>
  BY DEF Arrive
<1>2. Head(out) \in Packet
  BY <1>1, TailAt DEF LinkType
<1>3. CASE Head(out).type = "subscribe"
  <2>1. coming' = coming \o Said(Answers(Head(out).topics))
    BY <1>3 DEF Arrive, Answers
  <2>2. /\ subscribed' = subscribed \cup {Head(out).topics[k] : k \in 1..Len(Head(out).topics)}
        /\ UNCHANGED server
    BY <1>3 DEF Arrive
  <2> QED
    BY <1>1, <1>2, <1>3, <2>1, <2>2
<1>4. CASE Head(out).type = "unsubscribe"
  BY <1>1, <1>2, <1>4 DEF Arrive
<1>5. CASE Head(out).type = "set"
  <2>1. /\ IF present THEN Accept(Head(out).param, Head(out).value)
                      ELSE UNCHANGED <<server, coming>>
        /\ UNCHANGED subscribed
    BY <1>5 DEF Arrive
  <2> QED
    BY <1>1, <1>2, <1>5, <2>1
<1>6. CASE Head(out).type = "module"
  <2>1. /\ IF Head(out).there = present THEN UNCHANGED <<server, coming>>
           ELSE IF Head(out).there THEN AddModule ELSE RemoveModule
        /\ UNCHANGED subscribed
    BY <1>6 DEF Arrive
  <2>2. Head(out).there \in BOOLEAN /\ present \in BOOLEAN
    BY <1>2, <1>6, PacketIs DEF ServerType
  <2> QED
    BY <1>1, <1>2, <1>6, <2>1, <2>2
<1> QED
  BY <1>2, <1>3, <1>4, <1>5, <1>6, PacketIs

LEMMA OthersIs ==
  ASSUME ServerType, Others
  PROVE  /\ UNCHANGED <<client, link, out, subscribed>>
         /\ \/ present /\ \E p \in ParamSet : \E v \in Typed[p] : Accept(p, v)
            \/ present /\ RemoveModule
            \/ ~present /\ AddModule
<1>1. UNCHANGED <<client, link, out, subscribed>>
  BY DEF Others
<1>2. \/ present /\ \E p \in ParamSet : \E v \in Typed[p] : Accept(p, v)
      \/ IF present THEN RemoveModule ELSE AddModule
  BY DEF Others
<1>3. CASE present /\ \E p \in ParamSet : \E v \in Typed[p] : Accept(p, v)
  BY <1>1, <1>3
<1>4. CASE IF present THEN RemoveModule ELSE AddModule
  BY <1>1, <1>4
<1> QED
  BY <1>2, <1>3, <1>4
LEMMA ConnectIs ==
  ASSUME Connect
  PROVE  /\ link = "down" /\ link' = "up" /\ UNCHANGED <<client, server, coming, subscribed>>
         /\ \E ts \in Seq(Topics) :
              /\ out' = out \o <<Subscribe(ts)>>
              /\ \A t : Has(ts, t)
                          <=> t = EveryModule \/ t \in ChartTopics \/ (shown /\ t \in NodeTopics)
<1> DEFINE n == Cardinality(ChartTopics)
           rest == IF shown THEN NodeTopicList ELSE <<>>
<1>1. link = "down" /\ link' = "up" /\ UNCHANGED <<client, server, coming, subscribed>>
  BY DEF Connect
<1>2. PICK order \in {o \in [1..n -> ChartTopics] :
                        \A t \in ChartTopics : \E k \in DOMAIN o : o[k] = t} :
        out' = out \o <<Subscribe((<<EveryModule>> \o order) \o rest)>>
  BY DEF Connect, ChartTopics
<1>3. n \in Nat
  BY ChartFacts, FS_CardinalityType
<1>4. order \in Seq(Topics) /\ \A k \in DOMAIN order : order[k] \in ChartTopics
  <2>1. order \in [1..n -> ChartTopics]
    BY <1>2
  <2>2. order \in Seq(ChartTopics)
    BY <1>3, <2>1, SeqDef
  <2>3. ChartTopics \subseteq Topics
    BY ChartFacts DEF Topics
  <2>4. order \in [1..n -> Topics]
    BY <2>1, <2>3
  <2> QED
    BY <1>3, <2>1, <2>4, SeqDef
<1>5. \A t \in ChartTopics : \E k \in DOMAIN order : order[k] = t
  BY <1>2
<1>6. /\ rest \in Seq(Topics)
      /\ \A t : Has(rest, t) <=> shown /\ t \in NodeTopics
  <2>1. CASE shown
    <3>1. \A k \in DOMAIN NodeTopicList : NodeTopicList[k] \in NodeTopics
      BY ListFacts
    <3> QED
      BY <2>1, <3>1, ListFacts, SubscribesAll DEF Has
  <2>2. CASE ~shown
    BY <2>2 DEF Has
  <2> QED
    BY <2>1, <2>2
<1>7. <<EveryModule>> \in Seq(Topics)
  BY DEF Topics
<1> DEFINE a == <<EveryModule>>
           b == a \o order
           ts == b \o rest
<1>8. \A t : Has(a, t) <=> t = EveryModule
  BY DEF Has
<1>9. \A t : Has(order, t) <=> t \in ChartTopics
  BY <1>4, <1>5 DEF Has
<1> HIDE DEF a, rest
<1>10. b \in Seq(Topics) /\ \A t : Has(b, t) <=> t = EveryModule \/ t \in ChartTopics
  <2>1. a \in Seq(Topics)
    BY <1>7 DEF a
  <2>2. \A t : Has(b, t) <=> Has(a, t) \/ Has(order, t)
    BY <1>4, <2>1, ConcatHas
  <2>3. b \in Seq(Topics)
    BY <1>4, <2>1, ConcatAt
  <2> HIDE DEF b
  <2> QED
    BY <1>8, <1>9, <2>2, <2>3
<1> HIDE DEF b
<1>11. ts \in Seq(Topics) /\ \A t : Has(ts, t) <=> Has(b, t) \/ Has(rest, t)
  BY <1>6, <1>10, ConcatAt, ConcatHas
<1>12. out' = out \o <<Subscribe(ts)>>
  BY <1>2 DEF b, a
<1> HIDE DEF ts
<1>13. \A t : Has(ts, t) <=> t = EveryModule \/ t \in ChartTopics \/ (shown /\ t \in NodeTopics)
  BY <1>6, <1>10, <1>11
<1> QED
  BY <1>1, <1>11, <1>12, <1>13

LEMMA LoseIs ==
  ASSUME LinkType, Lose
  PROVE  /\ link = "up" /\ link' = "down" /\ coming' = <<>> /\ subscribed' = {}
         /\ UNCHANGED <<client, server>>
         /\ out' \in Seq(Packet) /\ \A i \in DOMAIN out' : IsPublish(out'[i])
<1>1. PICK n \in 0..Len(out) : out' = Kept(out, {k \in 1..n : IsPublish(out[k])})
  BY DEF Lose
<1> DEFINE S == {k \in 1..n : IsPublish(out[k])}
<1>2. S \in SUBSET DOMAIN out
  BY LenProperties DEF LinkType
<1>3. \A k \in S : IsPublish(out[k])
  OBVIOUS
<1>4. out' \in Seq(Packet) /\ \A i \in DOMAIN out' : IsPublish(out'[i])
  <2> HIDE DEF S
  <2>1. out' = Kept(out, S)
    BY <1>1 DEF S
  <2> QED
    BY <1>2, <1>3, <2>1, KeptAt DEF LinkType
<1> QED
  BY <1>4 DEF Lose

(* What the user does to the page and its packets. *)
LEMMA CreateOrDeleteIs ==
  ASSUME CreateOrDelete
  PROVE  /\ UNCHANGED <<server, link, coming, subscribed>>
         /\ \E packets \in ModulePackets :
              (shown /\ RemoveNode(packets)) \/ (~shown /\ AddNode(packets))
<1>1. <<Module(TRUE)>> \in ModulePackets /\ <<Module(FALSE)>> \in ModulePackets
  BY DEF ModulePackets
<1> QED
  BY <1>1 DEF CreateOrDelete, Gesture
LEMMA InitTypes == Init => TypeInv
<1> SUFFICES ASSUME Init
             PROVE  TypeInv
  OBVIOUS
<1>1. PageType
  <2>1. \A p \in ParamSet : WidgetOK(p, NewWidget(p)) /\ NewWidget(p) \in Widget
    BY NewWidgetOK DEF WidgetOK
  <2> QED
    BY <2>1 DEF Init, PageType
<1>2. LinkType
  BY DEF Init, LinkType
<1>3. ServerType
  <2>1. \A p \in ParamSet : ParameterOK(p)
    <3> SUFFICES ASSUME NEW p \in ParamSet
                 PROVE  ParameterOK(p)
      OBVIOUS
    <3>1. value[p] = Default[p] /\ Default[p] \in Right(p) \cup {Empty}
      BY Constants DEF Init
    <3> QED
      BY <3>1 DEF ParameterOK
  <2>2. Default \in [ParamSet -> Values]
    BY PageParametersAssumption
  <2> QED
    BY <2>1, <2>2 DEF Init, ServerType
<1> QED
  BY <1>1, <1>2, <1>3 DEF TypeInv

(* Whatever happens to one of the page, its packets and the server. *)
LEMMA ArriveType ==
  ASSUME TypeInv, Arrive
  PROVE  ServerType' /\ subscribed' \subseteq Topics
<1> DEFINE pk == Head(out)
<1>1. pk \in Packet
  BY ArriveIs DEF TypeInv
<1>2. CASE /\ pk.type = "subscribe" /\ UNCHANGED server
           /\ subscribed' = subscribed \cup {pk.topics[k] : k \in 1..Len(pk.topics)}
           /\ coming' = coming \o Said(Answers(pk.topics))
  <2>1. pk.topics \in Seq(Topics)
    BY <1>1, <1>2, PacketIs
  <2>2. Said(Answers(pk.topics)) \in Seq(Message)
    BY <2>1, AnswersAre, SaidIs DEF TypeInv
  <2> HIDE DEF pk
  <2>3. coming' \in Seq(Message)
    BY <1>2, <2>2, ConcatAt DEF TypeInv, ServerType
  <2>4. subscribed' \subseteq Topics
    BY <1>2, <2>1 DEF TypeInv, LinkType
  <2>5. ServerType'
    BY <1>2, <2>3 DEF TypeInv, ServerType, ParameterOK, server
  <2> QED
    BY <2>4, <2>5
<1>3. CASE /\ pk.type = "unsubscribe" /\ UNCHANGED <<server, coming>>
           /\ subscribed' = subscribed \ pk.topics
  BY <1>3 DEF TypeInv, LinkType, ServerType, ParameterOK, server
<1>4. CASE /\ pk.type = "set" /\ UNCHANGED subscribed
           /\ IF present THEN Accept(pk.param, pk.value) ELSE UNCHANGED <<server, coming>>
  <2>1. pk.param \in ParamSet /\ pk.value \in Values /\ pk.value \in Right(pk.param) \cup {NaN}
    BY <1>1, <1>4, PacketIs
  <2>2. CASE present
    <3>1. Accept(pk.param, pk.value)
      BY <1>4, <2>2
    <3>2. ServerType
      BY DEF TypeInv
    <3> HIDE DEF pk
    <3>3. ServerType'
      BY <2>1, <3>1, <3>2, AcceptType
    <3> QED
      BY <1>4, <3>3 DEF TypeInv, LinkType
  <2>3. CASE ~present
    BY <1>4, <2>3 DEF TypeInv, LinkType, ServerType, ParameterOK, server
  <2> QED
    BY <2>2, <2>3
<1>5. CASE /\ pk.type = "module" /\ UNCHANGED subscribed
           /\ \/ UNCHANGED <<server, coming>>
              \/ ~present /\ AddModule
              \/ present /\ RemoveModule
  <2>1. subscribed' \subseteq Topics
    BY <1>5 DEF TypeInv, LinkType
  <2>2. CASE UNCHANGED <<server, coming>>
    BY <2>1, <2>2 DEF TypeInv, ServerType, ParameterOK, server
  <2>3. CASE AddModule
    BY <2>1, <2>3, AddModuleType DEF TypeInv
  <2>4. CASE RemoveModule
    BY <2>1, <2>4, RemoveModuleType DEF TypeInv
  <2> QED
    BY <1>5, <2>2, <2>3, <2>4
<1> QED
  BY <1>2, <1>3, <1>4, <1>5, ArriveIs DEF TypeInv

LEMMA OthersType ==
  ASSUME TypeInv, Others
  PROVE  ServerType'
<1>1. ASSUME NEW p \in ParamSet, NEW v \in Typed[p], Accept(p, v) PROVE ServerType'
  <2>1. v \in Values /\ v \in Right(p) \cup {NaN}
    BY Constants
  <2> QED
    BY <1>1, <2>1, AcceptType DEF TypeInv
<1>2. CASE RemoveModule
  BY <1>2, RemoveModuleType DEF TypeInv
<1>3. CASE AddModule
  BY <1>3, AddModuleType DEF TypeInv
<1> QED
  BY <1>1, <1>2, <1>3, OthersIs DEF TypeInv

LEMMA HearModuleType ==
  ASSUME PageType, LinkType, NEW there \in BOOLEAN, HearModule(there)
  PROVE  /\ PageType' /\ out' \in Seq(Packet)
         /\ \/ there = shown /\ UNCHANGED <<client, out>>
            \/ \E packets \in ModulePackets :
                 (shown /\ RemoveNode(packets)) \/ (~shown /\ AddNode(packets))
<1>1. <<>> \in ModulePackets /\ shown \in BOOLEAN
  BY DEF ModulePackets, PageType
<1>2. CASE there = shown
  BY <1>2 DEF HearModule, client, PageType, LinkType
<1>3. CASE there # shown /\ there
  <2>1. ~shown /\ AddNode(<<>>)
    BY <1>1, <1>3 DEF HearModule
  <2> QED
    BY <1>1, <2>1, AddNodeType
<1>4. CASE there # shown /\ ~there
  <2>1. shown /\ RemoveNode(<<>>)
    BY <1>1, <1>4 DEF HearModule
  <2> QED
    BY <1>1, <2>1, RemoveNodeType
<1> QED
  BY <1>1, <1>2, <1>3, <1>4

LEMMA TypesKept == TypeInv /\ [Next]_vars => TypeInv'
<1> SUFFICES ASSUME TypeInv, [Next]_vars
             PROVE  TypeInv'
  OBVIOUS
<1> USE DEF TypeInv
<1>1. ASSUME NEW p \in ParamSet, Input(p) PROVE TypeInv'
  BY <1>1, InputType DEF LinkType, ServerType, ParameterOK, server
<1>2. ASSUME NEW p \in ParamSet, Change(p) \/ Arrow(p) \/ Check(p) \/ Choose(p) PROVE TypeInv'
  <2>1. UNCHANGED <<server, link, coming, subscribed>> /\ Kind[p] # "statistic"
    BY <1>2, Publishes
  <2>2. PICK v : /\ Kind[p] = "double" => v \in Int \cup {NaN}
                 /\ Kind[p] = "bool" => v \in {0, 1}
                 /\ p \in Selects => v \in widget[p].options
                 /\ Publish(p, v)
    BY <1>2, Publishes
  <2>3. PageType' /\ \E x : Set(p, x) \in Packet /\ out' = out \o <<Set(p, x)>>
    BY <2>1, <2>2, PublishType
  <2>4. out' \in Seq(Packet)
    BY <2>3, ConcatAt DEF LinkType
  <2> QED
    BY <2>1, <2>3, <2>4 DEF LinkType, ServerType, ParameterOK, server
<1>3. CASE CreateOrDelete
  <2>1. PageType' /\ out' \in Seq(Packet)
    BY <1>3, CreateOrDeleteIs, AddNodeType, RemoveNodeType
  <2> QED
    BY <1>3, <2>1, CreateOrDeleteIs DEF LinkType, ServerType, ParameterOK, server
<1>4. CASE Arrive
  <2>1. out' \in Seq(Packet) /\ UNCHANGED <<client, link>>
    BY <1>4, ArriveIs, TailAt DEF LinkType
  <2> QED
    BY <1>4, <2>1, ArriveType DEF PageType, LinkType, client
<1>5. CASE Others
  <2>1. UNCHANGED <<client, link, out, subscribed>>
    BY <1>5, OthersIs
  <2> QED
    BY <1>5, <2>1, OthersType DEF PageType, LinkType, client
<1>6. CASE Receive
  <2> DEFINE m == Head(coming)
  <2>1. coming' \in Seq(Message) /\ m \in Message /\ UNCHANGED <<server, link, subscribed>>
    BY <1>6, ReceiveIs, TailAt DEF ServerType
  <2>2. PageType' /\ out' \in Seq(Packet)
    <3>1. CASE m.topic = Description /\ HearModule(m.value # Empty)
      BY <3>1, HearModuleType
    <3>2. CASE shown /\ m.topic \in NodeTopics /\ HearNode(m)
      BY <2>1, <3>2, HearNodeType DEF LinkType
    <3>3. CASE UNCHANGED <<client, out>>
      BY <3>3 DEF PageType, LinkType, client
    <3> QED
      BY <1>6, <3>1, <3>2, <3>3, ReceiveIs
  <2> QED
    BY <2>1, <2>2 DEF LinkType, ServerType, ParameterOK, server
<1>7. CASE Connect
  <2>1. out' \in Seq(Packet)
    <3>1. PICK ts \in Seq(Topics) : out' = out \o <<Subscribe(ts)>>
      BY <1>7, ConnectIs
    <3>2. <<Subscribe(ts)>> \in Seq(Packet)
      BY MakesPacket
    <3> QED
      BY <3>1, <3>2, ConcatAt DEF LinkType
  <2> QED
    BY <1>7, <2>1, ConnectIs DEF PageType, LinkType, ServerType, ParameterOK, client, server
<1>8. CASE Lose
  <2>1. /\ link' = "down" /\ coming' = <<>> /\ subscribed' = {} /\ out' \in Seq(Packet)
        /\ UNCHANGED <<client, server>>
    BY <1>8, LoseIs
  <2>2. PageType'
    BY <2>1 DEF PageType, client
  <2>3. LinkType'
    BY <2>1 DEF LinkType
  <2>4. ServerType'
    BY <2>1 DEF ServerType, ParameterOK, server
  <2> QED
    BY <2>2, <2>3, <2>4
<1>9. CASE UNCHANGED vars
  BY <1>9 DEF vars, network, PageType, LinkType, ServerType, ParameterOK, client, server
<1> QED
  BY <1>1, <1>2, <1>3, <1>4, <1>5, <1>6, <1>7, <1>8, <1>9 DEF Next
LEMMA TypeSound == TypeInv => TypeOK
<1> SUFFICES ASSUME TypeInv
             PROVE  TypeOK
  OBVIOUS
<1>1. \A p \in ParamSet : /\ widget[p].value \in Values \cup {Unknown} /\ widget[p].text \in Values
                          /\ widget[p].changed \in BOOLEAN /\ widget[p].options \in Choices \cup {{}}
  BY DEF TypeInv, PageType, Widget
<1> QED
  BY <1>1 DEF TypeInv, PageType, LinkType, ServerType, Topics, TypeOK

(* Type correctness: values, options and what inputs show are what the module's
   description allows, or what the inputs make of nothing (TypeOK). *)
THEOREM TypesCorrect == Spec => []TypeOK
<1>1. TypeInv => TypeOK
  BY TypeSound
<1>2. TypeInv /\ [Next]_vars => TypeInv'
  BY TypesKept
<1>3. Init => TypeInv
  BY InitTypes
<1> QED
  BY <1>1, <1>2, <1>3, PTL DEF Spec

----------------------------------------------------------------------------
(* The subscriptions *)

(* Packets that are for the server. *)
LEMMA PassOn ==
  ASSUME LinkType, NEW u \in Seq(Packet),
         \A i \in DOMAIN u : u[i].type \notin {"subscribe", "unsubscribe"},
         out' = out \o u, UNCHANGED subscribed, NEW t
  PROVE  /\ On(t) => On(t)'
         /\ Off(t) => Off(t)'
<1>1. Unnamed(u, "subscribe", t) /\ Unnamed(u, "unsubscribe", t)
  BY NamedIs DEF Unnamed
<1>2. out \in Seq(Packet)
  BY DEF LinkType
<1>3. On(t) => On(t)'
  BY <1>1, <1>2, WillConcat DEF On
<1>4. Off(t) => Off(t)'
  BY <1>1, <1>2, WillConcat DEF Off
<1> QED
  BY <1>3, <1>4

LEMMA SubPassOn ==
  ASSUME LinkType, SubInv, NEW u \in Seq(Packet),
         \A i \in DOMAIN u : u[i].type \notin {"subscribe", "unsubscribe"},
         out' = out \o u, UNCHANGED <<subscribed, subscriptions, link>>
  PROVE  SubInv'
<1>1. link = "down" => subscribed = {} /\ \A i \in DOMAIN out' : out'[i].type # "subscribe"
  BY ConcatAt DEF LinkType, SubInv
<1>2. ASSUME link = "up", NEW t \in Topics PROVE IF Wanted(t)' THEN On(t)' ELSE Off(t)'
  <2>1. IF Wanted(t) THEN On(t) ELSE Off(t)
    BY <1>2 DEF SubInv
  <2>2. Wanted(t)' <=> Wanted(t)
    BY DEF Wanted
  <2>3. (On(t) => On(t)') /\ (Off(t) => Off(t)')
    BY PassOn
  <2> QED
    BY <2>1, <2>2, <2>3
<1> QED
  BY <1>1, <1>2 DEF SubInv

LEMMA SubSame ==
  ASSUME SubInv, UNCHANGED <<out, subscribed, subscriptions, link>>
  PROVE  SubInv'
BY DEF SubInv, Wanted, On, Off

(* A module that is shown is subscribed to last, *)
LEMMA AddNodeSub ==
  ASSUME TypeInv, TypeInv', SubInv, ~shown, NEW packets \in ModulePackets, AddNode(packets),
         UNCHANGED <<subscribed, link>>
  PROVE  SubInv'
<1> DEFINE pk == Subscribe(NodeTopicList)
<1>1. packets \in Seq(Packet) /\ (\A i \in DOMAIN packets : packets[i].type = "module")
  BY ModulePacketsAre
<1>2. out \in Seq(Packet) /\ out \o packets \in Seq(Packet)
  BY <1>1, ConcatAt DEF TypeInv, LinkType
<1>3. out' = (out \o packets) \o IF link = "up" THEN <<pk>> ELSE <<>>
  BY DEF AddNode
<1>4. pk \in Packet
  BY SubscribesAll
<1>5. CASE link = "down"
  <2>1. out' = out \o packets
    <3> HIDE DEF pk
    <3> QED
      BY <1>2, <1>3, <1>5
  <2>2. \A i \in DOMAIN out' : out'[i].type # "subscribe"
    BY <1>1, <1>2, <1>5, <2>1, ConcatAt DEF SubInv
  <2> QED
    BY <1>5, <2>2 DEF SubInv
<1>6. CASE link = "up"
  <2>1. out' = (out \o packets) \o <<pk>>
    BY <1>3, <1>6
  <2>2. ASSUME NEW t \in Topics PROVE IF Wanted(t)' THEN On(t)' ELSE Off(t)'
    <3>1. CASE t \in NodeTopics
      <4>1. Named(pk, "subscribe", t) /\ ~Named(pk, "unsubscribe", t)
        BY <3>1, NamedIs, ListFacts
      <4> HIDE DEF pk
      <4>2. On(t)'
        BY <1>2, <1>4, <2>1, <4>1, WillAdded DEF On
      <4>3. shown' = TRUE
        BY DEF AddNode
      <4>4. Wanted(t)'
        <5>1. NodeEntries \subseteq subscriptions'
          BY <4>3 DEF TypeInv, PageType
        <5>2. Entry(t, "node") \in NodeEntries /\ Entry(t, "node").topic = t
          BY <3>1 DEF NodeEntries, Entry
        <5> QED
          BY <5>1, <5>2 DEF Wanted
      <4> QED
        BY <4>2, <4>4
    <3>2. CASE t \notin NodeTopics
      <4>1. t = EveryModule
        BY <2>2, <3>2 DEF Topics
      <4>2. Wanted(t)
        BY <4>1, WantedIs
      <4>3. Wanted(t)'
        BY <4>2 DEF Wanted, AddNode
      <4>4. On(t)
        BY <1>6, <2>2, <4>2 DEF SubInv
      <4>5. Unnamed(packets, "unsubscribe", t)
        BY <1>1, NamedIs DEF Unnamed
      <4>6. Will(out \o packets, subscribed, t, "subscribe", "unsubscribe")
        BY <1>1, <1>2, <4>4, <4>5, WillConcat DEF On
      <4>7. Unnamed(<<pk>>, "unsubscribe", t) /\ <<pk>> \in Seq(Packet)
        BY <1>4, NamedIs DEF Unnamed
      <4> HIDE DEF pk
      <4>8. On(t)'
        BY <1>2, <2>1, <4>6, <4>7, WillConcat DEF On
      <4> QED
        BY <4>3, <4>8
    <3> QED
      BY <3>1, <3>2
  <2> QED
    BY <1>6, <2>2 DEF SubInv
<1> QED
  BY <1>5, <1>6 DEF TypeInv, LinkType

(* and one that goes is given up last, but for what a chart listens to. *)
LEMMA RemoveNodeSub ==
  ASSUME TypeInv, TypeInv', SubInv, shown, NEW packets \in ModulePackets, RemoveNode(packets),
         UNCHANGED <<subscribed, link>>
  PROVE  SubInv'
<1> DEFINE pk == Unsubscribe(Dropped)
<1>1. packets \in Seq(Packet) /\ (\A i \in DOMAIN packets : packets[i].type = "module")
  BY ModulePacketsAre
<1>2. pk \in Packet
  BY MakesPacket DEF Dropped
<1>3. <<pk>> \in Seq(Packet) /\ DOMAIN <<pk>> = {1} /\ <<pk>>[1] = pk
  BY <1>2
<1>4. out \in Seq(Packet) /\ out \o <<pk>> \in Seq(Packet)
  BY <1>3, ConcatAt DEF TypeInv, LinkType
<1>5. out' = (out \o <<pk>>) \o packets
  BY DEF RemoveNode
<1>6. shown' = FALSE
  BY DEF RemoveNode
<1>7. pk.type = "unsubscribe"
  BY DEF Unsubscribe
<1>8. \A t : Named(pk, "unsubscribe", t) <=> t \in NodeTopics \ ChartTopics
  BY NamedIs, DroppedIs
<1>9. \A t : ~Named(pk, "subscribe", t)
  BY NamedIs
<1>10. \A t : Unnamed(packets, "subscribe", t) /\ Unnamed(packets, "unsubscribe", t)
  BY <1>1, NamedIs DEF Unnamed
<1> HIDE DEF pk
<1>11. CASE link = "down"
  <2>1. \A i \in DOMAIN (out \o <<pk>>) : (out \o <<pk>>)[i].type # "subscribe"
    BY <1>3, <1>4, <1>7, <1>11, ConcatAt DEF SubInv
  <2>2. \A i \in DOMAIN out' : out'[i].type # "subscribe"
    BY <1>1, <1>4, <1>5, <2>1, ConcatAt
  <2> QED
    BY <1>11, <2>2 DEF SubInv
<1>12. CASE link = "up"
  <2>1. ASSUME NEW t \in Topics PROVE IF Wanted(t)' THEN On(t)' ELSE Off(t)'
    <3>1. Wanted(t)' <=> t = EveryModule \/ t \in ChartTopics
      <4>1. subscriptions' = PageEntries
        BY <1>6 DEF TypeInv, PageType
      <4>2. \A e \in PageEntries : e.topic = EveryModule \/ e.topic \in ChartTopics
        BY DEF PageEntries, Entry, ChartTopics
      <4>3. Entry(EveryModule, "page") \in PageEntries /\ Entry(EveryModule, "page").topic = EveryModule
        BY DEF PageEntries, Entry
      <4>4. \A u \in ChartTopics : Entry(u, "chart") \in PageEntries /\ Entry(u, "chart").topic = u
        BY DEF PageEntries, Entry, ChartTopics
      <4> QED
        BY <4>1, <4>2, <4>3, <4>4 DEF Wanted
    <3>2. CASE t \in NodeTopics \ ChartTopics
      <4>1. Will(out \o <<pk>>, Topics \ subscribed, t, "unsubscribe", "subscribe")
        BY <1>2, <1>4, <1>8, <1>9, <3>2, WillAdded
      <4>2. Off(t)'
        BY <1>1, <1>4, <1>5, <1>10, <4>1, WillConcat DEF Off
      <4>3. ~Wanted(t)'
        BY <3>1, <3>2, TopicFacts
      <4> QED
        BY <4>2, <4>3
    <3>3. CASE t \notin NodeTopics \ ChartTopics
      <4>1. t = EveryModule \/ t \in ChartTopics
        BY <3>3 DEF Topics
      <4>2. Wanted(t) /\ Wanted(t)'
        BY <3>1, <4>1, WantedIs
      <4>3. On(t)
        BY <1>12, <2>1, <4>2 DEF SubInv
      <4>4. Unnamed(<<pk>>, "unsubscribe", t)
        BY <1>3, <1>8, <3>3 DEF Unnamed
      <4>5. Will(out \o <<pk>>, subscribed, t, "subscribe", "unsubscribe")
        BY <1>3, <1>4, <4>3, <4>4, WillConcat DEF On
      <4>6. On(t)'
        BY <1>1, <1>4, <1>5, <1>10, <4>5, WillConcat DEF On
      <4> QED
        BY <4>2, <4>6
    <3> QED
      BY <3>2, <3>3
  <2> QED
    BY <1>12, <2>1 DEF SubInv
<1> QED
  BY <1>11, <1>12 DEF TypeInv, LinkType
(* A packet that arrives does what it was going to do. *)
LEMMA ArriveSub ==
  ASSUME TypeInv, SubInv, Arrive
  PROVE  SubInv'
<1> DEFINE pk == Head(out)
<1>1. /\ link = "up" /\ out # <<>> /\ out' = Tail(out) /\ pk \in Packet
      /\ UNCHANGED <<client, link>> /\ out \in Seq(Packet)
  BY ArriveIs DEF TypeInv, LinkType
<1>2. \/ /\ pk.type = "subscribe"
         /\ subscribed' = subscribed \cup {pk.topics[k] : k \in 1..Len(pk.topics)}
      \/ pk.type = "unsubscribe" /\ subscribed' = subscribed \ pk.topics
      \/ pk.type \in {"set", "module"} /\ UNCHANGED subscribed
  BY ArriveIs DEF TypeInv
<1>3. pk.type = "subscribe" => DOMAIN pk.topics = 1..Len(pk.topics)
  BY <1>1, PacketIs, LenProperties
<1>4. \A t : Named(pk, "subscribe", t) <=>
               pk.type = "subscribe" /\ t \in {pk.topics[k] : k \in 1..Len(pk.topics)}
  BY <1>3 DEF Named
<1>5. \A t : Named(pk, "unsubscribe", t) <=> pk.type = "unsubscribe" /\ t \in pk.topics
  BY DEF Named
<1>6. \A t : /\ t \in subscribed /\ ~Named(pk, "unsubscribe", t) => t \in subscribed'
             /\ Named(pk, "subscribe", t) => t \in subscribed'
             /\ t \notin subscribed /\ ~Named(pk, "subscribe", t) => t \notin subscribed'
             /\ Named(pk, "unsubscribe", t) => t \notin subscribed'
  BY <1>2, <1>4, <1>5
<1> HIDE DEF pk
<1>7. ASSUME NEW t \in Topics PROVE IF Wanted(t)' THEN On(t)' ELSE Off(t)'
  <2>1. Wanted(t)' <=> Wanted(t)
    BY <1>1 DEF Wanted, client
  <2>2. IF Wanted(t) THEN On(t) ELSE Off(t)
    BY <1>1, <1>7 DEF SubInv
  <2>3. ASSUME On(t) PROVE On(t)'
    <3>1. Will(out, subscribed, t, "subscribe", "unsubscribe")
      BY <2>3 DEF On
    <3>2. Will(Tail(out), subscribed', t, "subscribe", "unsubscribe")
      BY <1>1, <1>6, <3>1, WillTail DEF pk
    <3> QED
      BY <1>1, <3>2 DEF On
  <2>4. ASSUME Off(t) PROVE Off(t)'
    <3>1. Will(out, Topics \ subscribed, t, "unsubscribe", "subscribe")
      BY <2>4 DEF Off
    <3>2. /\ t \in Topics \ subscribed /\ ~Named(pk, "subscribe", t) => t \in Topics \ subscribed'
          /\ Named(pk, "unsubscribe", t) => t \in Topics \ subscribed'
      BY <1>6, <1>7
    <3>3. Will(Tail(out), Topics \ subscribed', t, "unsubscribe", "subscribe")
      BY <1>1, <3>1, <3>2, WillTail DEF pk
    <3> QED
      BY <1>1, <3>3 DEF Off
  <2> QED
    BY <2>1, <2>2, <2>3, <2>4
<1> QED
  BY <1>1, <1>7 DEF SubInv

(* A connection begins with all that is wanted, and with nothing subscribed. *)
LEMMA ConnectSub ==
  ASSUME TypeInv, SubInv, Connect
  PROVE  SubInv'
<1>1. /\ link = "down" /\ link' = "up" /\ UNCHANGED <<client, subscribed>>
      /\ subscribed = {} /\ \A i \in DOMAIN out : out[i].type # "subscribe"
  BY ConnectIs DEF SubInv
<1>2. PICK ts \in Seq(Topics) :
        /\ out' = out \o <<Subscribe(ts)>>
        /\ \A t : Has(ts, t) <=> t = EveryModule \/ t \in ChartTopics \/ (shown /\ t \in NodeTopics)
  BY ConnectIs
<1> DEFINE pk == Subscribe(ts)
<1>3. pk \in Packet /\ <<pk>> \in Seq(Packet) /\ out \in Seq(Packet)
  BY MakesPacket DEF TypeInv, LinkType
<1>4. \A t : /\ Named(pk, "subscribe", t) <=> Wanted(t)
             /\ ~Named(pk, "unsubscribe", t)
  BY <1>2, NamedIs, WantedIs DEF Has
<1> HIDE DEF pk
<1>5. ASSUME NEW t \in Topics PROVE IF Wanted(t)' THEN On(t)' ELSE Off(t)'
  <2>1. Wanted(t)' <=> Wanted(t)
    BY <1>1 DEF Wanted, client
  <2>2. CASE Wanted(t)
    <3>1. Will(out \o <<pk>>, subscribed, t, "subscribe", "unsubscribe")
      BY <1>3, <1>4, <2>2, WillAdded
    <3> QED
      BY <1>1, <1>2, <2>1, <2>2, <3>1 DEF On, pk
  <2>3. CASE ~Wanted(t)
    <3>1. Unnamed(out, "subscribe", t) /\ Unnamed(<<pk>>, "subscribe", t)
      BY <1>1, <1>4, <2>3, NamedIs DEF Unnamed
    <3>2. Will(out, Topics \ subscribed, t, "unsubscribe", "subscribe")
      BY <1>1, <1>5, <3>1 DEF Will
    <3>3. Will(out \o <<pk>>, Topics \ subscribed, t, "unsubscribe", "subscribe")
      BY <1>3, <3>1, <3>2, WillConcat
    <3> QED
      BY <1>1, <1>2, <2>1, <2>3, <3>3 DEF Off, pk
  <2> QED
    BY <2>2, <2>3
<1> QED
  BY <1>1, <1>5 DEF SubInv

LEMMA SubKept == TypeInv /\ TypeInv' /\ SubInv /\ [Next]_vars => SubInv'
<1> SUFFICES ASSUME TypeInv, TypeInv', SubInv, [Next]_vars
             PROVE  SubInv'
  OBVIOUS
<1>0. PageType /\ LinkType /\ ServerType
  BY DEF TypeInv
<1>1. ASSUME NEW p \in ParamSet, Input(p) PROVE SubInv'
  BY <1>0, <1>1, InputType, SubSame
<1>2. ASSUME NEW p \in ParamSet, Change(p) \/ Arrow(p) \/ Check(p) \/ Choose(p) PROVE SubInv'
  <2>1. UNCHANGED <<link, subscribed>> /\ Kind[p] # "statistic"
    BY <1>0, <1>2, Publishes
  <2>2. PICK v : /\ Kind[p] = "double" => v \in Int \cup {NaN}
                 /\ Kind[p] = "bool" => v \in {0, 1}
                 /\ p \in Selects => v \in widget[p].options
                 /\ Publish(p, v)
    BY <1>0, <1>2, Publishes
  <2>3. UNCHANGED subscriptions /\ \E x : Set(p, x) \in Packet /\ out' = out \o <<Set(p, x)>>
    BY <1>0, <2>1, <2>2, PublishType
  <2>4. PICK x : Set(p, x) \in Packet /\ out' = out \o <<Set(p, x)>>
    BY <2>3
  <2>5. <<Set(p, x)>> \in Seq(Packet)
         /\ \A i \in DOMAIN <<Set(p, x)>> : <<Set(p, x)>>[i].type \notin {"subscribe", "unsubscribe"}
    BY <2>4, NamedIs
  <2> QED
    BY <1>0, <2>1, <2>3, <2>4, <2>5, SubPassOn
<1>3. CASE CreateOrDelete
  BY <1>3, CreateOrDeleteIs, AddNodeSub, RemoveNodeSub
<1>4. CASE Arrive
  BY <1>4, ArriveSub
<1>5. CASE Others
  BY <1>0, <1>5, OthersIs, SubSame DEF client
<1>6. CASE Receive
  <2> DEFINE m == Head(coming)
  <2>1. m \in Message /\ UNCHANGED <<link, subscribed>>
    BY <1>0, <1>6, ReceiveIs
  <2>2. CASE m.topic = Description /\ HearModule(m.value # Empty)
    <3>1. \/ UNCHANGED <<client, out>>
          \/ \E packets \in ModulePackets :
               (shown /\ RemoveNode(packets)) \/ (~shown /\ AddNode(packets))
      BY <1>0, <2>2, HearModuleType
    <3> QED
      BY <2>1, <3>1, AddNodeSub, RemoveNodeSub, SubSame DEF client
  <2>3. CASE shown /\ m.topic \in NodeTopics /\ HearNode(m)
    BY <1>0, <2>1, <2>3, HearNodeType, SubSame
  <2>4. CASE UNCHANGED <<client, out>>
    BY <2>1, <2>4, SubSame DEF client
  <2> QED
    BY <1>0, <1>6, <2>2, <2>3, <2>4, ReceiveIs
<1>7. CASE Connect
  BY <1>7, ConnectSub
<1>8. CASE Lose
  <2>1. link' = "down" /\ subscribed' = {} /\ \A i \in DOMAIN out' : IsPublish(out'[i])
    BY <1>0, <1>8, LoseIs
  <2> QED
    BY <2>1 DEF SubInv, IsPublish
<1>9. CASE UNCHANGED vars
  BY <1>9, SubSame DEF vars, network, client
<1> QED
  BY <1>1, <1>2, <1>3, <1>4, <1>5, <1>6, <1>7, <1>8, <1>9 DEF Next

LEMMA InitSub == Init => SubInv
BY DEF Init, SubInv

LEMMA SubSound == TypeInv /\ SubInv => SubscriptionsMatch
<1> SUFFICES ASSUME TypeInv, SubInv
             PROVE  SubscriptionsMatch
  OBVIOUS
<1>1. ASSUME link = "up", out = <<>> PROVE subscribed = {e.topic : e \in subscriptions}
  <2>1. \A t \in Topics : Wanted(t) <=> t \in subscribed
    <3> SUFFICES ASSUME NEW t \in Topics
                 PROVE  Wanted(t) <=> t \in subscribed
      OBVIOUS
    <3>1. IF Wanted(t) THEN On(t) ELSE Off(t)
      BY <1>1 DEF SubInv
    <3>2. DOMAIN out = {}
      BY <1>1
    <3>3. On(t) => t \in subscribed
      BY <3>2 DEF On, Will
    <3>4. Off(t) => t \notin subscribed
      BY <3>2 DEF Off, Will
    <3> QED
      BY <3>1, <3>3, <3>4
  <2>2. \A t : Wanted(t) => t \in Topics
    BY WantedIs, ChartFacts DEF Topics
  <2>3. \A t : Wanted(t) <=> t \in {e.topic : e \in subscriptions}
    BY DEF Wanted
  <2>4. subscribed \subseteq Topics
    BY DEF TypeInv, LinkType
  <2> QED
    BY <2>1, <2>2, <2>3, <2>4
<1> QED
  BY <1>1 DEF TypeInv, PageType, SubscriptionsMatch

(* The page listens to exactly what it needs: once its packets have arrived the
   broker has the topics of the entries of `subscriptions', and no others
   (SubscriptionsMatch, mqtt.js:59, 85, 121).  However the module comes and goes,
   and whenever the connection is lost. *)
THEOREM SubscriptionsFollow == Spec => []SubscriptionsMatch
<1>1. Init => TypeInv /\ SubInv
  BY InitTypes, InitSub
<1>2. (TypeInv /\ SubInv) /\ [Next]_vars => (TypeInv /\ SubInv)'
  BY TypesKept, SubKept
<1>3. TypeInv /\ SubInv => SubscriptionsMatch
  BY SubSound
<1> QED
  BY <1>1, <1>2, <1>3, PTL DEF Spec
----------------------------------------------------------------------------
(* The values *)

LEMMA RetainedIs ==
  ASSUME present, NEW t \in NodeTopics
  PROVE  Retained(t) = SaidOf(value, options, t)
BY NodeTopicIs DEF Retained, SaidOf

Asked(t) == \E i \in DOMAIN out : Named(out[i], "subscribe", t)

(* A topic of the module that is shown is heard, or asked for. *)
LEMMA HeardOrAsked ==
  ASSUME TypeInv, SubInv, link = "up", shown, NEW t \in NodeTopics
  PROVE  Heard(t) \/ Asked(t)
<1>1. Wanted(t) /\ t \in Topics
  BY WantedIs DEF Topics
<1>2. On(t)
  BY <1>1 DEF SubInv
<1>3. t \in subscribed => Heard(t)
  <2>1. topic_matches_sub(t, t)
    BY MatchesItself
  <2> QED
    BY <2>1 DEF Heard
<1> QED
  BY <1>2, <1>3 DEF On, Will, Asked

(* What is delivered is told if it is heard, and changes nothing else. *)
LEMMA Hears ==
  ASSUME TypeInv, link = "up", NEW ms \in Seq(Message), Deliver(ms), NEW t, NEW x,
         \A k \in DOMAIN ms : ms[k].topic = t => ms[k].value = x
  PROVE  Heard(t) /\ (\E k \in DOMAIN ms : ms[k].topic = t) => Tells(coming', t, x)
<1>1. coming \in Seq(Message)
  BY DEF TypeInv, ServerType
<1>2. PICK u \in Seq(Message) :
        /\ coming' = coming \o u
        /\ \A i \in DOMAIN u : \E k \in DOMAIN ms : u[i] = ms[k]
        /\ \A k \in DOMAIN ms : Heard(ms[k].topic) => \E i \in DOMAIN u : u[i] = ms[k]
  BY <1>1, DeliverAdds
<1>3. \A i \in DOMAIN u : u[i].topic = t => u[i].value = x
  BY <1>2
<1>4. Heard(t) /\ (\E k \in DOMAIN ms : ms[k].topic = t) => \E i \in DOMAIN u : u[i].topic = t
  BY <1>2
<1> QED
  BY <1>1, <1>2, <1>3, <1>4, TellsConcat

LEMMA HearsNothing ==
  ASSUME TypeInv, NEW ms \in Seq(Message), Deliver(ms), NEW t,
         \A k \in DOMAIN ms : ms[k].topic # t
  PROVE  /\ \A x : Tells(coming, t, x) => Tells(coming', t, x)
         /\ Silent(coming, t) => Silent(coming', t)
<1>1. coming \in Seq(Message)
  BY DEF TypeInv, ServerType
<1>2. CASE link # "up"
  BY <1>1, <1>2, DeliverAdds
<1>3. CASE link = "up"
  <2>1. PICK u \in Seq(Message) :
          coming' = coming \o u /\ \A i \in DOMAIN u : \E k \in DOMAIN ms : u[i] = ms[k]
    BY <1>1, <1>3, DeliverAdds
  <2>2. \A i \in DOMAIN u : u[i].topic # t
    BY <2>1
  <2>3. \A x : Tells(coming, t, x) => Tells(coming', t, x)
    BY <1>1, <2>1, <2>2, TellsConcat
  <2>4. Silent(coming, t) => Silent(coming', t)
    BY <1>1, <2>1, <2>2, SilentConcat DEF Silent
  <2> QED
    BY <2>3, <2>4
<1> QED
  BY <1>2, <1>3

(* What is on its way stays on its way while no packet arrives, *)
LEMMA ComingConcat ==
  ASSUME LinkType, NEW u \in Seq(Packet), out' = out \o u, NEW t, Coming(t)
  PROVE  Coming(t)'
<1>1. out \in Seq(Packet)
  BY DEF LinkType
<1>2. PICK i \in DOMAIN out : \/ Named(out[i], "subscribe", t)
                              \/ out[i].type = "set" /\ t = ValueTopic(out[i].param)
  BY DEF Coming
<1>3. i \in DOMAIN out' /\ out'[i] = out[i]
  BY <1>1, <1>2, ConcatAt
<1> QED
  BY <1>2, <1>3 DEF Coming

(* and the others when one does. *)
LEMMA ComingTail ==
  ASSUME LinkType, out # <<>>, out' = Tail(out), NEW t
  PROVE  /\ Asked(t) => Coming(t)' \/ Named(Head(out), "subscribe", t)
         /\ Coming(t) => \/ Coming(t)'
                         \/ Named(Head(out), "subscribe", t)
                         \/ Head(out).type = "set" /\ t = ValueTopic(Head(out).param)
<1>1. out \in Seq(Packet)
  BY DEF LinkType
<1>2. ASSUME NEW i \in DOMAIN out, i # 1 PROVE i - 1 \in DOMAIN out' /\ out'[i - 1] = out[i]
  BY <1>1, <1>2, TailAt
<1>3. Head(out) = out[1]
  BY <1>1, TailAt
<1>4. ASSUME NEW i \in DOMAIN out, Named(out[i], "subscribe", t)
      PROVE  Coming(t)' \/ Named(Head(out), "subscribe", t)
  BY <1>2, <1>3, <1>4 DEF Coming
<1>5. ASSUME NEW i \in DOMAIN out, out[i].type = "set", t = ValueTopic(out[i].param)
      PROVE  Coming(t)' \/ (Head(out).type = "set" /\ t = ValueTopic(Head(out).param))
  BY <1>2, <1>3, <1>5 DEF Coming
<1> QED
  BY <1>4, <1>5 DEF Asked, Coming

(* If what is retained for a topic and what is shown of it stay. *)
LEMMA WillShowSame ==
  ASSUME NEW t, WillShow(t), Coming(t) => WillShow(t)', Retained(t)' = Retained(t),
         Tells(coming, t, Retained(t)) => Tells(coming', t, Retained(t)),
         Silent(coming, t) => Silent(coming', t), Shows(t) => Shows(t)'
  PROVE  WillShow(t)'
BY DEF WillShow

LEMMA RetainedSame ==
  ASSUME UNCHANGED server, NEW t
  PROVE  Retained(t)' = Retained(t)
BY DEF server, Retained
----------------------------------------------------------------------------
(* What the server says of its values *)

LEMMA AcceptShow ==
  ASSUME TypeInv, SubInv, ShowInv, link = "up", shown, present,
         NEW p \in ParamSet, NEW v \in Values, v \in Right(p) \cup {NaN}, Accept(p, v),
         UNCHANGED <<client, link>>,
         NEW t \in NodeTopics, Retained(t)' # Empty,
         Asked(t) => Coming(t)',
         t # ValueTopic(p) \/ Kind[p] = "statistic" => (Coming(t) => Coming(t)')
  PROVE  WillShow(t)'
<1> DEFINE x == Taken(p, v)
<1>1. /\ UNCHANGED <<present, options>> /\ value' = [value EXCEPT ![p] = x]
      /\ Msg(ValueTopic(p), x) \in Message
      /\ IF Kind[p] = "statistic" /\ v = value[p]
           THEN coming' = coming ELSE Deliver(<<Msg(ValueTopic(p), x)>>)
  BY AcceptType DEF TypeInv
<1>2. value \in [ParamSet -> Values]
  BY DEF TypeInv, ServerType
<1>3. Retained(t) = SaidOf(value, options, t) /\ Retained(t)' = SaidOf(value, options, t)'
  BY <1>1, RetainedIs, NodeTopicIs DEF Retained, SaidOf
<1>4. CASE t # ValueTopic(p)
  <2>1. SaidOf(value, options, t)' = SaidOf(value, options, t) /\ (Len(t) # 3 => t[2] # p)
    BY <1>1, <1>2, <1>4, NodeTopicIs DEF SaidOf
  <2>2. WillShow(t)
    BY <1>3, <2>1 DEF ShowInv
  <2>3. Shows(t) => Shows(t)'
    BY <1>1, <1>2, <2>1 DEF Shows, client
  <2>4. CASE coming' = coming
    BY <1>3, <1>4, <2>1, <2>2, <2>3, <2>4, WillShowSame DEF WillShow
  <2>5. CASE Deliver(<<Msg(ValueTopic(p), x)>>)
    <3>1. <<Msg(ValueTopic(p), x)>> \in Seq(Message)
            /\ \A k \in DOMAIN <<Msg(ValueTopic(p), x)>> : <<Msg(ValueTopic(p), x)>>[k].topic # t
      BY <1>1, <1>4 DEF Msg
    <3>2. /\ \A y : Tells(coming, t, y) => Tells(coming', t, y)
          /\ Silent(coming, t) => Silent(coming', t)
      BY <2>5, <3>1, HearsNothing
    <3> QED
      BY <1>3, <1>4, <2>1, <2>2, <2>3, <3>2, WillShowSame DEF WillShow
  <2> QED
    BY <1>1, <2>4, <2>5
<1>5. CASE t = ValueTopic(p)
  <2>1. Retained(t)' = x
    BY <1>1, <1>2, <1>3, <1>5, TopicFacts DEF SaidOf
  <2>2. CASE Kind[p] = "statistic" /\ v = value[p]
    <3>1. x = value[p] /\ coming' = coming
      BY <1>1, <2>2, Constants DEF Taken
    <3>2. value' = value
      BY <1>1, <1>2, <3>1
    <3>3. Retained(t)' = Retained(t)
      BY <1>1, <3>2, RetainedSame DEF server
    <3>4. WillShow(t)
      BY <3>3 DEF ShowInv
    <3>5. Shows(t) => Shows(t)'
      BY <1>1, <3>2 DEF Shows, client
    <3> QED
      BY <2>2, <3>1, <3>3, <3>4, <3>5, WillShowSame DEF WillShow
  <2>3. CASE ~(Kind[p] = "statistic" /\ v = value[p])
    <3>1. Deliver(<<Msg(ValueTopic(p), x)>>)
      BY <1>1, <2>3
    <3> DEFINE ms == <<Msg(ValueTopic(p), x)>>
    <3>2. /\ ms \in Seq(Message)
          /\ \A k \in DOMAIN ms : ms[k].topic = t => ms[k].value = x
          /\ \E k \in DOMAIN ms : ms[k].topic = t
      BY <1>1, <1>5 DEF Msg
    <3> HIDE DEF ms, x
    <3>3. Heard(t) => Tells(coming', t, x)
      BY <3>1, <3>2, Hears DEF ms
    <3>4. Heard(t) \/ Asked(t)
      BY HeardOrAsked
    <3> QED
      BY <2>1, <3>3, <3>4 DEF WillShow
  <2> QED
    BY <2>2, <2>3
<1> QED
  BY <1>4, <1>5

LEMMA AddModuleShow ==
  ASSUME TypeInv, SubInv, link = "up", shown, AddModule,
         NEW t \in NodeTopics, Retained(t)' # Empty, Asked(t) => Coming(t)'
  PROVE  WillShow(t)'
<1> DEFINE x == SaidOf(Default, options', t)
           ns == NodeMessages(Default, options')
           ms == Append(Said(ns), Msg(Description, "description"))
<1>1. /\ present' = TRUE /\ value' = Default /\ options' \in [Selects -> Choices]
      /\ ms \in Seq(Message) /\ ns \in Seq(Message)
  BY AddModuleType DEF TypeInv
<1>2. Retained(t)' = x
  BY <1>1, NodeTopicIs DEF Retained, SaidOf
<1>3. Deliver(ms)
  BY DEF AddModule
<1>4. /\ DOMAIN ns = DOMAIN NodeTopicList
      /\ \A k \in DOMAIN NodeTopicList : /\ ns[k].topic = NodeTopicList[k]
                                         /\ ns[k].value = SaidOf(Default, options', NodeTopicList[k])
  <2>1. \A p \in ParamSet : Default[p] \in Right(p) \cup {Empty}
    BY Constants
  <2> QED
    BY <1>1, <2>1, NodeMessagesAre
<1>5. PICK k \in DOMAIN ns : ns[k].topic = t /\ ns[k].value = x
  BY <1>4, ListFacts
<1>6. \A i \in DOMAIN ns : ns[i].topic = t => ns[i].value = x
  BY <1>4
<1> HIDE DEF x, ns
<1>7. /\ Said(ns) \in Seq(Message)
      /\ \A i \in DOMAIN Said(ns) : \E j \in DOMAIN ns : Said(ns)[i] = ns[j]
      /\ \E i \in DOMAIN Said(ns) : Said(ns)[i] = ns[k]
  BY <1>1, <1>2, <1>5, SaidIs
<1>8. /\ ms = Said(ns) \o <<Msg(Description, "description")>>
      /\ <<Msg(Description, "description")>> \in Seq(Message)
      /\ DOMAIN <<Msg(Description, "description")>> = {1}
      /\ <<Msg(Description, "description")>>[1].topic # t
  <2>1. Msg(Description, "description") \in Message
    BY MakesMessage
  <2>2. t # Description
    BY NodeTopicIs
  <2>3. Msg(Description, "description").topic = Description
    BY DEF Msg
  <2> QED
    BY <1>7, <2>1, <2>2, <2>3, AppendIsConcat
<1>9. \E i \in DOMAIN ms : ms[i].topic = t
  BY <1>5, <1>7, <1>8, ConcatAt
<1>10. \A i \in DOMAIN ms : ms[i].topic = t => ms[i].value = x
  BY <1>6, <1>7, <1>8, ConcatAt
<1> HIDE DEF ms
<1>11. Heard(t) => Tells(coming', t, x)
  BY <1>1, <1>3, <1>9, <1>10, Hears
<1>12. Heard(t) \/ Asked(t)
  BY HeardOrAsked
<1> QED
  BY <1>2, <1>11, <1>12 DEF WillShow
----------------------------------------------------------------------------
(* The steps *)

LEMMA ArriveShow ==
  ASSUME TypeInv, SubInv, ShowInv, Arrive
  PROVE  ShowInv'
<1> DEFINE pk == Head(out)
<1>1. /\ link = "up" /\ out # <<>> /\ out' = Tail(out) /\ pk \in Packet
      /\ UNCHANGED <<client, link>>
      /\ out \in Seq(Packet) /\ PageType /\ LinkType /\ ServerType
  BY ArriveIs DEF TypeInv, LinkType
<1>2. \/ /\ pk.type = "subscribe" /\ UNCHANGED server
         /\ coming' = coming \o Said(Answers(pk.topics))
      \/ pk.type = "unsubscribe" /\ UNCHANGED <<server, coming>>
      \/ /\ pk.type = "set"
         /\ IF present THEN Accept(pk.param, pk.value) ELSE UNCHANGED <<server, coming>>
      \/ /\ pk.type = "module"
         /\ \/ UNCHANGED <<server, coming>>
            \/ ~present /\ AddModule
            \/ present /\ RemoveModule
  BY ArriveIs DEF TypeInv
<1>3. \A t : /\ Asked(t) => Coming(t)' \/ Named(pk, "subscribe", t)
             /\ Coming(t) => \/ Coming(t)'
                             \/ Named(pk, "subscribe", t)
                             \/ pk.type = "set" /\ t = ValueTopic(pk.param)
  BY <1>1, ComingTail
<1>4. \A t : pk.type # "subscribe" => ~Named(pk, "subscribe", t)
  BY NamedIs
<1> HIDE DEF pk
<1>5. SUFFICES ASSUME shown, present', NEW t \in NodeTopics, Retained(t)' # Empty
               PROVE  WillShow(t)'
  BY <1>1 DEF ShowInv, client
<1>6. Shows(t) /\ UNCHANGED server => Shows(t)'
  BY <1>1 DEF Shows, client, server
<1>7. ASSUME UNCHANGED server PROVE Retained(t)' = Retained(t) /\ WillShow(t)
  <2>1. Retained(t)' = Retained(t) /\ present
    BY <1>5, <1>7, RetainedSame DEF server
  <2> QED
    BY <1>1, <1>5, <2>1 DEF ShowInv
<1>8. CASE pk.type = "subscribe"
  <2>1. UNCHANGED server /\ coming' = coming \o Said(Answers(pk.topics))
    BY <1>2, <1>8
  <2> DEFINE ts == pk.topics
             u == Said(Answers(ts))
  <2>2. ts \in Seq(Topics)
    BY <1>1, <1>8, PacketIs
  <2>3. /\ Answers(ts) \in Seq(Message) /\ DOMAIN Answers(ts) = DOMAIN ts
        /\ \A k \in DOMAIN ts :
             Answers(ts)[k] = Msg(IF ts[k] = EveryModule THEN Description ELSE ts[k], Retained(ts[k]))
    BY <1>1, <2>2, AnswersAre
  <2>4. /\ u \in Seq(Message)
        /\ \A i \in DOMAIN u : \E k \in DOMAIN ts : u[i] = Answers(ts)[k]
        /\ \A k \in DOMAIN ts : Answers(ts)[k].value # Empty => \E i \in DOMAIN u : u[i] = Answers(ts)[k]
    <3> HIDE DEF ts
    <3>1. /\ Said(Answers(ts)) \in Seq(Message)
          /\ \A i \in DOMAIN Said(Answers(ts)) : \E k \in DOMAIN Answers(ts) :
               Said(Answers(ts))[i] = Answers(ts)[k]
          /\ \A k \in DOMAIN Answers(ts) : Answers(ts)[k].value # Empty =>
               \E i \in DOMAIN Said(Answers(ts)) : Said(Answers(ts))[i] = Answers(ts)[k]
      BY <2>3, SaidIs
    <3> QED
      BY <2>3, <3>1
  <2>5. Retained(t)' = Retained(t) /\ WillShow(t)
    BY <1>7, <2>1
  <2>6. t # EveryModule /\ t # Description
    BY NodeTopicIs
  <2>7. \A k \in DOMAIN ts : /\ Answers(ts)[k].topic = t <=> ts[k] = t
                             /\ ts[k] = t => Answers(ts)[k].value = Retained(t)
    <3> HIDE DEF ts, u
    <3> TAKE k \in DOMAIN ts
    <3>1. /\ Answers(ts)[k].topic = IF ts[k] = EveryModule THEN Description ELSE ts[k]
          /\ Answers(ts)[k].value = Retained(ts[k])
      BY <2>3 DEF Msg
    <3> QED
      BY <2>6, <3>1
  <2> HIDE DEF u, ts
  <2>8. coming \in Seq(Message) /\ coming' = coming \o u
    BY <2>1 DEF TypeInv, ServerType, u, ts
  <2>9. \A i \in DOMAIN u : u[i].topic = t => u[i].value = Retained(t)
    BY <2>4, <2>7
  <2>10. CASE Named(pk, "subscribe", t)
    <3>1. PICK k \in DOMAIN ts : ts[k] = t
      BY <2>10 DEF Named, ts
    <3>2. \E i \in DOMAIN u : u[i].topic = t
      BY <1>5, <2>4, <2>5, <2>7, <3>1
    <3>3. Tells(coming', t, Retained(t))
      BY <2>4, <2>8, <2>9, <3>2, TellsConcat
    <3> QED
      BY <2>5, <3>3 DEF WillShow
  <2>11. CASE ~Named(pk, "subscribe", t)
    <3>1. Coming(t) => Coming(t)'
      BY <1>3, <1>8, <2>11
    <3>2. \A k \in DOMAIN ts : ts[k] # t
      BY <1>8, <2>11 DEF Named, ts
    <3>3. Silent(u, t)
      BY <2>4, <2>7, <3>2 DEF Silent
    <3>4. Tells(coming, t, Retained(t)) => Tells(coming', t, Retained(t))
      BY <2>4, <2>8, <2>9, TellsConcat
    <3>5. Silent(coming, t) => Silent(coming', t)
      BY <2>4, <2>8, <3>3, SilentConcat
    <3> QED
      BY <1>6, <2>1, <2>5, <3>1, <3>4, <3>5, WillShowSame DEF WillShow
  <2> QED
    BY <2>10, <2>11
<1>9. CASE UNCHANGED <<server, coming>> /\ pk.type \in {"unsubscribe", "module"}
  <2>1. Coming(t) => Coming(t)'
    BY <1>3, <1>4, <1>9
  <2>2. Retained(t)' = Retained(t) /\ WillShow(t)
    BY <1>7, <1>9
  <2> QED
    BY <1>6, <1>9, <2>1, <2>2, WillShowSame DEF WillShow
<1>10. CASE pk.type = "set"
  <2>1. present
    BY <1>2, <1>5, <1>10 DEF server
  <2>2. Accept(pk.param, pk.value)
    BY <1>2, <1>10, <2>1
  <2>3. /\ pk.param \in ParamSet /\ pk.value \in Values /\ pk.value \in Right(pk.param) \cup {NaN}
        /\ Kind[pk.param] # "statistic"
    BY <1>1, <1>10, PacketIs
  <2>4. Asked(t) => Coming(t)'
    BY <1>3, <1>4, <1>10
  <2>5. t # ValueTopic(pk.param) => (Coming(t) => Coming(t)')
    BY <1>3, <1>4, <1>10
  <2> QED
    BY <1>1, <1>5, <2>1, <2>2, <2>3, <2>4, <2>5, AcceptShow
<1>11. CASE pk.type = "module" /\ ~present /\ AddModule
  <2>1. Asked(t) => Coming(t)'
    BY <1>3, <1>4, <1>11
  <2> QED
    BY <1>1, <1>5, <1>11, <2>1, AddModuleShow
<1>12. CASE pk.type = "module" /\ present /\ RemoveModule
  BY <1>1, <1>5, <1>12, RemoveModuleType
<1> QED
  BY <1>2, <1>8, <1>9, <1>10, <1>11, <1>12

LEMMA OthersShow ==
  ASSUME TypeInv, SubInv, ShowInv, Others
  PROVE  ShowInv'
<1>1. UNCHANGED <<client, link, out>> /\ ServerType
  BY OthersIs DEF TypeInv
<1>2. SUFFICES ASSUME link = "up", shown, present', NEW t \in NodeTopics, Retained(t)' # Empty
               PROVE  WillShow(t)'
  BY <1>1 DEF ShowInv, client
<1>3. (Asked(t) => Coming(t)') /\ (Coming(t) => Coming(t)')
  BY <1>1 DEF Asked, Coming
<1>4. ASSUME present, NEW p \in ParamSet, NEW v \in Typed[p], Accept(p, v) PROVE WillShow(t)'
  <2>1. v \in Values /\ v \in Right(p) \cup {NaN}
    BY Constants
  <2> QED
    BY <1>1, <1>2, <1>3, <1>4, <2>1, AcceptShow
<1>5. CASE AddModule
  BY <1>2, <1>3, <1>5, AddModuleShow
<1>6. CASE RemoveModule
  BY <1>1, <1>2, <1>6, RemoveModuleType
<1> QED
  BY <1>1, <1>4, <1>5, <1>6, OthersIs

(* A message is shown, if it says what is retained. *)
LEMMA HearNodeShow ==
  ASSUME TypeInv, ShowInv, link = "up", shown, present, coming # <<>>, coming' = Tail(coming),
         Head(coming).topic \in NodeTopics, HearNode(Head(coming)),
         UNCHANGED server,
         NEW t \in NodeTopics, Retained(t) # Empty
  PROVE  WillShow(t)'
<1> DEFINE m == Head(coming)
           p == m.topic[2]
           w == Told(widget[p], m)
<1>1. coming \in Seq(Message) /\ m \in Message /\ PageType
  BY TailAt DEF TypeInv, ServerType
<1>2. /\ UNCHANGED <<shown, subscriptions, out>> /\ p \in ParamSet
      /\ widget' = [widget EXCEPT ![p] = w]
  BY <1>1, HearNodeType
<1>3. /\ widget \in [ParamSet -> Widget] /\ WidgetOK(p, widget[p])
  BY <1>2 DEF TypeInv, PageType
<1>4. Retained(t)' = Retained(t) /\ Retained(t) = SaidOf(value, options, t) /\ WillShow(t)
  BY RetainedSame, RetainedIs DEF ShowInv
<1>5. \/ m.topic = ValueTopic(p) /\ Len(m.topic) = 2
      \/ m.topic = OptionsTopic(p) /\ Len(m.topic) = 3 /\ p \in Selects
  BY NodeTopicIs
<1>6. CASE m.topic = ValueTopic(p) /\ Len(m.topic) = 2
  <2>1. m.value \in Right(p) \cup {Empty} /\ w = SetValue(widget[p], p, m.value)
    <3>1. w = SetValue(widget[p], p, m.value)
      <4>1. Len(m.topic) # 3
        <5> HIDE DEF m
        <5> QED
          BY <1>6
      <4> QED
        BY <4>1, Zenon DEF Told
    <3> HIDE DEF m, p, w
    <3>2. m.value \in Right(p) \cup {Empty}
      BY <1>1, <1>2, <1>6, MessageIs
    <3> QED
      BY <3>1, <3>2
  <2> HIDE DEF m, p, w
  <2>2. /\ w.options = widget[p].options
        /\ m.value # Empty => w.value = m.value
        /\ m.value # Empty /\ p \notin Selects => w.text = m.value /\ w.changed = FALSE
    <3> DEFINE v == m.value
               s == SetValue(widget[p], p, v)
    <3>1. /\ s.options = widget[p].options
          /\ v # Empty => s.value = v
          /\ v # Empty /\ p \notin Selects => s.text = v /\ s.changed = FALSE
      <4>1. v \in Right(p) \cup {Empty}
        BY <2>1
      <4> HIDE DEF v
      <4> QED
        BY <1>2, <1>3, <4>1, SetValueOK
    <3>2. w = s
      BY <2>1
    <3> HIDE DEF s
    <3> QED
      BY <3>1, <3>2
  <2>3. CASE t = m.topic
    <3>1. ASSUME m.value = Retained(t) PROVE Shows(t)'
      <4>1. t[2] = p /\ Len(t) = 2 /\ m.value = value[p]
        <5>1. t[2] = p
          BY <2>3 DEF p
        <5>2. Len(t) = 2
          BY <1>6, <2>3
        <5>3. Retained(t) = value[t[2]]
          BY <1>4, <5>2 DEF SaidOf
        <5> QED
          BY <3>1, <5>1, <5>2, <5>3
      <4>2. widget'[p] = w /\ w.value = value[p] /\ value' = value
        BY <1>2, <1>3, <2>2, <3>1, <4>1 DEF server
      <4>3. p \notin Selects => (w.changed <=> w.text # value[p])
        BY <2>2, <3>1, <4>1
      <4> QED
        BY <4>1, <4>2, <4>3 DEF Shows
    <3>2. Coming(t) => Coming(t)'
      BY <1>2 DEF Coming
    <3>3. Silent(coming, t) => FALSE
      BY <1>1, <2>3, SilentTail DEF m
    <3>4. Tells(coming, t, Retained(t)) =>
            Tells(coming', t, Retained(t)) \/ (Silent(coming', t) /\ m.value = Retained(t))
      BY <1>1, TellsTail DEF m
    <3> QED
      BY <1>4, <3>1, <3>2, <3>3, <3>4 DEF WillShow
  <2>4. CASE t # m.topic
    <3>1. Shows(t) => Shows(t)'
      <4>1. CASE t[2] # p
        BY <1>2, <1>3, <4>1 DEF Shows, server
      <4>2. CASE t[2] = p
        <5>1. Len(t) = 3 /\ widget'[p].options = widget[p].options
          BY <1>2, <1>3, <1>6, <2>2, <2>4, <4>2, NodeTopicIs
        <5> QED
          BY <4>2, <5>1 DEF Shows, server
      <4> QED
        BY <4>1, <4>2
    <3>2. Coming(t) => Coming(t)'
      BY <1>2 DEF Coming
    <3>3. /\ Silent(coming, t) => Silent(coming', t)
          /\ Tells(coming, t, Retained(t)) => Tells(coming', t, Retained(t))
      BY <1>1, <2>4, SilentTail, TellsTail DEF m
    <3> QED
      BY <1>4, <3>1, <3>2, <3>3, WillShowSame DEF WillShow
  <2> QED
    BY <2>3, <2>4
<1>7. CASE m.topic = OptionsTopic(p) /\ Len(m.topic) = 3 /\ p \in Selects
  <2> DEFINE opts == IF m.value = Empty THEN {} ELSE m.value
  <2>1. opts \in Choices \cup {{}} /\ w = SetOptions(widget[p], opts)
    BY <1>1, <1>2, <1>7, MessageIs DEF Told
  <2> HIDE DEF m, p, w
  <2>2. w.options = opts /\ w.value = widget[p].value
    <3> HIDE DEF opts
    <3> QED
      BY <1>3, <1>7, <2>1, SetOptionsOK
  <2>3. CASE t = m.topic
    <3>1. ASSUME m.value = Retained(t) PROVE Shows(t)'
      <4>1. t[2] = p /\ Len(t) = 3 /\ m.value = options[p]
        BY <1>4, <1>7, <2>3, <3>1, TopicFacts DEF SaidOf
      <4>2. widget'[p] = w /\ w.options = options[p] /\ options' = options
        BY <1>2, <1>3, <2>2, <3>1, <4>1 DEF server
      <4> QED
        BY <4>1, <4>2 DEF Shows
    <3>2. Coming(t) => Coming(t)'
      BY <1>2 DEF Coming
    <3>3. Silent(coming, t) => FALSE
      BY <1>1, <2>3, SilentTail DEF m
    <3>4. Tells(coming, t, Retained(t)) =>
            Tells(coming', t, Retained(t)) \/ (Silent(coming', t) /\ m.value = Retained(t))
      BY <1>1, TellsTail DEF m
    <3> QED
      BY <1>4, <3>1, <3>2, <3>3, <3>4 DEF WillShow
  <2>4. CASE t # m.topic
    <3>1. Shows(t) => Shows(t)'
      <4>1. CASE t[2] # p
        BY <1>2, <1>3, <4>1 DEF Shows, server
      <4>2. CASE t[2] = p
        <5>1. Len(t) # 3 /\ widget'[p].value = widget[p].value
          <6>1. Len(t) # 3
            BY <1>7, <2>4, <4>2, NodeTopicIs
          <6>2. widget'[p] = w
            BY <1>2, <1>3
          <6> QED
            BY <2>2, <6>1, <6>2
        <5> QED
          BY <1>7, <4>2, <5>1 DEF Shows, server
      <4> QED
        BY <4>1, <4>2
    <3>2. Coming(t) => Coming(t)'
      BY <1>2 DEF Coming
    <3>3. /\ Silent(coming, t) => Silent(coming', t)
          /\ Tells(coming, t, Retained(t)) => Tells(coming', t, Retained(t))
      BY <1>1, <2>4, SilentTail, TellsTail DEF m
    <3> QED
      BY <1>4, <3>1, <3>2, <3>3, WillShowSame DEF WillShow
  <2> QED
    BY <2>3, <2>4
<1> QED
  BY <1>5, <1>6, <1>7
(* What is subscribed to will be told. *)
LEMMA SubscribeAsks ==
  ASSUME NEW s \in Seq(Packet), NEW ts \in Seq(Topics), out' = s \o <<Subscribe(ts)>>,
         NEW t, Has(ts, t)
  PROVE  Coming(t)'
<1> DEFINE pk == Subscribe(ts)
<1>1. pk \in Packet /\ Named(pk, "subscribe", t)
  BY MakesPacket, NamedIs DEF Has
<1> HIDE DEF pk
<1>2. <<pk>> \in Seq(Packet) /\ DOMAIN <<pk>> = {1} /\ <<pk>>[1] = pk
  BY <1>1
<1>3. Len(s) + 1 \in DOMAIN out' /\ out'[Len(s) + 1] = pk
  BY <1>2, ConcatAt DEF pk
<1> QED
  BY <1>1, <1>3 DEF Coming

LEMMA AddNodeAsks ==
  ASSUME LinkType, NEW packets \in ModulePackets, AddNode(packets), link = "up", NEW t \in NodeTopics
  PROVE  WillShow(t)'
<1>1. out \o packets \in Seq(Packet)
  BY ModulePacketsAre, ConcatAt DEF LinkType
<1>2. out' = (out \o packets) \o <<Subscribe(NodeTopicList)>>
  BY DEF AddNode
<1>3. Has(NodeTopicList, t)
  BY ListFacts DEF Has
<1>4. Coming(t)'
  BY <1>1, <1>2, <1>3, SubscribesAll, SubscribeAsks
<1> QED
  BY <1>4 DEF WillShow

LEMMA ReceiveShow ==
  ASSUME TypeInv, ShowInv, Receive
  PROVE  ShowInv'
<1> DEFINE m == Head(coming)
<1>1. /\ link = "up" /\ coming # <<>> /\ coming' = Tail(coming) /\ m \in Message
      /\ UNCHANGED <<server, link, subscribed>>
      /\ \/ m.topic = Description /\ HearModule(m.value # Empty)
         \/ shown /\ m.topic \in NodeTopics /\ HearNode(m)
         \/ ~shown /\ UNCHANGED <<client, out>>
      /\ PageType /\ LinkType /\ coming \in Seq(Message)
  BY ReceiveIs DEF TypeInv, ServerType
<1>2. SUFFICES ASSUME shown', present', NEW t \in NodeTopics, Retained(t)' # Empty
               PROVE  WillShow(t)'
  BY DEF ShowInv
<1>3. present /\ Retained(t)' = Retained(t)
  BY <1>1, <1>2, RetainedSame DEF server
<1>4. CASE shown /\ m.topic \in NodeTopics /\ HearNode(m)
  <2>1. UNCHANGED server
    BY <1>1
  <2> QED
    BY <1>1, <1>2, <1>3, <1>4, <2>1, HearNodeShow
<1>5. CASE m.topic = Description /\ HearModule(m.value # Empty)
  <2>1. \/ UNCHANGED <<client, out>>
        \/ \E packets \in ModulePackets :
             (shown /\ RemoveNode(packets)) \/ (~shown /\ AddNode(packets))
    BY <1>1, <1>5, HearModuleType
  <2>2. CASE UNCHANGED <<client, out>>
    <3>1. shown /\ WillShow(t)
      BY <1>1, <1>2, <1>3, <2>2 DEF ShowInv, client
    <3>2. (Coming(t) => Coming(t)') /\ (Shows(t) => Shows(t)')
      BY <1>1, <2>2 DEF Coming, Shows, client, server
    <3>3. /\ Silent(coming, t) => Silent(coming', t)
          /\ Tells(coming, t, Retained(t)) => Tells(coming', t, Retained(t))
      <4>1. m.topic # t
        BY <1>5, NodeTopicIs
      <4> QED
        BY <1>1, <4>1, SilentTail, TellsTail
    <3> QED
      BY <1>3, <3>1, <3>2, <3>3, WillShowSame DEF WillShow
  <2>3. ASSUME NEW packets \in ModulePackets, AddNode(packets) PROVE WillShow(t)'
    BY <1>1, <2>3, AddNodeAsks
  <2>4. ASSUME NEW packets \in ModulePackets, RemoveNode(packets) PROVE FALSE
    BY <1>2, <2>4 DEF RemoveNode
  <2> QED
    BY <2>1, <2>2, <2>3, <2>4
<1>6. CASE ~shown /\ UNCHANGED <<client, out>>
  BY <1>2, <1>6 DEF client
<1> QED
  BY <1>1, <1>4, <1>5, <1>6

(* What is typed is marked as changed, what is taken is sent. *)
LEMMA InputShow ==
  ASSUME TypeInv, ShowInv, NEW q \in ParamSet, Input(q)
  PROVE  ShowInv'
<1>1. /\ UNCHANGED <<shown, subscriptions, out, server, link, coming, subscribed>>
      /\ Kind[q] = "double" /\ q \notin Selects /\ WidgetOK(q, widget[q])
      /\ widget \in [ParamSet -> Widget]
  BY InputType, Constants DEF TypeInv, PageType
<1>2. PICK x \in Typed[q] : widget' = [widget EXCEPT ![q] = Entered(widget[q], x)]
  BY InputType DEF TypeInv
<1>3. /\ Entered(widget[q], x).value = widget[q].value /\ Entered(widget[q], x).text = x
      /\ widget[q].value # NaN => (Entered(widget[q], x).changed <=> x # widget[q].value)
  BY <1>1, EnteredOK
<1>4. SUFFICES ASSUME link = "up", shown, present, NEW t \in NodeTopics, Retained(t) # Empty
               PROVE  WillShow(t)'
  BY <1>1, RetainedSame DEF ShowInv, server
<1>5. WillShow(t) /\ Retained(t)' = Retained(t)
  BY <1>1, <1>4, RetainedSame DEF ShowInv
<1>6. ASSUME Shows(t) PROVE Shows(t)'
  <2>1. CASE t[2] # q
    BY <1>1, <1>2, <1>6, <2>1 DEF Shows, server
  <2>2. CASE t[2] = q
    <3>1. Len(t) # 3
      BY <1>1, <2>2, NodeTopicIs
    <3>2. widget[q].value = value[q]
      BY <1>6, <2>2, <3>1 DEF Shows
    <3>3. value[q] # NaN
      <4>1. Retained(t) = value[q]
        BY <1>4, <2>2, <3>1, RetainedIs DEF SaidOf
      <4>2. value[q] \in Right(q)
        BY <1>4, <4>1 DEF TypeInv, ServerType, ParameterOK
      <4> QED
        BY <1>1, <4>2, Constants
    <3>4. widget'[q] = Entered(widget[q], x) /\ value' = value
      BY <1>1, <1>2 DEF server
    <3>5. widget'[q].value = value[q] /\ (widget'[q].changed <=> widget'[q].text # value[q])
      BY <1>3, <3>2, <3>3, <3>4
    <3> QED
      BY <2>2, <3>1, <3>4, <3>5 DEF Shows
  <2> QED
    BY <2>1, <2>2
<1>7. Coming(t) => Coming(t)'
  BY <1>1 DEF Coming
<1> QED
  BY <1>1, <1>5, <1>6, <1>7, WillShowSame DEF WillShow

LEMMA PublishShow ==
  ASSUME TypeInv, ShowInv, NEW p \in ParamSet, Change(p) \/ Arrow(p) \/ Check(p) \/ Choose(p)
  PROVE  ShowInv'
<1>1. /\ UNCHANGED <<server, link, coming, subscribed>> /\ Kind[p] # "statistic"
      /\ PageType /\ LinkType /\ widget \in [ParamSet -> Widget]
  BY Publishes DEF TypeInv, PageType
<1>2. PICK v : /\ Kind[p] = "double" => v \in Int \cup {NaN}
               /\ Kind[p] = "bool" => v \in {0, 1}
               /\ p \in Selects => v \in widget[p].options
               /\ Publish(p, v)
  BY <1>1, Publishes
<1> DEFINE w == Committed(p, widget[p], v)
<1>3. /\ widget' = [widget EXCEPT ![p] = w] /\ w.options = widget[p].options
      /\ \E x : Set(p, x) \in Packet /\ out' = out \o <<Set(p, x)>>
      /\ UNCHANGED <<shown, subscriptions>>
  BY <1>1, <1>2, PublishType
<1> HIDE DEF w
<1>4. PICK x : Set(p, x) \in Packet /\ out' = out \o <<Set(p, x)>>
  BY <1>3
<1>5. <<Set(p, x)>> \in Seq(Packet) /\ DOMAIN <<Set(p, x)>> = {1} /\ <<Set(p, x)>>[1] = Set(p, x)
  BY <1>4
<1>6. SUFFICES ASSUME link = "up", shown, present, NEW t \in NodeTopics, Retained(t) # Empty
               PROVE  WillShow(t)'
  BY <1>1, <1>3, RetainedSame DEF ShowInv, server
<1>7. WillShow(t) /\ Retained(t)' = Retained(t)
  BY <1>1, <1>6, RetainedSame DEF ShowInv
<1>8. Coming(t) => Coming(t)'
  BY <1>1, <1>4, <1>5, ComingConcat
<1>9. CASE t = ValueTopic(p)
  <2>1. Len(out) + 1 \in DOMAIN out' /\ out'[Len(out) + 1] = Set(p, x)
    BY <1>1, <1>4, <1>5, ConcatAt DEF LinkType
  <2>2. Coming(t)'
    BY <1>9, <2>1, NamedIs DEF Coming
  <2> QED
    BY <2>2 DEF WillShow
<1>10. CASE t # ValueTopic(p)
  <2>1. Shows(t) => Shows(t)'
    <3>1. CASE t[2] # p
      BY <1>1, <1>3, <3>1 DEF Shows, server
    <3>2. CASE t[2] = p
      <4>1. Len(t) = 3
        BY <1>10, <3>2, NodeTopicIs
      <4>2. widget'[p].options = widget[p].options
        BY <1>1, <1>3
      <4> QED
        BY <1>1, <3>2, <4>1, <4>2 DEF Shows, server
    <3> QED
      BY <3>1, <3>2
  <2> QED
    BY <1>1, <1>7, <1>8, <2>1, WillShowSame DEF WillShow
<1> QED
  BY <1>9, <1>10

LEMMA ShowKept == TypeInv /\ SubInv /\ ShowInv /\ [Next]_vars => ShowInv'
<1> SUFFICES ASSUME TypeInv, SubInv, ShowInv, [Next]_vars
             PROVE  ShowInv'
  OBVIOUS
<1>0. PageType /\ LinkType /\ ServerType
  BY DEF TypeInv
<1>1. ASSUME NEW p \in ParamSet, Input(p) PROVE ShowInv'
  BY <1>1, InputShow
<1>2. ASSUME NEW p \in ParamSet, Change(p) \/ Arrow(p) \/ Check(p) \/ Choose(p) PROVE ShowInv'
  BY <1>2, PublishShow
<1>3. CASE CreateOrDelete
  <2>1. ASSUME NEW packets \in ModulePackets, AddNode(packets) PROVE ShowInv'
    <3>1. UNCHANGED link
      BY <1>3, CreateOrDeleteIs
    <3> QED
      BY <1>0, <2>1, <3>1, AddNodeAsks DEF ShowInv
  <2>2. ASSUME NEW packets \in ModulePackets, RemoveNode(packets) PROVE ShowInv'
    BY <2>2 DEF RemoveNode, ShowInv
  <2> QED
    BY <1>3, <2>1, <2>2, CreateOrDeleteIs
<1>4. CASE Arrive
  BY <1>4, ArriveShow
<1>5. CASE Others
  BY <1>5, OthersShow
<1>6. CASE Receive
  BY <1>6, ReceiveShow
<1>7. CASE Connect
  <2>1. SUFFICES ASSUME shown', NEW t \in NodeTopics
                 PROVE  WillShow(t)'
    BY DEF ShowInv
  <2>2. UNCHANGED client
    BY <1>7, ConnectIs
  <2>3. PICK ts \in Seq(Topics) :
          out' = out \o <<Subscribe(ts)>> /\ (shown /\ t \in NodeTopics => Has(ts, t))
    BY <1>7, ConnectIs
  <2>4. Has(ts, t)
    BY <2>1, <2>2, <2>3 DEF client
  <2>5. Coming(t)'
    BY <1>0, <2>3, <2>4, SubscribeAsks DEF LinkType
  <2> QED
    BY <2>5 DEF WillShow
<1>8. CASE Lose
  BY <1>0, <1>8, LoseIs DEF ShowInv
<1>9. CASE UNCHANGED vars
  BY <1>9 DEF vars, network, client, server, ShowInv, WillShow, Coming, Shows, Retained
<1> QED
  BY <1>1, <1>2, <1>3, <1>4, <1>5, <1>6, <1>7, <1>8, <1>9 DEF Next

LEMMA InitShow == Init => ShowInv
BY DEF Init, ShowInv

LEMMA ShowSound == TypeInv /\ ShowInv => ValuesShown
<1> SUFFICES ASSUME TypeInv, ShowInv, Settled, shown, present, NEW p \in ParamSet, value[p] # Empty
             PROVE  /\ widget[p].value = value[p]
                    /\ IF p \in Selects
                         THEN /\ widget[p].options = options[p]
                              /\ widget[p].text = Choice(value[p], options[p])
                         ELSE widget[p].changed <=> widget[p].text # value[p]
  BY DEF ValuesShown, Choice
<1>1. link = "up" /\ DOMAIN out = {} /\ DOMAIN coming = {}
  BY DEF Settled
<1>2. \A t \in NodeTopics : Retained(t) # Empty => Shows(t)
  BY <1>1 DEF ShowInv, WillShow, Coming, Tells
<1>3. /\ Shows(ValueTopic(p))
      /\ widget[p].value = value[p]
      /\ p \notin Selects => (widget[p].changed <=> widget[p].text # value[p])
  <2>1. ValueTopic(p) \in NodeTopics /\ Len(ValueTopic(p)) = 2 /\ ValueTopic(p)[2] = p
    BY TopicFacts DEF NodeTopics
  <2>2. Retained(ValueTopic(p)) = value[p]
    BY <2>1, RetainedIs DEF SaidOf
  <2>3. Shows(ValueTopic(p))
    BY <1>2, <2>1, <2>2
  <2> QED
    BY <2>1, <2>3 DEF Shows
<1>4. ASSUME p \in Selects
      PROVE  widget[p].options = options[p] /\ widget[p].text = Choice(value[p], options[p])
  <2>1. OptionsTopic(p) \in NodeTopics /\ Len(OptionsTopic(p)) = 3 /\ OptionsTopic(p)[2] = p
    BY <1>4, TopicFacts DEF NodeTopics
  <2>2. Retained(OptionsTopic(p)) = options[p]
    BY <2>1, RetainedIs DEF SaidOf
  <2>3. options[p] \in Choices
    BY <1>4 DEF TypeInv, ServerType
  <2>4. widget[p].options = options[p]
    BY <1>2, <2>1, <2>2, <2>3, Constants DEF Shows
  <2>5. widget[p].text = Choice(widget[p].value, widget[p].options)
    BY <1>4 DEF TypeInv, PageType, WidgetOK
  <2> QED
    BY <1>3, <2>4, <2>5
<1> QED
  BY <1>3, <1>4

(* When nothing is on its way every input holds the server's value, and shows it
   unless something else was typed, which it then marks; a list shows it if it is
   one of the options the module has now, and nothing if not (ValuesShown,
   node_editor.js:814-882, 1029-1046, index.html:142).  Whatever was typed, chosen,
   set by others, clamped or refused, in whichever order values and options came,
   and wherever the connection was lost. *)
THEOREM InputsShowValues == Spec => []ValuesShown
<1>1. Init => PageInv
  BY InitTypes, InitSub, InitShow DEF PageInv
<1>2. PageInv /\ [Next]_vars => PageInv'
  BY TypesKept, SubKept, ShowKept DEF PageInv
<1>3. PageInv => ValuesShown
  BY ShowSound DEF PageInv
<1> QED
  BY <1>1, <1>2, <1>3, PTL DEF Spec

=============================================================================
