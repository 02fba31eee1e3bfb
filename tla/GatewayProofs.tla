----------------------------- MODULE GatewayProofs -----------------------------
(***************************************************************************)
(* What the gateway's queue keeps, for a queue of any capacity and any     *)
(* number of commands and messages.  A step takes a message out of the     *)
(* gateway's hands only by giving it to the server, by refusing it for a   *)
(* full queue, or, for a state, by making a newer one of its kind.         *)
(***************************************************************************)
EXTENDS Gateway, FiniteSetTheorems, SequenceTheorems, TLAPS

(* The increasing enumeration of a finite set of positions exists, and     *)
(* passes through all of them: the n-th is the one with n positions up to  *)
(* it.                                                                     *)
LEMMA EnumerationExists ==
    ASSUME NEW n \in Nat, NEW S \in SUBSET (1 .. n)
    PROVE  /\ Cardinality(S) \in 0 .. n
           /\ \E f \in [1 .. Cardinality(S) -> S] :
                 \A i, j \in 1 .. Cardinality(S) : i < j => f[i] < f[j]
<1> DEFINE K == Cardinality(S)
           UpTo(x) == {y \in S : y =< x}
           rank == [x \in S |-> Cardinality(UpTo(x))]
<1>0. \A x \in S : x \in Int
  OBVIOUS
<1>1. IsFiniteSet(S) /\ K \in 0 .. n
  <2>1. IsFiniteSet(1 .. n) /\ Cardinality(1 .. n) = n
    BY FS_Interval
  <2>2. IsFiniteSet(S) /\ Cardinality(S) =< n
    BY <2>1, FS_Subset
  <2>3. Cardinality(S) \in Nat
    BY <2>2, FS_CardinalityType
  <2> QED BY <2>2, <2>3
<1>2. ASSUME NEW x \in S
      PROVE  IsFiniteSet(UpTo(x)) /\ Cardinality(UpTo(x)) \in 1 .. K
  <2>1. UpTo(x) \in SUBSET S /\ x \in UpTo(x)
    BY <1>0
  <2>2. IsFiniteSet(UpTo(x)) /\ Cardinality(UpTo(x)) =< K
    BY <1>1, <2>1, FS_Subset
  <2>3. Cardinality(UpTo(x)) \in Nat \ {0}
    BY <2>1, <2>2, FS_CardinalityType, FS_EmptySet
  <2> QED BY <1>1, <2>2, <2>3
<1>3. ASSUME NEW x \in S, NEW y \in S, x < y
      PROVE  rank[x] < rank[y]
  <2>0. x \in Int /\ y \in Int
    BY <1>0
  <2>1. UpTo(x) \in SUBSET UpTo(y) /\ y \in UpTo(y) \ UpTo(x)
    <3>1. ASSUME NEW z \in S, z =< x PROVE z =< y
      BY <1>0, <1>3, <2>0, <3>1
    <3>2. ~(y =< x) /\ y =< y
      BY <1>3, <2>0
    <3> QED BY <3>1, <3>2
  <2>2. Cardinality(UpTo(x)) =< Cardinality(UpTo(y))
        /\ Cardinality(UpTo(x)) # Cardinality(UpTo(y))
    BY <1>2, <2>1, FS_Subset
  <2> QED BY <1>2, <2>2
<1>4. rank \in [S -> 1 .. K]
  BY <1>2
<1> HIDE DEF rank
<1>5. rank \in Surjection(S, 1 .. K)
  <2>1. \A x, y \in S : rank[x] = rank[y] => x = y
    BY <1>0, <1>3, <1>4
  <2>2. rank \in Injection(S, 1 .. K)
    BY <1>4, <2>1 DEF Injection, IsInjective
  <2>3. IsFiniteSet(1 .. K) /\ Cardinality(1 .. K) = K
    BY <1>1, FS_Interval
  <2> QED BY <2>2, <2>3, FS_Injection
<1> DEFINE f == [i \in 1 .. K |-> CHOOSE x \in S : rank[x] = i]
<1>6. f \in [1 .. K -> S] /\ \A i \in 1 .. K : rank[f[i]] = i
  BY <1>5 DEF Surjection
<1> HIDE DEF f
<1>7. ASSUME NEW i \in 1 .. K, NEW j \in 1 .. K, i < j
      PROVE  f[i] < f[j]
  <2>1. f[i] \in S /\ f[j] \in S
    BY <1>6
  <2>2. f[i] \in Int /\ f[j] \in Int
    BY <1>0, <2>1
  <2>3. rank[f[i]] = i /\ rank[f[j]] = j
    BY <1>6
  <2>4. f[j] < f[i] => j < i
    BY <1>3, <2>1, <2>3
  <2>5. i \in Int /\ j \in Int
    BY <1>1
  <2> QED BY <1>7, <2>2, <2>3, <2>4, <2>5
<1> QED BY <1>1, <1>6, <1>7

LEMMA InOrderFacts ==
    ASSUME NEW n \in Nat, NEW S \in SUBSET (1 .. n)
    PROVE  /\ Cardinality(S) \in 0 .. n
           /\ InOrder(S) \in [1 .. Cardinality(S) -> S]
           /\ \A x \in S : \E i \in 1 .. Cardinality(S) : InOrder(S)[i] = x
<1> DEFINE K == Cardinality(S)
           f == InOrder(S)
<1>1. K \in 0 .. n
  BY EnumerationExists
<1>2. f \in [1 .. K -> S] /\ \A i, j \in 1 .. K : i < j => f[i] < f[j]
  BY EnumerationExists DEF InOrder
<1> HIDE DEF f
<1>3. f \in Injection(1 .. K, S)
  <2>1. \A i \in 1 .. K : f[i] \in Int
    <3>1. S \subseteq Int
      OBVIOUS
    <3> QED BY <1>2, <3>1
  <2>2. \A i, j \in 1 .. K : f[i] = f[j] => i = j
    BY <1>1, <1>2, <2>1
  <2> QED BY <1>2, <2>2 DEF Injection, IsInjective
<1>4. IsFiniteSet(S) /\ Cardinality(1 .. K) = K
  <2>1. IsFiniteSet(1 .. n)
    BY FS_Interval
  <2>2. IsFiniteSet(S)
    BY <2>1, FS_Subset
  <2> QED BY <1>1, <2>2, FS_Interval
<1>5. f \in Surjection(1 .. K, S)
  BY <1>3, <1>4, FS_Injection
<1> QED BY <1>1, <1>2, <1>5 DEF Surjection, f

----------------------------------------------------------------------------
(* The queue *)

Elements(q) == {q[i] : i \in 1 .. Len(q)}

LEMMA KeptFacts ==
    ASSUME NEW T, NEW q \in Seq(T), NEW S \in SUBSET (1 .. Len(q))
    PROVE  /\ Kept(q, S) \in Seq(T) /\ Len(Kept(q, S)) =< Len(q)
           /\ Elements(Kept(q, S)) = {q[i] : i \in S}
<1> DEFINE K == Cardinality(S)
<1>1. Len(q) \in Nat
  OBVIOUS
<1>2. /\ K \in 0 .. Len(q) /\ InOrder(S) \in [1 .. K -> S]
      /\ \A x \in S : \E i \in 1 .. K : InOrder(S)[i] = x
  BY <1>1, InOrderFacts
<1>3. Kept(q, S) \in [1 .. K -> T]
  <2>1. \A i \in S : q[i] \in T
    OBVIOUS
  <2> QED BY <1>2, <2>1 DEF Kept
<1>4. Kept(q, S) \in Seq(T) /\ Len(Kept(q, S)) = K
  BY <1>2, <1>3
<1>5. Elements(Kept(q, S)) = {Kept(q, S)[n] : n \in 1 .. K}
  BY <1>4 DEF Elements
<1>6. \A n \in 1 .. K : Kept(q, S)[n] = q[InOrder(S)[n]]
  BY DEF Kept
<1>7. ASSUME NEW x
      PROVE  x \in {Kept(q, S)[n] : n \in 1 .. K} <=> x \in {q[i] : i \in S}
  <2>1. ASSUME NEW n \in 1 .. K, x = Kept(q, S)[n] PROVE \E i \in S : x = q[i]
    BY <1>2, <1>6, <2>1
  <2>2. ASSUME NEW i \in S, x = q[i] PROVE \E n \in 1 .. K : x = Kept(q, S)[n]
    BY <1>2, <1>6, <2>2
  <2> QED BY <2>1, <2>2
<1>8. Elements(Kept(q, S)) = {q[i] : i \in S}
  BY <1>5, <1>7
<1> QED BY <1>1, <1>2, <1>4, <1>8

IsBox(b) ==
    /\ b = [queue |-> b.queue, dropped |-> b.dropped]
    /\ b.queue \in Seq(Message) /\ Len(b.queue) =< MaxQueue
    /\ b.dropped \subseteq Message

(* What a message put on the queue does to it: the message is queued or    *)
(* refused, nothing that was refused comes back, and only a state evicts,  *)
(* and only what is of its kind.                                           *)
Puts(b, m, c) ==
    /\ IsBox(c)
    /\ b.dropped \subseteq c.dropped
    /\ m \in Elements(c.queue) \cup c.dropped
    /\ Elements(c.queue) \subseteq Elements(b.queue) \cup {m}

LEMMA AppendFacts ==
    ASSUME NEW q \in Seq(Message), NEW m \in Message
    PROVE  /\ Append(q, m) \in Seq(Message) /\ Len(Append(q, m)) = Len(q) + 1
           /\ Elements(Append(q, m)) = Elements(q) \cup {m}
<1>1. /\ Append(q, m) \in Seq(Message) /\ Len(Append(q, m)) = Len(q) + 1
      /\ Len(q) \in Nat /\ Append(q, m)[Len(q) + 1] = m
      /\ \A i \in 1 .. Len(q) : Append(q, m)[i] = q[i]
  BY AppendProperties, LenProperties
<1>2. \A i \in 1 .. (Len(q) + 1) : i \in 1 .. Len(q) \/ i = Len(q) + 1
  BY <1>1
<1>3. 1 .. Len(q) \subseteq 1 .. (Len(q) + 1) /\ Len(q) + 1 \in 1 .. (Len(q) + 1)
  BY <1>1
<1> HIDE DEF Elements
<1>4. ASSUME NEW x
      PROVE  x \in Elements(Append(q, m)) <=> x \in Elements(q) \cup {m}
  BY <1>1, <1>2, <1>3 DEF Elements
<1> QED BY <1>1, <1>4

LEMMA PutNowaitFacts ==
    ASSUME NEW b, IsBox(b), NEW m \in Message, NEW c, c = PutNowait(b, m)
    PROVE  Puts(b, m, c) /\ Elements(b.queue) \subseteq Elements(c.queue)
<1>1. Len(b.queue) \in Nat
  BY DEF IsBox
<1>2. CASE Len(b.queue) < MaxQueue
  <2>1. c = [queue |-> Append(b.queue, m), dropped |-> b.dropped]
    BY <1>2 DEF IsBox, PutNowait
  <2> QED BY <1>1, <1>2, <2>1, AppendFacts, BoundsAssumption DEF IsBox, Puts
<1>3. CASE ~(Len(b.queue) < MaxQueue)
  <2>1. c = [queue |-> b.queue, dropped |-> b.dropped \cup {m}]
    BY <1>3 DEF IsBox, PutNowait
  <2> QED BY <2>1 DEF IsBox, Puts
<1> QED BY <1>2, <1>3

LEMMA RetainedFacts ==
    ASSUME NEW q \in Seq(Message), NEW m \in Message
    PROVE  /\ Retained(q, m) \in Seq(Message) /\ Len(Retained(q, m)) =< Len(q)
           /\ Elements(Retained(q, m)) \subseteq Elements(q)
           /\ \A x \in Elements(q) :
                 x \in Elements(Retained(q, m)) \/ (m[1] \in StateKind /\ x[1] = m[1])
<1>1. CASE m[1] \notin StateKind
  BY <1>1 DEF Retained
<1>2. CASE m[1] \in StateKind
  <2> DEFINE S == {i \in 1 .. Len(q) : q[i][1] # m[1]}
  <2>1. Retained(q, m) = Kept(q, S) /\ S \in SUBSET (1 .. Len(q))
    BY <1>2 DEF Retained
  <2>2. /\ Kept(q, S) \in Seq(Message) /\ Len(Kept(q, S)) =< Len(q)
        /\ Elements(Kept(q, S)) = {q[i] : i \in S}
    BY <2>1, KeptFacts
  <2>3. \A x \in Elements(Retained(q, m)) : x \in Elements(q)
    BY <2>1, <2>2 DEF Elements
  <2>4. ASSUME NEW x \in Elements(q), x[1] # m[1] PROVE x \in Elements(Retained(q, m))
    <3>1. PICK i \in 1 .. Len(q) : x = q[i]
      BY DEF Elements
    <3>2. i \in S
      BY <2>4, <3>1
    <3> QED BY <2>1, <2>2, <3>1, <3>2
  <2> QED BY <1>2, <2>1, <2>2, <2>3, <2>4
<1> QED BY <1>1, <1>2

LEMMA EnqueueFacts ==
    ASSUME NEW b, IsBox(b), NEW m \in Message, NEW c, c = EnqueueNowait(b, m)
    PROVE  /\ Puts(b, m, c)
           /\ \A x \in Elements(b.queue) :
                 x \in Elements(c.queue) \/ (m[1] \in StateKind /\ x[1] = m[1])
<1> DEFINE r == [b EXCEPT !.queue = Retained(@, m)]
<1>1. r = [queue |-> Retained(b.queue, m), dropped |-> b.dropped]
  BY DEF IsBox
<1>2. b.queue \in Seq(Message) /\ Len(b.queue) \in Nat /\ MaxQueue \in Nat
  BY BoundsAssumption DEF IsBox
<1>3. /\ Retained(b.queue, m) \in Seq(Message) /\ Len(Retained(b.queue, m)) =< Len(b.queue)
      /\ Elements(Retained(b.queue, m)) \subseteq Elements(b.queue)
      /\ \A x \in Elements(b.queue) :
            \/ x \in Elements(Retained(b.queue, m))
            \/ (m[1] \in StateKind /\ x[1] = m[1])
  BY <1>2, RetainedFacts
<1>4. Len(Retained(b.queue, m)) \in Nat
  BY <1>3
<1>5. r.queue = Retained(b.queue, m) /\ r.dropped = b.dropped
  BY <1>1
<1>6. IsBox(r)
  BY <1>1, <1>2, <1>3, <1>4, <1>5 DEF IsBox
<1>7. c = PutNowait(r, m)
  BY DEF EnqueueNowait
<1> HIDE DEF r
<1>8. Puts(r, m, c) /\ Elements(r.queue) \subseteq Elements(c.queue)
  BY <1>6, <1>7, PutNowaitFacts
<1> QED BY <1>3, <1>5, <1>8 DEF Puts

----------------------------------------------------------------------------
(* The queue and the message in hand, step by step *)

\* What TypeOK says of the gateway's messages.
MessagesOK ==
    /\ outbound \in Seq(Message) /\ Len(outbound) =< MaxQueue
    /\ inflight \in Message \cup {None}
    /\ dropped \subseteq Message

LEMMA MessageFacts ==
    /\ \A k \in StateKind, n \in 1 .. MaxEmissions : <<k, n>> \in Message
    /\ \A k \in ResultKind, c \in Command : <<k, c>> \in Message
    /\ \A m \in Message : \/ m[1] \in StateKind /\ m[2] \in 1 .. MaxEmissions
                          \/ m[1] \in ResultKind
    /\ StateKind \cap ResultKind = {}
BY DEF Message, StateKind, ResultKind

LEMMA HeldFacts ==
    /\ InQueue = Elements(outbound) /\ InQueue' = Elements(outbound')
    /\ Held = Elements(outbound) \cup ({inflight} \ {None})
    /\ Held' = Elements(outbound') \cup ({inflight'} \ {None})
BY DEF InQueue, Held, Elements

LEMMA BoxFacts ==
    ASSUME MessagesOK
    PROVE  /\ IsBox(Box) /\ Box.queue = outbound /\ Box.dropped = dropped
           /\ \A b : IsBox(b) /\ Becomes(b) =>
                 /\ outbound' \in Seq(Message) /\ Len(outbound') =< MaxQueue
                 /\ dropped' \subseteq Message
BY DEF MessagesOK, IsBox, Box, Becomes

LEMMA PutBackFacts ==
    ASSUME MessagesOK, PutBack
    PROVE  /\ MessagesOK' /\ emitted' = emitted /\ inflight' = None
           /\ dropped \subseteq dropped'
           /\ Held \subseteq Held' \cup dropped'
           /\ Held' \subseteq Held
           /\ InQueue \subseteq InQueue'
<1>1. CASE inflight = None
  BY <1>1, HeldFacts DEF MessagesOK, PutBack, queueVars
<1>2. CASE inflight # None
  <2> DEFINE c == PutNowait(Box, inflight)
  <2>1. Becomes(c) /\ emitted' = emitted /\ inflight' = None
    BY <1>2 DEF PutBack
  <2>2. IsBox(Box) /\ Box.queue = outbound /\ Box.dropped = dropped
    BY BoxFacts
  <2>3. Puts(Box, inflight, c) /\ Elements(Box.queue) \subseteq Elements(c.queue)
    BY <1>2, <2>2, PutNowaitFacts DEF MessagesOK
  <2> HIDE DEF c
  <2>4. outbound' = c.queue /\ dropped' = c.dropped
    BY <2>1 DEF Becomes
  <2>5. MessagesOK'
    BY <2>1, <2>3, <2>4 DEF MessagesOK, Puts, IsBox
  <2> QED BY <2>1, <2>2, <2>3, <2>4, <2>5, <1>2, HeldFacts DEF Puts
<1> QED BY <1>1, <1>2

LEMMA EnqueueResultFacts ==
    ASSUME MessagesOK, NEW m \in Message, m[1] \in ResultKind, Enqueue(m),
           inflight' = inflight
    PROVE  /\ MessagesOK' /\ emitted' = emitted
           /\ dropped \subseteq dropped'
           /\ m \in Held' \cup dropped'
           /\ Held \subseteq Held'
           /\ Held' \subseteq Held \cup {m}
           /\ InQueue \subseteq InQueue'
<1> DEFINE c == EnqueueNowait(Box, m)
<1>1. Becomes(c) /\ emitted' = emitted
  BY DEF Enqueue
<1>2. IsBox(Box) /\ Box.queue = outbound /\ Box.dropped = dropped
  BY BoxFacts
<1>3. /\ Puts(Box, m, c)
      /\ \A x \in Elements(Box.queue) :
            x \in Elements(c.queue) \/ (m[1] \in StateKind /\ x[1] = m[1])
  BY <1>2, EnqueueFacts
<1> HIDE DEF c
<1>4. outbound' = c.queue /\ dropped' = c.dropped
  BY <1>1 DEF Becomes
<1>5. MessagesOK'
  BY <1>3, <1>4 DEF MessagesOK, Puts, IsBox
<1>6. m[1] \notin StateKind
  BY MessageFacts
<1> QED BY <1>1, <1>2, <1>3, <1>4, <1>5, <1>6, HeldFacts DEF Puts

LEMMA EmitFacts ==
    ASSUME MessagesOK, emitted \in [StateKind -> 0 .. MaxEmissions],
           NEW kinds \in SUBSET StateKind, "device_state" \in kinds, Emit(kinds)
    PROVE  /\ MessagesOK' /\ emitted' \in [StateKind -> 0 .. MaxEmissions]
           /\ dropped \subseteq dropped'
           /\ \A x \in Held : x \in Held' \/ x[1] \in kinds
           /\ \A k \in kinds : emitted'[k] > emitted[k]
           /\ \A x \in Held' : x \in Held \/ x[1] \in StateKind
           /\ \A x \in InQueue : x \in InQueue' \/ x[1] \in StateKind
<1> DEFINE put(box, k) == IF k \in kinds
                            THEN EnqueueNowait(box, <<k, emitted[k] + 1>>)
                            ELSE box
           b == put(Box, "device_state")
           c == put(b, "sensor_reading")
<1>1. /\ \A k \in kinds : emitted[k] < MaxEmissions
      /\ Becomes(c) /\ inflight' = inflight
      /\ emitted' = [k \in StateKind |->
                        emitted[k] + IF k \in kinds THEN 1 ELSE 0]
  BY DEF Emit
<1>2. MaxEmissions \in Nat
  BY BoundsAssumption
<1>3. \A k \in StateKind : emitted[k] \in 0 .. MaxEmissions
  OBVIOUS
<1>4. /\ \A k \in kinds : emitted[k] + 1 \in 1 .. MaxEmissions
      /\ \A k \in kinds : emitted'[k] > emitted[k]
      /\ emitted' \in [StateKind -> 0 .. MaxEmissions]
  BY <1>1, <1>2, <1>3
<1>5. ASSUME NEW x, IsBox(x), NEW k \in StateKind
      PROVE  /\ IsBox(put(x, k)) /\ x.dropped \subseteq put(x, k).dropped
             /\ \A y \in Elements(x.queue) :
                   y \in Elements(put(x, k).queue) \/ (k \in kinds /\ y[1] = k)
             /\ \A y \in Elements(put(x, k).queue) :
                   y \in Elements(x.queue) \/ y[1] \in StateKind
  <2>1. CASE k \notin kinds
    BY <1>5, <2>1
  <2>2. CASE k \in kinds
    <3> DEFINE m == <<k, emitted[k] + 1>>
               d == EnqueueNowait(x, m)
    <3>1. m \in Message /\ m[1] = k
      BY <1>4, <2>2, MessageFacts
    <3> HIDE DEF m
    <3>2. /\ Puts(x, m, d)
          /\ \A y \in Elements(x.queue) :
                y \in Elements(d.queue) \/ (m[1] \in StateKind /\ y[1] = m[1])
      BY <1>5, <3>1, EnqueueFacts
    <3>3. put(x, k) = d
      BY <2>2 DEF m
    <3> HIDE DEF d, put
    <3> QED BY <2>2, <3>1, <3>2, <3>3 DEF Puts
  <2> QED BY <2>1, <2>2
<1>6. IsBox(Box) /\ Box.queue = outbound /\ Box.dropped = dropped
  BY BoxFacts
<1> HIDE DEF put
<1>7. "device_state" \in StateKind /\ "sensor_reading" \in StateKind
  BY DEF StateKind
<1>8. /\ IsBox(b) /\ Box.dropped \subseteq b.dropped
      /\ \A y \in Elements(Box.queue) : y \in Elements(b.queue) \/ y[1] \in kinds
      /\ \A y \in Elements(b.queue) : y \in Elements(Box.queue) \/ y[1] \in StateKind
  BY <1>5, <1>6, <1>7
<1>9. /\ IsBox(c) /\ b.dropped \subseteq c.dropped
      /\ \A y \in Elements(b.queue) : y \in Elements(c.queue) \/ y[1] \in kinds
      /\ \A y \in Elements(c.queue) : y \in Elements(b.queue) \/ y[1] \in StateKind
  BY <1>5, <1>7, <1>8
<1> HIDE DEF b, c
<1>10. outbound' = c.queue /\ dropped' = c.dropped
  BY <1>1 DEF Becomes
<1>11. MessagesOK'
  BY <1>1, <1>9, <1>10 DEF MessagesOK, IsBox
<1> QED BY <1>1, <1>4, <1>6, <1>8, <1>9, <1>10, <1>11, HeldFacts

LEMMA TakeFacts ==
    ASSUME MessagesOK, inflight = None, outbound # <<>>,
           inflight' = Head(outbound), outbound' = Tail(outbound),
           dropped' = dropped
    PROVE  /\ MessagesOK'
           /\ Held' = Held
           /\ \A x \in InQueue : x \in InQueue' \/ x = inflight'
<1>1. outbound \in Seq(Message) /\ Len(outbound) \in Nat /\ Len(outbound) >= 1
  BY EmptySeq, LenProperties DEF MessagesOK
<1>2. /\ Tail(outbound) \in Seq(Message) /\ Len(Tail(outbound)) = Len(outbound) - 1
      /\ \A i \in 1 .. Len(outbound) - 1 : Tail(outbound)[i] = outbound[i + 1]
      /\ Head(outbound) = outbound[1] /\ Head(outbound) \in Message
  BY <1>1, HeadTailProperties
<1>3. MessagesOK'
  BY <1>1, <1>2, BoundsAssumption DEF MessagesOK
<1>4. ASSUME NEW x
      PROVE  x \in Elements(outbound)
                <=> (x \in Elements(Tail(outbound)) \/ x = Head(outbound))
  <2>1. ASSUME NEW i \in 1 .. Len(outbound), x = outbound[i], i # 1
        PROVE  x \in Elements(Tail(outbound))
    <3>1. i - 1 \in 1 .. Len(outbound) - 1 /\ (i - 1) + 1 = i
      BY <1>1, <2>1
    <3>2. x = Tail(outbound)[i - 1]
      BY <1>2, <2>1, <3>1
    <3> QED BY <1>2, <3>1, <3>2 DEF Elements
  <2>2. ASSUME NEW i \in 1 .. Len(outbound) - 1, x = Tail(outbound)[i]
        PROVE  x \in Elements(outbound)
    <3>1. i + 1 \in 1 .. Len(outbound) /\ x = outbound[i + 1]
      BY <1>1, <1>2, <2>2
    <3> QED BY <3>1 DEF Elements
  <2>3. 1 \in 1 .. Len(outbound)
    BY <1>1
  <2> QED BY <1>2, <2>1, <2>2, <2>3 DEF Elements
<1>5. Head(outbound) # None
  BY <1>2, NoneAssumption
<1> QED BY <1>3, <1>4, <1>5, HeldFacts

LEMMA ArriveFacts ==
    ASSUME inflight \in Message, Arrive,
           shown \in [StateKind -> 0 .. MaxEmissions], sent \subseteq Message
    PROVE  /\ shown' \in [StateKind -> 0 .. MaxEmissions] /\ sent' \subseteq Message
           /\ sent \subseteq sent' /\ sent' \subseteq sent \cup {inflight}
           /\ IF inflight[1] \in StateKind THEN shown'[inflight[1]] = inflight[2]
                                           ELSE inflight \in sent'
<1>1. CASE inflight[1] \in StateKind
  <2>1. inflight[2] \in 0 .. MaxEmissions
    <3>1. inflight[2] \in 1 .. MaxEmissions
      BY <1>1, MessageFacts
    <3> QED BY <3>1, BoundsAssumption
  <2>2. shown' = [shown EXCEPT ![inflight[1]] = inflight[2]] /\ sent' = sent
    BY <1>1 DEF Arrive
  <2> QED BY <1>1, <2>1, <2>2
<1>2. CASE inflight[1] \notin StateKind
  BY <1>2 DEF Arrive
<1> QED BY <1>1, <1>2

----------------------------------------------------------------------------
(* Every step *)

\* Where a step leaves what the gateway held, and what is new after it.
Flow ==
    /\ sent \subseteq sent' /\ dropped \subseteq dropped'
    /\ \A m \in Held :
          \/ m \in Held' \cup dropped'
          \/ IF m[1] \in StateKind
               THEN shown'[m[1]] = m[2] \/ emitted'[m[1]] > emitted[m[1]]
               ELSE m \in sent'
    /\ \A m \in InQueue : m[1] \in ResultKind => m \in InQueue' \/ m = inflight'

\* A refusal is new only where the receiver refuses the command.
Refuses ==
    \A c \in Command :
        <<"refused", c>> \in (Held \cup sent)' \ (Held \cup sent) =>
            command[c] = "refusing" /\ command'[c] = "answered"

LEMMA TypeMessages == TypeOK => MessagesOK
BY DEF TypeOK, MessagesOK

LEMMA QuietFlow ==
    ASSUME TypeOK, UNCHANGED ioVars
    PROVE  MessagesOK' /\ Flow /\ Refuses
<1>1. /\ Elements(outbound') = Elements(outbound) /\ inflight' = inflight
      /\ sent' = sent /\ dropped' = dropped /\ outbound' = outbound
  BY DEF ioVars, queueVars, serverVars
<1>2. MessagesOK'
  BY <1>1, TypeMessages DEF MessagesOK
<1> QED BY <1>1, <1>2, HeldFacts DEF Flow, Refuses

\* What a step changes apart from the messages keeps its type.
RestOK ==
    /\ usable \in BOOLEAN
    /\ emitted \in [StateKind -> 0 .. MaxEmissions]
    /\ session \in {"sleeping", "connecting", "open"}
    /\ ended \subseteq Task
    /\ retryDelay \in 1 .. MaxDelay
    /\ command \in [Command -> Busy \cup {"unsent", "written", "answered",
                                          "abandoned"}]
    /\ {delivered, replied} \subseteq SUBSET Command
    /\ sent \subseteq Message
    /\ shown \in [StateKind -> 0 .. MaxEmissions]

LEMMA TypeParts ==
    /\ TypeOK <=> (MessagesOK /\ RestOK)
    /\ TypeOK' <=> (MessagesOK' /\ RestOK')
BY DEF TypeOK, MessagesOK, RestOK

LEMMA TypeInit == Init => TypeOK
<1> SUFFICES ASSUME Init PROVE TypeOK
  OBVIOUS
<1>1. {MaxQueue, MaxDelay, MaxEmissions} \subseteq Nat \ {0}
  BY BoundsAssumption
<1>2. MessagesOK
  <2>1. outbound = <<>> /\ Len(outbound) = 0 /\ outbound \in Seq(Message)
    BY DEF Init
  <2> QED BY <1>1, <2>1 DEF Init, MessagesOK
<1>3. RestOK
  <2>1. 0 \in 0 .. MaxEmissions /\ 1 \in 1 .. MaxDelay
    BY <1>1
  <2> QED BY <2>1 DEF Init, RestOK
<1> QED BY <1>2, <1>3, TypeParts

LEMMA DoubledFacts == \A d \in 1 .. MaxDelay : Doubled(d) \in 1 .. MaxDelay
BY BoundsAssumption DEF Doubled

LEMMA Step ==
    ASSUME TypeOK, Next
    PROVE  TypeOK' /\ Flow /\ Refuses
<1> USE TypeParts, MessageFacts
<1>1. ASSUME ConnectFails \/ Authenticated \/ Wake \/ ControlConnects \/ ControlDisconnects
      PROVE  TypeOK' /\ Flow /\ Refuses
  <2>1. UNCHANGED ioVars
    BY <1>1 DEF ConnectFails, Authenticated, Wake, ControlConnects, ControlDisconnects
  <2>2. RestOK'
    BY <1>1, DoubledFacts DEF RestOK, ConnectFails, Authenticated, Wake, ControlConnects,
       ControlDisconnects, ioVars, queueVars, serverVars, commandVars, sessionVars
  <2> QED BY <2>1, <2>2, QuietFlow
<1>2. ASSUME NEW t \in {"receiver", "heartbeat"}, TaskEnds(t)
      PROVE  TypeOK' /\ Flow /\ Refuses
  <2>1. UNCHANGED ioVars
    BY <1>2 DEF TaskEnds
  <2>2. RestOK'
    BY <1>2 DEF RestOK, TaskEnds, ioVars, queueVars, serverVars, commandVars, Task
  <2> QED BY <2>1, <2>2, QuietFlow
<1>3. ASSUME NEW c \in Command,
             ReceiveCommand(c) \/ BoardReceives(c) \/ WriteAcknowledged(c) \/ WriteFails(c)
      PROVE  TypeOK' /\ Flow /\ Refuses
  <2>1. UNCHANGED ioVars /\ UNCHANGED <<usable, sessionVars, replied>>
    BY <1>3 DEF ReceiveCommand, BoardReceives, WriteAcknowledged, WriteFails
  <2>2. \/ delivered' = delivered
           /\ \E s \in Busy \cup {"written"} : command' = [command EXCEPT ![c] = s]
        \/ delivered' = delivered \cup {c} /\ command' = command
    BY <1>3 DEF ReceiveCommand, BoardReceives, WriteAcknowledged, WriteFails, Set, Busy
  <2>3. RestOK'
    BY <2>1, <2>2 DEF RestOK, ioVars, queueVars, serverVars, sessionVars
  <2> QED BY <2>1, <2>3, QuietFlow
<1>4. ASSUME StateNotification
      PROVE  TypeOK' /\ Flow /\ Refuses
  <2>1. PICK kinds \in SUBSET StateKind : "device_state" \in kinds /\ Emit(kinds)
    BY <1>4 DEF StateNotification, StateKind
  <2>2. UNCHANGED <<usable, inflight, serverVars, sessionVars, commandVars>>
    BY <2>1 DEF Emit
  <2>3. MessagesOK /\ emitted \in [StateKind -> 0 .. MaxEmissions]
    BY DEF RestOK
  <2>4. /\ MessagesOK' /\ emitted' \in [StateKind -> 0 .. MaxEmissions]
        /\ dropped \subseteq dropped'
        /\ \A x \in Held : x \in Held' \/ x[1] \in kinds
        /\ \A k \in kinds : emitted'[k] > emitted[k]
        /\ \A x \in Held' : x \in Held \/ x[1] \in StateKind
        /\ \A x \in InQueue : x \in InQueue' \/ x[1] \in StateKind
    BY <2>1, <2>3, EmitFacts
  <2>5. RestOK'
    BY <2>2, <2>4 DEF RestOK, serverVars, sessionVars, commandVars
  <2>6. Flow
    BY <2>2, <2>4 DEF Flow, serverVars
  <2>7. Refuses
    BY <2>2, <2>4 DEF Refuses, serverVars, StateKind
  <2> QED BY <2>4, <2>5, <2>6, <2>7
<1>5. ASSUME Take
      PROVE  TypeOK' /\ Flow /\ Refuses
  <2>1. UNCHANGED <<usable, emitted, dropped, serverVars, sessionVars, commandVars>>
    BY <1>5 DEF Take
  <2>2. /\ MessagesOK' /\ Held' = Held
        /\ \A x \in InQueue : x \in InQueue' \/ x = inflight'
    BY <1>5, TakeFacts DEF Take
  <2>3. RestOK'
    BY <2>1 DEF RestOK, serverVars, sessionVars, commandVars
  <2> QED BY <2>1, <2>2, <2>3 DEF Flow, Refuses, serverVars
<1>6. ASSUME Sent
      PROVE  TypeOK' /\ Flow /\ Refuses
  <2>1. UNCHANGED <<usable, queueVars, sessionVars, commandVars>> /\ inflight' = None
    BY <1>6 DEF Sent
  <2>2. inflight \in Message /\ inflight # None
    BY <1>6 DEF Sent, MessagesOK
  <2>3. /\ shown' \in [StateKind -> 0 .. MaxEmissions] /\ sent' \subseteq Message
        /\ sent \subseteq sent' /\ sent' \subseteq sent \cup {inflight}
        /\ IF inflight[1] \in StateKind THEN shown'[inflight[1]] = inflight[2]
                                        ELSE inflight \in sent'
    BY <1>6, <2>2, ArriveFacts DEF Sent, RestOK
  <2>4. MessagesOK' /\ RestOK'
    BY <2>1, <2>3 DEF MessagesOK, RestOK, queueVars, sessionVars, commandVars
  <2>5. InQueue' = InQueue /\ Held = InQueue \cup {inflight} /\ Held' = InQueue
    BY <2>1, <2>2, HeldFacts DEF queueVars
  <2> QED BY <2>1, <2>3, <2>4, <2>5 DEF Flow, Refuses, queueVars
<1>7. ASSUME SendFails \/ SessionEnds
      PROVE  TypeOK' /\ Flow /\ Refuses
  <2>1. PutBack /\ PerhapsArrive /\ UNCHANGED <<usable, delivered, replied>>
    BY <1>7 DEF SendFails, SessionEnds, commandVars
  <2>2. /\ MessagesOK' /\ emitted' = emitted /\ inflight' = None
        /\ dropped \subseteq dropped' /\ Held \subseteq Held' \cup dropped'
        /\ Held' \subseteq Held /\ InQueue \subseteq InQueue'
    BY <2>1, PutBackFacts
  <2>3. /\ shown' \in [StateKind -> 0 .. MaxEmissions] /\ sent' \subseteq Message
        /\ sent \subseteq sent' /\ sent' \subseteq sent \cup Held
    <3>1. CASE UNCHANGED serverVars
      BY <3>1 DEF RestOK, serverVars
    <3>2. CASE inflight # None /\ Arrive
      BY <3>2, ArriveFacts, HeldFacts DEF RestOK, MessagesOK
    <3> QED BY <2>1, <3>1, <3>2 DEF PerhapsArrive
  <2>4. RestOK'
    <3>1. CASE SendFails
      BY <2>1, <2>2, <2>3, <3>1 DEF SendFails, RestOK, Task, commandVars
    <3>2. CASE SessionEnds
      BY <2>1, <2>2, <2>3, <3>2, DoubledFacts DEF SessionEnds, RestOK
    <3> QED BY <1>7, <3>1, <3>2
  <2> QED BY <2>2, <2>3, <2>4 DEF Flow, Refuses
<1>8. ASSUME NEW c \in Command, PutCommandResult(c)
      PROVE  TypeOK' /\ Flow /\ Refuses
  <2> DEFINE m == <<IF command[c] = "refusing" THEN "refused" ELSE "write_failed", c>>
  <2>1. /\ UNCHANGED <<usable, emitted, dropped, inflight, serverVars, sessionVars,
                       delivered, replied>>
        /\ outbound' = Append(outbound, m) /\ Len(outbound) < MaxQueue
        /\ command' = [command EXCEPT ![c] = "answered"]
        /\ command[c] \in {"refusing", "failing"}
    BY <1>8 DEF PutCommandResult, Set
  <2>2. m \in Message
    BY DEF ResultKind
  <2>3. /\ outbound' \in Seq(Message) /\ Len(outbound') = Len(outbound) + 1
        /\ Elements(outbound') = Elements(outbound) \cup {m}
    BY <2>1, <2>2, AppendFacts DEF MessagesOK
  <2>4. MessagesOK'
    BY <2>1, <2>3, BoundsAssumption DEF MessagesOK
  <2>5. RestOK'
    BY <2>1 DEF RestOK, serverVars, sessionVars
  <2>6. Held' = Held \cup {m} /\ InQueue \subseteq InQueue'
    BY <2>1, <2>3, HeldFacts
  <2>7. Refuses
    <3>1. ASSUME NEW d \in Command, <<"refused", d>> \in (Held \cup sent)' \ (Held \cup sent)
          PROVE  command[d] = "refusing" /\ command'[d] = "answered"
      <4>1. <<"refused", d>> = m
        BY <2>1, <2>6, <3>1 DEF serverVars
      <4>2. d = c /\ command[c] = "refusing"
        BY <4>1
      <4> QED BY <2>1, <4>2 DEF RestOK
    <3> QED BY <3>1 DEF Refuses
  <2> QED BY <2>1, <2>4, <2>5, <2>6, <2>7 DEF Flow, serverVars
<1>9. ASSUME NEW c \in Command, ResultNotification(c)
      PROVE  TypeOK' /\ Flow /\ Refuses
  <2> DEFINE m == <<"result", c>>
  <2>1. /\ UNCHANGED <<usable, inflight, serverVars, sessionVars, command, delivered>>
        /\ Enqueue(m) /\ replied' = replied \cup {c}
    BY <1>9 DEF ResultNotification
  <2>2. m \in Message /\ m[1] \in ResultKind
    BY DEF ResultKind
  <2>3. /\ MessagesOK' /\ emitted' = emitted /\ dropped \subseteq dropped'
        /\ Held \subseteq Held' /\ Held' \subseteq Held \cup {m}
        /\ InQueue \subseteq InQueue'
    BY <2>1, <2>2, EnqueueResultFacts
  <2>4. RestOK'
    BY <2>1, <2>3 DEF RestOK, serverVars, sessionVars
  <2>5. \A d \in Command : <<"refused", d>> # m
    OBVIOUS
  <2> QED BY <2>1, <2>3, <2>4, <2>5 DEF Flow, Refuses, serverVars
<1> QED
  BY <1>1, <1>2, <1>3, <1>4, <1>5, <1>6, <1>7, <1>8, <1>9
  DEF Next, SessionStep, CommandStep

\* How a step moves command c.
CommandFlow(c) ==
    /\ command[c] = "answered" => command'[c] = "answered"
    /\ command'[c] \in {"unsent", "refusing"} => command[c] \in {"unsent", "refusing"}
    /\ c \in delivered' => c \in delivered \/ (command[c] = "writing" /\ command'[c] = "writing")
    /\ command'[c] = "answered" =>
          command[c] = "answered" \/ \E k \in {"refused", "write_failed"} : <<k, c>> \in Held'
    /\ c \in replied' => c \in replied \/ <<"result", c>> \in Held' \cup dropped'

LEMMA CommandsFlow ==
    ASSUME TypeOK, Next, NEW d \in Command
    PROVE  CommandFlow(d)
<1> USE DEF CommandFlow
<1>1. command \in [Command -> Busy \cup {"unsent", "written", "answered", "abandoned"}]
      /\ MessagesOK
  BY TypeParts DEF RestOK
<1>2. CASE UNCHANGED commandVars
  BY <1>2 DEF commandVars
<1>3. ASSUME SessionEnds PROVE CommandFlow(d)
  BY <1>1, <1>3 DEF SessionEnds, Busy
<1>4. ASSUME NEW c \in Command,
             ReceiveCommand(c) \/ BoardReceives(c) \/ WriteAcknowledged(c) \/ WriteFails(c)
      PROVE  CommandFlow(d)
  <2>1. CASE d = c
    BY <1>1, <1>4, <2>1 DEF ReceiveCommand, BoardReceives, WriteAcknowledged, WriteFails, Set
  <2>2. CASE d # c
    BY <1>1, <1>4, <2>2 DEF ReceiveCommand, BoardReceives, WriteAcknowledged, WriteFails, Set
  <2> QED BY <2>1, <2>2
<1>5. ASSUME NEW c \in Command, PutCommandResult(c) PROVE CommandFlow(d)
  <2> DEFINE m == <<IF command[c] = "refusing" THEN "refused" ELSE "write_failed", c>>
  <2>1. /\ outbound' = Append(outbound, m)
        /\ command[c] \in {"refusing", "failing"}
        /\ command' = [command EXCEPT ![c] = "answered"]
        /\ UNCHANGED <<delivered, replied>>
    BY <1>5 DEF PutCommandResult, Set
  <2>2. m \in Message /\ m \in {<<k, c>> : k \in {"refused", "write_failed"}}
    BY MessageFacts DEF ResultKind
  <2> HIDE DEF m
  <2>3. m \in Held'
    BY <1>1, <2>1, <2>2, AppendFacts, HeldFacts DEF MessagesOK
  <2>4. CASE d = c
    BY <1>1, <2>1, <2>2, <2>3, <2>4
  <2>5. CASE d # c
    BY <1>1, <2>1, <2>5
  <2> QED BY <2>4, <2>5
<1>6. ASSUME NEW c \in Command, ResultNotification(c) PROVE CommandFlow(d)
  <2>1. /\ Enqueue(<<"result", c>>) /\ replied' = replied \cup {c}
        /\ UNCHANGED <<command, delivered, inflight>>
    BY <1>6 DEF ResultNotification
  <2>2. <<"result", c>> \in Message /\ <<"result", c>>[1] \in ResultKind
    BY MessageFacts DEF ResultKind
  <2>3. <<"result", c>> \in Held' \cup dropped'
    BY <1>1, <2>1, <2>2, EnqueueResultFacts
  <2> QED BY <2>1, <2>3
<1>7. ASSUME \/ ControlConnects \/ ControlDisconnects \/ StateNotification
             \/ ConnectFails \/ Authenticated \/ Take \/ Sent \/ SendFails \/ Wake
             \/ \E t \in {"receiver", "heartbeat"} : TaskEnds(t)
      PROVE  UNCHANGED commandVars
  BY <1>7 DEF ControlConnects, ControlDisconnects, StateNotification, Emit,
     ConnectFails, Authenticated, Take, Sent, SendFails, Wake, TaskEnds, commandVars
<1> QED
  BY <1>2, <1>3, <1>4, <1>5, <1>6, <1>7 DEF Next, SessionStep, CommandStep

----------------------------------------------------------------------------
(* Theorems *)

\* The gateway's variables keep their types, and the queue its capacity.
THEOREM TypeCorrect == Spec => []TypeOK
<1>1. TypeOK /\ [Next]_vars => TypeOK'
  <2> SUFFICES ASSUME TypeOK, [Next]_vars PROVE TypeOK'
    OBVIOUS
  <2>1. CASE Next
    BY <2>1, Step
  <2>2. CASE UNCHANGED vars
    BY <2>2 DEF vars, ioVars, queueVars, sessionVars, commandVars, serverVars,
       TypeOK
  <2> QED BY <2>1, <2>2
<1> QED BY <1>1, TypeInit, PTL DEF Spec

LEMMA Stutters ==
    UNCHANGED vars =>
        /\ UNCHANGED <<usable, outbound, inflight, emitted, session, ended, retryDelay>>
        /\ UNCHANGED <<command, delivered, replied, sent, shown, dropped>>
        /\ Held' = Held /\ InQueue' = InQueue
BY HeldFacts DEF vars, ioVars, queueVars, sessionVars, commandVars, serverVars

\* Whatever the order of disconnections, failed writes and full queues, the
\* result of a command is in the queue, in the sender's hands, at the server,
\* or was refused by a full queue: for any capacity and any commands.
THEOREM ResultsAreKept == Spec => []ResultsKept
<1>1. Init => ResultsKept
  BY DEF Init, ResultsKept
<1>2. TypeOK /\ ResultsKept /\ [Next]_vars => ResultsKept'
  <2> SUFFICES ASSUME TypeOK, ResultsKept, [Next]_vars PROVE ResultsKept'
    OBVIOUS
  <2>1. CASE UNCHANGED vars
    BY <2>1, Stutters DEF ResultsKept
  <2>2. CASE Next
    <3> DEFINE Known == Held \cup sent \cup dropped
    <3>1. Flow /\ \A c \in Command : CommandFlow(c)
      BY <2>2, Step, CommandsFlow
    <3>2. \A k \in ResultKind, c \in Command :
              <<k, c>> \in Known => <<k, c>> \in Known'
      <4>1. ASSUME NEW k \in ResultKind, NEW c \in Command, <<k, c>> \in Held
            PROVE  <<k, c>> \in Known'
        <5>1. <<k, c>>[1] \notin StateKind
          BY MessageFacts
        <5> QED BY <3>1, <4>1, <5>1 DEF Flow
      <4> QED BY <3>1, <4>1 DEF Flow
    <3>3. {"refused", "write_failed", "result"} \subseteq ResultKind
      BY DEF ResultKind
    <3>4. ASSUME NEW c \in Command
          PROVE  /\ command'[c] = "answered" =>
                       \E k \in {"refused", "write_failed"} : <<k, c>> \in Known'
                 /\ c \in replied' => <<"result", c>> \in Known'
      BY <3>1, <3>2, <3>3 DEF ResultsKept, CommandFlow
    <3> QED BY <3>4 DEF ResultsKept
  <2> QED BY <2>1, <2>2
<1> QED BY <1>1, <1>2, TypeCorrect, PTL DEF Spec

\* The strengthening: a refusal on its way belongs to a command the receiver
\* is done with, and neither such a command nor one it has not begun to write
\* is at the board.
RefusedInv ==
    \A c \in Command :
        /\ <<"refused", c>> \in Held \cup sent => command[c] = "answered"
        /\ <<"refused", c>> \in Held \cup sent \/ command[c] \in {"unsent", "refusing"}
              => c \notin delivered

\* The server is told that a command was refused only when the board never
\* gets it: reconnecting the board or the session never delivers it later.
THEOREM RefusalsAreTrue == Spec => []RefusedNeverDelivered
<1>1. Init => RefusedInv
  BY HeldFacts DEF Init, RefusedInv, Elements
<1>2. TypeOK /\ RefusedInv /\ [Next]_vars => RefusedInv'
  <2> SUFFICES ASSUME TypeOK, RefusedInv, [Next]_vars, NEW c \in Command
               PROVE  /\ <<"refused", c>> \in (Held \cup sent)' => command'[c] = "answered"
                      /\ <<"refused", c>> \in (Held \cup sent)'
                         \/ command'[c] \in {"unsent", "refusing"} => c \notin delivered'
    BY DEF RefusedInv
  <2>1. CASE UNCHANGED vars
    BY <2>1, Stutters DEF RefusedInv
  <2>2. CASE Next
    <3>1. Refuses /\ CommandFlow(c)
      BY <2>2, Step, CommandsFlow
    <3>2. /\ <<"refused", c>> \in Held \cup sent => command[c] = "answered"
          /\ <<"refused", c>> \in Held \cup sent \/ command[c] \in {"unsent", "refusing"}
                => c \notin delivered
      BY DEF RefusedInv
    <3>3. <<"refused", c>> \in (Held \cup sent)' =>
              \/ <<"refused", c>> \in Held \cup sent
              \/ command[c] = "refusing" /\ command'[c] = "answered"
      BY <3>1 DEF Refuses
    <3> QED BY <3>1, <3>2, <3>3 DEF CommandFlow
  <2> QED BY <2>1, <2>2
<1>3. RefusedInv => RefusedNeverDelivered
  BY DEF RefusedInv, RefusedNeverDelivered
<1> QED BY <1>1, <1>2, <1>3, TypeCorrect, PTL DEF Spec

\* A state message leaves the gateway only to the server, for a newer one of
\* its kind, or because the queue is full.
THEOREM StatesAreSuperseded == Spec => StatesSuperseded
<1> DEFINE A == \A m \in Held \ Held' :
                   m[1] \in StateKind =>
                      \/ shown'[m[1]] = m[2]
                      \/ emitted'[m[1]] > emitted[m[1]]
                      \/ m \in dropped'
<1>1. TypeOK /\ [Next]_vars => [A]_vars
  <2>1. ASSUME TypeOK, Next PROVE A
    BY <2>1, Step DEF Flow
  <2> QED BY <2>1
<1> HIDE DEF A
<1>2. [][A]_vars => StatesSuperseded
  BY PTL DEF A, StatesSuperseded
<1> QED BY <1>1, <1>2, TypeCorrect, PTL DEF Spec

\* No notification, failure or refusal takes a result's place in the queue.
THEOREM ResultsStay == Spec => ResultsNotEvicted
<1> DEFINE A == \A m \in InQueue :
                   m[1] \in ResultKind => m \in InQueue' \/ m = inflight'
<1>1. TypeOK /\ [Next]_vars => [A]_vars
  <2>1. ASSUME TypeOK, Next PROVE A
    BY <2>1, Step DEF Flow
  <2> QED BY <2>1
<1> HIDE DEF A
<1>2. [][A]_vars => ResultsNotEvicted
  BY PTL DEF A, ResultsNotEvicted
<1> QED BY <1>1, <1>2, TypeCorrect, PTL DEF Spec
=============================================================================
