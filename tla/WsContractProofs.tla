-------------------------- MODULE WsContractProofs --------------------------
(* The calls over an upgraded WebSocket: WsConnection implements the         *)
(* contract of CallContract, and nothing is lost while the socket lives, for *)
(* every bound and every environment.                                        *)
(*                                                                           *)
(* Three queues behind each other, sendBuffer, wslay's and the wire, lead    *)
(* from each end to the other; Chain is the sequence they make up.  Flushing *)
(* and sending move messages along a chain and leave it as it is.  On top of *)
(* HInv, which says what is on the wires at all, FInv says that the chain to *)
(* the server holds the requests that were issued and not yet executed, in   *)
(* order, and the chain to the client each reply once.  Both end when an     *)
(* upgraded socket fails; what the contract needs of them then, FramesInOrder*)
(* and AnswersAreExecuted, is kept apart.                                    *)
EXTENDS WsConnectionProofs

\* a \o b, as an operator: the provers match its terms more easily.
Cat(a, b) == a \o b
Chain(a, b, c) == Cat(Cat(a, b), c)

LEMMA CatProperties ==
    ASSUME NEW S, NEW a \in Seq(S), NEW b \in Seq(S)
    PROVE  /\ Cat(a, b) \in Seq(S)
           /\ Len(Cat(a, b)) = Len(a) + Len(b)
           /\ \A i \in 1 .. Len(a) : Cat(a, b)[i] = a[i]
           /\ Range(Cat(a, b)) = Range(a) \cup Range(b)
<1>1. Range(a \o b) = Range(a) \cup Range(b)
  BY RangeConcatenation
<1>2. a \o b \in Seq(S) /\ Len(a \o b) = Len(a) + Len(b)
      /\ \A i \in 1 .. Len(a) : (a \o b)[i] = a[i]
  BY ConcatProperties
<1> QED
  BY <1>1, <1>2 DEF Cat

LEMMA CatRange ==
    ASSUME NEW S, NEW a \in Seq(S), NEW b \in Seq(S)
    PROVE  Range(Cat(a, b)) = Range(a) \cup Range(b)
  BY CatProperties

LEMMA RangeOfNone == Range(<<>>) = {}
  BY DEF Range

LEMMA CatAssociative ==
    ASSUME NEW S, NEW a \in Seq(S), NEW b \in Seq(S), NEW c \in Seq(S)
    PROVE  Cat(Cat(a, b), c) = Cat(a, Cat(b, c))
  BY ConcatAssociative DEF Cat

LEMMA CatEmpty ==
    ASSUME NEW S, NEW a \in Seq(S)
    PROVE  Cat(a, <<>>) = a /\ Cat(<<>>, a) = a
  BY ConcatEmptySeq DEF Cat

LEMMA CatAppend ==
    ASSUME NEW S, NEW a \in Seq(S), NEW b \in Seq(S), NEW e \in S
    PROVE  Cat(a, Append(b, e)) = Append(Cat(a, b), e)
<1>1. a \o Append(b, e) = Append(a \o b, e)
  OBVIOUS
<1> QED
  BY <1>1 DEF Cat

LEMMA CatTail ==
    ASSUME NEW S, NEW a \in Seq(S), NEW b \in Seq(S), a # <<>>
    PROVE  /\ Cat(Tail(a), b) = Tail(Cat(a, b))
           /\ Head(Cat(a, b)) = Head(a) /\ Cat(a, b) # <<>>
<1>1. /\ Tail(a) \o b = Tail(a \o b)
      /\ Head(a \o b) = Head(a) /\ a \o b # <<>>
  OBVIOUS
<1> QED
  BY <1>1 DEF Cat

\* What a chain holds, and that the wire is its front.
LEMMA ChainProperties ==
    ASSUME NEW S, NEW a \in Seq(S), NEW b \in Seq(S), NEW c \in Seq(S)
    PROVE  /\ Chain(a, b, c) \in Seq(S)
           /\ Len(Chain(a, b, c)) = Len(a) + Len(b) + Len(c)
           /\ \A i \in 1 .. Len(a) : Chain(a, b, c)[i] = a[i]
           /\ Range(Chain(a, b, c)) = Range(a) \cup Range(b) \cup Range(c)
<1> DEFINE ab == Cat(a, b)
<1>0. ab \in Seq(S) /\ Range(ab) = Range(a) \cup Range(b)
  BY CatProperties
<1>1. /\ ab \in Seq(S) /\ Len(ab) = Len(a) + Len(b)
      /\ \A i \in 1 .. Len(a) : ab[i] = a[i]
      /\ Range(ab) = Range(a) \cup Range(b)
  BY <1>0, CatProperties
<1>2. Len(a) \in Nat /\ Len(b) \in Nat /\ Len(c) \in Nat
  OBVIOUS
<1> HIDE DEF ab
<1>3. /\ Cat(ab, c) \in Seq(S) /\ Len(Cat(ab, c)) = Len(ab) + Len(c)
      /\ \A i \in 1 .. Len(ab) : Cat(ab, c)[i] = ab[i]
      /\ Range(Cat(ab, c)) = Range(ab) \cup Range(c)
  <2>1. ab \in Seq(S) /\ c \in Seq(S)
    BY <1>1
  <2>2. Cat(ab, c) \in Seq(S) /\ Len(Cat(ab, c)) = Len(ab) + Len(c)
    BY ONLY <2>1, CatProperties
  <2>3. \A i \in 1 .. Len(ab) : Cat(ab, c)[i] = ab[i]
    BY ONLY <2>1, CatProperties
  <2>4. Range(Cat(ab, c)) = Range(ab) \cup Range(c)
    BY ONLY <2>1, CatProperties
  <2> QED
    BY ONLY <2>2, <2>3, <2>4
<1>4. \A i \in 1 .. Len(a) : i \in 1 .. Len(ab)
  BY <1>1, <1>2
<1> QED
  BY <1>1, <1>3, <1>4 DEF Chain, ab

LEMMA ChainRange ==
    ASSUME NEW a \in Seq(RequestIds), NEW b \in Seq(RequestIds), NEW c \in Seq(RequestIds)
    PROVE  Range(Chain(a, b, c)) = Range(a) \cup Range(b) \cup Range(c)
  BY ChainProperties

\* sendBuffer goes to wslay and on to the wire.
LEMMA ChainMoves ==
    ASSUME NEW S, NEW a \in Seq(S), NEW b \in Seq(S), NEW c \in Seq(S),
           NEW a2 \in Seq(S), NEW b2 \in Seq(S), Cat(a2, b2) = Cat(a, Cat(b, c))
    PROVE  Chain(a2, b2, <<>>) = Chain(a, b, c)
<1>1. Cat(Cat(a2, b2), <<>>) = Cat(a2, b2)
  BY CatProperties, CatEmpty
<1>2. Cat(Cat(a, b), c) = Cat(a, Cat(b, c))
  BY CatAssociative
<1> QED
  BY <1>1, <1>2 DEF Chain

\* What is buffered goes to the end.
LEMMA ChainAppend ==
    ASSUME NEW S, NEW a \in Seq(S), NEW b \in Seq(S), NEW c \in Seq(S), NEW e \in S
    PROVE  Chain(a, b, Append(c, e)) = Append(Chain(a, b, c), e)
<1>1. Cat(a, b) \in Seq(S)
  BY CatProperties
<1>2. Cat(Cat(a, b), Append(c, e)) = Append(Cat(Cat(a, b), c), e)
  BY <1>1, CatAppend
<1> QED
  BY <1>2 DEF Chain

\* What is read comes from the front.
LEMMA ChainTail ==
    ASSUME NEW S, NEW a \in Seq(S), NEW b \in Seq(S), NEW c \in Seq(S), a # <<>>
    PROVE  /\ Chain(Tail(a), b, c) = Tail(Chain(a, b, c))
           /\ Head(Chain(a, b, c)) = Head(a) /\ Chain(a, b, c) # <<>>
<1> DEFINE ab == Cat(a, b)
<1>1. /\ ab \in Seq(S) /\ ab # <<>>
      /\ Cat(Tail(a), b) = Tail(ab) /\ Head(ab) = Head(a)
  BY CatProperties, CatTail
<1> HIDE DEF ab
<1>2. /\ Cat(Tail(ab), c) = Tail(Cat(ab, c)) /\ Head(Cat(ab, c)) = Head(ab)
      /\ Cat(ab, c) # <<>>
  BY <1>1, CatTail
<1> QED
  BY <1>1, <1>2 DEF Chain, ab

\* Messages among S make a sequence over S.
LEMMA FramesAreIds ==
    ASSUME NEW S, NEW T, NEW q \in Seq(T), Range(q) \subseteq S
    PROVE  q \in Seq(S)
<1>1. DOMAIN q = 1 .. Len(q) /\ Len(q) \in Nat /\ q = [i \in 1 .. Len(q) |-> q[i]]
  OBVIOUS
<1>2. \A i \in 1 .. Len(q) : q[i] \in S
  BY <1>1 DEF Range
<1> QED
  BY <1>1, <1>2

-----------------------------------------------------------------------------
Before(n) == {id \in RequestIds : id < n}

\* q holds the requests that were issued up to n and are not yet in done.
InOrder(q, n, done) ==
    /\ \A i \in 1 .. Len(q) : q[i] = n - 2 * (Len(q) + 1 - i)
    /\ done = Before(n - 2 * Len(q))

\* q is ascending, issued and not yet in done.
Ahead(q, n, done) ==
    \A i \in 1 .. Len(q) :
        /\ q[i] < n
        /\ \A old \in done : old < q[i]
        /\ \A j \in 1 .. i - 1 : q[j] < q[i]

\* q holds its members once, and with held all that is wanted.
Once(q, held, wanted) ==
    /\ \A i, j \in 1 .. Len(q) : q[i] = q[j] => i = j
    /\ Range(q) \cap held = {}
    /\ wanted \subseteq Range(q) \cup held

\* Ids are issued two apart.
LEMMA IdsAreEven ==
    /\ RequestIds \subseteq Int
    /\ \A a, b \in RequestIds : a < b => a + 2 <= b
<1>1. \A id \in RequestIds : \E n \in Int : id = 2 * n
  BY DEF RequestIds
<1> QED
  BY <1>1

\* A request with the next id keeps the order.
LEMMA InOrderAppend ==
    ASSUME NEW n \in RequestIds, NEW q \in Seq(RequestIds), NEW done, InOrder(q, n, done)
    PROVE  InOrder(Append(q, n), n + 2, done)
<1> DEFINE p == Append(q, n)
<1>1. /\ Len(p) = Len(q) + 1 /\ p[Len(q) + 1] = n
      /\ \A i \in 1 .. Len(q) : p[i] = q[i]
      /\ n \in Int /\ Len(q) \in Nat
  BY IdsAreEven
<1> HIDE DEF p
<1>2. ASSUME NEW i \in 1 .. Len(p) PROVE p[i] = (n + 2) - 2 * (Len(p) + 1 - i)
  <2>1. CASE i = Len(q) + 1
    BY <1>1, <2>1
  <2>2. CASE i \in 1 .. Len(q)
    <3>1. p[i] = n - 2 * (Len(q) + 1 - i)
      BY <1>1, <2>2 DEF InOrder
    <3> QED
      BY <1>1, <2>2, <3>1
  <2> QED
    BY <1>1, <2>1, <2>2
<1>3. (n + 2) - 2 * Len(p) = n - 2 * Len(q)
  BY <1>1
<1>4. done = Before((n + 2) - 2 * Len(p))
  <2>1. done = Before(n - 2 * Len(q))
    BY DEF InOrder
  <2> QED
    BY <1>3, <2>1
<1>5. InOrder(p, n + 2, done)
  BY <1>2, <1>4 DEF InOrder
<1> QED
  BY <1>5 DEF p

\* The first request on its way is the next to be executed.
LEMMA InOrderTail ==
    ASSUME NEW n \in Int, NEW q \in Seq(RequestIds), q # <<>>, NEW done,
           InOrder(q, n, done)
    PROVE  InOrder(Tail(q), n, done \cup {Head(q)})
<1> DEFINE p == Tail(q)
           id == Head(q)
<1>1. /\ Len(p) = Len(q) - 1 /\ id = q[1] /\ id \in RequestIds
      /\ \A i \in 1 .. Len(p) : p[i] = q[i + 1]
      /\ Len(q) \in Nat \ {0}
  OBVIOUS
<1> HIDE DEF p, id
<1>2. ASSUME NEW i \in 1 .. Len(p) PROVE p[i] = n - 2 * (Len(p) + 1 - i)
  <2>1. i + 1 \in 1 .. Len(q) /\ p[i] = q[i + 1]
    BY <1>1
  <2>2. q[i + 1] = n - 2 * (Len(q) + 1 - (i + 1))
    BY <2>1 DEF InOrder
  <2> QED
    BY <1>1, <2>1, <2>2
<1>3. id = n - 2 * Len(q)
  <2>1. q[1] = n - 2 * (Len(q) + 1 - 1)
    BY <1>1 DEF InOrder
  <2> QED
    BY <1>1, <2>1
<1>4. n - 2 * Len(p) = id + 2
  BY <1>1, <1>3
<1>5. done = Before(id)
  BY <1>3 DEF InOrder
<1>6. done \cup {id} = Before(id + 2)
  <2>1. ASSUME NEW other \in RequestIds PROVE other < id + 2 <=> other < id \/ other = id
    <3>1. other \in Int /\ id \in Int /\ (id < other => id + 2 <= other)
      BY <1>1, IdsAreEven
    <3> QED
      BY <3>1
  <2> QED
    BY <1>1, <1>5, <2>1 DEF Before
<1> QED
  BY <1>2, <1>4, <1>6 DEF InOrder, p, id

\* A front of what is in order is ascending and not yet executed.
LEMMA InOrderIsAhead ==
    ASSUME NEW n \in Int, NEW a \in Seq(RequestIds), NEW q \in Seq(RequestIds),
           Len(a) <= Len(q), \A i \in 1 .. Len(a) : a[i] = q[i],
           NEW done, InOrder(q, n, done)
    PROVE  Ahead(a, n, done)
<1>1. Len(a) \in Nat /\ Len(q) \in Nat
  OBVIOUS
<1>2. ASSUME NEW i \in 1 .. Len(a) PROVE a[i] = n - 2 * (Len(q) + 1 - i)
  BY <1>1 DEF InOrder
<1>3. ASSUME NEW i \in 1 .. Len(a), NEW old \in done PROVE old < a[i]
  <2>1. old \in Int /\ old < n - 2 * Len(q)
    BY IdsAreEven DEF InOrder, Before
  <2> QED
    BY <1>1, <1>2, <2>1
<1>4. ASSUME NEW i \in 1 .. Len(a), NEW j \in 1 .. i - 1 PROVE a[j] < a[i]
  <2>1. j \in 1 .. Len(a)
    BY <1>1
  <2>2. a[j] = n - 2 * (Len(q) + 1 - j)
    BY <1>2, <2>1
  <2> QED
    BY <1>1, <1>2, <2>2
<1>5. ASSUME NEW i \in 1 .. Len(a) PROVE a[i] < n
  BY <1>1, <1>2
<1> QED
  BY <1>3, <1>4, <1>5 DEF Ahead

\* The wire is the head of what is on its way.
LEMMA ChainIsAhead ==
    ASSUME NEW n \in Int, NEW a \in Seq(RequestIds), NEW b \in Seq(RequestIds),
           NEW c \in Seq(RequestIds), NEW done, InOrder(Chain(a, b, c), n, done)
    PROVE  Ahead(a, n, done)
<1> DEFINE q == Chain(a, b, c)
<1>1. /\ q \in Seq(RequestIds) /\ Len(q) = Len(a) + Len(b) + Len(c)
      /\ \A i \in 1 .. Len(a) : q[i] = a[i]
  BY ChainProperties
<1>2. Len(a) \in Nat /\ Len(b) \in Nat /\ Len(c) \in Nat /\ InOrder(q, n, done)
  OBVIOUS
<1> HIDE DEF q
<1>3. Len(a) <= Len(q)
  BY <1>1, <1>2
<1> QED
  BY <1>1, <1>2, <1>3, InOrderIsAhead

\* A new request goes to the end.
LEMMA ChainGrows ==
    ASSUME NEW n \in RequestIds, NEW a \in Seq(RequestIds), NEW b \in Seq(RequestIds),
           NEW c \in Seq(RequestIds), NEW done, InOrder(Chain(a, b, c), n, done)
    PROVE  InOrder(Chain(a, b, Append(c, n)), n + 2, done)
<1> DEFINE q == Chain(a, b, c)
<1>1. Chain(a, b, Append(c, n)) = Append(q, n)
  BY ChainAppend
<1>2. q \in Seq(RequestIds) /\ InOrder(q, n, done)
  BY ChainProperties
<1> HIDE DEF q
<1> QED
  BY <1>1, <1>2, InOrderAppend

\* The first on the wire is above all executed, and below all behind it.
LEMMA AheadTail ==
    ASSUME NEW n, NEW q \in Seq(RequestIds), q # <<>>, NEW done, Ahead(q, n, done)
    PROVE  /\ Ahead(Tail(q), n, done \cup {Head(q)})
           /\ Head(q) < n /\ \A old \in done : old < Head(q)
<1> DEFINE p == Tail(q)
<1>1. /\ Len(p) = Len(q) - 1 /\ Head(q) = q[1]
      /\ \A i \in 1 .. Len(p) : p[i] = q[i + 1]
      /\ Len(q) \in Nat \ {0}
  OBVIOUS
<1> HIDE DEF p
<1>2. 1 \in 1 .. Len(q)
  BY <1>1
<1>3. Head(q) < n /\ \A old \in done : old < Head(q)
  BY <1>1, <1>2 DEF Ahead
<1>4. ASSUME NEW i \in 1 .. Len(p)
      PROVE  /\ p[i] < n /\ \A old \in done \cup {Head(q)} : old < p[i]
             /\ \A j \in 1 .. i - 1 : p[j] < p[i]
  <2>1. /\ i + 1 \in 1 .. Len(q) /\ p[i] = q[i + 1] /\ 1 \in 1 .. (i + 1) - 1
    BY <1>1
  <2>2. q[i + 1] < n /\ q[1] < q[i + 1] /\ \A old \in done : old < q[i + 1]
    BY <2>1 DEF Ahead
  <2>3. ASSUME NEW j \in 1 .. i - 1 PROVE p[j] < p[i]
    <3>1. j + 1 \in 1 .. (i + 1) - 1 /\ j \in 1 .. Len(p)
      BY <1>1
    <3>2. q[j + 1] < q[i + 1]
      BY <2>1, <3>1 DEF Ahead
    <3> QED
      BY <1>1, <2>1, <3>1, <3>2
  <2> QED
    BY <1>1, <2>1, <2>2, <2>3
<1> QED
  BY <1>3, <1>4 DEF Ahead, p

\* A reply that is not there yet is added; its servant, if it ran, is done.
LEMMA OnceAppend ==
    ASSUME NEW q \in Seq(RequestIds), NEW id \in RequestIds, id \notin Range(q),
           NEW held, NEW wanted, Once(q, held, wanted),
           NEW rest, rest \subseteq held, held \subseteq rest \cup {id}, id \notin rest
    PROVE  Once(Append(q, id), rest, wanted \cup {id})
<1> DEFINE p == Append(q, id)
<1>1. /\ Len(p) = Len(q) + 1 /\ p[Len(q) + 1] = id
      /\ \A i \in 1 .. Len(q) : p[i] = q[i]
      /\ Len(q) \in Nat /\ p \in Seq(RequestIds)
  OBVIOUS
<1> HIDE DEF p
<1>2. Range(p) = {p[i] : i \in 1 .. Len(p)} /\ Range(q) = {q[i] : i \in 1 .. Len(q)}
  BY <1>1, RangeEquality
<1>3. \A i \in 1 .. Len(p) : i \in 1 .. Len(q) \/ i = Len(q) + 1
  BY <1>1
<1>4. \A i \in 1 .. Len(q) : i \in 1 .. Len(p)
  BY <1>1
<1>5. Len(q) + 1 \in 1 .. Len(p)
  BY <1>1
<1>6. Range(p) = Range(q) \cup {id}
  BY <1>1, <1>2, <1>3, <1>4, <1>5
<1>7. ASSUME NEW i \in 1 .. Len(p), NEW j \in 1 .. Len(p), p[i] = p[j] PROVE i = j
  <2>1. \A k \in 1 .. Len(q) : q[k] # id
    BY <1>2
  <2> QED
    BY <1>1, <1>3, <1>7, <2>1 DEF Once
<1> QED
  BY <1>6, <1>7 DEF Once, p

\* The reply that is read is there no more.
LEMMA OnceTail ==
    ASSUME NEW S, NEW q \in Seq(S), q # <<>>, NEW held, NEW wanted, Once(q, held, wanted)
    PROVE  Once(Tail(q), held, wanted \ {Head(q)})
<1>1. Range(q) = {Head(q)} \cup Range(Tail(q))
  BY TailProperties
<1> DEFINE p == Tail(q)
<1>2. /\ Len(p) = Len(q) - 1 /\ Len(q) \in Nat \ {0}
      /\ \A i \in 1 .. Len(p) : p[i] = q[i + 1]
  OBVIOUS
<1> HIDE DEF p
<1>3. ASSUME NEW i \in 1 .. Len(p), NEW j \in 1 .. Len(p), p[i] = p[j] PROVE i = j
  <2>1. i + 1 \in 1 .. Len(q) /\ j + 1 \in 1 .. Len(q)
    BY <1>2
  <2>2. i + 1 = j + 1
    BY <1>2, <1>3, <2>1 DEF Once
  <2> QED
    BY <2>2
<1> QED
  BY <1>1, <1>3 DEF Once, p

\* Fewer may be wanted, and a servant may hold a new request.
LEMMA OnceHolds ==
    ASSUME NEW q, NEW id, NEW held, NEW wanted, Once(q, held, wanted)
    PROVE  /\ \A less \in SUBSET wanted : Once(q, held, less)
           /\ id \notin Range(q) => Once(q, held \cup {id}, wanted \cup {id})
  BY DEF Once

\* The request that arrives leaves the front.
LEMMA ChainShrinks ==
    ASSUME NEW n \in Int, NEW a \in Seq(RequestIds), a # <<>>, NEW b \in Seq(RequestIds),
           NEW c \in Seq(RequestIds), NEW done, InOrder(Chain(a, b, c), n, done)
    PROVE  InOrder(Chain(Tail(a), b, c), n, done \cup {Head(a)})
<1> DEFINE q == Chain(a, b, c)
<1>1. /\ Chain(Tail(a), b, c) = Tail(q) /\ Head(q) = Head(a) /\ q # <<>>
  BY ChainTail
<1>2. q \in Seq(RequestIds) /\ InOrder(q, n, done)
  BY ChainProperties
<1> HIDE DEF q
<1> QED
  BY <1>1, <1>2, InOrderTail

\* A reply is added at the end, or the one at the front arrives.
LEMMA OnceGrows ==
    ASSUME NEW a \in Seq(RequestIds), NEW b \in Seq(RequestIds), NEW c \in Seq(RequestIds),
           NEW id \in RequestIds, id \notin Range(a) \cup Range(b) \cup Range(c),
           NEW held, NEW wanted, Once(Chain(a, b, c), held, wanted),
           NEW rest, rest \subseteq held, held \subseteq rest \cup {id}, id \notin rest
    PROVE  Once(Chain(a, b, Append(c, id)), rest, wanted \cup {id})
<1> DEFINE q == Chain(a, b, c)
<1>1. Chain(a, b, Append(c, id)) = Append(q, id)
  BY ChainAppend
<1>2. q \in Seq(RequestIds) /\ Range(q) = Range(a) \cup Range(b) \cup Range(c)
  BY ChainProperties
<1>3. Once(q, held, wanted)
  OBVIOUS
<1> HIDE DEF q
<1>4. id \notin Range(q)
  BY <1>2
<1>5. Once(Append(q, id), rest, wanted \cup {id})
  BY <1>2, <1>3, <1>4, OnceAppend
<1> QED
  BY <1>1, <1>5

LEMMA OnceShrinks ==
    ASSUME NEW a \in Seq(RequestIds), a # <<>>, NEW b \in Seq(RequestIds),
           NEW c \in Seq(RequestIds), NEW held, NEW wanted, Once(Chain(a, b, c), held, wanted)
    PROVE  Once(Chain(Tail(a), b, c), held, wanted \ {Head(a)})
<1> DEFINE q == Chain(a, b, c)
<1>1. /\ Chain(Tail(a), b, c) = Tail(q) /\ Head(q) = Head(a) /\ q # <<>>
  BY ChainTail
<1>2. q \in Seq(RequestIds) /\ Once(q, held, wanted)
  BY ChainProperties
<1> HIDE DEF q
<1> QED
  BY <1>1, <1>2, OnceTail

LEMMA ChainOfNone ==
    /\ Chain(<<>>, <<>>, <<>>) = <<>> /\ Once(<<>>, {}, {})
    /\ \A n, done : Ahead(<<>>, n, done)
<1>1. <<>> \in Seq(RequestIds)
  OBVIOUS
<1>2. Chain(<<>>, <<>>, <<>>) = <<>>
  BY <1>1, CatEmpty DEF Chain
<1> QED
  BY <1>2, RangeOfNone, EmptyLen DEF Once, Ahead

LEMMA AppendRange ==
    ASSUME NEW c \in Seq(RequestIds), NEW id \in RequestIds
    PROVE  Append(c, id) \in Seq(RequestIds) /\ Range(Append(c, id)) = Range(c) \cup {id}
<1>1. Append(c, id) = c \o <<id>> /\ <<id>> \in Seq(RequestIds)
  OBVIOUS
<1>2. Range(c \o <<id>>) = Range(c) \cup Range(<<id>>)
  <2> DEFINE one == <<id>>
  <2>1. c \in Seq(RequestIds) /\ one \in Seq(RequestIds)
    BY <1>1
  <2> HIDE DEF one
  <2>2. Range(c \o one) = Range(c) \cup Range(one)
    BY ONLY <2>1, RangeConcatenation
  <2> QED
    BY <2>2 DEF one
<1>3. DOMAIN <<id>> = {1} /\ <<id>>[1] = id
  OBVIOUS
<1>4. Range(<<id>>) = {id}
  BY <1>3 DEF Range
<1> QED
  BY <1>1, <1>2, <1>4

-----------------------------------------------------------------------------
(* What flushSendBuffer and canWrite do to the queues of one direction.       *)

\* c, or what was queued and buffered at s, is now on its way behind w, or lost.
Sent(s, b, w) ==
    LET o == Other(s) IN
    /\ queued'[o] = queued[o] /\ wire'[s] = w[s] /\ sendBuffer'[o] = sendBuffer[o]
    /\ Range(queued'[s]) \cup Range(sendBuffer'[s]) \subseteq Range(queued[s]) \cup Range(b)
    /\ Range(wire'[o]) \subseteq Range(w[o]) \cup Range(queued[s]) \cup Range(b)
    /\ link = "connected" =>
         Chain(wire'[o], queued'[s], sendBuffer'[s]) = Chain(w[o], queued[s], b)
    /\ link # "connected" => wire'[o] = w[o]

\* flushSendBuffer() leaves the chain of its direction as it is.
LEMMA FlushSends ==
    ASSUME NEW s \in Sides, QueuesTypeOK, NEW b \in Seq(RequestIds),
           NEW w \in [Sides -> Seq(Tokens)], flushSendBuffer(s, b, w)
    PROVE  Sent(s, b, w)
<1> DEFINE o == Other(s)
           c == Cat(queued[s], b)
<1>1. o \in Sides /\ o # s
  BY OtherSide
<1>2. /\ Moved(s, c, w)
      /\ sendBuffer'[s] = <<>> /\ sendBuffer'[o] = sendBuffer[o]
  BY FlushMoves DEF Cat
<1>3. /\ queued[s] \in Seq(RequestIds) /\ queued'[s] \in Seq(RequestIds)
      /\ w[o] \in Seq(Tokens) /\ wire'[o] \in Seq(Tokens)
  BY <1>1, <1>2 DEF QueuesTypeOK, Moved
<1>4. /\ queued[s] \in Seq(Tokens) /\ queued'[s] \in Seq(Tokens) /\ b \in Seq(Tokens)
  <2>1. RequestIds \subseteq Tokens
    BY DEF Tokens
  <2> QED
    BY <1>3, <2>1, SeqMonotonic
<1>5. Range(c) = Range(queued[s]) \cup Range(b) /\ Range(<<>>) = {}
  <2>1. Range(c) = Range(queued[s]) \cup Range(b)
    BY <1>3, CatRange
  <2> QED
    BY <2>1, RangeOfNone
<1>6. ASSUME link = "connected"
      PROVE  Chain(wire'[o], queued'[s], sendBuffer'[s]) = Chain(w[o], queued[s], b)
  <2>1. Cat(wire'[o], queued'[s]) = Cat(w[o], c)
    BY <1>2, <1>6 DEF Moved, Cat
  <2>2. Chain(wire'[o], queued'[s], <<>>) = Chain(w[o], queued[s], b)
    BY <1>3, <1>4, <2>1, ChainMoves
  <2> QED
    BY <1>2, <2>2
<1> HIDE DEF c
<1> QED
  BY <1>2, <1>5, <1>6 DEF Sent, Moved

\* So does canWrite().
LEMMA CanWriteSends ==
    ASSUME NEW s \in Sides, QueuesTypeOK, CanWriteWs(s)
    PROVE  Sent(s, sendBuffer[s], wire)
<1> DEFINE o == Other(s)
<1>1. PICK again \in BOOLEAN : WslaySend(s, queued[s], wire, again)
  BY DEF CanWriteWs
<1>2. sendBuffer' = sendBuffer
  BY DEF CanWriteWs
<1>3. queued[s] \in Seq(RequestIds) /\ wire \in [Sides -> Seq(Tokens)]
  BY DEF QueuesTypeOK
<1>4. Moved(s, queued[s], wire)
  BY <1>1, <1>3, WslaySendMoves
<1>5. link = "connected" => Cat(wire'[o], queued'[s]) = Cat(wire[o], queued[s])
  BY <1>4 DEF Moved, Cat
<1>6. link = "connected" =>
        Chain(wire'[o], queued'[s], sendBuffer'[s]) = Chain(wire[o], queued[s], sendBuffer[s])
  BY <1>2, <1>5 DEF Chain
<1> QED
  BY <1>2, <1>4, <1>6 DEF Sent, Moved

-----------------------------------------------------------------------------
(* The second invariant: where the requests and replies are.                  *)

UsedIdsAreIssued == \A id \in RequestIds : (call[id] = "unused") <=> (id >= requestId)

\* What is on the wire to the server is new to it and in the order of issue.
FramesInOrder == wsstate["server"] = "WS" => Ahead(wire["server"], requestId, executed)

\* Replies, and the servants that will reply, belong to executed requests.
AnswersAreExecuted ==
    /\ serving \subseteq executed
    /\ Range(queued["server"]) \cup Range(sendBuffer["server"]) \subseteq executed
    /\ wsstate["client"] = "WS" => Range(wire["client"]) \subseteq executed

Outgoing == Chain(IF wsstate["client"] = "WS" THEN wire["server"] ELSE <<>>,
                  queued["client"], sendBuffer["client"])
Incoming == Chain(wire["client"], queued["server"], sendBuffer["server"])

Intact == ~(link = "failed" /\ wsstate["client"] = "WS")

OutgoingInOrder == InOrder(Outgoing, requestId, executed)

Answerable == {id \in executed : call[id] = "waiting"}
IncomingOnce == wsstate["client"] = "WS" => Once(Incoming, serving, Answerable)

FInv == /\ UsedIdsAreIssued /\ FramesInOrder /\ AnswersAreExecuted
        /\ Intact => OutgoingInOrder /\ IncomingOnce

QueuesHoldIds ==
    /\ \A s \in Sides : queued[s] \in Seq(RequestIds) /\ sendBuffer[s] \in Seq(RequestIds)
    /\ wsstate["client"] = "WS" => \A s \in Sides : wire[s] \in Seq(RequestIds)
    /\ requestId \in Int

\* After the upgrade all queues hold ids.
LEMMA QueueTypes == HInv => QueuesHoldIds
<1> SUFFICES ASSUME HInv PROVE QueuesHoldIds
  OBVIOUS
<1>1. \A s \in Sides : queued[s] \in Seq(RequestIds) /\ sendBuffer[s] \in Seq(RequestIds)
                       /\ wire[s] \in Seq(Tokens)
  BY DEF HInv, QueuesTypeOK
<1>2. ASSUME wsstate["client"] = "WS", NEW s \in Sides PROVE wire[s] \in Seq(RequestIds)
  <2>1. Range(wire[s]) \subseteq RequestIds
    BY <1>2, UpgradedWires DEF HInv
  <2> QED
    BY <1>1, <2>1, FramesAreIds
<1>3. requestId \in Int
  BY ConstantsAssumption DEF HInv, RestTypeOK
<1> QED
  BY <1>1, <1>2, <1>3 DEF QueuesHoldIds

LEMMA NextQueueTypes == HInv' => QueuesHoldIds'
  BY QueueTypes, PTL

\* Order on the way implies order on the wire.
LEMMA InOrderOnWire ==
    ASSUME HInv', Intact' => OutgoingInOrder', ~Intact' => FramesInOrder'
    PROVE  FramesInOrder'
<1>1. CASE ~Intact'
  BY <1>1
<1>2. CASE wsstate'["client"] # "WS"
  <2>1. wsstate'["server"] = "WS" => wire'["server"] = <<>>
    BY <1>2 DEF HInv, Handshake, Modes, NoFramesYet
  <2> QED
    BY <2>1, EmptyLen DEF FramesInOrder, Ahead
<1>3. CASE Intact' /\ wsstate'["client"] = "WS"
  <2>1. /\ wire'["server"] \in Seq(RequestIds) /\ queued'["client"] \in Seq(RequestIds)
        /\ sendBuffer'["client"] \in Seq(RequestIds) /\ requestId' \in Int
    BY <1>3, NextQueueTypes, ClientAndServer DEF QueuesHoldIds
  <2>2. InOrder(Chain(wire'["server"], queued'["client"], sendBuffer'["client"]),
                requestId', executed')
    BY <1>3 DEF OutgoingInOrder, Outgoing
  <2>3. Ahead(wire'["server"], requestId', executed')
    BY <2>1, <2>2, ChainIsAhead
  <2> QED
    BY <2>3 DEF FramesInOrder
<1> QED
  BY <1>1, <1>2, <1>3

\* More requests are issued.
LEMMA AheadOfMore ==
    ASSUME NEW n \in Int, NEW q \in Seq(RequestIds), NEW done, Ahead(q, n, done)
    PROVE  Ahead(q, n + 2, done)
<1>1. \A i \in 1 .. Len(q) : q[i] \in Int
  <2>1. \A i \in 1 .. Len(q) : q[i] \in RequestIds
    OBVIOUS
  <2> QED
    BY <2>1, IdsAreEven
<1>2. \A i \in 1 .. Len(q) : q[i] < n + 2
  BY <1>1 DEF Ahead
<1> QED
  BY <1>2 DEF Ahead

\* Steps that leave the queues alone; a header on the wire is none of them.
LEMMA SilentFrames ==
    ASSUME HInv, FInv, HInv',
           UNCHANGED <<queued, sendBuffer, executed, serving, requestId>>,
           wsstate'["client"] = wsstate["client"],
           wsstate["client"] = "WS" => wire' = wire,
           Intact' => Intact,
           \A id \in RequestIds : call'[id] = "waiting" => call[id] = "waiting",
           UsedIdsAreIssued'
    PROVE  FInv'
<1>1. Outgoing' = Outgoing
  BY DEF Outgoing
<1>2. wsstate["client"] = "WS" => Incoming' = Incoming
  BY DEF Incoming
<1>3. Answerable' \subseteq Answerable
  BY DEF Answerable, HInv, RestTypeOK
<1>4. Intact' => OutgoingInOrder' /\ IncomingOnce'
  <2> SUFFICES ASSUME Intact' PROVE OutgoingInOrder' /\ IncomingOnce'
    OBVIOUS
  <2>1. OutgoingInOrder /\ IncomingOnce
    BY DEF FInv
  <2>2. OutgoingInOrder'
    BY <1>1, <2>1 DEF OutgoingInOrder
  <2>3. wsstate'["client"] = "WS" => Once(Incoming', serving', Answerable')
    BY <1>2, <1>3, <2>1, OnceHolds DEF IncomingOnce
  <2> QED
    BY <2>2, <2>3 DEF IncomingOnce
<1>5. AnswersAreExecuted'
  BY DEF FInv, AnswersAreExecuted
<1>6. ~Intact' => FramesInOrder'
  <2>1. ~Intact' => wsstate["client"] = "WS" /\ wsstate["server"] = "WS"
    BY UpgradedWires DEF Intact, HInv
  <2> QED
    BY <2>1 DEF FInv, FramesInOrder
<1>7. FramesInOrder'
  BY <1>4, <1>6, InOrderOnWire
<1> QED
  BY <1>4, <1>5, <1>7 DEF FInv

\* Steps that leave calls and queues alone are no steps of the contract.
LEMMA SilentObeys ==
    ASSUME HInv, FInv, HInv',
           UNCHANGED <<call, queued, sendBuffer, executed, serving, requestId>>,
           wsstate'["client"] = wsstate["client"],
           wsstate["client"] = "WS" => wire' = wire,
           Intact' => Intact
    PROVE  FInv' /\ Contract!Settle
<1>1. UsedIdsAreIssued'
  BY DEF FInv, UsedIdsAreIssued
<1>2. Contract!Settle
  BY DEF Contract!Settle
<1> QED
  BY <1>1, <1>2, SilentFrames

-----------------------------------------------------------------------------
\* A new call settles the id it takes and nothing else that base did not.
LEMMA NewRequestSettles ==
    ASSUME HInv, FInv, NEW kind \in {"waiting", "oneway"},
           NEW base \in [RequestIds -> Outcomes], NewRequest(kind, base),
           \A id \in RequestIds : base[id] # call[id] =>
               call[id] = "waiting" /\ base[id] = "TIMEOUT"
    PROVE  /\ UsedIdsAreIssued' /\ Contract!Settle
           /\ \A id \in RequestIds :
                call'[id] = "waiting" => call[id] = "waiting" \/ id = requestId
<1>1. /\ requestId \in RequestIds /\ requestId' = requestId + 2
      /\ executed' = executed
  BY DEF NewRequest, FetchAdd, server
<1>2. PICK end \in {"waiting", "oneway", "failed"} :
         call' = [base EXCEPT ![requestId] = end]
  BY DEF NewRequest
<1>3. call \in [RequestIds -> Outcomes]
  BY DEF HInv, RestTypeOK
<1>4. requestId \in Int /\ call[requestId] = "unused"
  BY <1>1, IdsAreEven DEF FInv, UsedIdsAreIssued
<1>5. /\ call'[requestId] = end
      /\ \A id \in RequestIds \ {requestId} : call'[id] = base[id]
  BY <1>1, <1>2
<1>6. ASSUME NEW id \in RequestIds
      PROVE  /\ call'[id] # call[id] =>
                  <<call[id], call'[id]>> \in Contract!Moves /\ call'[id] # "reply"
             /\ call'[id] = "waiting" => call[id] = "waiting" \/ id = requestId
  BY <1>4, <1>5 DEF Contract!Moves, Contract!Exceptions
<1>7. Contract!Settle
  BY <1>1, <1>6 DEF Contract!Settle
<1>8. UsedIdsAreIssued'
  <2> SUFFICES ASSUME NEW id \in RequestIds
               PROVE  (call'[id] = "unused") <=> (id >= requestId')
    BY DEF UsedIdsAreIssued
  <2>1. PICK n \in Int : id = 2 * n
    BY DEF RequestIds
  <2>2. PICK m \in Int : requestId = 2 * m
    BY <1>1 DEF RequestIds
  <2>3. (call[id] = "unused") <=> (id >= requestId)
    BY DEF FInv, UsedIdsAreIssued
  <2>4. CASE id = requestId
    BY <1>1, <1>4, <1>5, <2>4
  <2>5. CASE id # requestId
    <3>1. (call'[id] = "unused") <=> (call[id] = "unused")
      BY <1>5, <2>5
    <3>2. (id >= requestId) <=> (id >= requestId + 2)
      BY <2>1, <2>2, <2>5
    <3> QED
      BY <1>1, <2>3, <3>1, <3>2
  <2> QED
    BY <2>4, <2>5
<1> QED
  BY <1>6, <1>7, <1>8

\* The id it takes goes to the end of what is on its way.
LEMMA NewRequestQueues ==
    ASSUME HInv, NEW kind, NEW base, NewRequest(kind, base)
    PROVE  LET o == Append(sendBuffer["client"], requestId) IN
           /\ wsstate' = wsstate /\ executed' = executed /\ serving' = serving
           /\ wsstate["client"] = "WS" => link' = link
           /\ \/ /\ sendBuffer' = [sendBuffer EXCEPT !["client"] = o]
                 /\ UNCHANGED <<queued, wire>>
              \/ wsstate["client"] = "WS" /\ Sent("client", o, wire)
<1> DEFINE o == Append(sendBuffer["client"], requestId)
<1>1. wsstate' = wsstate /\ executed' = executed /\ serving' = serving
  BY DEF NewRequest, server
<1>2. requestId \in RequestIds /\ o \in Seq(RequestIds) /\ wire \in [Sides -> Seq(Tokens)]
  <2>1. requestId \in RequestIds /\ sendBuffer["client"] \in Seq(RequestIds)
    BY ClientAndServer DEF NewRequest, HInv, QueuesTypeOK
  <2> QED
    BY <2>1 DEF HInv, QueuesTypeOK
<1>3. wsstate["client"] = "WS" => link' = link
  BY UpgradedWires DEF NewRequest, HInv, socket
<1>4. \/ /\ sendBuffer' = [sendBuffer EXCEPT !["client"] = o]
         /\ UNCHANGED <<queued, wire>>
      \/ wsstate["client"] = "WS" /\ flushSendBuffer("client", o, wire)
  BY DEF NewRequest
<1> HIDE DEF o
<1>5. flushSendBuffer("client", o, wire) => Sent("client", o, wire)
  BY <1>2, FlushSends, ClientAndServer DEF HInv
<1> QED
  BY <1>1, <1>3, <1>4, <1>5 DEF o

\* A new call keeps the invariant and is a step of the contract.
LEMMA NewRequestObeys ==
    ASSUME HInv, FInv, HInv', NEW kind \in {"waiting", "oneway"},
           NEW base \in [RequestIds -> Outcomes], NewRequest(kind, base),
           \A id \in RequestIds : base[id] # call[id] =>
               call[id] = "waiting" /\ base[id] = "TIMEOUT"
    PROVE  FInv' /\ Contract!Settle
<1> DEFINE o == Append(sendBuffer["client"], requestId)
           head == IF wsstate["client"] = "WS" THEN wire["server"] ELSE <<>>
<1>1. requestId \in RequestIds /\ requestId' = requestId + 2
  BY DEF NewRequest, FetchAdd
<1>2. /\ UsedIdsAreIssued' /\ Contract!Settle
      /\ \A id \in RequestIds :
           call'[id] = "waiting" => call[id] = "waiting" \/ id = requestId
  BY NewRequestSettles
<1>3. /\ wsstate' = wsstate /\ executed' = executed /\ serving' = serving
      /\ wsstate["client"] = "WS" => link' = link
      /\ \/ /\ sendBuffer' = [sendBuffer EXCEPT !["client"] = o]
            /\ UNCHANGED <<queued, wire>>
         \/ wsstate["client"] = "WS" /\ Sent("client", o, wire)
  BY NewRequestQueues
<1> HIDE DEF o
<1>4. /\ head \in Seq(RequestIds) /\ queued["client"] \in Seq(RequestIds)
      /\ sendBuffer["client"] \in Seq(RequestIds) /\ requestId \in Int
      /\ sendBuffer \in [Sides -> Seq(RequestIds)]
  <2>1. <<>> \in Seq(RequestIds)
    OBVIOUS
  <2> QED
    BY <2>1, QueueTypes, ClientAndServer DEF QueuesHoldIds, HInv, QueuesTypeOK
<1>5. Intact' => Intact
  BY <1>3 DEF Intact
<1>6. /\ queued'["server"] = queued["server"] /\ wire'["client"] = wire["client"]
      /\ sendBuffer'["server"] = sendBuffer["server"]
  BY <1>3, <1>4, ClientAndServer DEF Sent
<1>7. Intact => Outgoing' = Chain(head, queued["client"], o)
  <2> SUFFICES ASSUME Intact PROVE Outgoing' = Chain(head, queued["client"], o)
    OBVIOUS
  <2>1. CASE /\ sendBuffer' = [sendBuffer EXCEPT !["client"] = o]
             /\ UNCHANGED <<queued, wire>>
    <3>1. sendBuffer'["client"] = o
      BY <1>4, <2>1, ClientAndServer
    <3> QED
      BY <1>3, <2>1, <3>1 DEF Outgoing
  <2>2. CASE wsstate["client"] = "WS" /\ Sent("client", o, wire)
    <3>1. link = "connected"
      BY <2>2, UpgradedWires DEF Intact, HInv
    <3>2. Chain(wire'["server"], queued'["client"], sendBuffer'["client"])
            = Chain(wire["server"], queued["client"], o)
      BY <2>2, <3>1, ClientAndServer DEF Sent
    <3> QED
      BY <1>3, <2>2, <3>2 DEF Outgoing
  <2> QED
    BY <1>3, <2>1, <2>2
<1>8. Incoming' = Incoming
  BY <1>6 DEF Incoming
<1> DEFINE all == Chain(head, queued["client"], sendBuffer["client"])
<1>9. all \in Seq(RequestIds)
  BY <1>4, ChainProperties
<1>10. Intact' => OutgoingInOrder'
  <2> SUFFICES ASSUME Intact' PROVE OutgoingInOrder'
    OBVIOUS
  <2>1. InOrder(Chain(head, queued["client"], sendBuffer["client"]), requestId, executed)
    BY <1>5 DEF FInv, OutgoingInOrder, Outgoing
  <2> HIDE DEF head
  <2>2. InOrder(Chain(head, queued["client"], Append(sendBuffer["client"], requestId)),
                requestId + 2, executed)
    BY <1>1, <1>4, <2>1, ChainGrows
  <2>3. InOrder(Outgoing', requestId + 2, executed)
    BY <1>5, <1>7, <2>2 DEF o
  <2> QED
    BY <1>1, <1>3, <2>3 DEF OutgoingInOrder
<1>11. Intact' => IncomingOnce'
  <2> SUFFICES ASSUME Intact', wsstate["client"] = "WS"
               PROVE  Once(Incoming, serving, Answerable')
    BY <1>3, <1>8 DEF IncomingOnce
  <2>1. InOrder(all, requestId, executed)
    BY <1>5 DEF FInv, OutgoingInOrder, Outgoing
  <2>2. requestId \notin executed
    <3>1. executed = Before(requestId - 2 * Len(all)) /\ Len(all) \in Nat
      BY <1>9, <2>1 DEF InOrder
    <3> QED
      BY <1>4, <3>1 DEF Before
  <2>3. Answerable' \subseteq Answerable
    BY <1>2, <1>3, <2>2 DEF Answerable, HInv, RestTypeOK
  <2> QED
    BY <1>5, <2>3, OnceHolds DEF FInv, IncomingOnce
<1>12. AnswersAreExecuted'
  BY <1>3, <1>6 DEF FInv, AnswersAreExecuted
<1>13. ~Intact' => FramesInOrder'
  <2> SUFFICES ASSUME ~Intact' PROVE FramesInOrder'
    OBVIOUS
  <2>1. wsstate["client"] = "WS" /\ link = "failed" /\ wsstate["server"] = "WS"
    BY <1>3, UpgradedWires DEF Intact, HInv
  <2>2. wire'["server"] = wire["server"]
    BY <1>3, <2>1, ClientAndServer DEF Sent
  <2>3. Ahead(wire["server"], requestId, executed)
    BY <2>1 DEF FInv, FramesInOrder
  <2>4. Ahead(wire["server"], requestId + 2, executed)
    BY <1>4, <2>1, <2>3, AheadOfMore
  <2> QED
    BY <1>1, <1>3, <2>2, <2>4 DEF FramesInOrder
<1>14. FramesInOrder'
  BY <1>10, <1>13, InOrderOnWire
<1> QED
  BY <1>2, <1>10, <1>11, <1>12, <1>14 DEF FInv

\* A call fails, or is made, in the callback that returns or throws it.
LEMMA CallObeys ==
    ASSUME HInv, FInv, HInv', TwowayCall \/ OnewayCall \/ DrainStep
    PROVE  FInv' /\ Contract!Settle
<1>1. call \in [RequestIds -> Outcomes]
  BY DEF HInv, RestTypeOK
<1>2. CASE TwowayCall \/ OnewayCall
  BY <1>1, <1>2, NewRequestObeys DEF TwowayCall, OnewayCall
<1>3. CASE DrainDone
  <2>1. UNCHANGED <<call, queued, sendBuffer, executed, serving, requestId, wsstate, wire, link>>
    BY <1>3 DEF DrainDone, data, server, socket
  <2>2. Intact' = Intact
    BY <2>1 DEF Intact
  <2> QED
    BY <2>1, <2>2, SilentObeys
<1>4. ASSUME NEW id \in RequestIds, Drain(id)
      PROVE  FInv' /\ Contract!Settle
  <2> DEFINE failed == [call EXCEPT ![id] = "TIMEOUT"]
  <2>1. /\ failed \in [RequestIds -> Outcomes] /\ call[id] = "waiting"
        /\ failed[id] = "TIMEOUT"
        /\ \A other \in RequestIds \ {id} : failed[other] = call[other]
    BY <1>1, <1>4 DEF Drain, Waiting, Outcomes
  <2>2. \/ NewRequest("waiting", failed)
        \/ /\ call' = failed
           /\ UNCHANGED <<wsstate, data, writeWatch, due, state, requestId,
                          timers, ended, server, socket>>
    BY <1>4 DEF Drain
  <2> HIDE DEF failed
  <2>3. CASE NewRequest("waiting", failed)
    BY <2>1, <2>3, NewRequestObeys
  <2>4. CASE /\ call' = failed
             /\ UNCHANGED <<wsstate, data, writeWatch, due, state, requestId,
                            timers, ended, server, socket>>
    <3>1. UNCHANGED <<queued, sendBuffer, executed, serving, requestId, wsstate, wire, link>>
      BY <2>4 DEF data, server, socket
    <3>2. Intact' = Intact
      BY <3>1 DEF Intact
    <3>3. Contract!Settle
      BY <2>1, <2>4, <3>1 DEF Contract!Settle, Contract!Moves, Contract!Exceptions
    <3>4. UsedIdsAreIssued'
      BY <2>1, <2>4, <3>1 DEF FInv, UsedIdsAreIssued
    <3>5. \A other \in RequestIds : call'[other] = "waiting" => call[other] = "waiting"
      BY <2>1, <2>4
    <3>6. FInv'
      BY <3>1, <3>2, <3>4, <3>5, SilentFrames
    <3> QED
      BY <3>3, <3>6
  <2> QED
    BY <2>2, <2>3, <2>4
<1> QED
  BY <1>2, <1>3, <1>4 DEF DrainStep

\* The loop, the timer and the GET request.
LEMMA LoopObeys ==
    ASSUME HInv, FInv, HInv',
           (\E s \in Sides : Poll(s)) \/ Accept \/ ConnectEnds \/ CanWriteHttp \/ Timer
             \/ UNCHANGED vars
    PROVE  FInv' /\ Contract!Settle
<1>1. UNCHANGED <<call, queued, sendBuffer, executed, serving, requestId, wsstate>>
  <2>1. CASE \E s \in Sides : Poll(s)
    BY <2>1 DEF Poll, data, calls, server
  <2>2. CASE Accept \/ ConnectEnds \/ UNCHANGED vars
    BY <2>2 DEF Accept, ConnectEnds, program, vars, data, calls, server
  <2>3. CASE CanWriteHttp \/ Timer
    BY <2>3 DEF CanWriteHttp, Timer, calls, server
  <2> QED
    BY <2>1, <2>2, <2>3
<1>2. wsstate["client"] = "WS" => wire' = wire /\ link' = link
  <2> SUFFICES ASSUME wsstate["client"] = "WS" PROVE wire' = wire /\ link' = link
    OBVIOUS
  <2>1. state = "ESTABLISHED" /\ link \in {"connected", "failed"}
    BY UpgradedWires DEF HInv
  <2>2. CASE \E s \in Sides : Poll(s)
    BY <2>2 DEF Poll, data, socket
  <2>3. CASE Accept \/ ConnectEnds \/ UNCHANGED vars
    BY <2>1, <2>3 DEF Accept, ConnectEnds, vars, data, socket
  <2>4. CASE CanWriteHttp \/ Timer
    BY <2>1, <2>4 DEF CanWriteHttp, Timer
  <2> QED
    BY <2>2, <2>3, <2>4
<1>3. Intact' => Intact
  BY <1>1, <1>2 DEF Intact
<1> QED
  BY <1>1, <1>2, <1>3, SilentObeys

\* wslay goes on sending: the frames stay in order on their way.
LEMMA CanWriteObeys ==
    ASSUME HInv, FInv, HInv', NEW s \in Sides, CanWriteWs(s)
    PROVE  FInv' /\ Contract!Settle
<1>1. /\ wsstate[s] = "WS" /\ Sent(s, sendBuffer[s], wire) /\ Intact' = Intact
      /\ UNCHANGED <<wsstate, call, sendBuffer, executed, serving, requestId, link>>
  <2>1. Sent(s, sendBuffer[s], wire)
    BY CanWriteSends DEF HInv
  <2>2. /\ wsstate[s] = "WS"
        /\ UNCHANGED <<wsstate, call, sendBuffer, executed, serving, requestId, link>>
    BY DEF CanWriteWs, calls, server, socket
  <2> QED
    BY <2>1, <2>2 DEF Intact
<1>2. CASE wsstate["client"] # "WS"
  <2>1. s = "server" /\ queued["server"] = <<>> /\ sendBuffer["server"] = <<>>
    BY <1>1, <1>2 DEF HInv, Handshake, Modes, NoFramesYet, Sides
  <2>2. Range(queued'["server"]) = {}
    BY <1>1, <2>1, RangeOfNone DEF Sent
  <2>3. queued'["server"] = <<>> /\ queued'["client"] = queued["client"]
    BY <1>1, <2>1, <2>2, EmptyRange, ClientAndServer DEF HInv, QueuesTypeOK, Sent
  <2>4. queued' = queued
    <3>1. queued \in [Sides -> Seq(RequestIds)] /\ queued' \in [Sides -> Seq(RequestIds)]
      BY DEF HInv, QueuesTypeOK
    <3> QED
      BY <2>1, <2>3, <3>1, ClientAndServer
  <2> QED
    BY <1>1, <1>2, <2>4, SilentObeys
<1>3. CASE wsstate["client"] = "WS"
  <2>1. /\ wsstate["server"] = "WS" /\ link \in {"connected", "failed"}
    BY <1>3, UpgradedWires DEF HInv
  <2>2. Intact => Outgoing' = Outgoing /\ Incoming' = Incoming
    <3> SUFFICES ASSUME Intact PROVE Outgoing' = Outgoing /\ Incoming' = Incoming
      OBVIOUS
    <3>1. link = "connected"
      BY <1>3, <2>1 DEF Intact
    <3>2. CASE s = "client"
      <4>1. Chain(wire'["server"], queued'["client"], sendBuffer'["client"])
              = Chain(wire["server"], queued["client"], sendBuffer["client"])
        BY <1>1, <3>1, <3>2, ClientAndServer DEF Sent
      <4>2. wire'["client"] = wire["client"] /\ queued'["server"] = queued["server"]
        BY <1>1, <3>2, ClientAndServer DEF Sent
      <4> QED
        BY <1>1, <1>3, <4>1, <4>2 DEF Outgoing, Incoming
    <3>3. CASE s = "server"
      <4>1. Chain(wire'["client"], queued'["server"], sendBuffer'["server"])
              = Chain(wire["client"], queued["server"], sendBuffer["server"])
        BY <1>1, <3>1, <3>3, ClientAndServer DEF Sent
      <4>2. wire'["server"] = wire["server"] /\ queued'["client"] = queued["client"]
        BY <1>1, <3>3, ClientAndServer DEF Sent
      <4> QED
        BY <1>1, <1>3, <4>1, <4>2 DEF Outgoing, Incoming
    <3> QED
      BY <3>2, <3>3 DEF Sides
  <2>3. Intact' => OutgoingInOrder' /\ IncomingOnce'
    <3>1. Answerable' = Answerable
      BY <1>1 DEF Answerable
    <3> QED
      BY <1>1, <2>2, <3>1 DEF FInv, OutgoingInOrder, IncomingOnce
  <2>4. AnswersAreExecuted'
    <3>1. CASE s = "client"
      BY <1>1, <3>1, ClientAndServer DEF Sent, FInv, AnswersAreExecuted
    <3>2. CASE s = "server"
      BY <1>1, <1>3, <3>2, ClientAndServer DEF Sent, FInv, AnswersAreExecuted
    <3> QED
      BY <3>1, <3>2 DEF Sides
  <2>5. ~Intact' => FramesInOrder'
    <3>1. ~Intact' => wire'["server"] = wire["server"]
      BY <1>1, <1>3, <2>1, ClientAndServer DEF Sent, Intact, Sides
    <3> QED
      BY <1>1, <3>1 DEF FInv, FramesInOrder
  <2>6. FramesInOrder'
    BY <2>3, <2>5, InOrderOnWire
  <2>7. UsedIdsAreIssued' /\ Contract!Settle
    BY <1>1 DEF FInv, UsedIdsAreIssued, Contract!Settle
  <2> QED
    BY <2>3, <2>4, <2>6, <2>7 DEF FInv
<1> QED
  BY <1>2, <1>3

-----------------------------------------------------------------------------
\* The upgrade: before it the server was sent nothing, after it the client's
\* buffer is on its way.
LEMMA HttpRcvdObeys ==
    ASSUME HInv, FInv, HInv', NEW s \in Sides, NEW n \in 1 .. Len(wire[s]), HttpRcvd(s, n)
    PROVE  FInv' /\ Contract!Settle
<1> DEFINE rest == SubSeq(wire[s], n + 1, Len(wire[s]))
           others == [wire EXCEPT ![s] = rest]
           have == headers[s] + n
<1>1. /\ wsstate[s] # "WS" /\ UNCHANGED <<call, requestId, serving, executed, link>>
  BY DEF HttpRcvd, calls, server, socket
<1>2. /\ Cardinality({i \in 1 .. n : wire[s][i] = HeaderPart}) = n
      /\ rest \in Seq(Tokens)
      /\ have >= 2 => rest = <<>>
  BY <1>1, HeaderParts
<1>3. Len(HttpHeader) = 2
  BY DEF HttpHeader
<1>4. IF have < 2
      THEN wire' = others /\ UNCHANGED <<wsstate, sendBuffer, queued>>
      ELSE /\ wsstate' = [wsstate EXCEPT ![s] = "WS"]
           /\ flushSendBuffer(s, sendBuffer[s], Response(s, others))
  BY <1>2, <1>3 DEF HttpRcvd, startWSMode
<1> HIDE DEF rest
<1>5. wsstate["client"] # "WS" /\ wsstate["client"] = "HTTP_CLIENT"
  BY <1>1 DEF HInv, Handshake, Modes, Sides
<1>6. /\ queued["client"] = <<>> /\ queued["server"] = <<>> /\ sendBuffer["server"] = <<>>
      /\ serving = {} /\ executed = {}
  BY <1>5 DEF HInv, Handshake, NoFramesYet
<1>7. Intact /\ UsedIdsAreIssued' /\ Contract!Settle
  BY <1>1, <1>5 DEF Intact, FInv, UsedIdsAreIssued, Contract!Settle
<1>8. /\ others \in [Sides -> Seq(Tokens)]
      /\ others[s] = rest /\ others[Other(s)] = wire[Other(s)]
      /\ sendBuffer[s] \in Seq(RequestIds)
  BY <1>2, OtherSide DEF HInv, QueuesTypeOK
<1>9. have >= 2 <=> ~(have < 2)
  <2>1. headers[s] \in 0 .. 2
    BY <1>1, HeaderParts
  <2>2. n \in Int
    OBVIOUS
  <2> QED
    BY <2>1, <2>2
<1> HIDE DEF others, have
<1>10. CASE have < 2
  BY <1>1, <1>4, <1>5, <1>7, <1>10, SilentObeys
<1>11. CASE ~(have < 2) /\ s = "server"
  <2>1. /\ wsstate' = [wsstate EXCEPT !["server"] = "WS"]
        /\ flushSendBuffer("server", <<>>, Response(s, others))
    BY <1>4, <1>6, <1>11
  <2>2. queued' = queued /\ sendBuffer' = [sendBuffer EXCEPT !["server"] = <<>>]
    BY <2>1 DEF flushSendBuffer
  <2>3. sendBuffer' = sendBuffer /\ wsstate'["client"] = wsstate["client"]
    BY <1>6, <2>1, <2>2, ClientAndServer DEF HInv, QueuesTypeOK, RestTypeOK
  <2> QED
    BY <1>1, <1>5, <1>7, <2>2, <2>3, SilentObeys
<1>12. CASE ~(have < 2) /\ s = "client"
  <2>1. /\ wsstate' = [wsstate EXCEPT !["client"] = "WS"]
        /\ Sent("client", sendBuffer["client"], others)
    BY <1>4, <1>8, <1>12, FlushSends DEF Response, HInv
  <2>2. wsstate'["client"] = "WS" /\ wsstate'["server"] = wsstate["server"]
    BY <2>1, ClientAndServer DEF HInv, RestTypeOK
  <2>3. others["client"] = <<>> /\ others["server"] = <<>>
    <3>1. wire["client"] # <<>>
      BY <1>12, EmptyLen
    <3>2. wire["server"] = <<>>
      BY <1>5, <3>1 DEF HInv, Handshake, Modes, ResponseFollowsGet, NoFramesYet
    <3> QED
      BY <1>2, <1>8, <1>9, <1>12, <3>2, ClientAndServer DEF have
  <2>4. /\ wire'["client"] = <<>> /\ queued'["server"] = <<>> /\ sendBuffer'["server"] = <<>>
    BY <1>6, <2>1, <2>3, ClientAndServer DEF Sent
  <2>5. Answerable' = {}
    BY <1>1, <1>6 DEF Answerable
  <2>6. IncomingOnce'
    BY <1>1, <1>6, <2>4, <2>5, ChainOfNone DEF IncomingOnce, Incoming
  <2>7. Intact' => OutgoingInOrder'
    <3> SUFFICES ASSUME Intact' PROVE OutgoingInOrder'
      OBVIOUS
    <3>1. link = "connected"
      <4>1. link' \in {"connected", "failed"}
        BY <2>2 DEF HInv, Handshake, GetIsSentOnce, Modes, Fresh
      <4> QED
        BY <1>1, <2>2, <4>1 DEF Intact
    <3>2. Chain(wire'["server"], queued'["client"], sendBuffer'["client"])
            = Chain(<<>>, queued["client"], sendBuffer["client"])
      BY <2>1, <2>3, <3>1, ClientAndServer DEF Sent
    <3>3. Outgoing' = Outgoing
      BY <1>5, <2>2, <3>2 DEF Outgoing
    <3> QED
      BY <1>1, <1>7, <3>3 DEF FInv, OutgoingInOrder
  <2>8. ~Intact' => FramesInOrder'
    <3>1. ~Intact' => wire'["server"] = <<>>
      BY <1>1, <2>1, <2>3, ClientAndServer DEF Sent, Intact
    <3> QED
      BY <3>1, ChainOfNone DEF FramesInOrder
  <2>9. FramesInOrder'
    BY <2>7, <2>8, InOrderOnWire
  <2>10. AnswersAreExecuted'
    BY <1>1, <1>6, <2>4, RangeOfNone DEF AnswersAreExecuted
  <2> QED
    BY <1>7, <2>6, <2>7, <2>9, <2>10 DEF FInv
<1> QED
  BY <1>10, <1>11, <1>12 DEF Sides

\* A request arrives: it is the next, and its answer the last.
LEMMA ServerRcvdObeys ==
    ASSUME HInv, FInv, HInv', ServerRcvd
    PROVE  FInv' /\ Contract!Execute
<1> DEFINE id == Head(wire["server"])
           b == Append(sendBuffer["server"], id)
<1>1. /\ Frame("server") /\ executed' = executed \cup {id} /\ call' = call
      /\ \/ /\ flushSendBuffer("server", b, Behind("server"))
            /\ serving' = serving
         \/ /\ serving' = IF call[id] = "oneway" THEN serving ELSE serving \cup {id}
            /\ wire' = Behind("server")
            /\ UNCHANGED <<sendBuffer, queued>>
  BY DEF ServerRcvd
<1>2. /\ wsstate["client"] = "WS" /\ wire["server"] # <<>> /\ id \in RequestIds
      /\ UNCHANGED <<wsstate, requestId, link>>
  BY <1>1, FrameProperties, ClientAndServer DEF socket
<1>3. /\ wire["server"] \in Seq(RequestIds) /\ wire["client"] \in Seq(RequestIds)
      /\ queued["server"] \in Seq(RequestIds) /\ sendBuffer["server"] \in Seq(RequestIds)
      /\ queued["client"] \in Seq(RequestIds) /\ sendBuffer["client"] \in Seq(RequestIds)
      /\ requestId \in Int
  BY <1>2, QueueTypes, ClientAndServer DEF QueuesHoldIds
<1>4. /\ wsstate["server"] = "WS" /\ link \in {"connected", "failed"}
  BY <1>2, UpgradedWires DEF HInv
<1>5. /\ Ahead(Tail(wire["server"]), requestId, executed \cup {id})
      /\ id < requestId /\ \A old \in executed : old < id
  <2>1. Ahead(wire["server"], requestId, executed)
    BY <1>4 DEF FInv, FramesInOrder
  <2> QED
    BY <1>2, <1>3, <2>1, AheadTail
<1>6. /\ Behind("server") \in [Sides -> Seq(Tokens)]
      /\ Behind("server")["server"] = Tail(wire["server"])
      /\ Behind("server")["client"] = wire["client"]
  BY <1>2, BehindProperties, ClientAndServer DEF HInv
<1>7. b \in Seq(RequestIds) /\ Range(b) = Range(sendBuffer["server"]) \cup {id}
  BY <1>2, <1>3, AppendRange
<1>8. id \notin executed
  <2> HIDE DEF id
  <2>1. id \in Int
    BY <1>2, IdsAreEven
  <2> QED
    BY <1>5, <2>1
<1> HIDE DEF b
<1>9. \/ Sent("server", b, Behind("server")) /\ serving' = serving
      \/ /\ serving' = IF call[id] = "oneway" THEN serving ELSE serving \cup {id}
         /\ wire' = Behind("server")
         /\ UNCHANGED <<sendBuffer, queued>>
  BY <1>1, <1>6, <1>7, FlushSends, ClientAndServer DEF HInv
<1>10. /\ wire'["server"] = Tail(wire["server"])
       /\ queued'["client"] = queued["client"] /\ sendBuffer'["client"] = sendBuffer["client"]
  BY <1>6, <1>9, ClientAndServer DEF Sent
<1> HIDE DEF id
<1>11. Contract!Execute
  <2>1. call[id] # "unused"
    <3>1. ~(id >= requestId)
      BY <1>2, <1>3, <1>5, IdsAreEven
    <3> QED
      BY <1>2, <3>1 DEF FInv, UsedIdsAreIssued
  <2> DEFINE new == {id}
  <2>2. new \in SUBSET RequestIds /\ executed' = executed \cup new
    BY <1>1, <1>2
  <2>3. /\ \A e \in new : call[e] # "unused"
        /\ \A e \in new, old \in executed : old < e
    BY <1>5, <2>1
  <2> HIDE DEF new
  <2> QED
    BY <1>1, <2>2, <2>3 DEF Contract!Execute
<1>12. FramesInOrder'
  BY <1>1, <1>2, <1>5, <1>10 DEF FramesInOrder
<1>13. AnswersAreExecuted'
  BY <1>1, <1>2, <1>6, <1>7, <1>9, ClientAndServer DEF FInv, AnswersAreExecuted, Sent
<1>14. UsedIdsAreIssued'
  BY <1>1, <1>2 DEF FInv, UsedIdsAreIssued
<1>15. Intact' = Intact
  BY <1>2 DEF Intact
<1>16. Intact => OutgoingInOrder'
  <2> SUFFICES ASSUME Intact PROVE OutgoingInOrder'
    OBVIOUS
  <2>1. InOrder(Chain(wire["server"], queued["client"], sendBuffer["client"]),
                requestId, executed)
    BY <1>2 DEF FInv, OutgoingInOrder, Outgoing
  <2>2. InOrder(Chain(Tail(wire["server"]), queued["client"], sendBuffer["client"]),
                requestId, executed \cup {id})
    BY <1>2, <1>3, <2>1, ChainShrinks DEF id
  <2>3. Outgoing' = Chain(Tail(wire["server"]), queued["client"], sendBuffer["client"])
    BY <1>2, <1>10 DEF Outgoing
  <2> QED
    BY <1>1, <1>2, <2>2, <2>3 DEF OutgoingInOrder
<1>17. Intact => IncomingOnce'
  <2> SUFFICES ASSUME Intact PROVE Once(Incoming', serving', Answerable')
    BY DEF IncomingOnce
  <2>1. Once(Incoming, serving, Answerable) /\ link = "connected"
    BY <1>2, <1>4 DEF FInv, IncomingOnce, Intact
  <2>2. /\ id \notin serving
        /\ id \notin Range(wire["client"]) \cup Range(queued["server"])
                       \cup Range(sendBuffer["server"])
    BY <1>2, <1>8 DEF FInv, AnswersAreExecuted
  <2>3. /\ Answerable' \subseteq Answerable \cup {id}
        /\ call[id] = "oneway" => Answerable' \subseteq Answerable
    BY <1>1 DEF Answerable
  <2>4. CASE Sent("server", b, Behind("server")) /\ serving' = serving
    <3>1. Incoming' = Chain(wire["client"], queued["server"], b)
      BY <1>6, <2>1, <2>4, ClientAndServer DEF Sent, Incoming
    <3>2. Once(Chain(wire["client"], queued["server"], sendBuffer["server"]),
               serving, Answerable)
      BY <2>1 DEF Incoming
    <3>3. Once(Chain(wire["client"], queued["server"], Append(sendBuffer["server"], id)),
               serving, Answerable \cup {id})
      BY <1>2, <1>3, <2>2, <3>2, OnceGrows
    <3>4. Once(Incoming', serving', Answerable \cup {id})
      BY <2>4, <3>1, <3>3 DEF b
    <3> QED
      BY <2>3, <3>4, OnceHolds
  <2>5. CASE /\ serving' = IF call[id] = "oneway" THEN serving ELSE serving \cup {id}
             /\ wire' = Behind("server")
             /\ UNCHANGED <<sendBuffer, queued>>
    <3>1. Incoming' = Incoming
      BY <1>6, <2>5 DEF Incoming
    <3>2. Range(Incoming) = Range(wire["client"]) \cup Range(queued["server"])
                              \cup Range(sendBuffer["server"])
      BY <1>3, ChainRange DEF Incoming
    <3>3. Once(Incoming, serving \cup {id}, Answerable \cup {id})
      BY <2>1, <2>2, <3>2, OnceHolds
    <3> QED
      BY <2>1, <2>3, <2>5, <3>1, <3>3, OnceHolds
  <2> QED
    BY <1>9, <2>4, <2>5
<1> QED
  BY <1>11, <1>12, <1>13, <1>14, <1>15, <1>16, <1>17 DEF FInv

\* A servant ends: its reply goes to the end.
LEMMA ServerRepliesObeys ==
    ASSUME HInv, FInv, HInv', NEW id \in RequestIds, ServerReplies(id)
    PROVE  FInv' /\ Contract!Settle
<1> DEFINE b == Append(sendBuffer["server"], id)
<1>1. /\ id \in serving /\ serving' = serving \ {id}
      /\ flushSendBuffer("server", b, wire)
      /\ UNCHANGED <<wsstate, call, requestId, executed, link>>
  BY DEF ServerReplies, calls, socket
<1>2. wsstate["client"] = "WS"
  BY <1>1 DEF HInv, Handshake, Modes, NoFramesYet
<1>3. /\ wire["client"] \in Seq(RequestIds)
      /\ queued["server"] \in Seq(RequestIds) /\ sendBuffer["server"] \in Seq(RequestIds)
  BY <1>2, QueueTypes, ClientAndServer DEF QueuesHoldIds
<1>4. /\ link \in {"connected", "failed"}
  BY <1>2, UpgradedWires DEF HInv
<1>5. b \in Seq(RequestIds) /\ Range(b) = Range(sendBuffer["server"]) \cup {id}
  BY <1>3, AppendRange
<1> HIDE DEF b
<1>6. Sent("server", b, wire)
  <2>1. wire \in [Sides -> Seq(Tokens)]
    BY DEF HInv, QueuesTypeOK
  <2> QED
    BY <1>1, <1>5, <2>1, FlushSends, ClientAndServer DEF HInv
<1>7. /\ wire'["server"] = wire["server"]
      /\ queued'["client"] = queued["client"] /\ sendBuffer'["client"] = sendBuffer["client"]
  BY <1>6, ClientAndServer DEF Sent
<1>8. UsedIdsAreIssued' /\ Contract!Settle /\ Intact' = Intact
  BY <1>1 DEF FInv, UsedIdsAreIssued, Contract!Settle, Intact
<1>9. FramesInOrder'
  BY <1>1, <1>7 DEF FInv, FramesInOrder
<1>10. AnswersAreExecuted'
  BY <1>1, <1>2, <1>5, <1>6, ClientAndServer DEF FInv, AnswersAreExecuted, Sent
<1>11. Intact => OutgoingInOrder'
  BY <1>1, <1>7 DEF FInv, OutgoingInOrder, Outgoing
<1>12. Intact => IncomingOnce'
  <2> SUFFICES ASSUME Intact PROVE Once(Incoming', serving', Answerable')
    BY DEF IncomingOnce
  <2>1. Once(Incoming, serving, Answerable) /\ link = "connected"
    BY <1>2, <1>4 DEF FInv, IncomingOnce, Intact
  <2>2. Range(Incoming) = Range(wire["client"]) \cup Range(queued["server"])
                            \cup Range(sendBuffer["server"])
    BY <1>3, ChainRange DEF Incoming
  <2>3. id \notin Range(wire["client"]) \cup Range(queued["server"])
                    \cup Range(sendBuffer["server"])
    BY <1>1, <2>1, <2>2 DEF Once
  <2>4. Incoming' = Chain(wire["client"], queued["server"], b)
    BY <1>6, <2>1, ClientAndServer DEF Sent, Incoming
  <2>5. Once(Chain(wire["client"], queued["server"], sendBuffer["server"]),
             serving, Answerable)
    BY <2>1 DEF Incoming
  <2>6. Once(Chain(wire["client"], queued["server"], Append(sendBuffer["server"], id)),
             serving \ {id}, Answerable \cup {id})
    BY <1>3, <2>3, <2>5, OnceGrows
  <2>7. Once(Incoming', serving', Answerable \cup {id})
    BY <1>1, <2>4, <2>6 DEF b
  <2>8. Answerable' \subseteq Answerable \cup {id}
    BY <1>1 DEF Answerable
  <2> QED
    BY <2>7, <2>8, OnceHolds
<1> QED
  BY <1>8, <1>9, <1>10, <1>11, <1>12 DEF FInv

\* A reply arrives: its caller, if it still waits, goes on.
LEMMA ClientRcvdObeys ==
    ASSUME HInv, FInv, HInv', ClientRcvd
    PROVE  FInv' /\ Contract!Settle
<1> DEFINE id == Head(wire["client"])
<1>1. /\ Frame("client") /\ call' = Resumed(id) /\ wire' = Behind("client")
      /\ UNCHANGED <<sendBuffer, queued, serving, executed>>
  BY DEF ClientRcvd
<1>2. /\ wsstate["client"] = "WS" /\ wire["client"] # <<>> /\ id \in RequestIds
      /\ UNCHANGED <<wsstate, requestId, link>>
  BY <1>1, FrameProperties, ClientAndServer DEF socket
<1>3. /\ wire["client"] \in Seq(RequestIds)
      /\ queued["server"] \in Seq(RequestIds) /\ sendBuffer["server"] \in Seq(RequestIds)
  BY <1>2, QueueTypes, ClientAndServer DEF QueuesHoldIds
<1>4. /\ wire'["client"] = Tail(wire["client"]) /\ wire'["server"] = wire["server"]
  BY <1>1, <1>2, BehindProperties, ClientAndServer DEF HInv
<1>5. Range(wire["client"]) = {id} \cup Range(Tail(wire["client"]))
  BY <1>2, <1>3, TailProperties
<1>6. id \in executed
  BY <1>2, <1>5 DEF FInv, AnswersAreExecuted
<1>7. Intact => IncomingOnce'
  <2> SUFFICES ASSUME Intact PROVE Once(Incoming', serving', Answerable')
    BY DEF IncomingOnce
  <2>1. Once(Chain(wire["client"], queued["server"], sendBuffer["server"]),
             serving, Answerable)
    BY <1>2 DEF FInv, IncomingOnce, Incoming
  <2>2. Once(Chain(Tail(wire["client"]), queued["server"], sendBuffer["server"]),
             serving, Answerable \ {id})
    BY <1>2, <1>3, <2>1, OnceShrinks
  <2>3. Incoming' = Chain(Tail(wire["client"]), queued["server"], sendBuffer["server"])
    BY <1>1, <1>4 DEF Incoming
  <2> HIDE DEF id
  <2>4. Answerable' \subseteq Answerable \ {id}
    BY <1>1, <1>2 DEF Answerable, Resumed, HInv, RestTypeOK
  <2> QED
    BY <1>1, <2>2, <2>3, <2>4, OnceHolds
<1>8. AnswersAreExecuted'
  BY <1>1, <1>2, <1>4, <1>5 DEF FInv, AnswersAreExecuted
<1> HIDE DEF id
<1>9. Contract!Settle
  BY <1>1, <1>2, <1>6
  DEF Resumed, HInv, RestTypeOK, Contract!Settle, Contract!Moves, Contract!Exceptions
<1>10. UsedIdsAreIssued'
  BY <1>1, <1>2 DEF FInv, UsedIdsAreIssued, Resumed, HInv, RestTypeOK
<1>11. FramesInOrder'
  BY <1>1, <1>2, <1>4 DEF FInv, FramesInOrder
<1>12. Intact => OutgoingInOrder'
  BY <1>1, <1>2, <1>4 DEF FInv, OutgoingInOrder, Outgoing
<1>13. Intact' = Intact
  BY <1>2 DEF Intact
<1> QED
  BY <1>7, <1>8, <1>9, <1>10, <1>11, <1>12, <1>13 DEF FInv

\* The socket is lost, and with it what is on the wires, or part of it.
LEMMA ResetObeys ==
    ASSUME HInv, FInv, HInv', Reset
    PROVE  FInv' /\ Contract!Settle
<1>1. /\ UNCHANGED <<wsstate, sendBuffer, queued, call, requestId, serving, executed>>
      /\ link' = "failed"
  BY DEF Reset, program, calls, server
<1>2. CASE wsstate["client"] # "WS"
  <2>1. Intact
    BY <1>2 DEF Intact
  <2> QED
    BY <1>1, <1>2, <2>1, SilentObeys
<1>3. CASE wsstate["client"] = "WS"
  <2>1. ~Intact'
    BY <1>1, <1>3 DEF Intact
  <2>2. \A s \in Sides : wire'[s] = wire[s] \/ wire'[s] = <<>>
    BY DEF Reset
  <2>3. FramesInOrder'
    BY <1>1, <2>2, ChainOfNone, ClientAndServer DEF FInv, FramesInOrder
  <2>4. AnswersAreExecuted'
    BY <1>1, <2>2, RangeOfNone, ClientAndServer DEF FInv, AnswersAreExecuted
  <2>5. UsedIdsAreIssued' /\ Contract!Settle
    BY <1>1 DEF FInv, UsedIdsAreIssued, Contract!Settle
  <2> QED
    BY <2>1, <2>3, <2>4, <2>5 DEF FInv
<1> QED
  BY <1>2, <1>3

-----------------------------------------------------------------------------
\* At the start nothing is issued and nothing on its way.
LEMMA InitFInv == Init => FInv /\ Contract!Init
<1> SUFFICES ASSUME Init PROVE FInv /\ Contract!Init
  OBVIOUS
<1>1. /\ wsstate["client"] = "HTTP_CLIENT" /\ wsstate["server"] = "HTTP_SERVER"
      /\ queued["client"] = <<>> /\ sendBuffer["client"] = <<>>
      /\ queued["server"] = <<>> /\ sendBuffer["server"] = <<>>
      /\ requestId = 0 /\ call = [id \in RequestIds |-> "unused"]
      /\ executed = {} /\ serving = {}
  BY ClientAndServer DEF Init
<1>2. \A id \in RequestIds : id \in Int /\ id >= 0
  BY ConstantsAssumption DEF RequestIds
<1>3. UsedIdsAreIssued
  BY <1>1, <1>2 DEF UsedIdsAreIssued
<1>4. FramesInOrder /\ AnswersAreExecuted /\ IncomingOnce
  BY <1>1, RangeOfNone DEF FramesInOrder, AnswersAreExecuted, IncomingOnce
<1>5. OutgoingInOrder
  <2>1. Outgoing = <<>>
    BY <1>1, ChainOfNone DEF Outgoing
  <2>2. Before(0 - 2 * 0) = {}
    BY <1>2 DEF Before
  <2> QED
    BY <1>1, <2>1, <2>2, EmptyLen DEF OutgoingInOrder, InOrder
<1> QED
  BY <1>1, <1>3, <1>4, <1>5 DEF FInv, Contract!Init

\* Every step keeps the invariant and is one of the contract, or a stutter.
LEMMA StepFInv ==
    ASSUME HInv, FInv, HInv', [Next]_vars
    PROVE  FInv' /\ (Contract!Settle \/ Contract!Execute)
<1>1. CASE TwowayCall \/ OnewayCall \/ DrainStep
  BY <1>1, CallObeys
<1>2. CASE \/ \E s \in Sides : Poll(s)
           \/ Accept \/ ConnectEnds \/ CanWriteHttp \/ Timer \/ UNCHANGED vars
  BY <1>2, LoopObeys
<1>3. CASE \E s \in Sides : CanWriteWs(s)
  BY <1>3, CanWriteObeys
<1>4. CASE \E s \in Sides : \E n \in 1 .. Len(wire[s]) : HttpRcvd(s, n)
  BY <1>4, HttpRcvdObeys
<1>5. CASE ServerRcvd
  BY <1>5, ServerRcvdObeys
<1>6. CASE ClientRcvd
  BY <1>6, ClientRcvdObeys
<1>7. CASE \E id \in RequestIds : ServerReplies(id)
  BY <1>7, ServerRepliesObeys
<1>8. CASE Reset
  BY <1>8, ResetObeys
<1> QED
  BY <1>1, <1>2, <1>3, <1>4, <1>5, <1>6, <1>7, <1>8 DEF Next, CanWrite, CanRead

\* The calls over a WebSocket keep the contract of _twowayCall and onewayCall that
\* those over TCP keep: settled once, answered only when executed, in order.
THEOREM ConnectionImplementsContract == Spec => ImplementsContract
<1>1. HInv /\ FInv /\ HInv' /\ [Next]_vars => FInv' /\ Contract!Next
  BY StepFInv DEF Contract!Next
<1> QED
  BY <1>1, InitFInv, UpgradeInvariance, PTL DEF Spec, ImplementsContract, Contract!Spec

-----------------------------------------------------------------------------
(* From the order and the places to the counts of NothingLost.                *)

AtOnePlace(id, q) ==
    \E i \in 1 .. Len(q) : q[i] = id /\ \A j \in 1 .. Len(q) : q[j] = id => j = i

\* Times counts one place as one and none as none.
LEMMA TimesAtOnePlace ==
    ASSUME NEW S, NEW q \in Seq(S), NEW id
    PROVE  /\ AtOnePlace(id, q) => Times(id, q) = 1
           /\ id \notin Range(q) => Times(id, q) = 0
<1>1. DOMAIN q = 1 .. Len(q)
  OBVIOUS
<1>2. ASSUME AtOnePlace(id, q) PROVE Times(id, q) = 1
  <2>1. PICK i \in 1 .. Len(q) : q[i] = id /\ \A j \in 1 .. Len(q) : q[j] = id => j = i
    BY <1>2 DEF AtOnePlace
  <2>2. {j \in DOMAIN q : q[j] = id} = {i}
    BY <1>1, <2>1
  <2> QED
    BY <2>2, FS_Singleton DEF Times
<1>3. ASSUME id \notin Range(q) PROVE Times(id, q) = 0
  <2>1. {j \in DOMAIN q : q[j] = id} = {}
    BY <1>3 DEF Range
  <2> QED
    BY <2>1, FS_EmptySet DEF Times
<1> QED
  BY <1>2, <1>3

\* HTTP headers in front of a frame do not count.
LEMMA AtOnePlaceBehind ==
    ASSUME NEW S, NEW a \in Seq(S), NEW b \in Seq(S), NEW id, id \notin Range(a),
           AtOnePlace(id, b)
    PROVE  AtOnePlace(id, Cat(a, b))
<1> DEFINE q == Cat(a, b)
<1>1. /\ Len(q) = Len(a) + Len(b) /\ Len(a) \in Nat /\ Len(b) \in Nat
      /\ \A i \in 1 .. Len(q) : q[i] = IF i <= Len(a) THEN a[i] ELSE b[i - Len(a)]
  BY ConcatProperties DEF Cat
<1> HIDE DEF q
<1>2. PICK i \in 1 .. Len(b) : b[i] = id /\ \A j \in 1 .. Len(b) : b[j] = id => j = i
  BY DEF AtOnePlace
<1>3. \A j \in 1 .. Len(a) : a[j] # id
  <2>1. DOMAIN a = 1 .. Len(a)
    OBVIOUS
  <2> QED
    BY <2>1 DEF Range
<1>4. Len(a) + i \in 1 .. Len(q) /\ q[Len(a) + i] = id
  <2>1. /\ Len(a) + i \in 1 .. Len(q) /\ ~(Len(a) + i <= Len(a))
        /\ (Len(a) + i) - Len(a) = i
    BY <1>1
  <2>2. q[Len(a) + i] = b[i]
    BY <1>1, <2>1
  <2> QED
    BY <1>2, <2>1, <2>2
<1>5. ASSUME NEW j \in 1 .. Len(q), q[j] = id PROVE j = Len(a) + i
  <2>1. ~(j <= Len(a))
    BY <1>1, <1>3, <1>5
  <2>2. j - Len(a) \in 1 .. Len(b) /\ b[j - Len(a)] = id
    BY <1>1, <1>5, <2>1
  <2>3. j - Len(a) = i
    BY <1>2, <2>2
  <2> QED
    BY <1>1, <2>3
<1> QED
  BY <1>4, <1>5 DEF AtOnePlace, q

\* Of the requests issued, those not yet executed are on their way, once.
LEMMA InOrderHoldsAll ==
    ASSUME NEW n \in Int, \E k \in Int : n = 2 * k, NEW q \in Seq(RequestIds), NEW done,
           InOrder(q, n, done), NEW id \in RequestIds, id < n
    PROVE  IF id \in done THEN id \notin Range(q) ELSE AtOnePlace(id, q)
<1>1. PICK k \in Int : n = 2 * k
  OBVIOUS
<1>2. PICK m \in Int : id = 2 * m
  BY DEF RequestIds
<1>3. /\ Len(q) \in Nat /\ Range(q) = {q[i] : i \in 1 .. Len(q)}
  BY RangeEquality
<1>4. /\ \A i \in 1 .. Len(q) : q[i] = n - 2 * (Len(q) + 1 - i)
      /\ done = Before(n - 2 * Len(q))
  BY DEF InOrder
<1>5. CASE id \in done
  <2>1. id < n - 2 * Len(q)
    BY <1>4, <1>5 DEF Before
  <2>2. ASSUME NEW i \in 1 .. Len(q) PROVE q[i] # id
    <3>1. n - 2 * (Len(q) + 1 - i) > id
      BY <1>2, <1>3, <2>1
    <3> QED
      BY <1>2, <1>4, <3>1
  <2> QED
    BY <1>3, <1>5, <2>2
<1>6. CASE id \notin done
  <2>1. ~(id < n - 2 * Len(q))
    BY <1>4, <1>6 DEF Before
  <2> DEFINE i == Len(q) + 1 - (k - m)
  <2>2. i \in 1 .. Len(q)
    BY <1>1, <1>2, <1>3, <2>1
  <2>3. n - 2 * (Len(q) + 1 - i) = id
    BY <1>1, <1>2, <1>3
  <2>4. ASSUME NEW j \in 1 .. Len(q), q[j] = id PROVE j = i
    <3>1. n - 2 * (Len(q) + 1 - j) = id
      BY <1>4, <2>4
    <3> QED
      BY <1>1, <1>2, <1>3, <3>1
  <2> HIDE DEF i
  <2>5. q[i] = id
    BY <1>4, <2>2, <2>3
  <2> QED
    BY <1>6, <2>2, <2>4, <2>5 DEF AtOnePlace
<1> QED
  BY <1>5, <1>6

\* A reply that is wanted is with its servant or on its way, once.
LEMMA OnceAtOnePlace ==
    ASSUME NEW q \in Seq(RequestIds), NEW held, NEW wanted, Once(q, held, wanted),
           NEW id \in wanted
    PROVE  IF id \in held THEN id \notin Range(q) ELSE AtOnePlace(id, q)
<1>1. CASE id \in held
  BY <1>1 DEF Once
<1>2. CASE id \notin held
  <2>1. id \in Range(q) /\ Range(q) = {q[i] : i \in 1 .. Len(q)}
    BY <1>2, RangeEquality DEF Once
  <2>2. PICK i \in 1 .. Len(q) : q[i] = id
    BY <2>1
  <2>3. \A j \in 1 .. Len(q) : q[j] = id => j = i
    BY <2>2 DEF Once
  <2> QED
    BY <1>2, <2>2, <2>3 DEF AtOnePlace
<1> QED
  BY <1>1, <1>2

\* The two invariants imply NothingLost.
LEMMA AllAreSomewhere == HInv /\ FInv => NothingLost
<1> SUFFICES ASSUME HInv, FInv, Intact, NEW id \in RequestIds
             PROVE  /\ id < requestId =>
                         1 = Times(id, Chain(wire["server"], queued["client"],
                                             sendBuffer["client"]))
                             + One(id \in executed)
                    /\ id \in executed /\ call[id] = "waiting" =>
                         1 = Times(id, Chain(wire["client"], queued["server"],
                                             sendBuffer["server"]))
                             + One(id \in serving)
  BY DEF NothingLost, Intact, Chain, Cat
<1> DEFINE out == Chain(wire["server"], queued["client"], sendBuffer["client"])
           in  == Chain(wire["client"], queued["server"], sendBuffer["server"])
<1>1. OutgoingInOrder /\ IncomingOnce
  BY DEF FInv
<1>2. requestId \in Int /\ \E k \in Int : requestId = 2 * k
  BY ConstantsAssumption DEF HInv, RestTypeOK
<1>3. /\ wire["server"] \in Seq(Tokens) /\ wire["client"] \in Seq(Tokens)
      /\ queued["client"] \in Seq(RequestIds) /\ sendBuffer["client"] \in Seq(RequestIds)
      /\ queued["server"] \in Seq(RequestIds) /\ sendBuffer["server"] \in Seq(RequestIds)
  BY ClientAndServer DEF HInv, QueuesTypeOK
<1>4. RequestIds \subseteq Tokens /\ HeaderPart \notin RequestIds
  BY ConstantsAssumption DEF Tokens, HeaderPart, RequestIds
<1>5. CASE wsstate["client"] = "WS"
  <2>1. /\ wire["server"] \in Seq(RequestIds) /\ wire["client"] \in Seq(RequestIds)
    BY <1>5, QueueTypes, ClientAndServer DEF QueuesHoldIds
  <2>2. out \in Seq(RequestIds) /\ in \in Seq(RequestIds)
    BY <1>3, <2>1, ChainProperties
  <2>3. InOrder(out, requestId, executed) /\ Once(in, serving, Answerable)
    BY <1>1, <1>5 DEF OutgoingInOrder, Outgoing, IncomingOnce, Incoming
  <2> HIDE DEF out, in
  <2>4. ASSUME id < requestId PROVE 1 = Times(id, out) + One(id \in executed)
    <3>1. IF id \in executed THEN id \notin Range(out) ELSE AtOnePlace(id, out)
      BY <1>2, <2>2, <2>3, <2>4, InOrderHoldsAll
    <3>2. IF id \in executed THEN Times(id, out) = 0 ELSE Times(id, out) = 1
      BY <2>2, <3>1, TimesAtOnePlace
    <3> QED
      BY <3>2 DEF One
  <2>5. ASSUME id \in executed, call[id] = "waiting"
        PROVE  1 = Times(id, in) + One(id \in serving)
    <3>1. id \in Answerable
      BY <2>5 DEF Answerable
    <3>2. IF id \in serving THEN id \notin Range(in) ELSE AtOnePlace(id, in)
      BY <2>2, <2>3, <3>1, OnceAtOnePlace
    <3>3. IF id \in serving THEN Times(id, in) = 0 ELSE Times(id, in) = 1
      BY <2>2, <3>2, TimesAtOnePlace
    <3> QED
      BY <3>3 DEF One
  <2> QED
    BY <2>4, <2>5 DEF out, in
<1>6. CASE wsstate["client"] # "WS"
  <2>1. executed = {} /\ queued["client"] = <<>> /\ id \notin Range(wire["server"])
    <3>1. wsstate["client"] = "HTTP_CLIENT" /\ wsstate["server"] \in {"HTTP_SERVER", "WS"}
      BY <1>6 DEF HInv, Handshake, Modes
    <3>2. executed = {} /\ queued["client"] = <<>>
      BY <3>1 DEF HInv, Handshake, NoFramesYet
    <3>3. wsstate["server"] = "WS" => wire["server"] = <<>>
      BY <3>1 DEF HInv, Handshake, NoFramesYet
    <3>4. wsstate["server"] # "WS" => Range(wire["server"]) \subseteq {HeaderPart}
      BY ClientAndServer DEF HInv, Handshake, UpgradeBeforeFrames
    <3> QED
      BY <1>4, <3>2, <3>3, <3>4, RangeOfNone
  <2>2. Outgoing = Chain(<<>>, <<>>, sendBuffer["client"])
    BY <1>6, <2>1 DEF Outgoing
  <2>3. Chain(<<>>, <<>>, sendBuffer["client"]) = sendBuffer["client"]
        /\ out = Cat(wire["server"], sendBuffer["client"])
    BY <1>3, <2>1, CatEmpty DEF Chain
  <2>4. InOrder(sendBuffer["client"], requestId, executed)
    BY <1>1, <2>2, <2>3 DEF OutgoingInOrder
  <2> HIDE DEF out
  <2>5. ASSUME id < requestId PROVE 1 = Times(id, out) + One(id \in executed)
    <3>1. AtOnePlace(id, sendBuffer["client"])
      <4>1. IF id \in executed THEN id \notin Range(sendBuffer["client"])
            ELSE AtOnePlace(id, sendBuffer["client"])
        BY <1>2, <1>3, <2>4, <2>5, InOrderHoldsAll
      <4> QED
        BY <2>1, <4>1
    <3>2. sendBuffer["client"] \in Seq(Tokens)
      BY <1>3, <1>4, SeqMonotonic
    <3>3. out \in Seq(Tokens) /\ AtOnePlace(id, out)
      BY <1>3, <2>1, <2>3, <3>1, <3>2, AtOnePlaceBehind, CatProperties
    <3>4. Times(id, out) = 1
      BY <3>3, TimesAtOnePlace
    <3> QED
      BY <2>1, <3>4 DEF One
  <2> QED
    BY <2>1, <2>5 DEF out
<1> QED
  BY <1>5, <1>6

\* Unless an upgraded socket fails, every request and every awaited reply is in one
\* place, whatever is moved, cleared, retried or timed out.
THEOREM NothingIsLost == Spec => []NothingLost
<1>1. HInv /\ FInv /\ HInv' /\ [Next]_vars => FInv'
  BY StepFInv
<1>2. Spec => [](HInv /\ FInv)
  BY <1>1, InitFInv, UpgradeInvariance, PTL DEF Spec
<1> QED
  BY <1>2, AllAreSomewhere, PTL
=============================================================================
