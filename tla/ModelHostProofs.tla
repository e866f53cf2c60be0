-------------------------- MODULE ModelHostProofs --------------------------
(***************************************************************************)
(* The permits, the health, the drain and the wait of a request for the    *)
(* model, for any number of workers and requests and all values of the     *)
(* time-outs.                                                              *)
(*                                                                         *)
(* The queues come first: what entering, leaving at the head and leaving   *)
(* from the middle do to a sequence in which nobody is twice.              *)
(***************************************************************************)
EXTENDS ModelHost, TLAPS, FiniteSetTheorems, SequenceTheorems

InSeq(seq, r) == \E i \in 1..Len(seq) : seq[i] = r

NoTwice(seq) == \A i, j \in 1..Len(seq) : seq[i] = seq[j] => i = j

\* x is not behind y.
InOrder(seq, x, y) ==
  \E i, j \in 1..Len(seq) : i <= j /\ seq[i] = x /\ seq[j] = y

\* Whoever enters is last, and first only if nobody is there.
LEMMA Entering ==
  ASSUME NEW S, NEW seq \in Seq(S), NEW r \in S, NoTwice(seq), ~InSeq(seq, r)
  PROVE  /\ Append(seq, r) \in Seq(S)
         /\ NoTwice(Append(seq, r))
         /\ \A q : InSeq(Append(seq, r), q) <=> InSeq(seq, q) \/ q = r
         /\ Append(seq, r) # <<>>
         /\ seq # <<>> => Head(Append(seq, r)) = Head(seq)
         /\ \A x, y : InOrder(Append(seq, r), x, y) /\ y # r => InOrder(seq, x, y)
<1>1. /\ Append(seq, r) \in Seq(S)
      /\ Append(seq, r) # <<>>
      /\ Len(seq) \in Nat
      /\ Len(Append(seq, r)) = Len(seq) + 1
      /\ \A i \in 1..Len(seq) : Append(seq, r)[i] = seq[i]
      /\ Append(seq, r)[Len(seq) + 1] = r
  BY AppendProperties, LenProperties
<1>2. NoTwice(Append(seq, r))
  BY <1>1 DEF NoTwice, InSeq
<1>3. \A q : InSeq(Append(seq, r), q) <=> InSeq(seq, q) \/ q = r
  <2> TAKE q
  <2>1. ASSUME InSeq(Append(seq, r), q)  PROVE InSeq(seq, q) \/ q = r
    BY <1>1, <2>1 DEF InSeq
  <2>2. ASSUME InSeq(seq, q)  PROVE InSeq(Append(seq, r), q)
    BY <1>1, <2>2 DEF InSeq
  <2>3. InSeq(Append(seq, r), r)
    BY <1>1 DEF InSeq
  <2> QED
    BY <2>1, <2>2, <2>3
<1>4. ASSUME NEW x, NEW y, InOrder(Append(seq, r), x, y), y # r
      PROVE  InOrder(seq, x, y)
  <2>1. PICK i, j \in 1..(Len(seq) + 1) : i <= j /\ Append(seq, r)[i] = x /\ Append(seq, r)[j] = y
    BY <1>1, <1>4 DEF InOrder
  <2>2. i \in 1..Len(seq) /\ j \in 1..Len(seq)
    BY <1>1, <1>4, <2>1
  <2> QED
    BY <1>1, <2>1, <2>2 DEF InOrder
<1> QED
  BY <1>1, <1>2, <1>3, <1>4, HeadTailAppend

\* The one at the head is in the queue, and the rest are those behind it.
LEMMA LeavingFirst ==
  ASSUME NEW S, NEW seq \in Seq(S), NoTwice(seq), seq # <<>>
  PROVE  /\ Head(seq) \in S
         /\ InSeq(seq, Head(seq))
         /\ Tail(seq) \in Seq(S)
         /\ NoTwice(Tail(seq))
         /\ \A q : InSeq(Tail(seq), q) <=> InSeq(seq, q) /\ q # Head(seq)
         /\ \A x, y : InOrder(Tail(seq), x, y) => InOrder(seq, x, y)
         /\ \A y : InSeq(seq, y) => InOrder(seq, Head(seq), y)
<1>1. /\ Head(seq) \in S
      /\ Tail(seq) \in Seq(S)
      /\ Len(seq) \in Nat \ {0}
      /\ Len(Tail(seq)) = Len(seq) - 1
      /\ \A i \in 1..Len(Tail(seq)) : Tail(seq)[i] = seq[i + 1]
      /\ Head(seq) = seq[1]
  BY HeadTailProperties, EmptySeq
<1>2. NoTwice(Tail(seq))
  BY <1>1 DEF NoTwice
<1>3. \A q : InSeq(Tail(seq), q) <=> InSeq(seq, q) /\ q # Head(seq)
  <2> TAKE q
  <2>1. ASSUME InSeq(Tail(seq), q)  PROVE InSeq(seq, q) /\ q # Head(seq)
    BY <1>1, <2>1 DEF InSeq, NoTwice
  <2>2. ASSUME InSeq(seq, q), q # Head(seq)  PROVE InSeq(Tail(seq), q)
    <3>1. PICK i \in 1..Len(seq) : seq[i] = q
      BY <2>2 DEF InSeq
    <3>2. i - 1 \in 1..Len(Tail(seq)) /\ Tail(seq)[i - 1] = q
      BY <1>1, <2>2, <3>1
    <3> QED
      BY <3>2 DEF InSeq
  <2> QED
    BY <2>1, <2>2
<1>4. ASSUME NEW x, NEW y, InOrder(Tail(seq), x, y)
      PROVE  InOrder(seq, x, y)
  <2>1. PICK i, j \in 1..Len(Tail(seq)) : i <= j /\ Tail(seq)[i] = x /\ Tail(seq)[j] = y
    BY <1>4 DEF InOrder
  <2>2. /\ i + 1 \in 1..Len(seq) /\ j + 1 \in 1..Len(seq) /\ i + 1 <= j + 1
        /\ seq[i + 1] = x /\ seq[j + 1] = y
    BY <1>1, <2>1
  <2> QED
    BY <2>2 DEF InOrder
<1>5. ASSUME NEW y, InSeq(seq, y)
      PROVE  InOrder(seq, Head(seq), y)
  <2>1. PICK j \in 1..Len(seq) : seq[j] = y
    BY <1>5 DEF InSeq
  <2>2. 1 \in 1..Len(seq) /\ 1 <= j
    BY <1>1, <2>1
  <2> QED
    BY <1>1, <2>1, <2>2 DEF InOrder
<1> QED
  BY <1>1, <1>2, <1>3, <1>4, <1>5 DEF InSeq

\* Without takes out the one it names and leaves the others in their order.
LEMMA LeavingAnywhere ==
  ASSUME NEW S, NEW seq \in Seq(S), NoTwice(seq), NEW r
  PROVE  /\ Without(seq, r) \in Seq(S)
         /\ NoTwice(Without(seq, r))
         /\ \A q : InSeq(Without(seq, r), q) <=> InSeq(seq, q) /\ q # r
         /\ seq = <<>> => Without(seq, r) = <<>>
         /\ seq # <<>> /\ Head(seq) # r =>
              Without(seq, r) # <<>> /\ Head(Without(seq, r)) = Head(seq)
         /\ \A x, y : InOrder(Without(seq, r), x, y) => InOrder(seq, x, y)
<1>0. /\ Len(seq) \in Nat
      /\ \A i \in 1..Len(seq) : seq[i] \in S
  BY LenProperties, ElementOfSeq
<1>1. CASE ~InSeq(seq, r)
  <2>1. Without(seq, r) = seq
    BY <1>1 DEF Without, InSeq
  <2> QED
    BY <1>1, <2>1
<1>2. CASE InSeq(seq, r)
  <2> DEFINE n == CHOOSE i \in 1..Len(seq) : seq[i] = r
             front == SubSeq(seq, 1, n - 1)
             back == SubSeq(seq, n + 1, Len(seq))
             rest == front \o back
  <2>1. n \in 1..Len(seq) /\ seq[n] = r
    BY <1>2 DEF InSeq
  <2>2. Without(seq, r) = rest
    BY <1>2 DEF Without, InSeq
  <2> HIDE DEF n
  <2>3. /\ front \in Seq(S)
        /\ Len(front) = n - 1
        /\ \A i \in 1..(n - 1) : front[i] = seq[i]
    <3>1. /\ front \in Seq(S)
          /\ Len(front) = IF 1 <= n - 1 THEN (n - 1) - 1 + 1 ELSE 0
          /\ \A i \in 1..((n - 1) - 1 + 1) : front[i] = seq[1 + i - 1]
      <4>1. \A i \in 1..(n - 1) : seq[i] \in S
        BY <1>0, <2>1
      <4>2. 1 \in Int /\ n - 1 \in Int
        BY <1>0, <2>1
      <4> HIDE DEF front
      <4> QED
        BY <4>1, <4>2, SubSeqProperties DEF front
    <3> HIDE DEF front
    <3> QED
      BY <1>0, <2>1, <3>1
  <2>4. /\ back \in Seq(S)
        /\ Len(back) = Len(seq) - n
        /\ \A i \in 1..(Len(seq) - n) : back[i] = seq[n + i]
    <3>1. /\ back \in Seq(S)
          /\ Len(back) = IF n + 1 <= Len(seq) THEN Len(seq) - (n + 1) + 1 ELSE 0
          /\ \A i \in 1..(Len(seq) - (n + 1) + 1) : back[i] = seq[(n + 1) + i - 1]
      <4>1. \A i \in (n + 1)..Len(seq) : seq[i] \in S
        BY <1>0, <2>1
      <4>2. n + 1 \in Int /\ Len(seq) \in Int
        BY <1>0, <2>1
      <4> HIDE DEF back
      <4> QED
        BY <4>1, <4>2, SubSeqProperties DEF back
    <3> HIDE DEF back
    <3> QED
      BY <1>0, <2>1, <3>1
  <2> HIDE DEF front, back
  <2>5. /\ rest \in Seq(S)
        /\ Len(rest) = Len(seq) - 1
        /\ \A i \in 1..(Len(seq) - 1) : rest[i] = IF i < n THEN seq[i] ELSE seq[i + 1]
    <3>1. /\ rest \in Seq(S)
          /\ Len(rest) = Len(front) + Len(back)
          /\ \A i \in 1..(Len(front) + Len(back)) :
               rest[i] = IF i <= Len(front) THEN front[i] ELSE back[i - Len(front)]
      BY <2>3, <2>4, ConcatProperties
    <3> HIDE DEF rest
    <3>2. Len(front) + Len(back) = Len(seq) - 1
      BY <1>0, <2>1, <2>3, <2>4
    <3>3. ASSUME NEW i \in 1..(Len(seq) - 1)
          PROVE  rest[i] = IF i < n THEN seq[i] ELSE seq[i + 1]
      <4>1. rest[i] = IF i <= n - 1 THEN front[i] ELSE back[i - (n - 1)]
        BY <2>3, <3>1, <3>2, <3>3
      <4>2. CASE i < n
        BY <1>0, <2>1, <2>3, <3>3, <4>1, <4>2
      <4>3. CASE ~(i < n)
        <5>1. i - (n - 1) \in 1..(Len(seq) - n) /\ n + (i - (n - 1)) = i + 1
          BY <1>0, <2>1, <3>3, <4>3
        <5>2. back[i - (n - 1)] = seq[i + 1]
          BY <2>4, <5>1
        <5> QED
          BY <1>0, <2>1, <3>3, <4>1, <4>3, <5>2
      <4> QED
        BY <4>2, <4>3
    <3> QED
      BY <3>1, <3>2, <3>3
  <2> HIDE DEF rest
  <2>6. NoTwice(rest)
    BY <1>0, <2>1, <2>5 DEF NoTwice
  <2>7. \A q : InSeq(rest, q) <=> InSeq(seq, q) /\ q # r
    <3> TAKE q
    <3>1. ASSUME InSeq(rest, q)  PROVE InSeq(seq, q) /\ q # r
      <4>1. PICK i \in 1..(Len(seq) - 1) : rest[i] = q
        BY <2>5, <3>1 DEF InSeq
      <4>2. CASE i < n
        BY <1>0, <2>1, <2>5, <4>1, <4>2 DEF InSeq, NoTwice
      <4>3. CASE ~(i < n)
        BY <1>0, <2>1, <2>5, <4>1, <4>3 DEF InSeq, NoTwice
      <4> QED
        BY <4>2, <4>3
    <3>2. ASSUME InSeq(seq, q), q # r  PROVE InSeq(rest, q)
      <4>1. PICK i \in 1..Len(seq) : seq[i] = q
        BY <3>2 DEF InSeq
      <4>2. i # n
        BY <2>1, <3>2, <4>1
      <4>3. CASE i < n
        BY <1>0, <2>1, <2>5, <4>1, <4>3 DEF InSeq
      <4>4. CASE i > n
        <5>1. i - 1 \in 1..Len(rest) /\ rest[i - 1] = q
          BY <1>0, <2>1, <2>5, <4>1, <4>4
        <5> QED
          BY <5>1 DEF InSeq
      <4> QED
        BY <1>0, <2>1, <4>1, <4>2, <4>3, <4>4
    <3> QED
      BY <3>1, <3>2
  <2>8. ASSUME seq # <<>>, Head(seq) # r
        PROVE  rest # <<>> /\ Head(rest) = Head(seq)
    <3>1. Head(seq) = seq[1] /\ Len(seq) > 0
      BY <2>8, EmptySeq
    <3>2. n > 1 /\ Len(rest) > 0 /\ rest[1] = seq[1]
      BY <1>0, <2>1, <2>5, <2>8, <3>1
    <3>3. rest # <<>>
      BY <3>2, EmptySeq
    <3>4. Head(rest) = rest[1]
      BY <2>5, <3>3
    <3> QED
      BY <3>1, <3>2, <3>3, <3>4
  <2>9. seq # <<>>
    BY <2>1, EmptySeq
  <2>10. ASSUME NEW x, NEW y, InOrder(rest, x, y)
         PROVE  InOrder(seq, x, y)
    <3>1. PICK i, j \in 1..(Len(seq) - 1) : i <= j /\ rest[i] = x /\ rest[j] = y
      BY <2>5, <2>10 DEF InOrder
    <3>2. PICK k, m \in 1..Len(seq) : k <= m /\ seq[k] = x /\ seq[m] = y
      <4> DEFINE back1(p) == IF p < n THEN p ELSE p + 1
      <4>1. /\ back1(i) \in 1..Len(seq) /\ back1(j) \in 1..Len(seq)
            /\ back1(i) <= back1(j)
        BY <1>0, <2>1, <3>1
      <4>2. seq[back1(i)] = x /\ seq[back1(j)] = y
        BY <2>5, <3>1
      <4> HIDE DEF back1
      <4> QED
        BY <4>1, <4>2
    <3> QED
      BY <3>2 DEF InOrder
  <2> QED
    BY <2>2, <2>5, <2>6, <2>7, <2>8, <2>9, <2>10
<1> QED
  BY <1>1, <1>2
-----------------------------------------------------------------------------
(* Permits. *)

\* Who has a permit, or waits for one.
Asking(c) == calls[c] # None \/ InSeq(queue, c)

PermitsOK ==
  /\ calls \in [Callers -> 0..Generate \cup {None}]
  /\ queue \in Seq(Callers)
  /\ NoTwice(queue)
  /\ NoPermitIsLost

LEMMA NoneIsNoNumber == None \notin Nat /\ None \notin Request
BY HostNoneAssumption

LEMMA HoldersFinite ==
  /\ IsFiniteSet(Callers)
  /\ IsFiniteSet(Holders)
  /\ Cardinality(Holders) \in Nat
<1>1. IsFiniteSet(Callers)
  BY HostAssumption, FS_Union DEF Callers
<1>2. Holders \subseteq Callers
  BY DEF Holders
<1> QED
  BY <1>1, <1>2, FS_Subset, FS_CardinalityType

\* Taking a permit or a place in the queue.
LEMMA AcquireKeeps ==
  ASSUME PermitsOK, NEW c \in Callers, ~Asking(c), Acquire(c)
  PROVE  /\ PermitsOK'
         /\ \A q \in Callers : Asking(q)' <=> Asking(q) \/ q = c
<1>1. /\ 0 \in 0..Generate /\ 0 # None
      /\ Permits \in Nat
  BY HostAssumption, NoneIsNoNumber
<1>2. CASE Cardinality(Holders) < Permits /\ calls' = [calls EXCEPT ![c] = 0] /\ UNCHANGED queue
  <2>1. Holders' = Holders \cup {c} /\ c \notin Holders
    BY <1>1, <1>2 DEF PermitsOK, Holders, Asking
  <2>2. Cardinality(Holders') = Cardinality(Holders) + 1
    BY <2>1, HoldersFinite, FS_AddElement
  <2>3. NoPermitIsLost'
    <3>1. queue = <<>>
      BY <1>1, <1>2, HoldersFinite DEF PermitsOK, NoPermitIsLost
    <3>2. \A q \in Callers : ~Waits(q)'
      BY <1>2, <3>1 DEF Waits
    <3> QED
      BY <1>1, <1>2, <2>2, <3>1, <3>2, HoldersFinite DEF NoPermitIsLost, Holders
  <2>4. calls' \in [Callers -> 0..Generate \cup {None}]
    BY <1>1, <1>2 DEF PermitsOK
  <2>5. \A q \in Callers : Asking(q)' <=> Asking(q) \/ q = c
    BY <1>1, <1>2 DEF PermitsOK, Asking
  <2> QED
    BY <1>2, <2>3, <2>4, <2>5 DEF PermitsOK
<1>3. CASE Cardinality(Holders) >= Permits /\ queue' = Append(queue, c) /\ UNCHANGED calls
  <2>1. Holders' = Holders
    BY <1>3 DEF Holders
  <2>2. /\ queue' \in Seq(Callers)
        /\ NoTwice(queue')
        /\ \A q : InSeq(queue', q) <=> InSeq(queue, q) \/ q = c
    BY <1>3, Entering DEF PermitsOK, Asking
  <2>3. Cardinality(Holders) = Permits
    BY <1>1, <1>3, HoldersFinite DEF PermitsOK, NoPermitIsLost
  <2>4. \A q \in Holders : ~Waits(q)'
    BY <2>2 DEF PermitsOK, NoPermitIsLost, Waits, InSeq, Holders, Asking
  <2>5. NoPermitIsLost'
    BY <1>1, <2>1, <2>3, <2>4 DEF NoPermitIsLost
  <2> QED
    BY <1>3, <2>2, <2>5 DEF PermitsOK, Asking
<1> QED
  BY <1>2, <1>3 DEF Acquire

\* Giving a permit back: to the first of those who wait, if anyone does.
LEMMA ReleaseKeeps ==
  ASSUME PermitsOK, NEW c \in Callers, calls[c] # None, Release(c)
  PROVE  /\ PermitsOK'
         /\ \A q \in Callers : Asking(q)' <=> Asking(q) /\ q # c
<1>1. /\ 0 \in 0..Generate /\ 0 # None
      /\ Permits \in Nat
      /\ c \in Holders /\ ~InSeq(queue, c)
  BY HostAssumption, NoneIsNoNumber DEF PermitsOK, NoPermitIsLost, Holders, Waits, InSeq
<1>2. /\ IsFiniteSet(Holders \ {c})
      /\ Cardinality(Holders \ {c}) = Cardinality(Holders) - 1
  BY <1>1, HoldersFinite, FS_RemoveElement
<1>3. CASE queue = <<>> /\ calls' = [calls EXCEPT ![c] = None] /\ UNCHANGED queue
  <2>1. Holders' = Holders \ {c}
    BY <1>3 DEF PermitsOK, Holders
  <2>2. \A q : ~InSeq(queue, q)
    BY <1>3 DEF InSeq
  <2>3. NoPermitIsLost'
    <3>1. Cardinality(Holders') <= Permits
      BY <1>1, <1>2, <2>1, HoldersFinite DEF PermitsOK, NoPermitIsLost
    <3>2. \A q \in Callers : ~Waits(q)'
      BY <1>3, <2>2 DEF Waits, InSeq
    <3> QED
      BY <1>3, <3>1, <3>2 DEF NoPermitIsLost, Holders
  <2> QED
    BY <1>3, <2>2, <2>3 DEF PermitsOK, Asking
<1>4. CASE /\ queue # <<>>
           /\ calls' = [calls EXCEPT ![c] = None, ![Head(queue)] = 0]
           /\ queue' = Tail(queue)
  <2> DEFINE first == Head(queue)
  <2>1. /\ first \in Callers
        /\ InSeq(queue, first)
        /\ queue' \in Seq(Callers)
        /\ NoTwice(queue')
        /\ \A q : InSeq(queue', q) <=> InSeq(queue, q) /\ q # first
    BY <1>4, LeavingFirst DEF PermitsOK
  <2>2. first # c /\ first \notin Holders
    BY <1>1, <2>1 DEF PermitsOK, NoPermitIsLost, Waits, InSeq
  <2> HIDE DEF first
  <2>3. calls' = [calls EXCEPT ![c] = None, ![first] = 0]
    BY <1>4 DEF first
  <2>4. /\ calls' \in [Callers -> 0..Generate \cup {None}]
        /\ calls'[c] = None /\ calls'[first] = 0
        /\ \A q \in Callers : q # c /\ q # first => calls'[q] = calls[q]
    BY <1>1, <2>1, <2>2, <2>3 DEF PermitsOK
  <2>5. Holders' = (Holders \ {c}) \cup {first}
    BY <1>1, <2>1, <2>2, <2>4 DEF Holders
  <2>6. Cardinality(Holders') = Cardinality(Holders)
    <3>1. Cardinality((Holders \ {c}) \cup {first}) = Cardinality(Holders \ {c}) + 1
      <4>1. first \notin Holders \ {c}
        BY <2>2
      <4> QED
        BY <1>2, <4>1, FS_AddElement
    <3> QED
      BY <1>2, <2>5, <3>1, HoldersFinite
  <2>7. Cardinality(Holders) = Permits
    BY <1>4 DEF PermitsOK, NoPermitIsLost
  <2>8. \A q \in Holders' : ~Waits(q)'
    BY <2>1, <2>5 DEF PermitsOK, NoPermitIsLost, Waits, InSeq
  <2>9. NoPermitIsLost'
    BY <1>1, <2>6, <2>7, <2>8 DEF NoPermitIsLost
  <2>10. \A q \in Callers : Asking(q)' <=> Asking(q) /\ q # c
    BY <1>1, <2>1, <2>2, <2>4 DEF Asking
  <2> QED
    BY <2>1, <2>4, <2>9, <2>10 DEF PermitsOK
<1> QED
  BY <1>3, <1>4 DEF Release

\* Leaving the queue.
LEMMA DropKeeps ==
  ASSUME PermitsOK, NEW c \in Callers, calls[c] = None,
         queue' = Without(queue, c), UNCHANGED calls
  PROVE  /\ PermitsOK'
         /\ \A q \in Callers : Asking(q)' <=> Asking(q) /\ q # c
<1>1. /\ queue' \in Seq(Callers)
      /\ NoTwice(queue')
      /\ \A q : InSeq(queue', q) <=> InSeq(queue, q) /\ q # c
      /\ queue = <<>> => queue' = <<>>
  BY LeavingAnywhere DEF PermitsOK
<1>2. Holders' = Holders
  BY DEF Holders
<1>3. \A q \in Holders : ~Waits(q)'
  BY <1>1 DEF PermitsOK, NoPermitIsLost, Waits, InSeq
<1>4. NoPermitIsLost'
  BY <1>1, <1>2, <1>3 DEF PermitsOK, NoPermitIsLost
<1> QED
  BY <1>1, <1>4 DEF PermitsOK, Asking
-----------------------------------------------------------------------------
(* The requests and the health. *)

\* What a request at its stage can be.
Shape(request) ==
  /\ request \in Request
  /\ request.stage = "probe" => request.age <= Probe
  /\ request.stage = "models" => request.kind = "settings" /\ request.age <= Models
  /\ request.kind \in {"status", "settings"} =>
       request.stage \in {"lock", "probe", "models", "answered"}

RequestsOK ==
  /\ requests \in [Requests -> Request \cup {None}]
  /\ \A r \in Requests : Open(r) => Shape(requests[r])

\* At the mutex are those who wait for the health and the one that probes, who
\* has it.
LockOK ==
  /\ lock \in Seq(Requests)
  /\ NoTwice(lock)
  /\ \A r \in Requests : InSeq(lock, r) <=> At(r, "lock") \/ At(r, "probe")
  /\ \A r \in Requests : At(r, "probe") => lock # <<>> /\ Head(lock) = r

\* What is remembered is as old as the last probe, and was so no longer ago than
\* the probe took; nobody probes while it stands.
CacheOK ==
  /\ host \in BOOLEAN
  /\ away \in 0..Horizon
  /\ cache \in [age : 0..Ttl, healthy : BOOLEAN] \cup {None}
  /\ rested = IF cache = None THEN Ttl ELSE cache.age
  /\ Fresh => cache.healthy = host \/ away <= cache.age + Probe
  /\ \A r \in Requests : At(r, "probe") => ~Fresh

\* Nor does it become staler on the way to the client than the list of models takes.
ToldOK ==
  /\ StatusIsRecent
  /\ \A r \in Requests : At(r, "models") =>
       requests[r].told = host \/ away <= Ttl + Probe + requests[r].age

\* Who waits has seen the probes that were given up ahead of it, and at most the
\* present one, which is under way or just over.
WaitOK ==
  /\ \A r \in Requests : At(r, "probe") =>
       requests[r].waited <= Probe * requests[r].lost + requests[r].age
  /\ \A r \in Requests : At(r, "lock") =>
       \/ requests[r].waited <= Probe * requests[r].lost
       \/ \E q \in Requests :
            At(q, "probe") /\ requests[r].waited <= Probe * requests[r].lost + requests[q].age
       \/ /\ Fresh /\ cache.age = 0
          /\ requests[r].waited <= Probe * (1 + requests[r].lost)

\* The drain is no longer than what an open request has been through.
DrainOK ==
  /\ phase \in {"serving", "draining", "stopped"}
  /\ drained \in 0..Grace
  /\ phase # "draining" => drained = 0
  /\ phase = "stopped" => \A r \in Requests : ~Open(r)
  /\ \A r \in Requests :
       /\ At(r, "lock") \/ At(r, "probe") => drained <= requests[r].waited
       /\ At(r, "models") /\ requests[r].lost = 0 => drained <= Probe + requests[r].age
       /\ /\ At(r, "answered") /\ requests[r].lost = 0
          /\ requests[r].kind \in {"status", "settings"}
          => drained <= Probe + Models

HealthInv == RequestsOK /\ LockOK /\ CacheOK /\ ToldOK /\ WaitOK /\ DrainOK

\* Only a search or a digest asks for a permit.
PermitInv ==
  /\ PermitsOK
  /\ \A r \in Requests : Asking(r) => At(r, "asking")

LEMMA RequestTyped ==
  ASSUME RequestsOK, NEW r \in Requests, Open(r)
  PROVE  /\ requests[r] \in Request
         /\ requests[r].kind \in Kinds
         /\ requests[r].stage \in Stages
         /\ requests[r].waited \in Nat
         /\ requests[r].age \in Nat
         /\ requests[r].lost \in Nat
         /\ requests[r].told \in BOOLEAN
BY DEF RequestsOK, Shape, Request

\* One more probe that was lost allows for the time of one more probe.
LEMMA OneMoreProbe ==
  ASSUME NEW n \in Nat
  PROVE  /\ Probe * n \in Nat
         /\ Probe * (1 + n) = Probe * n + Probe
         /\ Probe * (n + 1) = Probe * n + Probe
BY HostAssumption

\* Nobody who asks for the health waits longer than one probe and those given up.
LEMMA WaitBound ==
  ASSUME HealthInv
  PROVE  StatusWaitBounded
<1> SUFFICES ASSUME NEW r \in Requests, At(r, "lock") \/ At(r, "probe")
             PROVE  requests[r].waited <= Probe * (1 + requests[r].lost)
  BY DEF StatusWaitBounded
<1>1. /\ requests[r].waited \in Nat
      /\ requests[r].lost \in Nat
      /\ requests[r].age \in Nat
  BY RequestTyped DEF HealthInv, At
<1>2. /\ Probe \in Nat
      /\ Probe * requests[r].lost \in Nat
      /\ Probe * (1 + requests[r].lost) = Probe * requests[r].lost + Probe
  BY <1>1, OneMoreProbe, HostAssumption
<1>3. \A q \in Requests : At(q, "probe") => requests[q].age \in Nat /\ requests[q].age <= Probe
  BY RequestTyped DEF HealthInv, RequestsOK, Shape, At
<1>4. CASE At(r, "probe")
  BY <1>1, <1>2, <1>3, <1>4 DEF HealthInv, WaitOK
<1>5. CASE At(r, "lock")
  BY <1>1, <1>2, <1>3, <1>5 DEF HealthInv, WaitOK
<1> QED
  BY <1>4, <1>5

\* The first at the mutex is at the stage of waiting or of probing.
LEMMA HeadWaits ==
  ASSUME HealthInv, lock # <<>>
  PROVE  /\ Head(lock) \in Requests
         /\ At(Head(lock), "lock") \/ At(Head(lock), "probe")
BY LeavingFirst DEF HealthInv, LockOK

\* Nobody probes while one has the mutex that does not.
LEMMA NobodyProbes ==
  ASSUME HealthInv, NEW r \in Requests, At(r, "lock"), HasLock(r)
  PROVE  \A q \in Requests : ~At(q, "probe")
BY DEF HealthInv, LockOK, HasLock, At

LEMMA HealthInitially ==
  ASSUME Init
  PROVE  HealthInv
<1>1. /\ Horizon \in Nat
      /\ ~Fresh
      /\ \A r \in Requests : ~Open(r)
  BY HostAssumption DEF Init, Horizon, Fresh, Open
<1>2. \A r \in Requests : \A stage : ~At(r, stage)
  BY <1>1 DEF At
<1>3. RequestsOK /\ ToldOK /\ WaitOK
  BY <1>1, <1>2 DEF Init, RequestsOK, ToldOK, WaitOK, StatusIsRecent
<1>4. LockOK
  <2>1. lock \in Seq(Requests) /\ Len(lock) = 0
    BY EmptySeq DEF Init
  <2> QED
    BY <1>2, <2>1 DEF LockOK, InSeq, NoTwice
<1>5. CacheOK
  BY <1>1, <1>2 DEF Init, CacheOK
<1>6. DrainOK
  BY <1>1, <1>2, HostAssumption DEF Init, DrainOK
<1> QED
  BY <1>3, <1>4, <1>5, <1>6 DEF HealthInv

\* What changes one request leaves the others as they are.
LEMMA OneChanges ==
  ASSUME RequestsOK, NEW r \in Requests, NEW new \in Request \cup {None},
         new # None => Shape(new),
         requests' = [requests EXCEPT ![r] = new]
  PROVE  /\ RequestsOK'
         /\ requests'[r] = new
         /\ \A q \in Requests : q # r => requests'[q] = requests[q]
         /\ \A q \in Requests : \A stage : q # r => (At(q, stage)' <=> At(q, stage))
BY DEF RequestsOK, Open, At

\* A request that arrives, at the mutex or not at all near the health.
LEMMA ArriveKeeps ==
  ASSUME HealthInv, NEW r \in Requests, NEW kind \in Kinds, NEW stage \in Stages,
         Arrive(r, kind, stage),
         \/ stage = "lock" /\ kind \in {"status", "settings"} /\ lock' = Append(lock, r)
         \/ /\ stage \in {"asking", "open", "answered"} /\ kind \in {"search", "digest", "stream"}
            /\ lock' = lock
  PROVE  /\ HealthInv'
         /\ At(r, stage)'
         /\ \A q \in Requests : \A st : q # r => (At(q, st)' <=> At(q, st))
<1> DEFINE new == NewRequest(kind, stage)
<1>1. /\ new \in Request /\ new # None
      /\ new.kind = kind /\ new.stage = stage
      /\ new.waited = 0 /\ new.age = 0 /\ new.lost = 0
  <2>1. /\ new \in Request
        /\ new.kind = kind /\ new.stage = stage
        /\ new.waited = 0 /\ new.age = 0 /\ new.lost = 0
    BY DEF NewRequest, Request
  <2> QED
    BY <2>1, NoneIsNoNumber
<1>2. Shape(new)
  BY <1>1 DEF Shape
<1>3. /\ requests' = [requests EXCEPT ![r] = new]
      /\ phase = "serving" /\ ~Open(r)
      /\ UNCHANGED <<host, away, cache, phase, drained, rested>>
  BY DEF Arrive
<1> HIDE DEF new
<1>4. /\ RequestsOK'
      /\ requests'[r] = new
      /\ \A q \in Requests : q # r => requests'[q] = requests[q]
      /\ \A q \in Requests : \A st : q # r => (At(q, st)' <=> At(q, st))
  BY <1>1, <1>2, <1>3, OneChanges DEF HealthInv
<1>5. /\ \A st : At(r, st)' <=> st = stage
      /\ \A st : ~At(r, st)
      /\ stage # "probe" /\ stage # "models"
      /\ stage = "answered" => new.kind \notin {"status", "settings"}
  BY <1>1, <1>3, <1>4 DEF At, Open
<1>6. LockOK'
  <2>1. CASE stage = "lock" /\ lock' = Append(lock, r)
    <3>1. ~InSeq(lock, r)
      BY <1>5 DEF HealthInv, LockOK
    <3>2. /\ lock' \in Seq(Requests)
          /\ NoTwice(lock')
          /\ \A q : InSeq(lock', q) <=> InSeq(lock, q) \/ q = r
          /\ lock' # <<>>
          /\ lock # <<>> => Head(lock') = Head(lock)
      BY <2>1, <3>1, Entering DEF HealthInv, LockOK
    <3> QED
      BY <1>4, <1>5, <2>1, <3>2 DEF HealthInv, LockOK
  <2>2. CASE stage # "lock" /\ lock' = lock
    BY <1>4, <1>5, <2>2 DEF HealthInv, LockOK
  <2> QED
    BY <2>1, <2>2
<1>7. CacheOK'
  BY <1>3, <1>4, <1>5 DEF HealthInv, CacheOK, Fresh
<1>8. ToldOK'
  BY <1>3, <1>4, <1>5 DEF HealthInv, ToldOK, StatusIsRecent
<1>9. WaitOK'
  <2>1. ASSUME At(r, "lock")'
        PROVE  requests'[r].waited <= Probe * requests'[r].lost
    BY <1>1, <1>4, OneMoreProbe
  <2>2. \A q \in Requests : At(q, "probe")' =>
          requests'[q].waited <= Probe * requests'[q].lost + requests'[q].age
    BY <1>4, <1>5 DEF HealthInv, WaitOK
  <2>3. ASSUME NEW q \in Requests, q # r, At(q, "lock")'
        PROVE  \/ requests'[q].waited <= Probe * requests'[q].lost
               \/ \E p \in Requests :
                    /\ At(p, "probe")'
                    /\ requests'[q].waited <= Probe * requests'[q].lost + requests'[p].age
               \/ /\ Fresh' /\ cache'.age = 0
                  /\ requests'[q].waited <= Probe * (1 + requests'[q].lost)
    BY <1>3, <1>4, <1>5, <2>3 DEF HealthInv, WaitOK, Fresh
  <2> QED
    BY <2>1, <2>2, <2>3 DEF WaitOK
<1>10. DrainOK'
  BY <1>1, <1>3, <1>4, <1>5 DEF HealthInv, DrainOK, Open
<1> QED
  BY <1>4, <1>5, <1>6, <1>7, <1>8, <1>9, <1>10 DEF HealthInv
LEMMA ToldIs ==
  ASSUME RequestsOK, NEW r \in Requests, Open(r), NEW healthy \in BOOLEAN
  PROVE  \E new \in Request :
           /\ Told(r, healthy) = [requests EXCEPT ![r] = new]
           /\ Shape(new)
           /\ new.stage = IF requests[r].kind = "settings" /\ healthy
                          THEN "models" ELSE "answered"
           /\ new.told = healthy /\ new.age = 0
           /\ new.kind = requests[r].kind
           /\ new.waited = requests[r].waited
           /\ new.lost = requests[r].lost
<1> DEFINE stage == IF requests[r].kind = "settings" /\ healthy THEN "models" ELSE "answered"
           new == [requests[r] EXCEPT !.told = healthy, !.age = 0, !.stage = stage]
<1>1. stage \in {"models", "answered"} /\ stage \in Stages
  BY DEF Stages
<1>2. stage = "models" => requests[r].kind = "settings"
  OBVIOUS
<1>3. Told(r, healthy) = [requests EXCEPT ![r] = new]
  BY DEF Told, RequestsOK
<1> HIDE DEF stage
<1>4. /\ new \in Request
      /\ new.stage = stage
      /\ new.told = healthy /\ new.age = 0
      /\ new.kind = requests[r].kind
      /\ new.waited = requests[r].waited
      /\ new.lost = requests[r].lost
  BY <1>1, RequestTyped DEF Request
<1> HIDE DEF new
<1>5. Shape(new)
  BY <1>1, <1>2, <1>4, HostAssumption DEF Shape
<1> QED
  BY <1>3, <1>4, <1>5 DEF stage

\* The health is known to the one that has the mutex, by what is remembered or by
\* its probe, and the next may look.
LEMMA AnswerKeeps ==
  ASSUME HealthInv, NEW r \in Requests, NEW healthy \in BOOLEAN,
         HasLock(r),
         (At(r, "lock") /\ cache' = cache) \/ (At(r, "probe") /\ cache'.age = 0),
         requests' = Told(r, healthy),
         lock' = Tail(lock) \/ lock' = Without(lock, r),
         cache' \in [age : 0..Ttl, healthy : BOOLEAN], cache' # None,
         cache'.age < Ttl,
         cache'.healthy = healthy,
         rested' = cache'.age,
         healthy = host \/ away <= cache'.age + Probe,
         UNCHANGED <<host, away, phase, drained>>
  PROVE  /\ HealthInv'
         /\ ~At(r, "asking")
         /\ \A q \in Requests : \A stage : q # r => (At(q, stage)' <=> At(q, stage))
<1>1. Open(r) /\ RequestsOK
  BY DEF At, HealthInv
<1>2. PICK new \in Request :
        /\ requests' = [requests EXCEPT ![r] = new]
        /\ Shape(new)
        /\ new.stage = IF requests[r].kind = "settings" /\ healthy
                       THEN "models" ELSE "answered"
        /\ new.told = healthy /\ new.age = 0
        /\ new.kind = requests[r].kind
        /\ new.waited = requests[r].waited
        /\ new.lost = requests[r].lost
  BY <1>1, ToldIs
<1>3. /\ RequestsOK'
      /\ requests'[r] = new
      /\ \A q \in Requests : q # r => requests'[q] = requests[q]
      /\ \A q \in Requests : \A stage : q # r => (At(q, stage)' <=> At(q, stage))
  BY <1>1, <1>2, OneChanges
<1>4. /\ Fresh'
      /\ ~At(r, "lock")' /\ ~At(r, "probe")' /\ ~At(r, "asking")
      /\ At(r, "models")' => new.stage = "models"
      /\ At(r, "answered")' => new.stage = "answered"
  BY <1>2, <1>3 DEF At, Fresh
<1>5. \A q \in Requests : At(q, "probe") => q = r
  BY DEF HealthInv, LockOK, HasLock
<1>6. \A q \in Requests : ~At(q, "probe")'
  BY <1>3, <1>4, <1>5
<1>7. LockOK'
  <2>1. /\ lock' \in Seq(Requests)
        /\ NoTwice(lock')
        /\ \A q : InSeq(lock', q) <=> InSeq(lock, q) /\ q # r
    <3>1. lock \in Seq(Requests) /\ NoTwice(lock) /\ lock # <<>> /\ Head(lock) = r
      BY DEF HealthInv, LockOK, HasLock
    <3>2. CASE lock' = Tail(lock)
      BY <3>1, <3>2, LeavingFirst
    <3>3. CASE lock' = Without(lock, r)
      BY <3>1, <3>3, LeavingAnywhere
    <3> QED
      BY <3>2, <3>3
  <2> QED
    BY <1>3, <1>4, <1>6, <2>1 DEF HealthInv, LockOK
<1>8. CacheOK'
  BY <1>6 DEF HealthInv, CacheOK
<1>9. ToldOK'
  <2>1. requests'[r].told = host' \/ away' <= Ttl + Probe
    <3>1. cache'.age \in 0..Ttl /\ away \in 0..Horizon
      BY DEF HealthInv, CacheOK
    <3> QED
      BY <1>2, <1>3, <3>1, HostAssumption DEF Horizon
  <2>2. away' \in Int /\ Ttl + Probe \in Nat /\ Models \in Nat
    BY HostAssumption DEF HealthInv, CacheOK
  <2>3. /\ At(r, "models")' =>
             requests'[r].told = host' \/ away' <= Ttl + Probe + requests'[r].age
        /\ requests'[r].told = host' \/
             away' <= Ttl + Probe + (IF requests'[r].kind = "settings" THEN Models ELSE 0)
    BY <1>2, <1>3, <2>1, <2>2
  <2>4. StatusIsRecent'
    BY <1>3, <2>3 DEF HealthInv, ToldOK, StatusIsRecent
  <2> QED
    BY <1>3, <2>3, <2>4 DEF HealthInv, ToldOK
<1>10. WaitOK'
  <2> SUFFICES ASSUME NEW q \in Requests, At(q, "lock")'
               PROVE  \/ requests'[q].waited <= Probe * requests'[q].lost
                      \/ /\ Fresh' /\ cache'.age = 0
                         /\ requests'[q].waited <= Probe * (1 + requests'[q].lost)
    BY <1>6 DEF WaitOK
  <2>1. q # r /\ At(q, "lock") /\ requests'[q] = requests[q]
    BY <1>3, <1>4
  <2>2. CASE At(r, "lock") /\ cache' = cache
    <3>1. \A p \in Requests : ~At(p, "probe")
      BY <1>5, <2>2 DEF At
    <3> QED
      BY <1>4, <2>1, <2>2, <3>1 DEF HealthInv, WaitOK
  <2>3. CASE At(r, "probe") /\ cache'.age = 0
    <3>1. requests[r].age <= Probe /\ requests[r].age \in Nat
      BY <2>3, <1>1, RequestTyped DEF HealthInv, RequestsOK, Shape, At
    <3>2. /\ requests[q].waited \in Nat
          /\ Probe * requests[q].lost \in Nat
          /\ Probe * (1 + requests[q].lost) = Probe * requests[q].lost + Probe
      BY <2>1, <1>1, RequestTyped, OneMoreProbe DEF At
    <3>3. ~Fresh
      BY <2>3 DEF HealthInv, CacheOK
    <3>4. requests[q].waited <= Probe * (1 + requests[q].lost)
      BY <1>5, <2>1, <3>1, <3>2, <3>3, HostAssumption DEF HealthInv, WaitOK
    <3> QED
      BY <1>4, <2>1, <2>3, <3>4
  <2> QED
    BY <2>2, <2>3
<1>11. DrainOK'
  <2>1. requests[r].lost = 0 => requests[r].waited <= Probe
    BY WaitBound, HostAssumption DEF StatusWaitBounded
  <2>2. drained <= requests[r].waited /\ drained \in 0..Grace
    BY DEF HealthInv, DrainOK
  <2>3. /\ requests[r].waited \in Nat /\ Probe \in Nat /\ Models \in Nat /\ Grace \in Nat
    BY <1>1, RequestTyped, HostAssumption
  <2>4. requests'[r].lost = 0 => drained' <= Probe + requests'[r].age /\ drained' <= Probe + Models
    BY <1>2, <1>3, <2>1, <2>2, <2>3
  <2>5. phase # "stopped"
    BY <1>1 DEF HealthInv, DrainOK
  <2> QED
    BY <1>3, <1>4, <2>4, <2>5 DEF HealthInv, DrainOK
<1> QED
  BY <1>3, <1>4, <1>7, <1>8, <1>9, <1>10, <1>11 DEF HealthInv
\* What is remembered is told as it is.
LEMMA CacheHitKeeps ==
  ASSUME HealthInv, NEW r \in Requests, CacheHit(r)
  PROVE  /\ HealthInv'
         /\ \A q \in Requests : At(q, "asking") => At(q, "asking")'
<1>1. /\ At(r, "lock") /\ HasLock(r) /\ Fresh
      /\ requests' = Told(r, cache.healthy)
      /\ lock' = Tail(lock)
      /\ UNCHANGED <<host, away, cache, phase, drained, rested>>
  BY DEF CacheHit
<1>2. /\ cache \in [age : 0..Ttl, healthy : BOOLEAN] /\ cache # None /\ cache.age < Ttl
      /\ cache.healthy \in BOOLEAN
      /\ rested = cache.age
      /\ cache.healthy = host \/ away <= cache.age + Probe
  BY <1>1 DEF HealthInv, CacheOK, Fresh
<1>3. PICK healthy \in BOOLEAN : healthy = cache.healthy
  BY <1>2
<1>4. /\ requests' = Told(r, healthy)
      /\ cache' \in [age : 0..Ttl, healthy : BOOLEAN] /\ cache' # None
      /\ cache'.age < Ttl
      /\ cache'.healthy = healthy
      /\ rested' = cache'.age
      /\ healthy = host \/ away <= cache'.age + Probe
      /\ (At(r, "lock") /\ cache' = cache) \/ (At(r, "probe") /\ cache'.age = 0)
      /\ HasLock(r)
      /\ lock' = Tail(lock) \/ lock' = Without(lock, r)
      /\ UNCHANGED <<host, away, phase, drained>>
  BY <1>1, <1>2, <1>3
<1>5. HealthInv' /\ \A q \in Requests : \A stage : q # r => (At(q, stage)' <=> At(q, stage))
  BY <1>4, AnswerKeeps
<1>6. ~At(r, "asking")
  BY <1>1 DEF At
<1> QED
  BY <1>5, <1>6

\* The outcome of a probe is remembered, and was so while the probe went on.
LEMMA ProbeEndKeeps ==
  ASSUME HealthInv, NEW r \in Requests, ProbeAnswered(r) \/ ProbeTimedOut(r)
  PROVE  /\ HealthInv'
         /\ \A q \in Requests : At(q, "asking") => At(q, "asking")'
<1>1. PICK healthy \in BOOLEAN :
        /\ At(r, "probe")
        /\ ProbeEnd(r, healthy)
        /\ healthy = host \/ away <= Probe
  BY DEF ProbeAnswered, ProbeTimedOut, HealthInv, CacheOK
<1>2. /\ requests' = Told(r, healthy)
      /\ cache' = [age |-> 0, healthy |-> healthy]
      /\ lock' = Without(lock, r)
      /\ rested' = 0
      /\ UNCHANGED <<host, away, phase, drained>>
  BY <1>1 DEF ProbeEnd
<1>3. HasLock(r)
  BY <1>1 DEF HealthInv, LockOK, HasLock
<1>4. /\ cache' \in [age : 0..Ttl, healthy : BOOLEAN]
      /\ cache'.age = 0 /\ cache'.healthy = healthy
  BY <1>2, HostAssumption
<1>5. cache' # None
  BY <1>2, HostNoneAssumption
<1>6. 0 < Ttl /\ (healthy = host \/ away <= cache'.age + Probe)
  BY <1>1, <1>4, HostAssumption
<1> QED
  BY <1>1, <1>2, <1>3, <1>4, <1>5, <1>6, AnswerKeeps

\* A probe is begun by the one that has the mutex, when nothing fresh is remembered.
LEMMA ProbeStartKeeps ==
  ASSUME HealthInv, NEW r \in Requests, ProbeStart(r)
  PROVE  /\ HealthInv'
         /\ \A q \in Requests : At(q, "asking") => At(q, "asking")'
<1>1. /\ At(r, "lock") /\ HasLock(r) /\ ~Fresh /\ Open(r)
      /\ requests' = [requests EXCEPT ![r].stage = "probe", ![r].age = 0]
      /\ UNCHANGED <<host, away, cache, lock, phase, drained, rested>>
  BY DEF ProbeStart, At
<1> DEFINE new == [requests[r] EXCEPT !.stage = "probe", !.age = 0]
<1>2. requests' = [requests EXCEPT ![r] = new]
  BY <1>1 DEF HealthInv, RequestsOK
<1>3. /\ new \in Request
      /\ new.stage = "probe" /\ new.age = 0
      /\ new.waited = requests[r].waited
      /\ new.lost = requests[r].lost
      /\ new.kind = requests[r].kind
  BY <1>1, RequestTyped DEF HealthInv, Request, Stages
<1>4. Shape(new)
  BY <1>3, HostAssumption DEF Shape
<1> HIDE DEF new
<1>5. /\ RequestsOK'
      /\ requests'[r] = new
      /\ \A q \in Requests : q # r => requests'[q] = requests[q]
      /\ \A q \in Requests : \A stage : q # r => (At(q, stage)' <=> At(q, stage))
  BY <1>2, <1>3, <1>4, OneChanges DEF HealthInv
<1>6. /\ At(r, "probe")' /\ ~At(r, "lock")' /\ ~At(r, "models")' /\ ~At(r, "answered")'
      /\ ~At(r, "asking")
  BY <1>1, <1>3, <1>5, NoneIsNoNumber DEF At, Open
<1>7. \A q \in Requests : ~At(q, "probe")
  BY <1>1, NobodyProbes
<1>8. LockOK'
  BY <1>1, <1>5, <1>6, <1>7 DEF HealthInv, LockOK, HasLock
<1>9. CacheOK'
  BY <1>1 DEF HealthInv, CacheOK, Fresh
<1>10. ToldOK'
  BY <1>1, <1>5, <1>6 DEF HealthInv, ToldOK, StatusIsRecent
<1>11. WaitOK'
  <2>1. /\ requests[r].waited \in Nat /\ requests[r].lost \in Nat
        /\ Probe * requests[r].lost \in Nat
    BY <1>1, RequestTyped, OneMoreProbe DEF HealthInv
  <2>2. requests'[r].waited <= Probe * requests'[r].lost + requests'[r].age
    BY <1>1, <1>3, <1>5, <1>7, <2>1 DEF HealthInv, WaitOK
  <2>3. \A q \in Requests : q # r /\ At(q, "lock") =>
          requests[q].waited <= Probe * requests[q].lost
    BY <1>1, <1>7 DEF HealthInv, WaitOK
  <2> QED
    BY <1>5, <1>6, <1>7, <2>2, <2>3 DEF WaitOK
<1>12. DrainOK'
  BY <1>1, <1>3, <1>5, <1>6 DEF HealthInv, DrainOK
<1> QED
  BY <1>5, <1>6, <1>8, <1>9, <1>10, <1>11, <1>12 DEF HealthInv

\* The models are listed, or the model has answered.
LEMMA AnsweredKeeps ==
  ASSUME HealthInv, NEW r \in Requests, At(r, "models") \/ At(r, "asking"),
         requests' = [requests EXCEPT ![r].stage = "answered"],
         UNCHANGED <<host, away, cache, lock, phase, drained, rested>>
  PROVE  /\ HealthInv'
         /\ ~At(r, "asking")'
         /\ \A q \in Requests : \A stage : q # r => (At(q, stage)' <=> At(q, stage))
<1> DEFINE new == [requests[r] EXCEPT !.stage = "answered"]
<1>1. Open(r) /\ requests' = [requests EXCEPT ![r] = new]
  BY DEF HealthInv, RequestsOK, At
<1>2. /\ new \in Request
      /\ new.stage = "answered"
      /\ new.age = requests[r].age
      /\ new.lost = requests[r].lost
      /\ new.kind = requests[r].kind
      /\ new.told = requests[r].told
  BY <1>1, RequestTyped DEF HealthInv, Request, Stages
<1>3. Shape(new)
  BY <1>2 DEF Shape
<1> HIDE DEF new
<1>4. /\ RequestsOK'
      /\ requests'[r] = new
      /\ \A q \in Requests : q # r => requests'[q] = requests[q]
      /\ \A q \in Requests : \A stage : q # r => (At(q, stage)' <=> At(q, stage))
  BY <1>1, <1>2, <1>3, OneChanges DEF HealthInv
<1>5. /\ ~At(r, "probe")' /\ ~At(r, "lock")' /\ ~At(r, "models")' /\ ~At(r, "asking")'
      /\ ~At(r, "probe") /\ ~At(r, "lock") /\ ~At(r, "answered")
  BY <1>2, <1>4 DEF At
<1>6. LockOK'
  BY <1>4, <1>5 DEF HealthInv, LockOK
<1>7. CacheOK'
  BY <1>4, <1>5 DEF HealthInv, CacheOK, Fresh
<1>8. ASSUME At(r, "models")
      PROVE  ToldOK' /\ DrainOK'
  <2>1. /\ requests[r].kind = "settings"
        /\ requests[r].age <= Models /\ requests[r].age \in Nat
        /\ requests[r].told = host \/ away <= Ttl + Probe + requests[r].age
        /\ requests[r].lost = 0 => drained <= Probe + requests[r].age
    BY <1>1, <1>8, RequestTyped DEF HealthInv, RequestsOK, Shape, At, ToldOK, DrainOK
  <2>2. away \in Int /\ drained \in Int /\ Ttl + Probe \in Nat /\ Probe \in Nat /\ Models \in Nat
    BY HostAssumption DEF HealthInv, CacheOK, DrainOK
  <2>3. /\ requests[r].told = host \/ away <= Ttl + Probe + Models
        /\ requests[r].lost = 0 => drained <= Probe + Models
    BY <2>1, <2>2
  <2>4. StatusIsRecent'
    BY <1>2, <1>4, <1>5, <2>1, <2>3 DEF HealthInv, ToldOK, StatusIsRecent
  <2>5. ToldOK'
    BY <1>4, <1>5, <2>4 DEF HealthInv, ToldOK
  <2>6. DrainOK'
    BY <1>2, <1>4, <1>5, <2>3 DEF HealthInv, DrainOK, At
  <2> QED
    BY <2>5, <2>6
<1>9. ASSUME At(r, "asking")
      PROVE  ToldOK' /\ DrainOK'
  <2>1. new.kind \notin {"status", "settings"}
    BY <1>1, <1>2, <1>9 DEF HealthInv, RequestsOK, Shape, At
  <2>2. StatusIsRecent'
    BY <1>4, <1>5, <2>1 DEF HealthInv, ToldOK, StatusIsRecent
  <2>3. ToldOK'
    BY <1>4, <1>5, <2>2 DEF HealthInv, ToldOK
  <2>4. DrainOK'
    BY <1>4, <1>5, <1>9, <2>1 DEF HealthInv, DrainOK, At
  <2> QED
    BY <2>3, <2>4
<1>10. WaitOK'
  BY <1>4, <1>5 DEF HealthInv, WaitOK, Fresh
<1> QED
  BY <1>4, <1>5, <1>6, <1>7, <1>8, <1>9, <1>10 DEF HealthInv

\* A request that is answered is forgotten.
LEMMA CloseKeeps ==
  ASSUME HealthInv, NEW r \in Requests, Close(r)
  PROVE  /\ HealthInv'
         /\ \A q \in Requests : At(q, "asking") => At(q, "asking")'
<1>1. /\ At(r, "answered")
      /\ requests' = [requests EXCEPT ![r] = None]
      /\ UNCHANGED <<host, away, cache, lock, phase, drained, rested>>
  BY DEF Close
<1>2. /\ RequestsOK'
      /\ requests'[r] = None
      /\ \A q \in Requests : q # r => requests'[q] = requests[q]
      /\ \A q \in Requests : \A stage : q # r => (At(q, stage)' <=> At(q, stage))
  BY <1>1, OneChanges DEF HealthInv
<1>3. /\ \A stage : ~At(r, stage)'
      /\ ~At(r, "probe") /\ ~At(r, "lock") /\ ~At(r, "asking")
  BY <1>1, <1>2 DEF At, Open
<1>4. LockOK' /\ CacheOK'
  BY <1>1, <1>2, <1>3 DEF HealthInv, LockOK, CacheOK, Fresh
<1>5. ToldOK'
  BY <1>1, <1>2, <1>3 DEF HealthInv, ToldOK, StatusIsRecent
<1>6. WaitOK'
  BY <1>1, <1>2, <1>3 DEF HealthInv, WaitOK, Fresh
<1>7. DrainOK'
  BY <1>1, <1>2, <1>3 DEF HealthInv, DrainOK, Open
<1> QED
  BY <1>2, <1>3, <1>4, <1>5, <1>6, <1>7 DEF HealthInv
\* What the others know of a request that is gone.
LEMMA LostByIs ==
  ASSUME RequestsOK, NEW r \in Requests, requests' = LostBy(r)
  PROVE  /\ RequestsOK'
         /\ requests'[r] = None
         /\ \A q \in Requests : \A stage : q # r => (At(q, stage)' <=> At(q, stage))
         /\ \A q \in Requests : q # r =>
              IF At(q, "lock") /\ At(r, "probe")
              THEN requests'[q] = [requests[q] EXCEPT !.lost = @ + 1]
              ELSE requests'[q] = requests[q]
<1>1. /\ requests'[r] = None
      /\ \A q \in Requests : q # r =>
           IF At(q, "lock") /\ At(r, "probe")
           THEN requests'[q] = [requests[q] EXCEPT !.lost = @ + 1]
           ELSE requests'[q] = requests[q]
  BY DEF LostBy
<1>2. ASSUME NEW q \in Requests, At(q, "lock")
      PROVE  LET new == [requests[q] EXCEPT !.lost = @ + 1]
             IN  new \in Request /\ new # None /\ new.stage = "lock" /\ Shape(new)
  <2> DEFINE new == [requests[q] EXCEPT !.lost = @ + 1]
  <2>1. /\ new \in Request
        /\ new.stage = "lock"
        /\ new.kind = requests[q].kind
    BY <1>2, RequestTyped DEF At, Request
  <2> HIDE DEF new
  <2>2. new # None /\ Shape(new)
    BY <2>1, NoneIsNoNumber DEF Shape
  <2> QED
    BY <2>1, <2>2 DEF new
<1>3. \A q \in Requests : \A stage : q # r => (At(q, stage)' <=> At(q, stage))
  <2> SUFFICES ASSUME NEW q \in Requests, NEW stage, q # r
               PROVE  At(q, stage)' <=> At(q, stage)
    OBVIOUS
  <2>1. CASE At(q, "lock") /\ At(r, "probe")
    BY <1>1, <1>2, <2>1 DEF At, Open
  <2>2. CASE ~(At(q, "lock") /\ At(r, "probe"))
    BY <1>1, <2>2 DEF At, Open
  <2> QED
    BY <2>1, <2>2
<1>4. \A q \in Requests : requests'[q] \in Request \cup {None}
  BY <1>1, <1>2 DEF RequestsOK
<1>5. requests' \in [Requests -> Request \cup {None}]
  BY <1>4 DEF LostBy
<1>6. \A q \in Requests : Open(q)' => Shape(requests'[q])
  <2> SUFFICES ASSUME NEW q \in Requests, Open(q)'
               PROVE  Shape(requests'[q])
    OBVIOUS
  <2>1. q # r
    BY <1>1 DEF Open
  <2>2. CASE At(q, "lock") /\ At(r, "probe")
    BY <1>1, <1>2, <2>1, <2>2
  <2>3. CASE ~(At(q, "lock") /\ At(r, "probe"))
    BY <1>1, <2>1, <2>3 DEF RequestsOK, Open
  <2> QED
    BY <2>2, <2>3
<1> QED
  BY <1>1, <1>3, <1>5, <1>6 DEF RequestsOK

\* A client that goes away leaves the mutex to the next, and those behind it with
\* a probe that was lost if it was the one that probed.
LEMMA DisconnectKeeps ==
  ASSUME HealthInv, NEW r \in Requests, Disconnect(r)
  PROVE  /\ HealthInv'
         /\ \A q \in Requests : q # r /\ At(q, "asking") => At(q, "asking")'
<1>1. /\ Open(r)
      /\ requests' = LostBy(r)
      /\ lock' = Without(lock, r)
      /\ UNCHANGED <<host, away, cache, phase, drained, rested>>
  BY DEF Disconnect
<1>2. /\ RequestsOK'
      /\ requests'[r] = None
      /\ \A q \in Requests : \A stage : q # r => (At(q, stage)' <=> At(q, stage))
      /\ \A q \in Requests : q # r =>
           IF At(q, "lock") /\ At(r, "probe")
           THEN requests'[q] = [requests[q] EXCEPT !.lost = @ + 1]
           ELSE requests'[q] = requests[q]
  BY <1>1, LostByIs DEF HealthInv
<1>3. \A stage : ~At(r, stage)'
  BY <1>2 DEF At, Open
<1>4. \A q \in Requests : q # r /\ At(q, "lock") /\ At(r, "probe") =>
        /\ requests'[q].lost = requests[q].lost + 1
        /\ requests'[q].waited = requests[q].waited
        /\ requests'[q].kind = requests[q].kind
  BY <1>2, RequestTyped DEF HealthInv, At, Request
<1>5. \A q \in Requests : q # r /\ ~(At(q, "lock") /\ At(r, "probe")) =>
        requests'[q] = requests[q]
  BY <1>2
<1>6. LockOK'
  <2>1. /\ lock' \in Seq(Requests)
        /\ NoTwice(lock')
        /\ \A q : InSeq(lock', q) <=> InSeq(lock, q) /\ q # r
        /\ lock # <<>> /\ Head(lock) # r => lock' # <<>> /\ Head(lock') = Head(lock)
    BY <1>1, LeavingAnywhere DEF HealthInv, LockOK
  <2>2. \A q \in Requests : InSeq(lock', q) <=> At(q, "lock")' \/ At(q, "probe")'
    BY <1>2, <1>3, <2>1 DEF HealthInv, LockOK
  <2>3. ASSUME NEW q \in Requests, At(q, "probe")'
        PROVE  lock' # <<>> /\ Head(lock') = q
    <3>1. q # r /\ At(q, "probe")
      BY <1>2, <1>3, <2>3
    <3> QED
      BY <2>1, <3>1 DEF HealthInv, LockOK
  <2> QED
    BY <2>1, <2>2, <2>3 DEF LockOK
<1>7. CacheOK'
  BY <1>1, <1>2, <1>3 DEF HealthInv, CacheOK, Fresh
<1>8. ToldOK'
  <2>1. \A q \in Requests : At(q, "models")' \/ At(q, "answered")' =>
          q # r /\ requests'[q] = requests[q]
    BY <1>2, <1>3, <1>5 DEF At
  <2>2. StatusIsRecent'
    BY <1>1, <1>2, <1>3, <2>1 DEF HealthInv, ToldOK, StatusIsRecent
  <2> QED
    BY <1>1, <1>2, <1>3, <2>1, <2>2 DEF HealthInv, ToldOK
<1>9. WaitOK'
  <2>1. ASSUME NEW q \in Requests, At(q, "probe")'
        PROVE  requests'[q].waited <= Probe * requests'[q].lost + requests'[q].age
    <3>1. q # r /\ At(q, "probe") /\ requests'[q] = requests[q]
      BY <1>2, <1>3, <1>5, <2>1 DEF At
    <3> QED
      BY <3>1 DEF HealthInv, WaitOK
  <2>2. ASSUME NEW q \in Requests, At(q, "lock")', At(r, "probe")
        PROVE  requests'[q].waited <= Probe * requests'[q].lost
    <3>1. q # r /\ At(q, "lock")
      BY <1>2, <1>3, <2>2
    <3>2. /\ requests[q].waited \in Nat
          /\ Probe * requests[q].lost \in Nat
          /\ Probe * (requests[q].lost + 1) = Probe * requests[q].lost + Probe
      BY <3>1, RequestTyped, OneMoreProbe DEF HealthInv, At
    <3>3. /\ requests[r].age <= Probe /\ requests[r].age \in Nat
          /\ Probe \in Nat
      BY <1>1, <2>2, RequestTyped, HostAssumption DEF HealthInv, RequestsOK, Shape, At
    <3>4. /\ ~Fresh
          /\ \A p \in Requests : At(p, "probe") => p = r
      BY <2>2 DEF HealthInv, LockOK, CacheOK
    <3>5. \/ requests[q].waited <= Probe * requests[q].lost
          \/ requests[q].waited <= Probe * requests[q].lost + requests[r].age
      BY <3>1, <3>4 DEF HealthInv, WaitOK
    <3>6. requests[q].waited <= Probe * (requests[q].lost + 1)
      BY <3>2, <3>3, <3>5
    <3> QED
      BY <1>4, <2>2, <3>1, <3>6
  <2>3. ASSUME NEW q \in Requests, At(q, "lock")', ~At(r, "probe")
        PROVE  \/ requests'[q].waited <= Probe * requests'[q].lost
               \/ \E p \in Requests :
                    /\ At(p, "probe")'
                    /\ requests'[q].waited <= Probe * requests'[q].lost + requests'[p].age
               \/ /\ Fresh' /\ cache'.age = 0
                  /\ requests'[q].waited <= Probe * (1 + requests'[q].lost)
    <3>1. q # r /\ At(q, "lock") /\ requests'[q] = requests[q]
      BY <1>2, <1>3, <1>5, <2>3
    <3>2. \A p \in Requests : At(p, "probe") =>
            p # r /\ At(p, "probe")' /\ requests'[p] = requests[p]
      BY <1>2, <1>5, <2>3
    <3>3. (Fresh /\ cache.age = 0) => (Fresh' /\ cache'.age = 0)
      BY <1>1 DEF Fresh
    <3> QED
      BY <3>1, <3>2, <3>3 DEF HealthInv, WaitOK
  <2> QED
    BY <2>1, <2>2, <2>3 DEF WaitOK
<1>10. DrainOK'
  <2>1. phase # "stopped"
    BY <1>1 DEF HealthInv, DrainOK
  <2>2. ASSUME NEW q \in Requests
        PROVE  /\ At(q, "lock")' \/ At(q, "probe")' => drained' <= requests'[q].waited
               /\ At(q, "models")' /\ requests'[q].lost = 0 =>
                    drained' <= Probe + requests'[q].age
               /\ /\ At(q, "answered")' /\ requests'[q].lost = 0
                  /\ requests'[q].kind \in {"status", "settings"}
                  => drained' <= Probe + Models
    <3>1. CASE q = r
      BY <1>3, <3>1
    <3>2. CASE q # r /\ At(q, "lock") /\ At(r, "probe")
      <4>1. ~At(q, "models")' /\ ~At(q, "answered")'
        BY <1>2, <3>2 DEF At
      <4> QED
        BY <1>1, <1>4, <3>2, <4>1 DEF HealthInv, DrainOK
    <3>3. CASE q # r /\ ~(At(q, "lock") /\ At(r, "probe"))
      BY <1>1, <1>2, <1>5, <3>3 DEF HealthInv, DrainOK
    <3> QED
      BY <3>1, <3>2, <3>3
  <2> QED
    BY <1>1, <2>1, <2>2 DEF HealthInv, DrainOK
<1> QED
  BY <1>2, <1>6, <1>7, <1>8, <1>9, <1>10 DEF HealthInv
\* What time does to a request that is open, when nothing is due.
LEMMA OlderIs ==
  ASSUME HealthInv, Tick
  PROVE  /\ RequestsOK'
         /\ \A q \in Requests : Open(q)' <=> Open(q)
         /\ \A q \in Requests : \A stage : At(q, stage)' <=> At(q, stage)
         /\ \A q \in Requests : Open(q) =>
              /\ requests'[q].kind = requests[q].kind
              /\ requests'[q].lost = requests[q].lost
              /\ requests'[q].told = requests[q].told
              /\ At(q, "lock") \/ At(q, "probe") => requests'[q].waited = requests[q].waited + 1
              /\ At(q, "probe") \/ At(q, "models") => requests'[q].age = requests[q].age + 1
<1>1. /\ requests' = [r \in Requests |-> IF Open(r) THEN Older(requests[r]) ELSE None]
      /\ ~Overdue
  BY DEF Tick
<1>2. ASSUME NEW q \in Requests, Open(q)
      PROVE  /\ requests'[q] \in Request
             /\ requests'[q].stage = requests[q].stage
             /\ requests'[q].kind = requests[q].kind
             /\ requests'[q].lost = requests[q].lost
             /\ requests'[q].told = requests[q].told
             /\ At(q, "lock") \/ At(q, "probe") => requests'[q].waited = requests[q].waited + 1
             /\ requests'[q].age = IF At(q, "probe") \/ At(q, "models")
                                   THEN requests[q].age + 1 ELSE requests[q].age
  <2>1. requests'[q] = Older(requests[q])
    BY <1>1, <1>2
  <2>2. requests[q] \in Request
    BY <1>2, RequestTyped DEF HealthInv
  <2>3. /\ At(q, "lock") <=> requests[q].stage = "lock"
        /\ At(q, "probe") <=> requests[q].stage = "probe"
        /\ At(q, "models") <=> requests[q].stage = "models"
    BY <1>2 DEF At
  <2>4. ASSUME NEW old \in Request
        PROVE  /\ Older(old) \in Request
               /\ Older(old).stage = old.stage
               /\ Older(old).kind = old.kind
               /\ Older(old).lost = old.lost
               /\ Older(old).told = old.told
               /\ old.stage \in {"lock", "probe"} => Older(old).waited = old.waited + 1
               /\ Older(old).age = IF old.stage \in {"probe", "models"}
                                   THEN old.age + 1 ELSE old.age
    <3> DEFINE w == IF old.stage \in {"lock", "probe", "asking"} THEN old.waited + 1 ELSE old.waited
               a == IF old.stage \in {"probe", "models"} THEN old.age + 1 ELSE old.age
    <3>1. w \in Nat /\ a \in Nat
      BY <2>4 DEF Request
    <3>2. Older(old) = [old EXCEPT !.waited = w, !.age = a]
      BY DEF Older
    <3>3. old.stage \in {"lock", "probe"} => w = old.waited + 1
      OBVIOUS
    <3>4. a = IF old.stage \in {"probe", "models"} THEN old.age + 1 ELSE old.age
      OBVIOUS
    <3> HIDE DEF w, a
    <3>5. /\ Older(old) \in Request
          /\ Older(old).stage = old.stage
          /\ Older(old).kind = old.kind
          /\ Older(old).lost = old.lost
          /\ Older(old).told = old.told
          /\ Older(old).waited = w
          /\ Older(old).age = a
      BY <2>4, <3>1, <3>2 DEF Request
    <3> QED
      BY <3>3, <3>4, <3>5
  <2> QED
    BY <2>1, <2>2, <2>3, <2>4
<1>3. \A q \in Requests : Open(q)' <=> Open(q)
  BY <1>1, <1>2, NoneIsNoNumber DEF Open
<1>4. \A q \in Requests : \A stage : At(q, stage)' <=> At(q, stage)
  BY <1>2, <1>3 DEF At
<1>5. ASSUME NEW q \in Requests, Open(q)'
      PROVE  Shape(requests'[q])
  <2>1. Open(q) /\ Shape(requests[q]) /\ requests[q].age \in Nat
    BY <1>3, <1>5, RequestTyped DEF HealthInv, RequestsOK
  <2>2. At(q, "probe") => requests[q].age < Probe
    BY <1>1, <2>1, HostAssumption DEF Overdue
  <2>3. At(q, "models") => requests[q].age < Models
    BY <1>1, <2>1, HostAssumption DEF Overdue
  <2> QED
    BY <1>2, <2>1, <2>2, <2>3, HostAssumption DEF Shape, At
<1>6. requests' \in [Requests -> Request \cup {None}]
  <2>1. \A q \in Requests : requests'[q] \in Request \cup {None}
    BY <1>1, <1>2
  <2> QED
    BY <1>1, <2>1
<1> QED
  BY <1>2, <1>3, <1>4, <1>5, <1>6 DEF RequestsOK

LEMMA UpToGrows ==
  ASSUME NEW limit \in Nat, NEW n \in 0..limit
  PROVE  /\ UpTo(limit, n) \in 0..limit
         /\ UpTo(limit, n) <= n + 1
         /\ UpTo(limit, n) < limit => n < limit /\ UpTo(limit, n) = n + 1
BY DEF UpTo

\* Time passes for those who wait only while one of them probes.
LEMMA TickKeeps ==
  ASSUME HealthInv, Tick
  PROVE  /\ HealthInv'
         /\ \A q \in Requests : At(q, "asking") => At(q, "asking")'
<1>1. /\ ~Overdue
      /\ away' = UpTo(Horizon, away)
      /\ cache' = IF cache = None THEN None ELSE [cache EXCEPT !.age = UpTo(Ttl, @)]
      /\ drained' = IF phase = "draining" THEN drained + 1 ELSE drained
      /\ rested' = UpTo(Ttl, rested)
      /\ UNCHANGED <<host, lock, phase>>
  BY DEF Tick
<1>2. /\ RequestsOK'
      /\ \A q \in Requests : Open(q)' <=> Open(q)
      /\ \A q \in Requests : \A stage : At(q, stage)' <=> At(q, stage)
      /\ \A q \in Requests : Open(q) =>
           /\ requests'[q].kind = requests[q].kind
           /\ requests'[q].lost = requests[q].lost
           /\ requests'[q].told = requests[q].told
           /\ At(q, "lock") \/ At(q, "probe") => requests'[q].waited = requests[q].waited + 1
           /\ At(q, "probe") \/ At(q, "models") => requests'[q].age = requests[q].age + 1
  BY OlderIs
<1>3. /\ away \in 0..Horizon /\ Horizon \in Nat
      /\ Ttl \in Nat \ {0} /\ Probe \in Nat /\ Models \in Nat /\ Grace \in Nat
      /\ away' \in 0..Horizon /\ away' <= away + 1
  BY <1>1, HostAssumption, UpToGrows DEF HealthInv, CacheOK, Horizon
<1>4. \A q \in Requests : ~At(q, "answered")
  BY <1>1 DEF Overdue
<1>5. LockOK'
  BY <1>1, <1>2 DEF HealthInv, LockOK
<1>6. ASSUME cache # None
      PROVE  /\ cache.age \in 0..Ttl /\ cache.healthy \in BOOLEAN
             /\ cache' = [cache EXCEPT !.age = UpTo(Ttl, cache.age)]
             /\ cache' \in [age : 0..Ttl, healthy : BOOLEAN]
             /\ cache' # None
             /\ cache'.healthy = cache.healthy
             /\ cache'.age = UpTo(Ttl, cache.age)
             /\ cache'.age \in 0..Ttl
  <2>1. cache \in [age : 0..Ttl, healthy : BOOLEAN]
    BY <1>6 DEF HealthInv, CacheOK
  <2>2. UpTo(Ttl, cache.age) \in 0..Ttl
    BY <1>3, <2>1, UpToGrows
  <2>3. cache' = [cache EXCEPT !.age = UpTo(Ttl, cache.age)]
    BY <1>1, <1>6
  <2>4. /\ cache' \in [age : 0..Ttl, healthy : BOOLEAN]
        /\ cache' \in [age : Nat, healthy : BOOLEAN]
        /\ cache'.healthy = cache.healthy
        /\ cache'.age = UpTo(Ttl, cache.age)
    BY <1>3, <2>1, <2>2, <2>3
  <2> QED
    BY <2>1, <2>2, <2>3, <2>4, HostNoneAssumption
<1>7. Fresh' => Fresh /\ cache'.age = cache.age + 1 /\ cache'.healthy = cache.healthy
  <2> SUFFICES ASSUME Fresh'
               PROVE  Fresh /\ cache'.age = cache.age + 1 /\ cache'.healthy = cache.healthy
    OBVIOUS
  <2>1. cache # None
    BY <1>1 DEF Fresh
  <2> QED
    BY <1>3, <1>6, <2>1, UpToGrows DEF Fresh
<1>8. CacheOK'
  <2>1. rested' = IF cache' = None THEN Ttl ELSE cache'.age
    <3>1. rested = IF cache = None THEN Ttl ELSE cache.age
      BY DEF HealthInv, CacheOK
    <3>2. UpTo(Ttl, Ttl) = Ttl
      BY <1>3 DEF UpTo
    <3> QED
      BY <1>1, <1>6, <3>1, <3>2
  <2>2. Fresh' => cache'.healthy = host' \/ away' <= cache'.age + Probe
    <3>1. Fresh => cache.healthy = host \/ away <= cache.age + Probe
      BY DEF HealthInv, CacheOK
    <3>2. Fresh => cache.age \in 0..Ttl
      BY <1>6 DEF Fresh
    <3> QED
      BY <1>1, <1>3, <1>7, <3>1, <3>2
  <2>3. cache' \in [age : 0..Ttl, healthy : BOOLEAN] \cup {None}
    BY <1>1, <1>6
  <2>4. \A r \in Requests : At(r, "probe")' => ~Fresh'
    BY <1>2, <1>7 DEF HealthInv, CacheOK
  <2> QED
    BY <1>1, <1>3, <2>1, <2>2, <2>3, <2>4 DEF HealthInv, CacheOK
<1>9. ToldOK'
  <2>1. StatusIsRecent'
    BY <1>2, <1>4 DEF StatusIsRecent
  <2>2. ASSUME NEW r \in Requests, At(r, "models")'
        PROVE  requests'[r].told = host' \/ away' <= Ttl + Probe + requests'[r].age
    <3>1. At(r, "models") /\ Open(r) /\ requests[r].age \in Nat
      BY <1>2, <2>2, RequestTyped DEF HealthInv, At
    <3>2. requests[r].told = host \/ away <= Ttl + Probe + requests[r].age
      BY <3>1 DEF HealthInv, ToldOK
    <3> QED
      BY <1>1, <1>2, <1>3, <3>1, <3>2
  <2> QED
    BY <2>1, <2>2 DEF ToldOK
<1>10. WaitOK'
  <2>1. ASSUME NEW q \in Requests, At(q, "probe")'
        PROVE  requests'[q].waited <= Probe * requests'[q].lost + requests'[q].age
    <3>1. /\ At(q, "probe") /\ Open(q)
          /\ requests[q].waited \in Nat /\ requests[q].age \in Nat
          /\ Probe * requests[q].lost \in Nat
      BY <1>2, <2>1, RequestTyped, OneMoreProbe DEF HealthInv, At
    <3>2. requests[q].waited <= Probe * requests[q].lost + requests[q].age
      BY <3>1 DEF HealthInv, WaitOK
    <3>3. requests'[q].lost = requests[q].lost
      BY <1>2, <3>1
    <3> QED
      BY <1>2, <3>1, <3>2, <3>3
  <2>2. ASSUME NEW q \in Requests, At(q, "lock")'
        PROVE  \E p \in Requests :
                 /\ At(p, "probe")'
                 /\ requests'[q].waited <= Probe * requests'[q].lost + requests'[p].age
    <3>1. /\ At(q, "lock") /\ Open(q)
          /\ requests[q].waited \in Nat
          /\ Probe * requests[q].lost \in Nat
      BY <1>2, <2>2, RequestTyped, OneMoreProbe DEF HealthInv, At
    <3>2. lock # <<>>
      BY <3>1, EmptySeq DEF HealthInv, LockOK, InSeq
    <3>3. PICK p \in Requests : p = Head(lock) /\ At(p, "probe")
      <4>1. Head(lock) \in Requests /\ (At(Head(lock), "lock") \/ At(Head(lock), "probe"))
        BY <3>2, HeadWaits
      <4>2. ~At(Head(lock), "lock")
        BY <1>1, <3>2, <4>1 DEF Overdue, HasLock
      <4> QED
        BY <4>1, <4>2
    <3>4. Open(p) /\ requests[p].age \in Nat /\ ~Fresh
      BY <3>3, RequestTyped DEF HealthInv, CacheOK, At
    <3>5. \A x \in Requests : At(x, "probe") => x = p
      BY <3>3 DEF HealthInv, LockOK
    <3>6. requests[q].waited <= Probe * requests[q].lost + requests[p].age
      <4>1. \/ requests[q].waited <= Probe * requests[q].lost
            \/ requests[q].waited <= Probe * requests[q].lost + requests[p].age
        BY <3>1, <3>4, <3>5 DEF HealthInv, WaitOK
      <4> QED
        BY <3>1, <3>4, <4>1
    <3>7. /\ requests'[q].lost = requests[q].lost
          /\ requests'[q].waited = requests[q].waited + 1
          /\ requests'[p].age = requests[p].age + 1
          /\ At(p, "probe")'
      BY <1>2, <3>1, <3>3, <3>4
    <3>8. requests'[q].waited <= Probe * requests'[q].lost + requests'[p].age
      BY <3>1, <3>4, <3>6, <3>7
    <3> QED
      BY <3>7, <3>8
  <2> QED
    BY <2>1, <2>2 DEF WaitOK
<1>11. DrainOK'
  <2>1. drained' \in 0..Grace /\ drained' <= drained + 1 /\ drained \in 0..Grace
    <3>1. phase = "draining" => drained < Grace
      BY <1>1, <1>3 DEF HealthInv, DrainOK, Overdue
    <3> QED
      BY <1>1, <1>3, <3>1 DEF HealthInv, DrainOK
  <2>2. \A q \in Requests : At(q, "lock")' \/ At(q, "probe")' => drained' <= requests'[q].waited
    <3> SUFFICES ASSUME NEW q \in Requests, At(q, "lock")' \/ At(q, "probe")'
                 PROVE  drained' <= requests'[q].waited
      OBVIOUS
    <3>1. Open(q) /\ (At(q, "lock") \/ At(q, "probe")) /\ requests[q].waited \in Nat
      BY <1>2, RequestTyped DEF HealthInv, At
    <3>2. drained <= requests[q].waited
      BY <3>1 DEF HealthInv, DrainOK
    <3> QED
      BY <1>2, <2>1, <3>1, <3>2
  <2>3. ASSUME NEW q \in Requests, At(q, "models")', requests'[q].lost = 0
        PROVE  drained' <= Probe + requests'[q].age
    <3>1. Open(q) /\ At(q, "models") /\ requests[q].age \in Nat /\ requests[q].lost = 0
      BY <1>2, <2>3, RequestTyped DEF HealthInv, At
    <3>2. drained <= Probe + requests[q].age
      BY <3>1 DEF HealthInv, DrainOK
    <3> QED
      BY <1>2, <1>3, <2>1, <3>1, <3>2
  <2>4. \A q \in Requests : ~At(q, "answered")'
    BY <1>2, <1>4
  <2> QED
    BY <1>1, <1>2, <2>1, <2>2, <2>3, <2>4 DEF HealthInv, DrainOK
<1> QED
  BY <1>2, <1>5, <1>8, <1>9, <1>10, <1>11 DEF HealthInv
\* The process stops and forgets all of it.
LEMMA ForgetKeeps ==
  ASSUME HealthInv, Forget
  PROVE  HealthInv'
<1>1. /\ \A r \in Requests : requests'[r] = None
      /\ requests' = [r \in Requests |-> None]
      /\ cache' = None /\ lock' = <<>> /\ rested' = Ttl
      /\ phase' = "stopped" /\ drained' = 0
      /\ UNCHANGED <<host, away>>
  BY DEF Forget
<1>2. /\ \A r \in Requests : ~Open(r)'
      /\ \A r \in Requests : \A stage : ~At(r, stage)'
      /\ ~Fresh'
  BY <1>1 DEF Open, At, Fresh
<1>3. RequestsOK' /\ ToldOK' /\ WaitOK'
  BY <1>1, <1>2 DEF RequestsOK, ToldOK, WaitOK, StatusIsRecent
<1>4. LockOK'
  <2>1. lock' \in Seq(Requests) /\ Len(lock') = 0
    BY <1>1, EmptySeq
  <2> QED
    BY <1>2, <2>1 DEF LockOK, InSeq, NoTwice
<1>5. CacheOK'
  BY <1>1, <1>2 DEF HealthInv, CacheOK
<1>6. DrainOK'
  BY <1>1, <1>2, HostAssumption DEF DrainOK
<1> QED
  BY <1>3, <1>4, <1>5, <1>6 DEF HealthInv

LEMMA HostTurnsKeeps ==
  ASSUME HealthInv, HostTurns
  PROVE  HealthInv'
<1>1. /\ host' = ~host /\ away' = 0
      /\ UNCHANGED <<cache, lock, requests, phase, drained, rested>>
  BY DEF HostTurns
<1>2. /\ \A r \in Requests : Open(r)' <=> Open(r)
      /\ \A r \in Requests : \A stage : At(r, stage)' <=> At(r, stage)
      /\ Fresh' <=> Fresh
  BY <1>1 DEF Open, At, Fresh
<1>3. RequestsOK' /\ LockOK' /\ WaitOK' /\ DrainOK'
  BY <1>1, <1>2 DEF HealthInv, RequestsOK, LockOK, WaitOK, DrainOK
<1>4. CacheOK'
  <2>1. Fresh => cache.age \in Nat
    BY DEF HealthInv, CacheOK, Fresh
  <2> QED
    BY <1>1, <1>2, <2>1, HostAssumption DEF HealthInv, CacheOK, Horizon
<1>5. ToldOK'
  <2>1. \A r \in Requests : At(r, "models") => away' <= Ttl + Probe + requests[r].age
    BY <1>1, RequestTyped, HostAssumption DEF HealthInv, At
  <2>2. StatusIsRecent'
    BY <1>1, HostAssumption DEF StatusIsRecent
  <2> QED
    BY <1>1, <1>2, <2>1, <2>2 DEF ToldOK
<1> QED
  BY <1>3, <1>4, <1>5 DEF HealthInv

\* What the health rests on changes with nothing else.
LEMMA HealthFrame ==
  ASSUME HealthInv, UNCHANGED <<host, away, cache, lock, requests, phase, drained, rested>>
  PROVE  HealthInv'
<1>1. /\ \A r \in Requests : Open(r)' <=> Open(r)
      /\ \A r \in Requests : \A stage : At(r, stage)' <=> At(r, stage)
      /\ Fresh' <=> Fresh
  BY DEF Open, At, Fresh
<1>2. RequestsOK' /\ LockOK' /\ CacheOK'
  BY <1>1 DEF HealthInv, RequestsOK, LockOK, CacheOK
<1>3. ToldOK' /\ WaitOK' /\ DrainOK'
  BY <1>1 DEF HealthInv, ToldOK, StatusIsRecent, WaitOK, DrainOK
<1> QED
  BY <1>2, <1>3 DEF HealthInv

LEMMA PhaseKeeps ==
  ASSUME HealthInv, Signal \/ Boot
  PROVE  HealthInv'
<1>1. /\ UNCHANGED <<host, away, cache, lock, requests, drained, rested>>
      /\ drained = 0
      /\ phase' \in {"serving", "draining"}
  BY DEF Signal, Boot, HealthInv, DrainOK
<1>2. /\ \A r \in Requests : Open(r)' <=> Open(r)
      /\ \A r \in Requests : \A stage : At(r, stage)' <=> At(r, stage)
      /\ Fresh' <=> Fresh
  BY <1>1 DEF Open, At, Fresh
<1>3. RequestsOK' /\ LockOK' /\ CacheOK'
  BY <1>1, <1>2 DEF HealthInv, RequestsOK, LockOK, CacheOK
<1>4. ToldOK' /\ WaitOK'
  BY <1>1, <1>2 DEF HealthInv, ToldOK, StatusIsRecent, WaitOK
<1>5. DrainOK'
  BY <1>1, <1>2 DEF HealthInv, DrainOK
<1> QED
  BY <1>3, <1>4, <1>5 DEF HealthInv

\* The four ways to arrive.
Arrives(r) == AskHealth(r) \/ Search(r) \/ MakeDigest(r) \/ Listen(r)

LEMMA ArrivalIs ==
  ASSUME NEW r \in Requests, Arrives(r)
  PROVE  \E kind \in Kinds, stage \in Stages :
           /\ Arrive(r, kind, stage)
           /\ \/ stage = "lock" /\ kind \in {"status", "settings"} /\ lock' = Append(lock, r)
              \/ /\ stage \in {"asking", "open", "answered"}
                 /\ kind \in {"search", "digest", "stream"}
                 /\ lock' = lock
           /\ \/ stage = "asking" /\ Acquire(r)
              \/ stage # "asking" /\ UNCHANGED <<calls, queue>>
<1>1. CASE AskHealth(r)
  BY <1>1 DEF AskHealth, Kinds, Stages
<1>2. CASE Search(r)
  BY <1>2 DEF Search, Kinds, Stages
<1>3. CASE MakeDigest(r)
  BY <1>3 DEF MakeDigest, Kinds, Stages
<1>4. CASE Listen(r)
  BY <1>4 DEF Listen, Kinds, Stages
<1> QED
  BY <1>1, <1>2, <1>3, <1>4 DEF Arrives

LEMMA ArrivalKeeps ==
  ASSUME HealthInv, NEW r \in Requests, Arrives(r)
  PROVE  /\ HealthInv'
         /\ ~Open(r)
         /\ \/ At(r, "asking")' /\ Acquire(r) /\ requests'[r].waited = 0
            \/ ~At(r, "asking")' /\ UNCHANGED <<calls, queue>>
         /\ \A q \in Requests : q # r => requests'[q] = requests[q]
         /\ \A q \in Requests : q # r /\ At(q, "asking") => At(q, "asking")'
<1>1. PICK kind \in Kinds, stage \in Stages :
        /\ Arrive(r, kind, stage)
        /\ \/ stage = "lock" /\ kind \in {"status", "settings"} /\ lock' = Append(lock, r)
           \/ /\ stage \in {"asking", "open", "answered"}
              /\ kind \in {"search", "digest", "stream"}
              /\ lock' = lock
        /\ \/ stage = "asking" /\ Acquire(r)
           \/ stage # "asking" /\ UNCHANGED <<calls, queue>>
  BY ArrivalIs
<1>2. /\ HealthInv'
      /\ At(r, stage)'
      /\ \A q \in Requests : \A st : q # r => (At(q, st)' <=> At(q, st))
  BY <1>1, ArriveKeeps
<1>3. /\ ~Open(r)
      /\ requests' = [requests EXCEPT ![r] = NewRequest(kind, stage)]
  BY <1>1 DEF Arrive
<1>4. /\ \A q \in Requests : q # r => requests'[q] = requests[q]
      /\ requests'[r].waited = 0
  BY <1>3 DEF HealthInv, RequestsOK, NewRequest
<1>5. stage # "asking" => ~At(r, "asking")'
  BY <1>2 DEF At
<1> QED
  BY <1>1, <1>2, <1>3, <1>4, <1>5

LEMMA HealthStep ==
  ASSUME HealthInv, [Next]_hostVars
  PROVE  HealthInv'
<1>1. CASE \E w \in Workers : WorkerCalls(w) \/ WorkerDone(w)
  BY <1>1, HealthFrame DEF WorkerCalls, WorkerDone
<1>2. CASE \E r \in Requests : Arrives(r)
  BY <1>2, ArrivalKeeps
<1>3. CASE \E r \in Requests : CacheHit(r) \/ ProbeStart(r)
  BY <1>3, CacheHitKeeps, ProbeStartKeeps
<1>4. CASE \E r \in Requests : ProbeAnswered(r) \/ ProbeTimedOut(r)
  BY <1>4, ProbeEndKeeps
<1>5. CASE \E r \in Requests : ModelsListed(r) \/ ModelAnswered(r)
  BY <1>5, AnsweredKeeps DEF ModelsListed, ModelAnswered
<1>6. CASE \E r \in Requests : Close(r) \/ Disconnect(r)
  BY <1>6, CloseKeeps, DisconnectKeeps
<1>7. CASE Signal \/ Boot
  BY <1>7, PhaseKeeps
<1>8. CASE Exit
  BY <1>8, ForgetKeeps DEF Exit
<1>9. CASE HostTurns
  BY <1>9, HostTurnsKeeps
<1>10. CASE Tick
  BY <1>10, TickKeeps
<1>11. CASE UNCHANGED hostVars
  BY <1>11, HealthFrame DEF hostVars
<1> QED
  BY <1>1, <1>2, <1>3, <1>4, <1>5, <1>6, <1>7, <1>8, <1>9, <1>10, <1>11 DEF Next, Arrives
-----------------------------------------------------------------------------
(* The permits again, step by step. *)

LEMMA PermitInitially ==
  ASSUME Init
  PROVE  PermitInv
<1>1. /\ calls = [c \in Callers |-> None]
      /\ queue = <<>>
      /\ queue \in Seq(Callers) /\ Len(queue) = 0
  BY EmptySeq DEF Init
<1>2. Holders = {}
  BY <1>1 DEF Holders
<1>3. Cardinality(Holders) = 0
  BY <1>2, FS_EmptySet
<1>4. NoPermitIsLost
  BY <1>1, <1>2, <1>3, HostAssumption DEF NoPermitIsLost
<1> QED
  BY <1>1, <1>4 DEF PermitInv, PermitsOK, NoTwice, Asking, InSeq, Callers

\* Permits are not touched, and who asks the model goes on asking.
LEMMA PermitFrame ==
  ASSUME PermitInv, UNCHANGED <<calls, queue>>,
         \A q \in Requests : Asking(q) => At(q, "asking")'
  PROVE  PermitInv'
<1>1. PermitsOK'
  BY DEF PermitInv, PermitsOK, NoPermitIsLost, Holders, Waits
<1> QED
  BY <1>1 DEF PermitInv, Asking

\* A worker is no request.
LEMMA WorkersApart ==
  ASSUME NEW w \in Workers
  PROVE  w \in Callers /\ w \notin Requests
BY HostAssumption DEF Callers

LEMMA WorkerPermits ==
  ASSUME PermitInv, NEW w \in Workers, WorkerCalls(w) \/ WorkerDone(w)
  PROVE  PermitInv'
<1>1. /\ w \in Callers /\ w \notin Requests
      /\ UNCHANGED requests
      /\ \A r \in Requests : At(r, "asking")' <=> At(r, "asking")
  BY WorkersApart DEF WorkerCalls, WorkerDone, At, Open
<1>2. CASE WorkerCalls(w)
  <2>1. ~Asking(w) /\ Acquire(w)
    BY <1>2 DEF WorkerCalls, Asking, Waits, InSeq
  <2>2. /\ PermitsOK'
        /\ \A q \in Callers : Asking(q)' <=> Asking(q) \/ q = w
    BY <1>1, <2>1, AcquireKeeps DEF PermitInv
  <2> QED
    BY <1>1, <2>2 DEF PermitInv, Callers
<1>3. CASE WorkerDone(w)
  <2>1. /\ PermitsOK'
        /\ \A q \in Callers : Asking(q)' <=> Asking(q) /\ q # w
    BY <1>1, <1>3, ReleaseKeeps DEF PermitInv, WorkerDone
  <2> QED
    BY <1>1, <2>1 DEF PermitInv, Callers
<1> QED
  BY <1>2, <1>3

LEMMA ArrivalPermits ==
  ASSUME HealthInv, PermitInv, NEW r \in Requests, Arrives(r)
  PROVE  PermitInv'
<1>1. /\ ~Open(r)
      /\ \/ At(r, "asking")' /\ Acquire(r)
         \/ UNCHANGED <<calls, queue>>
      /\ \A q \in Requests : q # r /\ At(q, "asking") => At(q, "asking")'
  BY ArrivalKeeps
<1>2. ~Asking(r)
  BY <1>1 DEF PermitInv, At
<1>3. CASE UNCHANGED <<calls, queue>>
  BY <1>1, <1>2, <1>3, PermitFrame DEF PermitInv
<1>4. CASE At(r, "asking")' /\ Acquire(r)
  <2>1. /\ PermitsOK'
        /\ \A q \in Callers : Asking(q)' <=> Asking(q) \/ q = r
    BY <1>2, <1>4, AcquireKeeps DEF PermitInv, Callers
  <2> QED
    BY <1>1, <1>4, <2>1 DEF PermitInv, Callers
<1> QED
  BY <1>1, <1>3, <1>4

\* The model has answered, or the client is gone: the permit goes on.
LEMMA ModelEndPermits ==
  ASSUME HealthInv, PermitInv, NEW r \in Requests, ModelAnswered(r) \/ Disconnect(r)
  PROVE  PermitInv'
<1>1. \A q \in Requests : q # r /\ At(q, "asking") => At(q, "asking")'
  <2>1. CASE ModelAnswered(r)
    <3>1. /\ At(r, "asking")
          /\ requests' = [requests EXCEPT ![r].stage = "answered"]
          /\ UNCHANGED <<host, away, cache, lock, phase, drained, rested>>
      BY <2>1 DEF ModelAnswered
    <3> QED
      BY <3>1, AnsweredKeeps
  <2>2. CASE Disconnect(r)
    BY <2>2, DisconnectKeeps
  <2> QED
    BY <2>1, <2>2
<1>2. /\ PermitsOK'
      /\ \A q \in Callers : Asking(q)' <=> Asking(q) /\ q # r
  <2>1. r \in Callers
    BY DEF Callers
  <2>2. CASE calls[r] # None /\ Release(r)
    BY <2>1, <2>2, ReleaseKeeps DEF PermitInv
  <2>3. CASE calls[r] = None /\ queue' = Without(queue, r) /\ UNCHANGED calls
    BY <2>1, <2>3, DropKeeps DEF PermitInv
  <2> QED
    BY <2>2, <2>3 DEF ModelAnswered, Disconnect
<1> QED
  BY <1>1, <1>2 DEF PermitInv, Callers

LEMMA ForgetPermits ==
  ASSUME Forget
  PROVE  PermitInv'
<1>1. /\ calls' = [c \in Callers |-> None]
      /\ queue' = <<>>
      /\ queue' \in Seq(Callers) /\ Len(queue') = 0
  BY EmptySeq DEF Forget
<1>2. Holders' = {}
  BY <1>1 DEF Holders
<1>3. Cardinality(Holders') = 0
  BY <1>2, FS_EmptySet
<1>4. NoPermitIsLost'
  BY <1>1, <1>2, <1>3, HostAssumption DEF NoPermitIsLost
<1> QED
  BY <1>1, <1>4 DEF PermitInv, PermitsOK, NoTwice, Asking, InSeq, Callers

\* Calls grow older, and none beyond its time-out.
LEMMA TickPermits ==
  ASSUME HealthInv, PermitInv, Tick
  PROVE  PermitInv'
<1>1. /\ ~Overdue
      /\ calls' = [c \in Callers |-> IF calls[c] = None THEN None ELSE calls[c] + 1]
      /\ UNCHANGED queue
  BY DEF Tick
<1>2. ASSUME NEW c \in Callers
      PROVE  /\ calls'[c] \in 0..Generate \cup {None}
             /\ calls'[c] = None <=> calls[c] = None
  <2>1. CASE calls[c] = None
    BY <1>1, <2>1
  <2>2. CASE calls[c] # None
    <3>1. calls[c] \in 0..Generate /\ Limit(c) <= Generate /\ Limit(c) \in Nat
      BY <2>2, HostAssumption DEF PermitInv, PermitsOK, Limit
    <3>2. calls[c] < Limit(c)
      BY <1>1, <2>2, <3>1 DEF Overdue
    <3>3. calls[c] + 1 \in 0..Generate
      BY <3>1, <3>2, HostAssumption
    <3>4. calls[c] + 1 # None
      BY <3>3, NoneIsNoNumber, HostAssumption
    <3> QED
      BY <1>1, <2>2, <3>3, <3>4
  <2> QED
    BY <2>1, <2>2
<1>3. Holders' = Holders
  BY <1>2 DEF Holders
<1>4. PermitsOK'
  <2>1. NoPermitIsLost'
    BY <1>1, <1>3 DEF PermitInv, PermitsOK, NoPermitIsLost, Waits
  <2>2. calls' \in [Callers -> 0..Generate \cup {None}]
    BY <1>1, <1>2
  <2> QED
    BY <1>1, <2>1, <2>2 DEF PermitInv, PermitsOK
<1>5. \A r \in Requests : Asking(r)' <=> Asking(r)
  BY <1>1, <1>2 DEF Asking, Callers
<1> QED
  BY <1>4, <1>5, TickKeeps DEF PermitInv

LEMMA PermitStep ==
  ASSUME HealthInv, PermitInv, [Next]_hostVars
  PROVE  PermitInv'
<1>1. CASE \E w \in Workers : WorkerCalls(w) \/ WorkerDone(w)
  BY <1>1, WorkerPermits
<1>2. CASE \E r \in Requests : Arrives(r)
  BY <1>2, ArrivalPermits
<1>3. CASE \E r \in Requests : CacheHit(r) \/ ProbeStart(r) \/ ProbeAnswered(r) \/ ProbeTimedOut(r)
  <2>1. UNCHANGED <<calls, queue>>
    BY <1>3 DEF CacheHit, ProbeStart, ProbeAnswered, ProbeTimedOut, ProbeEnd
  <2>2. \A q \in Requests : At(q, "asking") => At(q, "asking")'
    BY <1>3, CacheHitKeeps, ProbeStartKeeps, ProbeEndKeeps
  <2> QED
    BY <2>1, <2>2, PermitFrame DEF PermitInv
<1>4. CASE \E r \in Requests : ModelsListed(r)
  <2>1. PICK r \in Requests : ModelsListed(r)
    BY <1>4
  <2>2. /\ UNCHANGED <<calls, queue>>
        /\ At(r, "models") /\ ~At(r, "asking")
    BY <2>1 DEF ModelsListed, At
  <2>3. \A q \in Requests : q # r => (At(q, "asking")' <=> At(q, "asking"))
    BY <2>1, AnsweredKeeps DEF ModelsListed
  <2> QED
    BY <2>2, <2>3, PermitFrame DEF PermitInv
<1>5. CASE \E r \in Requests : ModelAnswered(r) \/ Disconnect(r)
  BY <1>5, ModelEndPermits
<1>6. CASE \E r \in Requests : Close(r)
  <2>1. UNCHANGED <<calls, queue>>
    BY <1>6 DEF Close
  <2>2. \A q \in Requests : At(q, "asking") => At(q, "asking")'
    BY <1>6, CloseKeeps
  <2> QED
    BY <2>1, <2>2, PermitFrame DEF PermitInv
<1>7. CASE Signal \/ Boot \/ HostTurns \/ UNCHANGED hostVars
  <2>1. UNCHANGED <<calls, queue, requests>>
    BY <1>7 DEF Signal, Boot, HostTurns, hostVars
  <2>2. \A q \in Requests : At(q, "asking") => At(q, "asking")'
    BY <2>1 DEF At, Open
  <2> QED
    BY <2>1, <2>2, PermitFrame DEF PermitInv
<1>8. CASE Exit
  BY <1>8, ForgetPermits DEF Exit
<1>9. CASE Tick
  BY <1>9, TickPermits
<1> QED
  BY <1>1, <1>2, <1>3, <1>4, <1>5, <1>6, <1>7, <1>8, <1>9 DEF Next, Arrives
-----------------------------------------------------------------------------
(* What follows. *)

HostInv == HealthInv /\ PermitInv

LEMMA HostInvariant == Spec => []HostInv
<1>1. Init => HostInv
  BY HealthInitially, PermitInitially DEF HostInv
<1>2. HostInv /\ [Next]_hostVars => HostInv'
  BY HealthStep, PermitStep DEF HostInv
<1> QED
  BY <1>1, <1>2, PTL DEF Spec

\* Queues, calls, requests and histories keep their ranges; no call outlives its
\* time-out and no drain its window.
THEOREM HostTypes == Spec => []HostTypeOK
<1>1. HostInv => HostTypeOK
  <2> SUFFICES ASSUME HostInv PROVE HostTypeOK
    OBVIOUS
  <2>1. rested \in 0..Ttl
    <3>1. cache # None => cache.age \in 0..Ttl
      BY DEF HostInv, HealthInv, CacheOK
    <3> QED
      BY <3>1, HostAssumption DEF HostInv, HealthInv, CacheOK
  <2> QED
    BY <2>1 DEF HostInv, HealthInv, PermitInv, PermitsOK, RequestsOK, LockOK, CacheOK,
                DrainOK, HostTypeOK
<1> QED
  BY HostInvariant, <1>1, PTL

\* No permit is lost and none is used twice, whoever disconnects where
\* (llm_permits, embed_query).
THEOREM PermitsAreKept == Spec => []NoPermitIsLost
<1>1. HostInv => NoPermitIsLost
  BY DEF HostInv, PermitInv, PermitsOK
<1> QED
  BY HostInvariant, <1>1, PTL

\* /status is never further behind than the life of a probe's result and the time
\* a probe takes, for any number of requests and all time-outs.
THEOREM StatusStaysRecent == Spec => []StatusIsRecent
<1>1. HostInv => StatusIsRecent
  BY DEF HostInv, HealthInv, ToldOK
<1> QED
  BY HostInvariant, <1>1, PTL

\* Whoever asks for the health waits for one probe, and for those that were given
\* up ahead of it, however many ask.
THEOREM StatusNeverHangs == Spec => []StatusWaitBounded
<1>1. HostInv => StatusWaitBounded
  BY WaitBound DEF HostInv
<1> QED
  BY HostInvariant, <1>1, PTL

\* A probe that is under way and was not before has just been started.
LEMMA NewProbe ==
  ASSUME HealthInv, [Next]_hostVars,
         NEW q \in Requests, At(q, "probe")', ~At(q, "probe")
  PROVE  ProbeStart(q)
<1> SUFFICES ASSUME ~ProbeStart(q) PROVE FALSE
  OBVIOUS
<1>1. requests \in [Requests -> Request \cup {None}]
  BY DEF HealthInv, RequestsOK
<1>2. CASE UNCHANGED requests
  BY <1>2 DEF At, Open
<1>3. CASE \E r \in Requests : Arrives(r)
  <2>1. PICK r \in Requests, kind \in Kinds, stage \in Stages \ {"probe"} :
          requests' = [requests EXCEPT ![r] = NewRequest(kind, stage)]
    BY <1>3, ArrivalIs DEF Arrive
  <2> QED
    BY <1>1, <2>1 DEF NewRequest, At, Open
<1>4. CASE \E r \in Requests : CacheHit(r) \/ ProbeAnswered(r) \/ ProbeTimedOut(r)
  <2>1. PICK r \in Requests, healthy \in BOOLEAN : Open(r) /\ requests' = Told(r, healthy)
    BY <1>4 DEF CacheHit, ProbeAnswered, ProbeTimedOut, ProbeEnd, At, Fresh, HealthInv, CacheOK
  <2>2. PICK new \in Request :
          /\ requests' = [requests EXCEPT ![r] = new]
          /\ new.stage \in {"models", "answered"}
    BY <2>1, ToldIs DEF HealthInv
  <2> QED
    BY <1>1, <2>2 DEF At, Open
<1>5. CASE \E r \in Requests : ProbeStart(r)
  BY <1>1, <1>5 DEF ProbeStart, At, Open
<1>6. CASE \E r \in Requests : ModelsListed(r) \/ ModelAnswered(r)
  <2>1. PICK r \in Requests :
          /\ Open(r)
          /\ requests' = [requests EXCEPT ![r].stage = "answered"]
    BY <1>6 DEF ModelsListed, ModelAnswered, At
  <2>2. requests[r] \in Request
    BY <2>1, RequestTyped DEF HealthInv
  <2> QED
    BY <1>1, <2>1, <2>2 DEF At, Open, Request
<1>7. CASE \E r \in Requests : Close(r)
  BY <1>1, <1>7 DEF Close, At, Open
<1>8. CASE \E r \in Requests : Disconnect(r)
  <2>1. PICK r \in Requests : requests' = LostBy(r)
    BY <1>8 DEF Disconnect
  <2> QED
    BY <2>1, LostByIs DEF HealthInv, At, Open
<1>9. CASE Exit
  BY <1>9 DEF Exit, Forget, At, Open
<1>10. CASE Tick
  BY <1>10, OlderIs
<1>11. CASE \E w \in Workers : WorkerCalls(w) \/ WorkerDone(w)
  BY <1>2, <1>11 DEF WorkerCalls, WorkerDone
<1>12. CASE Signal \/ Boot \/ HostTurns \/ UNCHANGED hostVars
  BY <1>2, <1>12 DEF Signal, Boot, HostTurns, hostVars
<1> QED
  BY <1>3, <1>4, <1>5, <1>6, <1>7, <1>8, <1>9, <1>10, <1>11, <1>12 DEF Next, Arrives

\* However many ask at once, a probe is begun only when none is under way and the
\* last has aged (the mutex of Health).
THEOREM ProbesAreSpaced == Spec => ProbesSpaced
<1>1. ASSUME HostInv, [Next]_hostVars
      PROVE  [Probing' \ Probing # {} => Probing = {} /\ rested = Ttl]_hostVars
  <2> SUFFICES ASSUME Probing' \ Probing # {}
               PROVE  Probing = {} /\ rested = Ttl
    OBVIOUS
  <2>1. PICK q \in Requests : At(q, "probe")' /\ ~At(q, "probe")
    BY DEF Probing
  <2>2. ProbeStart(q)
    BY <1>1, <2>1, NewProbe DEF HostInv
  <2>3. Probing = {}
    BY <1>1, <2>2, NobodyProbes DEF ProbeStart, Probing, HostInv
  <2>4. rested = Ttl
    <3>1. ~Fresh
      BY <2>2 DEF ProbeStart
    <3> QED
      BY <1>1, <3>1, HostAssumption DEF HostInv, HealthInv, CacheOK, Fresh
  <2> QED
    BY <2>3, <2>4
<1> QED
  BY HostInvariant, <1>1, PTL DEF Spec, ProbesSpaced

\* The drain window is long enough for every request for the status or the settings
\* that did not lose a probe, for all time-outs with PROBE_TIMEOUT and that of
\* models within the window.
THEOREM QuickOnesSurvive == Spec => QuickRequestsSurvive
<1>1. ASSUME HostInv, [Next]_hostVars
      PROVE  [ phase' = "stopped" =>
                 \A r \in Requests : Open(r) =>
                   requests[r].kind \in {"search", "digest", "stream"} \/ requests[r].lost > 0 ]_hostVars
  <2> SUFFICES ASSUME phase' = "stopped", NEW r \in Requests, Open(r),
                      requests[r].kind \notin {"search", "digest", "stream"}, requests[r].lost = 0
               PROVE  FALSE
    <3>1. \A r \in Requests : Open(r) => requests[r].lost \in Nat
      BY <1>1, RequestTyped DEF HostInv, HealthInv
    <3> QED
      BY <3>1
  <2>1. /\ requests[r].kind \in {"status", "settings"}
        /\ requests[r].stage \in {"lock", "probe", "models", "answered"}
        /\ requests[r].stage = "models" => requests[r].age <= Models
        /\ requests[r].waited \in Nat /\ requests[r].age \in Nat
    BY <1>1, RequestTyped DEF HostInv, HealthInv, RequestsOK, Shape, Kinds
  <2>2. drained \in 0..Grace /\ phase # "stopped"
    BY <1>1 DEF HostInv, HealthInv, DrainOK
  <2>3. At(r, "lock") \/ At(r, "probe") => requests[r].waited <= Probe
    BY <1>1, WaitBound, HostAssumption DEF HostInv, StatusWaitBounded
  <2>4. drained <= Probe + Models
    BY <1>1, <2>1, <2>2, <2>3, HostAssumption DEF HostInv, HealthInv, DrainOK, At
  <2>5. Exit
    BY <1>1, <2>2 DEF Next, WorkerCalls, WorkerDone, AskHealth, Search, MakeDigest, Listen, Arrive,
       CacheHit, ProbeStart, ProbeAnswered, ProbeTimedOut, ProbeEnd, ModelsListed,
       ModelAnswered, Close, Disconnect, Signal, Boot, HostTurns, Tick, hostVars
  <2>6. drained = Grace
    BY <2>5 DEF Exit
  <2> QED
    BY <2>4, <2>6, HostAssumption
<1> QED
  BY HostInvariant, <1>1, PTL DEF Spec, QuickRequestsSurvive
-----------------------------------------------------------------------------
(* Sums over finite sets: that they exist, and how they compare. *)

\* A set of numbers has a least one: what stands for induction here.
LEMMA LeastNumber ==
  ASSUME NEW T \in SUBSET Nat, T # {}
  PROVE  \E m \in T : \A k \in T : m <= k
<1>1. IsWellFoundedOn(OpToRel(<, Nat), Nat)
  BY NatLessThanWellFounded
<1> DEFINE R == OpToRel(<, Nat)
<1>2. \E m \in T : \A k \in T : ~(<<k, m>> \in R)
  <2> HIDE DEF R
  <2>1. IsWellFoundedOn(R, Nat)
    BY <1>1 DEF R
  <2> QED
    BY <2>1, WFMin
<1>3. PICK m \in T : \A k \in T : ~(<<k, m>> \in R)
  BY <1>2
<1>4. ASSUME NEW k \in T, k < m  PROVE FALSE
  <2>1. <<k, m>> \in R
    BY <1>4 DEF OpToRel
  <2> QED
    BY <1>3, <2>1
<1> QED
  BY <1>4

\* Of sets within a finite one there is a smallest.
LEMMA SmallestSet ==
  ASSUME NEW D, IsFiniteSet(D), NEW T \in SUBSET SUBSET D, T # {}
  PROVE  \E m \in T : \A s \in T : s \subseteq m => s = m
<1> DEFINE sizes == {Cardinality(s) : s \in T}
<1>1. \A s \in T : IsFiniteSet(s) /\ Cardinality(s) \in Nat
  BY FS_Subset, FS_CardinalityType
<1>2. PICK n \in sizes : \A k \in sizes : n <= k
  <2>1. sizes \in SUBSET Nat /\ sizes # {}
    BY <1>1
  <2> HIDE DEF sizes
  <2> QED
    BY <2>1, LeastNumber
<1>3. PICK m \in T : n = Cardinality(m)
  BY <1>2
<1>4. ASSUME NEW s \in T, s \subseteq m  PROVE s = m
  <2>1. Cardinality(s) <= Cardinality(m) /\ (Cardinality(m) = Cardinality(s) => m = s)
    BY <1>1, <1>4, FS_Subset
  <2>2. Cardinality(m) <= Cardinality(s)
    BY <1>2, <1>3
  <2> QED
    BY <1>1, <2>1, <2>2
<1> QED
  BY <1>3, <1>4

\* g gives, for every subset of D, the sum of the weights in it; the elements are
\* added up in the order in which CHOOSE picks them, as in MapThenFoldSet.
Some(s) == CHOOSE x \in s : TRUE

Adds(g, w, D) ==
  g = [s \in SUBSET D |-> IF s = {} THEN 0 ELSE w[Some(s)] + g[s \ {Some(s)}]]

\* The recursive function of the sums exists.
LEMMA SumExists ==
  ASSUME NEW D, IsFiniteSet(D), NEW w \in [D -> Nat]
  PROVE  \E g : Adds(g, w, D)
<1> DEFINE Level(n) == {s \in SUBSET D : Cardinality(s) <= n}
           Next1(g, s) == IF s = {} THEN 0 ELSE w[Some(s)] + g[s \ {Some(s)}]
           Good(n) == \E g : g = [s \in Level(n) |-> Next1(g, s)]
           bad == {n \in Nat : ~Good(n)}
<1>1. \A s \in SUBSET D : IsFiniteSet(s) /\ Cardinality(s) \in Nat
  BY FS_Subset, FS_CardinalityType
<1>2. Good(0)
  <2> DEFINE g == [s \in Level(0) |-> 0]
  <2>1. \A s \in Level(0) : s = {}
    BY <1>1, FS_EmptySet
  <2>2. g = [s \in Level(0) |-> Next1(g, s)]
    BY <2>1
  <2> QED
    BY <2>2
<1>3. ASSUME NEW n \in Nat, Good(n)  PROVE Good(n + 1)
  <2>1. PICK g : g = [s \in Level(n) |-> Next1(g, s)]
    BY <1>3
  <2> DEFINE h == [s \in Level(n + 1) |-> Next1(g, s)]
  <2>2. ASSUME NEW s \in Level(n + 1), s # {}
        PROVE  h[s \ {Some(s)}] = g[s \ {Some(s)}]
    <3> DEFINE t == s \ {Some(s)}
    <3>1. Some(s) \in s
      BY <2>2 DEF Some
    <3>2. Cardinality(t) = Cardinality(s) - 1
      BY <1>1, <3>1, FS_RemoveElement
    <3>3. t \in Level(n) /\ t \in Level(n + 1)
      BY <1>1, <3>2
    <3>4. g[t] = Next1(g, t)
      BY <2>1, <3>3
    <3>5. h[t] = Next1(g, t)
      BY <3>3
    <3> QED
      BY <3>4, <3>5
  <2>3. \A s \in Level(n + 1) : Next1(g, s) = Next1(h, s)
    BY <2>2
  <2>4. h = [s \in Level(n + 1) |-> Next1(h, s)]
    BY <2>3
  <2> QED
    BY <2>4
<1>4. bad = {}
  <2> SUFFICES ASSUME bad # {} PROVE FALSE
    OBVIOUS
  <2> HIDE DEF Good
  <2>1. PICK m \in bad : \A k \in bad : m <= k
    BY LeastNumber
  <2>2. m # 0
    BY <1>2, <2>1
  <2>3. m - 1 \in Nat /\ Good(m - 1)
    BY <2>1, <2>2
  <2>4. Good((m - 1) + 1)
    BY <1>3, <2>3
  <2> QED
    BY <2>1, <2>4
<1>5. Good(Cardinality(D))
  <2> HIDE DEF Good
  <2> QED
    BY <1>1, <1>4
<1>6. Level(Cardinality(D)) = SUBSET D
  BY FS_Subset
<1>7. PICK g : g = [s \in Level(Cardinality(D)) |-> Next1(g, s)]
  BY <1>5
<1>8. g = [s \in SUBSET D |-> Next1(g, s)]
  BY <1>6, <1>7
<1> QED
  BY <1>8 DEF Adds

\* What its definition says of one set.
LEMMA SumUnfolds ==
  ASSUME NEW D, NEW w, NEW g, Adds(g, w, D)
  PROVE  \A s \in SUBSET D :
           /\ s = {} => g[s] = 0
           /\ s # {} => g[s] = w[Some(s)] + g[s \ {Some(s)}] /\ Some(s) \in s
<1> TAKE s \in SUBSET D
<1>1. g[s] = IF s = {} THEN 0 ELSE w[Some(s)] + g[s \ {Some(s)}]
  BY DEF Adds
<1>2. s # {} => Some(s) \in s
  BY DEF Some
<1> QED
  BY <1>1, <1>2

\* Sums of numbers are numbers.
LEMMA SumType ==
  ASSUME NEW D, IsFiniteSet(D), NEW w \in [D -> Nat], NEW g, Adds(g, w, D)
  PROVE  \A s \in SUBSET D : g[s] \in Nat
<1> DEFINE bad == {t \in SUBSET D : g[t] \notin Nat}
<1>0. bad \in SUBSET SUBSET D
  OBVIOUS
<1> SUFFICES ASSUME bad # {} PROVE FALSE
  OBVIOUS
<1>1. PICK m \in bad : \A t \in bad : t \subseteq m => t = m
  <2> HIDE DEF bad
  <2> QED
    BY <1>0, SmallestSet
<1>2. m \in SUBSET D /\ g[m] \notin Nat
  BY <1>1
<1>3. \A t \in SUBSET D : t \subseteq m /\ t # m => g[t] \in Nat
  BY <1>1
<1> HIDE DEF bad
<1>4. m # {} /\ g[m] = w[Some(m)] + g[m \ {Some(m)}] /\ Some(m) \in m
  <2>1. /\ m = {} => g[m] = 0
        /\ m # {} => g[m] = w[Some(m)] + g[m \ {Some(m)}] /\ Some(m) \in m
    BY <1>2, SumUnfolds
  <2>2. m # {}
    BY <1>2, <2>1
  <2> QED
    BY <2>1, <2>2
<1>5. g[m \ {Some(m)}] \in Nat /\ w[Some(m)] \in Nat
  BY <1>2, <1>3, <1>4
<1> QED
  BY <1>2, <1>4, <1>5

\* Any element may be added last.
LEMMA SumSplits ==
  ASSUME NEW D, IsFiniteSet(D), NEW w \in [D -> Nat], NEW g, Adds(g, w, D)
  PROVE  \A s \in SUBSET D : \A x \in s : g[s] = w[x] + g[s \ {x}]
<1> DEFINE bad == {t \in SUBSET D : \E y \in t : g[t] # w[y] + g[t \ {y}]}
<1>0. bad \in SUBSET SUBSET D
  OBVIOUS
<1> SUFFICES ASSUME NEW s \in SUBSET D, NEW x \in s, g[s] # w[x] + g[s \ {x}]
             PROVE  FALSE
  OBVIOUS
<1>a. s \in bad
  OBVIOUS
<1>1. PICK m \in bad : \A t \in bad : t \subseteq m => t = m
  <2> HIDE DEF bad
  <2> QED
    BY <1>0, <1>a, SmallestSet
<1>2. m \in SUBSET D /\ \E y \in m : g[m] # w[y] + g[m \ {y}]
  BY <1>1
<1>3. \A t \in SUBSET D : t \subseteq m /\ t # m => \A y \in t : g[t] = w[y] + g[t \ {y}]
  BY <1>1
<1> HIDE DEF bad
<1>4. PICK y \in m : g[m] # w[y] + g[m \ {y}]
  BY <1>2
<1>5. PICK z \in m : g[m] = w[z] + g[m \ {z}]
  <2>1. m # {}
    BY <1>4
  <2>2. g[m] = w[Some(m)] + g[m \ {Some(m)}] /\ Some(m) \in m
    BY <1>2, <2>1, SumUnfolds
  <2> QED
    BY <2>2
<1>6. y # z
  BY <1>4, <1>5
<1> DEFINE rest == (m \ {z}) \ {y}
<1>7. g[m \ {z}] = w[y] + g[rest]
  <2>1. m \ {z} \in SUBSET D /\ m \ {z} # m /\ y \in m \ {z}
    BY <1>2, <1>6
  <2> QED
    BY <1>3, <2>1
<1>8. g[m \ {y}] = w[z] + g[rest]
  <2>1. m \ {y} \in SUBSET D /\ m \ {y} # m /\ z \in m \ {y}
    BY <1>2, <1>6
  <2>2. g[m \ {y}] = w[z] + g[(m \ {y}) \ {z}]
    BY <1>3, <2>1
  <2>3. rest = (m \ {y}) \ {z}
    OBVIOUS
  <2> HIDE DEF rest
  <2> QED
    BY <2>2, <2>3, Zenon
<1>9. w[y] \in Nat /\ w[z] \in Nat /\ g[rest] \in Nat
  <2>1. rest \in SUBSET D
    BY <1>2
  <2> QED
    BY <1>2, <2>1, SumType
<1> HIDE DEF rest
<1> QED
  BY <1>4, <1>5, <1>7, <1>8, <1>9

\* A sum over fewer elements, or of smaller weights, is smaller.
LEMMA SumGrows ==
  ASSUME NEW D, IsFiniteSet(D),
         NEW v \in [D -> Nat], NEW f, Adds(f, v, D),
         NEW w \in [D -> Nat], NEW g, Adds(g, w, D),
         NEW s \in SUBSET D, NEW t \in SUBSET s,
         \A x \in t : v[x] <= w[x]
  PROVE  f[t] <= g[s]
<1> DEFINE bad == {u \in SUBSET D : ~ (f[u \cap t] <= g[u])}
<1>0. bad \in SUBSET SUBSET D
  OBVIOUS
<1> SUFFICES ASSUME bad # {} PROVE FALSE
  <2>1. s \cap t = t
    OBVIOUS
  <2>2. s \notin bad
    OBVIOUS
  <2> QED
    BY <2>1, <2>2
<1>1. PICK m \in bad : \A u \in bad : u \subseteq m => u = m
  <2> HIDE DEF bad
  <2> QED
    BY <1>0, SmallestSet
<1>2. m \in SUBSET D /\ ~ (f[m \cap t] <= g[m])
  BY <1>1
<1>3. \A u \in SUBSET D : u \subseteq m /\ u # m => f[u \cap t] <= g[u]
  BY <1>1
<1> HIDE DEF bad
<1>4. m # {}
  <2>1. {} \in SUBSET D /\ f[{}] = 0 /\ g[{}] = 0
    BY SumUnfolds
  <2>2. {} \cap t = {}
    OBVIOUS
  <2> QED
    BY <1>2, <2>1, <2>2
<1>5. PICK x \in m : TRUE
  BY <1>4
<1> DEFINE rest == m \ {x}
<1>6. rest \in SUBSET D /\ rest # m /\ rest \subseteq m
  BY <1>2, <1>5
<1>7. f[rest \cap t] <= g[rest]
  BY <1>3, <1>6
<1>8. g[m] = w[x] + g[rest]
  BY <1>2, <1>5, SumSplits
<1>9. /\ g[rest] \in Nat /\ f[rest \cap t] \in Nat
      /\ v[x] \in Nat /\ w[x] \in Nat
  <2>1. rest \cap t \in SUBSET D
    BY <1>2
  <2>2. g[rest] \in Nat
    BY <1>6, SumType
  <2>3. f[rest \cap t] \in Nat
    BY <2>1, SumType
  <2> QED
    BY <1>2, <2>2, <2>3
<1>10. CASE x \in t
  <2>1. (m \cap t) \ {x} = rest \cap t /\ m \cap t \in SUBSET D /\ x \in m \cap t
    BY <1>2, <1>10
  <2>2. f[m \cap t] = v[x] + f[rest \cap t]
    BY <2>1, SumSplits
  <2> HIDE DEF rest
  <2>3. v[x] <= w[x]
    BY <1>10
  <2> QED
    BY <1>2, <1>7, <1>8, <1>9, <2>2, <2>3
<1>11. CASE x \notin t
  <2>1. rest \cap t = m \cap t
    BY <1>11
  <2> HIDE DEF rest
  <2>2. f[rest \cap t] = f[m \cap t]
    BY <2>1, Zenon
  <2> QED
    BY <1>2, <1>7, <1>8, <1>9, <2>2
<1> QED
  BY <1>10, <1>11
-----------------------------------------------------------------------------
(* How long a request waits for the model. *)

\* The weights of the sums: the time-out of each caller.
limits == [c \in Callers |-> Limit(c)]

\* Every call is within its time-out.
InTime(k) ==
  /\ k \in [Callers -> 0..Generate \cup {None}]
  /\ \A c \in Callers : k[c] # None => k[c] <= Limit(c)

\* How long a call may still take, the one that has not begun included.
Left(k) == [c \in Callers |-> IF k[c] # None THEN Limit(c) - k[c] ELSE Limit(c)]

\* Whose calls a request still waits for, its own included: those that have a
\* permit, and those that are not behind it.
Ahead(k, q, r) ==
  {c \in Callers : IF k[r] # None THEN c = r ELSE k[c] # None \/ InOrder(q, c, r)}

\* The time waited and the calls ahead add up to the calls of all at most.
Budget(k, q, r, waited) ==
  \A f, g : Adds(f, Left(k), Callers) /\ Adds(g, limits, Callers) =>
    waited + f[Ahead(k, q, r)] <= g[Callers]

\* Every one that asks is on its way and within its budget.
AskingOK ==
  /\ InTime(calls)
  /\ \A r \in Requests : At(r, "asking") =>
       Asking(r) /\ Budget(calls, queue, r, requests[r].waited)

\* The time-outs, and what is left of them, are numbers.
LEMMA LimitIs ==
  /\ limits \in [Callers -> Nat]
  /\ \A c \in Callers : limits[c] = Limit(c) /\ Limit(c) \in Nat /\ Limit(c) <= Generate
BY HostAssumption DEF limits, Limit

LEMMA LeftIs ==
  ASSUME NEW k, InTime(k)
  PROVE  /\ Left(k) \in [Callers -> Nat]
         /\ \A c \in Callers :
              /\ Left(k)[c] <= limits[c]
              /\ k[c] = None => Left(k)[c] = Limit(c)
              /\ k[c] # None => k[c] \in Nat /\ Left(k)[c] = Limit(c) - k[c]
<1> SUFFICES ASSUME NEW c \in Callers
             PROVE  /\ Left(k)[c] \in Nat /\ Left(k)[c] <= limits[c]
                    /\ k[c] = None => Left(k)[c] = Limit(c)
                    /\ k[c] # None => k[c] \in Nat /\ Left(k)[c] = Limit(c) - k[c]
  BY DEF Left
<1>1. k[c] # None => k[c] \in Nat /\ k[c] <= Limit(c)
  BY HostAssumption DEF InTime
<1>2. limits[c] = Limit(c) /\ Limit(c) \in Nat
  BY LimitIs
<1> QED
  BY <1>1, <1>2 DEF Left

\* One that comes waits for each of the others at most once.
LEMMA BudgetAtFirst ==
  ASSUME NEW k, InTime(k), NEW q, NEW r
  PROVE  Budget(k, q, r, 0)
<1> SUFFICES ASSUME NEW f, NEW g, Adds(f, Left(k), Callers), Adds(g, limits, Callers)
             PROVE  0 + f[Ahead(k, q, r)] <= g[Callers]
  BY DEF Budget
<1>1. Ahead(k, q, r) \in SUBSET Callers
  BY DEF Ahead
<1>2. f[Ahead(k, q, r)] <= g[Callers]
  BY <1>1, HoldersFinite, LimitIs, LeftIs, SumGrows
<1>3. f[Ahead(k, q, r)] \in Nat
  BY <1>1, HoldersFinite, LeftIs, SumType
<1> QED
  BY <1>2, <1>3

\* It does not wait longer as long as nobody gets ahead of it and no call ahead
\* of it begins again.
LEMMA BudgetStays ==
  ASSUME NEW k, InTime(k), NEW q, NEW j, InTime(j), NEW p, NEW r, NEW n \in Nat,
         Budget(k, q, r, n),
         Ahead(j, p, r) \subseteq Ahead(k, q, r),
         \A c \in Ahead(j, p, r) : Left(j)[c] <= Left(k)[c]
  PROVE  Budget(j, p, r, n)
<1> SUFFICES ASSUME NEW f, NEW g, Adds(f, Left(j), Callers), Adds(g, limits, Callers)
             PROVE  n + f[Ahead(j, p, r)] <= g[Callers]
  BY DEF Budget
<1>1. Left(k) \in [Callers -> Nat] /\ Left(j) \in [Callers -> Nat]
  BY LeftIs
<1>2. PICK h : Adds(h, Left(k), Callers)
  BY <1>1, HoldersFinite, SumExists
<1>3. Ahead(k, q, r) \in SUBSET Callers /\ Ahead(j, p, r) \in SUBSET Ahead(k, q, r)
  BY DEF Ahead
<1>4. f[Ahead(j, p, r)] <= h[Ahead(k, q, r)]
  BY <1>1, <1>2, <1>3, HoldersFinite, SumGrows
<1>5. n + h[Ahead(k, q, r)] <= g[Callers]
  BY <1>2 DEF Budget
<1>6. f[Ahead(j, p, r)] \in Nat /\ h[Ahead(k, q, r)] \in Nat
  BY <1>1, <1>2, <1>3, HoldersFinite, SumType
<1>7. g[Callers] \in Nat
  BY LimitIs, HoldersFinite, SumType
<1> QED
  BY <1>4, <1>5, <1>6, <1>7

\* Nor does waiting cost it more than it brings: one of those ahead comes to its
\* end by as much.
LEMMA BudgetSpent ==
  ASSUME NEW k, InTime(k), NEW q, NEW j, InTime(j), NEW r, NEW n \in Nat,
         Budget(k, q, r, n),
         Ahead(j, q, r) = Ahead(k, q, r),
         \A c \in Callers : Left(j)[c] <= Left(k)[c],
         NEW x \in Ahead(k, q, r), Left(j)[x] + 1 <= Left(k)[x]
  PROVE  Budget(j, q, r, n + 1)
<1> SUFFICES ASSUME NEW f, NEW g, Adds(f, Left(j), Callers), Adds(g, limits, Callers)
             PROVE  (n + 1) + f[Ahead(j, q, r)] <= g[Callers]
  BY DEF Budget
<1> DEFINE A == Ahead(k, q, r)
           rest == A \ {x}
<1>1. Left(k) \in [Callers -> Nat] /\ Left(j) \in [Callers -> Nat]
  BY LeftIs
<1>2. PICK h : Adds(h, Left(k), Callers)
  BY <1>1, HoldersFinite, SumExists
<1>3. A \in SUBSET Callers /\ rest \in SUBSET Callers /\ x \in A /\ x \in Callers
  BY DEF Ahead
<1>3a. Ahead(j, q, r) = A
  OBVIOUS
<1> HIDE DEF A
<1>4. h[A] = Left(k)[x] + h[rest] /\ f[A] = Left(j)[x] + f[rest]
  <2>1. h[A] = Left(k)[x] + h[rest]
    BY <1>1, <1>2, <1>3, HoldersFinite, SumSplits
  <2>2. f[A] = Left(j)[x] + f[rest]
    BY <1>1, <1>3, HoldersFinite, SumSplits
  <2> QED
    BY <2>1, <2>2
<1>5. f[rest] <= h[rest]
  BY <1>1, <1>2, <1>3, HoldersFinite, SumGrows
<1>6. h[A] \in Nat /\ f[A] \in Nat /\ h[rest] \in Nat /\ f[rest] \in Nat
  BY <1>1, <1>2, <1>3, HoldersFinite, SumType
<1>7. Left(k)[x] \in Nat /\ Left(j)[x] \in Nat
  BY <1>1, <1>3
<1>8. n + h[A] <= g[Callers]
  BY <1>2 DEF Budget, A
<1>9. g[Callers] \in Nat
  BY LimitIs, HoldersFinite, SumType
<1>10. f[Ahead(j, q, r)] = f[A]
  BY <1>3a, Zenon
<1> HIDE DEF rest
<1>11. f[A] + 1 <= h[A]
  BY <1>4, <1>5, <1>6, <1>7
<1> QED
  BY <1>6, <1>8, <1>9, <1>10, <1>11


\* Who takes a permit or a place in the queue is in nobody's way.
LEMMA AcquireWaits ==
  ASSUME PermitsOK, InTime(calls), NEW c \in Callers, ~Asking(c), Acquire(c)
  PROVE  /\ InTime(calls')
         /\ \A r \in Callers : \A n \in Nat :
              r # c /\ Asking(r) /\ Budget(calls, queue, r, n) => Budget(calls', queue', r, n)
<1>1. calls[c] = None /\ ~InSeq(queue, c) /\ 0 \in 0..Generate /\ 0 # None /\ Permits \in Nat
  BY HostAssumption, NoneIsNoNumber DEF Asking
<1>2. CASE Cardinality(Holders) < Permits /\ calls' = [calls EXCEPT ![c] = 0] /\ UNCHANGED queue
  <2>1. \A r \in Callers : ~InSeq(queue, r)
    <3>1. queue = <<>>
      BY <1>1, <1>2, HoldersFinite DEF PermitsOK, NoPermitIsLost
    <3> QED
      BY <3>1 DEF InSeq
  <2>2. InTime(calls')
    BY <1>1, <1>2, LimitIs DEF InTime
  <2>3. ASSUME NEW r \in Callers, NEW n \in Nat, r # c, Asking(r), Budget(calls, queue, r, n)
        PROVE  Budget(calls', queue', r, n)
    <3>1. calls[r] # None /\ calls'[r] = calls[r]
      BY <1>2, <2>1, <2>3 DEF Asking, InTime
    <3>2. Ahead(calls', queue', r) = {r} /\ Ahead(calls, queue, r) = {r}
      BY <3>1 DEF Ahead
    <3>3. Left(calls')[r] <= Left(calls)[r]
      BY <2>2, <3>1, LeftIs, LimitIs
    <3> QED
      BY <2>2, <2>3, <3>2, <3>3, BudgetStays
  <2> QED
    BY <2>2, <2>3
<1>3. CASE Cardinality(Holders) >= Permits /\ queue' = Append(queue, c) /\ UNCHANGED calls
  <2>1. ASSUME NEW r \in Callers, NEW n \in Nat, r # c, Asking(r), Budget(calls, queue, r, n)
        PROVE  Budget(calls', queue', r, n)
    <3>1. \A x : InOrder(queue', x, r) => InOrder(queue, x, r)
      BY <1>1, <1>3, <2>1, Entering DEF PermitsOK
    <3>2. Ahead(calls', queue', r) \subseteq Ahead(calls, queue, r)
      BY <1>3, <3>1 DEF Ahead
    <3>3. \A x \in Ahead(calls', queue', r) : Left(calls')[x] <= Left(calls)[x]
      <4> SUFFICES ASSUME NEW x \in Callers PROVE Left(calls)[x] <= Left(calls)[x]
        BY <1>3 DEF Ahead
      <4>1. Left(calls)[x] \in Nat
        BY LeftIs
      <4> QED
        BY <4>1
    <3> QED
      BY <1>3, <2>1, <3>2, <3>3, BudgetStays
  <2> QED
    BY <1>3, <2>1
<1> QED
  BY <1>2, <1>3 DEF Acquire

\* A permit that is given back goes to the one whose call was next anyway.
LEMMA ReleaseWaits ==
  ASSUME PermitsOK, InTime(calls), NEW c \in Callers, calls[c] # None, Release(c)
  PROVE  /\ InTime(calls')
         /\ \A r \in Callers : \A n \in Nat :
              r # c /\ Asking(r) /\ Budget(calls, queue, r, n) => Budget(calls', queue', r, n)
<1>1. 0 \in 0..Generate /\ 0 # None
  BY HostAssumption, NoneIsNoNumber
<1>2. CASE queue = <<>> /\ calls' = [calls EXCEPT ![c] = None] /\ UNCHANGED queue
  <2>1. InTime(calls')
    BY <1>2 DEF InTime
  <2>2. ASSUME NEW r \in Callers, NEW n \in Nat, r # c, Asking(r), Budget(calls, queue, r, n)
        PROVE  Budget(calls', queue', r, n)
    <3>1. calls[r] # None /\ calls'[r] = calls[r]
      BY <1>2, <2>2 DEF Asking, InSeq, InTime
    <3>2. Ahead(calls', queue', r) = {r} /\ Ahead(calls, queue, r) = {r}
      BY <3>1 DEF Ahead
    <3>3. Left(calls')[r] <= Left(calls)[r]
      BY <2>1, <3>1, LeftIs, LimitIs
    <3> QED
      BY <2>1, <2>2, <3>2, <3>3, BudgetStays
  <2> QED
    BY <2>1, <2>2
<1>3. CASE /\ queue # <<>>
           /\ calls' = [calls EXCEPT ![c] = None, ![Head(queue)] = 0]
           /\ queue' = Tail(queue)
  <2> DEFINE first == Head(queue)
  <2>1. /\ first \in Callers
        /\ InSeq(queue, first)
        /\ \A q : InSeq(queue', q) <=> InSeq(queue, q) /\ q # first
        /\ \A x, y : InOrder(queue', x, y) => InOrder(queue, x, y)
        /\ \A y : InSeq(queue, y) => InOrder(queue, first, y)
    BY <1>3, LeavingFirst DEF PermitsOK
  <2>2. calls[first] = None
    BY <2>1 DEF PermitsOK, NoPermitIsLost, Waits, InSeq, Holders
  <2>3. /\ calls'[first] = 0 /\ calls'[c] = None
        /\ \A q \in Callers : q # c /\ q # first => calls'[q] = calls[q]
        /\ calls' \in [Callers -> 0..Generate \cup {None}]
    BY <1>1, <1>3, <2>1, <2>2 DEF InTime
  <2> HIDE DEF first
  <2>4. InTime(calls')
    BY <2>3, LimitIs DEF InTime
  <2>5. \A x \in Callers \ {c} : Left(calls')[x] <= Left(calls)[x]
    <3> TAKE x \in Callers \ {c}
    <3>1. CASE x = first
      BY <1>1, <2>1, <2>2, <2>3, <2>4, <3>1, LeftIs, LimitIs
    <3>2. CASE x # first
      <4>1. calls'[x] = calls[x] /\ Left(calls)[x] \in Nat
        BY <2>3, <3>2, LeftIs
      <4>2. Left(calls')[x] = Left(calls)[x]
        BY <2>4, <4>1, LeftIs
      <4> QED
        BY <4>1, <4>2
    <3> QED
      BY <3>1, <3>2
  <2>6. ASSUME NEW r \in Callers, NEW n \in Nat, r # c, Asking(r), Budget(calls, queue, r, n)
        PROVE  Budget(calls', queue', r, n)
    <3>1. CASE calls[r] # None
      <4>1. calls'[r] # None
        BY <2>2, <2>3, <2>6, <3>1
      <4>2. Ahead(calls', queue', r) = {r} /\ Ahead(calls, queue, r) = {r}
        BY <3>1, <4>1 DEF Ahead
      <4> QED
        BY <2>4, <2>5, <2>6, <4>2, BudgetStays
    <3>2. CASE calls[r] = None
      <4>1. InSeq(queue, r)
        BY <2>6, <3>2 DEF Asking
      <4>2. InOrder(queue, r, r)
        BY <4>1 DEF InSeq, InOrder, PermitsOK
      <4>3. ASSUME NEW x \in Ahead(calls', queue', r)
            PROVE  x \in Ahead(calls, queue, r) /\ x # c
        <5>1. CASE calls'[r] # None
          BY <2>6, <3>2, <4>2, <4>3, <5>1 DEF Ahead
        <5>2. CASE calls'[r] = None
          <6>1. x \in Callers /\ (calls'[x] # None \/ InOrder(queue', x, r))
            BY <4>3, <5>2 DEF Ahead
          <6>2. CASE InOrder(queue', x, r)
            <7>1. InOrder(queue, x, r)
              BY <2>1, <6>2
            <7>2. InSeq(queue, x)
              BY <7>1 DEF InOrder, InSeq
            <7>3. x # c
              BY <7>2 DEF PermitsOK, NoPermitIsLost, Waits, InSeq, Holders
            <7> QED
              BY <3>2, <6>1, <7>1, <7>3 DEF Ahead
          <6>3. CASE calls'[x] # None /\ x = first
            BY <2>1, <2>2, <3>2, <4>1, <6>1, <6>3 DEF Ahead
          <6>4. CASE calls'[x] # None /\ x # first
            BY <2>3, <3>2, <6>1, <6>4 DEF Ahead
          <6> QED
            BY <6>1, <6>2, <6>3, <6>4
        <5> QED
          BY <5>1, <5>2
      <4>4. \A x \in Ahead(calls', queue', r) : Left(calls')[x] <= Left(calls)[x]
        BY <2>5, <4>3 DEF Ahead
      <4> QED
        BY <2>4, <2>6, <4>3, <4>4, BudgetStays
    <3> QED
      BY <3>1, <3>2
  <2> QED
    BY <2>4, <2>6
<1> QED
  BY <1>2, <1>3 DEF Release

\* Who leaves the queue leaves the others in their order.
LEMMA DropWaits ==
  ASSUME PermitsOK, InTime(calls), NEW c, queue' = Without(queue, c), UNCHANGED calls
  PROVE  /\ InTime(calls')
         /\ \A r \in Callers : \A n \in Nat :
              Budget(calls, queue, r, n) => Budget(calls', queue', r, n)
<1> SUFFICES ASSUME NEW r \in Callers, NEW n \in Nat, Budget(calls, queue, r, n)
             PROVE  Budget(calls', queue', r, n)
  OBVIOUS
<1>1. \A x : InOrder(queue', x, r) => InOrder(queue, x, r)
  BY LeavingAnywhere DEF PermitsOK
<1>2. Ahead(calls', queue', r) \subseteq Ahead(calls, queue, r)
  BY <1>1 DEF Ahead
<1>3. \A x \in Ahead(calls', queue', r) : Left(calls')[x] <= Left(calls)[x]
  <2> SUFFICES ASSUME NEW x \in Callers PROVE Left(calls)[x] <= Left(calls)[x]
    BY DEF Ahead
  <2>1. Left(calls)[x] \in Nat
    BY LeftIs
  <2> QED
    BY <2>1
<1> QED
  BY <1>2, <1>3, BudgetStays

\* Permits are not touched, and nobody begins to ask.
LEMMA AskingFrame ==
  ASSUME AskingOK, UNCHANGED <<calls, queue>>,
         \A q \in Requests : At(q, "asking")' => requests'[q] = requests[q]
  PROVE  AskingOK'
<1>1. ASSUME NEW q \in Requests, At(q, "asking")'
      PROVE  At(q, "asking") /\ requests'[q] = requests[q]
  BY <1>1 DEF At, Open
<1> SUFFICES ASSUME NEW q \in Requests, At(q, "asking")'
             PROVE  Asking(q)' /\ Budget(calls', queue', q, requests'[q].waited)
  BY DEF AskingOK
<1>2. Asking(q) /\ Budget(calls, queue, q, requests[q].waited)
  BY <1>1 DEF AskingOK
<1> QED
  BY <1>1, <1>2 DEF Asking

\* What a request learns of the health or the models does not make it ask the model.
LEMMA NoneAsks ==
  ASSUME RequestsOK, host \in BOOLEAN, CacheOK, NEW r \in Requests,
         \/ CacheHit(r) \/ ProbeStart(r) \/ ProbeAnswered(r) \/ ProbeTimedOut(r)
         \/ ModelsListed(r) \/ Close(r)
  PROVE  \A q \in Requests : At(q, "asking")' => requests'[q] = requests[q]
<1>1. ASSUME NEW healthy \in BOOLEAN, Open(r), requests' = Told(r, healthy)
      PROVE  \A q \in Requests : At(q, "asking")' => requests'[q] = requests[q]
  <2>1. PICK new \in Request :
          requests' = [requests EXCEPT ![r] = new] /\ new.stage \in {"models", "answered"}
    BY <1>1, ToldIs
  <2> QED
    BY <2>1 DEF RequestsOK, At, Open
<1>2. CASE CacheHit(r)
  <2>1. cache.healthy \in BOOLEAN
    BY <1>2 DEF CacheOK, CacheHit, Fresh
  <2> QED
    BY <1>1, <1>2, <2>1 DEF CacheHit, At
<1>3. CASE ProbeAnswered(r)
  BY <1>1, <1>3 DEF ProbeAnswered, ProbeEnd, At
<1>4. CASE ProbeTimedOut(r)
  BY <1>1, <1>4 DEF ProbeTimedOut, ProbeEnd, At
<1>5. CASE ProbeStart(r) \/ ModelsListed(r) \/ Close(r)
  <2>1. \A q \in Requests : q # r => requests'[q] = requests[q]
    BY <1>5 DEF ProbeStart, ModelsListed, Close, RequestsOK
  <2>2. ~At(r, "asking")'
    <3>1. CASE Close(r)
      BY <3>1 DEF Close, At, Open, RequestsOK
    <3>2. CASE ProbeStart(r)
      <4>1. requests[r] \in Request /\ requests'[r] = [requests[r] EXCEPT !.stage = "probe", !.age = 0]
        BY <3>2, RequestTyped DEF ProbeStart, At, RequestsOK
      <4> QED
        BY <4>1 DEF Request, At
    <3>3. CASE ModelsListed(r)
      <4>1. requests[r] \in Request /\ requests'[r] = [requests[r] EXCEPT !.stage = "answered"]
        BY <3>3, RequestTyped DEF ModelsListed, At, RequestsOK
      <4> QED
        BY <4>1 DEF Request, At
    <3> QED
      BY <1>5, <3>1, <3>2, <3>3
  <2> QED
    BY <2>1, <2>2
<1> QED
  BY <1>2, <1>3, <1>4, <1>5

\* How long a request has waited for the model is a number.
LEMMA WaitedIs ==
  ASSUME RequestsOK, NEW r \in Requests, At(r, "asking")
  PROVE  requests[r].waited \in Nat /\ r \in Callers
BY RequestTyped DEF At, Request, Callers

\* One that goes on asks as before and has waited as long.
LEMMA AskingGoesOn ==
  ASSUME HealthInv, AskingOK, InTime(calls'), NEW c \in Callers,
         \A q \in Callers : q # c => (Asking(q) => Asking(q)'),
         \A q \in Callers : \A n \in Nat :
           q # c /\ Asking(q) /\ Budget(calls, queue, q, n) => Budget(calls', queue', q, n),
         \A q \in Requests : q # c /\ At(q, "asking")' => requests'[q] = requests[q],
         c \in Requests /\ At(c, "asking")' =>
           Asking(c)' /\ Budget(calls', queue', c, requests'[c].waited)
  PROVE  AskingOK'
<1> SUFFICES ASSUME NEW q \in Requests, q # c, At(q, "asking")'
             PROVE  Asking(q)' /\ Budget(calls', queue', q, requests'[q].waited)
  BY DEF AskingOK
<1>1. requests'[q] = requests[q] /\ At(q, "asking")
  BY DEF At, Open
<1>2. requests[q].waited \in Nat /\ q \in Callers
  BY <1>1, WaitedIs DEF HealthInv
<1>3. Asking(q) /\ Budget(calls, queue, q, requests[q].waited)
  BY <1>1 DEF AskingOK
<1> QED
  BY <1>1, <1>2, <1>3

\* Nobody asks at first.
LEMMA AskingInitially ==
  ASSUME Init
  PROVE  AskingOK
<1>1. calls = [c \in Callers |-> None] /\ requests = [r \in Requests |-> None]
  BY DEF Init
<1> QED
  BY <1>1 DEF AskingOK, InTime, At, Open

\* A worker that comes goes behind every request, and one that is done lets them up.
LEMMA WorkerWaits ==
  ASSUME HealthInv, PermitInv, AskingOK, NEW w \in Workers, WorkerCalls(w) \/ WorkerDone(w)
  PROVE  AskingOK'
<1>1. w \in Callers /\ w \notin Requests /\ UNCHANGED requests
  BY WorkersApart DEF WorkerCalls, WorkerDone
<1>2. PermitsOK /\ InTime(calls)
  BY DEF PermitInv, AskingOK
<1>3. CASE WorkerCalls(w)
  <2>1. ~Asking(w) /\ Acquire(w)
    BY <1>3 DEF WorkerCalls, Asking, Waits, InSeq
  <2> QED
    BY <1>1, <1>2, <2>1, AcquireKeeps, AcquireWaits, AskingGoesOn
<1>4. CASE WorkerDone(w)
  BY <1>1, <1>2, <1>4, ReleaseKeeps, ReleaseWaits, AskingGoesOn DEF WorkerDone
<1> QED
  BY <1>3, <1>4

\* A request that comes is behind everybody.
LEMMA ArrivalWaits ==
  ASSUME HealthInv, PermitInv, AskingOK, NEW r \in Requests, Arrives(r)
  PROVE  AskingOK'
<1>1. /\ ~Open(r)
      /\ \/ At(r, "asking")' /\ Acquire(r) /\ requests'[r].waited = 0
         \/ ~At(r, "asking")' /\ UNCHANGED <<calls, queue>>
      /\ \A q \in Requests : q # r => requests'[q] = requests[q]
  BY ArrivalKeeps
<1>2. CASE ~At(r, "asking")' /\ UNCHANGED <<calls, queue>>
  <2>1. \A q \in Requests : At(q, "asking")' => requests'[q] = requests[q]
    BY <1>1, <1>2
  <2> QED
    BY <1>2, <2>1, AskingFrame
<1>3. CASE At(r, "asking")' /\ Acquire(r) /\ requests'[r].waited = 0
  <2>1. r \in Callers /\ ~Asking(r) /\ Acquire(r) /\ PermitsOK /\ InTime(calls)
    BY <1>1, <1>3 DEF PermitInv, At, Callers, AskingOK
  <2>2. Asking(r)' /\ \A q \in Callers : q # r => (Asking(q) => Asking(q)')
    BY <2>1, AcquireKeeps
  <2>3. /\ InTime(calls')
        /\ \A q \in Callers : \A n \in Nat :
             q # r /\ Asking(q) /\ Budget(calls, queue, q, n) => Budget(calls', queue', q, n)
    BY <2>1, AcquireWaits
  <2>4. Budget(calls', queue', r, 0)
    BY <2>3, BudgetAtFirst
  <2> QED
    BY <1>1, <1>3, <2>1, <2>2, <2>3, <2>4, AskingGoesOn
<1> QED
  BY <1>1, <1>2, <1>3

\* One that ends, answered or given up, is in nobody's way any more.
LEMMA ModelEndWaits ==
  ASSUME HealthInv, PermitInv, AskingOK, NEW r \in Requests, ModelAnswered(r) \/ Disconnect(r)
  PROVE  AskingOK'
<1>1. r \in Callers /\ PermitsOK /\ InTime(calls)
  BY DEF Callers, PermitInv, AskingOK
<1>2. ~At(r, "asking")' /\ \A q \in Requests : q # r /\ At(q, "asking")' => requests'[q] = requests[q]
  <2>1. CASE ModelAnswered(r)
    <3>1. /\ \A q \in Requests : q # r => requests'[q] = requests[q]
          /\ requests'[r] = [requests[r] EXCEPT !.stage = "answered"]
          /\ requests[r] \in Request
      BY <2>1, RequestTyped DEF ModelAnswered, HealthInv, RequestsOK, At
    <3> QED
      BY <3>1 DEF At, Request
  <2>2. CASE Disconnect(r)
    <3>1. /\ requests'[r] = None
          /\ \A q \in Requests : q # r => (At(q, "asking")' <=> At(q, "asking"))
          /\ \A q \in Requests : q # r /\ ~At(q, "lock") => requests'[q] = requests[q]
      BY <2>2, LostByIs DEF Disconnect, HealthInv
    <3> QED
      BY <3>1 DEF At, Open
  <2> QED
    BY <2>1, <2>2
<1>3. CASE calls[r] # None /\ Release(r)
  <2>1. \A q \in Callers : q # r => (Asking(q) => Asking(q)')
    BY <1>1, <1>3, ReleaseKeeps
  <2> QED
    BY <1>1, <1>2, <1>3, <2>1, ReleaseWaits, AskingGoesOn
<1>4. CASE calls[r] = None /\ queue' = Without(queue, r) /\ UNCHANGED calls
  <2>1. \A q \in Callers : q # r => (Asking(q) => Asking(q)')
    BY <1>1, <1>4, DropKeeps
  <2>2. InTime(calls')
    BY <1>1, <1>4
  <2>3. \A q \in Callers : \A n \in Nat :
          q # r /\ Asking(q) /\ Budget(calls, queue, q, n) => Budget(calls', queue', q, n)
    BY <1>1, <1>4, DropWaits
  <2> QED
    BY <1>1, <1>2, <2>1, <2>2, <2>3, AskingGoesOn
<1> QED
  BY <1>3, <1>4 DEF ModelAnswered, Disconnect

\* While a request waits somebody has a permit and uses it up.
LEMMA TickWaits ==
  ASSUME HealthInv, PermitInv, AskingOK, Tick
  PROVE  AskingOK'
<1>1. /\ ~Overdue /\ UNCHANGED queue
      /\ calls' = [c \in Callers |-> IF calls[c] = None THEN None ELSE calls[c] + 1]
      /\ requests' = [r \in Requests |-> IF Open(r) THEN Older(requests[r]) ELSE None]
      /\ InTime(calls) /\ PermitsOK
  BY DEF Tick, AskingOK, PermitInv
<1>2. ASSUME NEW c \in Callers, calls[c] # None
      PROVE  /\ calls[c] \in Nat /\ calls'[c] = calls[c] + 1 /\ calls'[c] # None
             /\ calls'[c] <= Limit(c) /\ calls'[c] \in 0..Generate
  <2>1. calls[c] \in Nat /\ Limit(c) \in Nat /\ Limit(c) <= Generate
    BY <1>1, <1>2, LimitIs, HostAssumption DEF InTime
  <2>2. calls[c] < Limit(c)
    BY <1>1, <1>2, <2>1 DEF Overdue
  <2>3. calls'[c] = calls[c] + 1 /\ calls[c] + 1 \in Nat
    BY <1>1, <1>2, <2>1
  <2> QED
    BY <2>1, <2>2, <2>3, NoneIsNoNumber, HostAssumption
<1>3. \A c \in Callers : calls'[c] = None <=> calls[c] = None
  BY <1>1, <1>2
<1>4. InTime(calls')
  <2>1. \A c \in Callers : calls'[c] \in 0..Generate \cup {None}
    BY <1>1, <1>2
  <2> QED
    BY <1>1, <1>2, <1>3, <2>1 DEF InTime
<1>5. \A c \in Callers : Left(calls')[c] <= Left(calls)[c]
  <2> TAKE c \in Callers
  <2>1. CASE calls[c] = None
    BY <1>1, <1>3, <1>4, <2>1, LeftIs, LimitIs
  <2>2. CASE calls[c] # None
    BY <1>1, <1>2, <1>4, <2>2, LeftIs, LimitIs
  <2> QED
    BY <2>1, <2>2
<1>6. ASSUME NEW c \in Callers, calls[c] # None
      PROVE  Left(calls')[c] + 1 <= Left(calls)[c]
  <2>1. Limit(c) \in Nat
    BY LimitIs
  <2>2. Left(calls)[c] = Limit(c) - calls[c] /\ Left(calls')[c] = Limit(c) - calls'[c]
    BY <1>1, <1>2, <1>4, <1>6, LeftIs
  <2> QED
    BY <1>2, <1>6, <2>1, <2>2
<1>7. ASSUME NEW r \in Requests, At(r, "asking")'
      PROVE  /\ At(r, "asking")
             /\ requests[r].waited \in Nat
             /\ requests'[r].waited = requests[r].waited + 1
  <2>1. At(r, "asking")
    BY <1>7, OlderIs
  <2>2. requests'[r] = Older(requests[r]) /\ requests[r] \in Request
    BY <1>1, <2>1, RequestTyped DEF At, HealthInv
  <2>3. \A old \in Request : old.stage = "asking" => Older(old).waited = old.waited + 1
    BY DEF Older, Request
  <2> QED
    BY <2>1, <2>2, <2>3, WaitedIs DEF At, HealthInv
<1>8. ASSUME NEW r \in Requests, Asking(r)
      PROVE  \E x \in Ahead(calls, queue, r) : calls[x] # None
  <2>1. r \in Callers
    BY DEF Callers
  <2>2. CASE calls[r] # None
    BY <2>1, <2>2 DEF Ahead
  <2>3. CASE calls[r] = None
    <3>1. queue # <<>>
      BY <1>8, <2>3 DEF Asking, InSeq
    <3>2. Cardinality(Holders) = Permits /\ Permits # 0
      BY <1>1, <3>1, HostAssumption DEF PermitsOK, NoPermitIsLost
    <3>3. Holders # {}
      BY <3>2, FS_EmptySet
    <3>4. PICK x \in Callers : calls[x] # None
      BY <3>3 DEF Holders
    <3> QED
      BY <2>3, <3>4 DEF Ahead
  <2> QED
    BY <2>2, <2>3
<1>9. ASSUME NEW r \in Requests, At(r, "asking")'
      PROVE  Asking(r)' /\ Budget(calls', queue', r, requests'[r].waited)
  <2>1. r \in Callers /\ Asking(r) /\ Budget(calls, queue, r, requests[r].waited)
    BY <1>7, <1>9 DEF AskingOK, Callers
  <2>2. PICK x \in Ahead(calls, queue, r) : calls[x] # None
    BY <1>8, <2>1
  <2>3. Ahead(calls', queue, r) = Ahead(calls, queue, r)
    BY <1>3, <2>1 DEF Ahead
  <2>4. x \in Callers /\ Left(calls')[x] + 1 <= Left(calls)[x]
    BY <1>6, <2>2 DEF Ahead
  <2>5. Budget(calls', queue, r, requests[r].waited + 1)
    BY <1>1, <1>4, <1>5, <1>7, <1>9, <2>1, <2>3, <2>4, BudgetSpent
  <2> QED
    BY <1>1, <1>3, <1>7, <1>9, <2>1, <2>5 DEF Asking
<1> QED
  BY <1>4, <1>9 DEF AskingOK

\* Every step keeps every request within its budget.
LEMMA AskingStep ==
  ASSUME HealthInv, PermitInv, AskingOK, [Next]_hostVars
  PROVE  AskingOK'
<1>1. CASE \E w \in Workers : WorkerCalls(w) \/ WorkerDone(w)
  BY <1>1, WorkerWaits
<1>2. CASE \E r \in Requests : Arrives(r)
  BY <1>2, ArrivalWaits
<1>3. CASE \E r \in Requests : \/ CacheHit(r) \/ ProbeStart(r) \/ ProbeAnswered(r)
                               \/ ProbeTimedOut(r) \/ ModelsListed(r) \/ Close(r)
  <2>1. UNCHANGED <<calls, queue>>
    BY <1>3 DEF CacheHit, ProbeStart, ProbeAnswered, ProbeTimedOut, ProbeEnd, ModelsListed, Close
  <2>2. RequestsOK /\ CacheOK /\ host \in BOOLEAN
    BY DEF HealthInv, CacheOK
  <2>3. \A q \in Requests : At(q, "asking")' => requests'[q] = requests[q]
    BY <1>3, <2>2, NoneAsks
  <2> QED
    BY <2>1, <2>3, AskingFrame
<1>4. CASE \E r \in Requests : ModelAnswered(r) \/ Disconnect(r)
  BY <1>4, ModelEndWaits
<1>5. CASE Signal \/ Boot \/ HostTurns \/ UNCHANGED hostVars
  <2>1. UNCHANGED <<calls, queue, requests>>
    BY <1>5 DEF Signal, Boot, HostTurns, hostVars
  <2> QED
    BY <2>1, AskingFrame
<1>6. CASE Exit
  <2>1. calls' = [c \in Callers |-> None] /\ requests' = [r \in Requests |-> None]
    BY <1>6 DEF Exit, Forget
  <2> QED
    BY <2>1 DEF AskingOK, InTime, At, Open
<1>7. CASE Tick
  BY <1>7, TickWaits
<1> QED
  BY <1>1, <1>2, <1>3, <1>4, <1>5, <1>6, <1>7 DEF Next, Arrives

\* The bound of the property is the sum of the time-outs of all callers.
LEMMA SumOfLimits ==
  \E g : Adds(g, limits, Callers) /\ MapThenSumSet(Limit, Callers) = g[Callers]
<1> DEFINE fold == CHOOSE iter : iter = [s \in SUBSET Callers |->
                     IF s = {} THEN 0 ELSE Limit(Some(s)) + iter[s \ {Some(s)}]]
<1>1. MapThenSumSet(Limit, Callers) = fold[Callers]
  BY DEF MapThenSumSet, MapThenFoldSet, Some
<1>2. \A g : Adds(g, limits, Callers) <=>
               g = [s \in SUBSET Callers |->
                      IF s = {} THEN 0 ELSE Limit(Some(s)) + g[s \ {Some(s)}]]
  <2> TAKE g
  <2>1. ASSUME NEW s \in SUBSET Callers, s # {}
        PROVE  limits[Some(s)] = Limit(Some(s))
    <3>1. Some(s) \in s
      BY <2>1 DEF Some
    <3> QED
      BY <3>1, LimitIs
  <2> QED
    BY <2>1 DEF Adds
<1>3. \E g : Adds(g, limits, Callers)
  BY HoldersFinite, LimitIs, SumExists
<1>4. Adds(fold, limits, Callers)
  BY <1>2, <1>3
<1> QED
  BY <1>1, <1>4

\* A search by meaning, or a digest asked for by hand, waits for each of the other
\* callers once at most: the bound is the sum of what each may take, GENERATE_TIMEOUT
\* for the requests that ask for a digest too, for any number of workers, requests
\* and permits (embed_query, make_digest, llm_permits).
THEOREM AllWaitTheirTurn == Spec => []ModelWaitBounded
<1>1. Init => AskingOK
  BY AskingInitially
<1>2. HostInv /\ AskingOK /\ [Next]_hostVars => AskingOK'
  BY AskingStep DEF HostInv
<1>3. HostInv /\ AskingOK => ModelWaitBounded
  <2> SUFFICES ASSUME HostInv, AskingOK, NEW r \in Requests, At(r, "asking")
               PROVE  requests[r].waited <= MapThenSumSet(Limit, Callers)
    BY DEF ModelWaitBounded
  <2>1. requests[r].waited \in Nat
    BY WaitedIs DEF HostInv, HealthInv
  <2>2. Left(calls) \in [Callers -> Nat] /\ Budget(calls, queue, r, requests[r].waited)
    BY LeftIs DEF AskingOK
  <2>3. PICK f : Adds(f, Left(calls), Callers)
    BY <2>2, HoldersFinite, SumExists
  <2>4. PICK g : Adds(g, limits, Callers) /\ MapThenSumSet(Limit, Callers) = g[Callers]
    BY SumOfLimits
  <2>5. f[Ahead(calls, queue, r)] \in Nat /\ g[Callers] \in Nat
    <3>1. Ahead(calls, queue, r) \in SUBSET Callers
      BY DEF Ahead
    <3>2. f[Ahead(calls, queue, r)] \in Nat
      BY <2>2, <2>3, <3>1, HoldersFinite, SumType
    <3>3. g[Callers] \in Nat
      BY <2>4, LimitIs, HoldersFinite, SumType
    <3> QED
      BY <3>2, <3>3
  <2>6. requests[r].waited + f[Ahead(calls, queue, r)] <= g[Callers]
    BY <2>2, <2>3, <2>4 DEF Budget
  <2> QED
    BY <2>1, <2>4, <2>5, <2>6
<1> QED
  BY <1>1, <1>2, <1>3, HostInvariant, PTL DEF Spec
=============================================================================
