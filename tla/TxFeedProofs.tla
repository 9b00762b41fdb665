---------------------------- MODULE TxFeedProofs ----------------------------
(***************************************************************************)
(* Proofs about TxFeed, for any number of clients, runs and credits and    *)
(* any queue size: each connection carries frames in the order of their    *)
(* commits, and what is missing in between never got into the queue.       *)
(***************************************************************************)
EXTENDS TxFeed, SequenceTheorems, TLAPS

-----------------------------------------------------------------------------
(* Where frames stand in a log: operators on sequences, without the state. *)

Pos(l, f) == CHOOSE i \in DOMAIN l : l[i] = f

Distinct(l) == \A i, j \in DOMAIN l : l[i] = l[j] => i = j

Ordered(l, s) == \A i, j \in DOMAIN s : i < j => Pos(l, s[i]) < Pos(l, s[j])

Precedes(l, F, G) == \A f \in F, g \in G : Pos(l, f) < Pos(l, g)

\* What the log has between two frames of s is in M.
Gapless(l, s, M) ==
    \A i \in 1..(Len(s) - 1) :
        \A p \in (Pos(l, s[i]) + 1)..(Pos(l, s[i + 1]) - 1) : l[p] \in M

\* What the log has after f is in M.
Accounted(l, f, M) == \A p \in (Pos(l, f) + 1)..Len(l) : l[p] \in M

-----------------------------------------------------------------------------
(* The inductive invariant.  The frames on their way stand in commit order *)
(* along the wire, the queue and the broadcast, behind what each connected *)
(* client has got; and no frame gets lost between them: what was committed *)
(* after one of them is on its way as well, or was missed.                 *)

Waiting == Range(queue) \cup Range(wire)

\* What a connected client will be served, if it stays.
Owed(c) == Waiting \cup (IF c \in left THEN {sending} ELSE {})

FeedTypes ==
    /\ listener \in {"connecting", "listening", "deaf"}
    /\ wire \in Seq(Frame) /\ queue \in Seq(Frame) /\ log \in Seq(Frame)
    /\ Len(queue) <= QueueSize
    /\ sending \in Frame \cup {NoFrame}
    /\ left \subseteq clients /\ clients \subseteq Clients
    /\ (sending = NoFrame) <=> (left = {})
    /\ got \in [Clients -> Seq(Frame)]

Logged ==
    /\ Distinct(log) /\ Range(log) = txs
    /\ missed \subseteq Range(log) /\ Waiting \subseteq Range(log)
    /\ sending # NoFrame => sending \in Range(log)
    /\ \A c \in Clients : Range(got[c]) \subseteq Range(log)

InLine ==
    /\ Ordered(log, queue) /\ Ordered(log, wire)
    /\ Precedes(log, Range(queue), Range(wire))
    /\ sending # NoFrame => Precedes(log, {sending}, Waiting)

NothingLost ==
    /\ \A f \in Waiting : Accounted(log, f, missed \cup Waiting)
    /\ sending # NoFrame => Accounted(log, sending, missed \cup Waiting)

Served(c) == Ordered(log, got[c]) /\ Gapless(log, got[c], missed)

Connected(c) ==
    /\ Precedes(log, Range(got[c]), Owed(c))
    /\ got[c] # <<>> => Accounted(log, got[c][Len(got[c])], missed \cup Owed(c))

FeedInv ==
    /\ FeedTypes /\ Logged /\ InLine /\ NothingLost
    /\ \A c \in Clients : Served(c)
    /\ \A c \in clients : Connected(c)

-----------------------------------------------------------------------------
(* Sequences.                                                              *)

LEMMA AppendRange ==
  ASSUME NEW S, NEW s \in Seq(S), NEW x \in S
  PROVE  /\ Append(s, x) \in Seq(S)
         /\ Len(Append(s, x)) = Len(s) + 1 /\ Append(s, x)[Len(s) + 1] = x
         /\ \A i \in 1..Len(s) : Append(s, x)[i] = s[i]
         /\ Range(Append(s, x)) = Range(s) \cup {x}
  <1>1. /\ Append(s, x) \in Seq(S)
        /\ Len(Append(s, x)) = Len(s) + 1 /\ Append(s, x)[Len(s) + 1] = x
        /\ \A i \in 1..Len(s) : Append(s, x)[i] = s[i]
        /\ DOMAIN Append(s, x) = 1..(Len(s) + 1) /\ DOMAIN s = 1..Len(s) /\ Len(s) \in Nat
    OBVIOUS
  <1>2. \A i \in 1..(Len(s) + 1) : i \in 1..Len(s) \/ i = Len(s) + 1
    BY <1>1
  <1>3. Len(s) + 1 \in 1..(Len(s) + 1) /\ 1..Len(s) \subseteq 1..(Len(s) + 1)
    BY <1>1
  <1> QED
    BY <1>1, <1>2, <1>3, Zenon DEF Range

LEMMA TailRange ==
  ASSUME NEW S, NEW s \in Seq(S), s # <<>>
  PROVE  /\ Head(s) \in S /\ Tail(s) \in Seq(S)
         /\ Len(Tail(s)) = Len(s) - 1 /\ Len(s) \in Nat \ {0}
         /\ \A i \in 1..(Len(s) - 1) : Tail(s)[i] = s[i + 1]
         /\ Head(s) = s[1]
         /\ Range(s) = Range(Tail(s)) \cup {Head(s)}
  <1>1. /\ Head(s) \in S /\ Tail(s) \in Seq(S)
        /\ Len(Tail(s)) = Len(s) - 1 /\ Len(s) \in Nat \ {0}
        /\ \A i \in 1..(Len(s) - 1) : Tail(s)[i] = s[i + 1]
        /\ Head(s) = s[1]
        /\ DOMAIN Tail(s) = 1..(Len(s) - 1) /\ DOMAIN s = 1..Len(s)
    OBVIOUS
  <1>2. \A i \in 1..Len(s) : i = 1 \/ (i - 1 \in 1..(Len(s) - 1) /\ i = (i - 1) + 1)
    BY <1>1
  <1>3. 1 \in 1..Len(s) /\ \A i \in 1..(Len(s) - 1) : i + 1 \in 1..Len(s)
    BY <1>1
  <1>4. Range(s) \subseteq Range(Tail(s)) \cup {Head(s)}
    <2> SUFFICES ASSUME NEW i \in 1..Len(s)
                 PROVE  s[i] \in Range(Tail(s)) \cup {Head(s)}
      BY <1>1 DEF Range
    <2>1. CASE i = 1
      BY <1>1, <2>1
    <2>2. CASE i - 1 \in 1..(Len(s) - 1) /\ i = (i - 1) + 1
      <3>1. Tail(s)[i - 1] = s[i]
        BY <1>1, <2>2
      <3> QED
        BY <1>1, <2>2, <3>1 DEF Range
    <2> QED
      BY <1>2, <2>1, <2>2
  <1>5. Range(Tail(s)) \cup {Head(s)} \subseteq Range(s)
    BY <1>1, <1>3 DEF Range
  <1> QED
    BY <1>1, <1>4, <1>5

\* The frames of a sequence are those at its indices.
LEMMA InRange ==
  ASSUME NEW S, NEW s \in Seq(S)
  PROVE  /\ DOMAIN s = 1..Len(s) /\ Len(s) \in Nat
         /\ \A i \in 1..Len(s) : s[i] \in Range(s)
         /\ \A f \in Range(s) : \E i \in 1..Len(s) : s[i] = f
         /\ Range(s) \subseteq S
  BY DEF Range

LEMMA EmptyRange == Range(<<>>) = {} /\ \A S : <<>> \in Seq(S)
  BY DEF Range

-----------------------------------------------------------------------------
(* A log without repetition gives each of its frames one position, which   *)
(* later frames do not change.                                             *)

LEMMA Positions ==
  ASSUME NEW S, NEW l \in Seq(S), Distinct(l)
  PROVE  /\ \A i \in 1..Len(l) : Pos(l, l[i]) = i
         /\ \A f \in Range(l) : Pos(l, f) \in 1..Len(l) /\ l[Pos(l, f)] = f
  <1>1. DOMAIN l = 1..Len(l)
    BY InRange
  <1>2. ASSUME NEW i \in 1..Len(l)
        PROVE  Pos(l, l[i]) = i
    <2>1. \E j \in DOMAIN l : l[j] = l[i]
      BY <1>1
    <2>2. Pos(l, l[i]) \in DOMAIN l /\ l[Pos(l, l[i])] = l[i]
      BY <2>1 DEF Pos
    <2> QED
      BY <1>1, <2>2 DEF Distinct
  <1>3. ASSUME NEW f \in Range(l)
        PROVE  Pos(l, f) \in 1..Len(l) /\ l[Pos(l, f)] = f
    <2>1. PICK i \in 1..Len(l) : l[i] = f
      BY <1>3, InRange
    <2> QED
      BY <1>2, <2>1
  <1> QED
    BY <1>2, <1>3

LEMMA LogGrows ==
  ASSUME NEW S, NEW l \in Seq(S), Distinct(l), NEW g \in S, g \notin Range(l)
  PROVE  /\ Distinct(Append(l, g))
         /\ Pos(Append(l, g), g) = Len(l) + 1
         /\ \A f \in Range(l) : Pos(Append(l, g), f) = Pos(l, f) /\ Pos(l, f) \in 1..Len(l)
  <1> DEFINE m == Append(l, g)
  <1>1. /\ m \in Seq(S) /\ Len(m) = Len(l) + 1 /\ m[Len(l) + 1] = g
        /\ \A i \in 1..Len(l) : m[i] = l[i]
    BY AppendRange
  <1>2. /\ DOMAIN m = 1..Len(m) /\ DOMAIN l = 1..Len(l) /\ Len(l) \in Nat
        /\ \A i \in 1..Len(l) : l[i] \in Range(l)
    BY <1>1, InRange
  <1> HIDE DEF m
  <1>3. \A i \in DOMAIN m : i \in 1..Len(l) \/ i = Len(l) + 1
    BY <1>1, <1>2
  <1>4. Distinct(m)
    <2> SUFFICES ASSUME NEW i \in DOMAIN m, NEW j \in DOMAIN m, m[i] = m[j]
                 PROVE  i = j
      BY DEF Distinct
    <2>1. CASE i \in 1..Len(l) /\ j \in 1..Len(l)
      BY <1>1, <1>2, <2>1 DEF Distinct
    <2>2. CASE i = Len(l) + 1 /\ j = Len(l) + 1
      BY <2>2
    <2>3. CASE i \in 1..Len(l) /\ j = Len(l) + 1
      BY <1>1, <1>2, <2>3
    <2>4. CASE j \in 1..Len(l) /\ i = Len(l) + 1
      BY <1>1, <1>2, <2>4
    <2> QED
      BY <1>3, <2>1, <2>2, <2>3, <2>4
  <1>5. \A i \in 1..Len(m) : Pos(m, m[i]) = i
    BY <1>1, <1>4, Positions
  <1>6. Pos(m, g) = Len(l) + 1
    <2>1. Len(l) + 1 \in 1..Len(m)
      BY <1>1, <1>2
    <2> QED
      BY <1>1, <1>5, <2>1
  <1>7. ASSUME NEW f \in Range(l)
        PROVE  Pos(m, f) = Pos(l, f) /\ Pos(l, f) \in 1..Len(l)
    <2>1. Pos(l, f) \in 1..Len(l) /\ l[Pos(l, f)] = f
      BY Positions
    <2>2. m[Pos(l, f)] = f /\ Pos(l, f) \in 1..Len(m)
      BY <1>1, <1>2, <2>1
    <2> QED
      BY <1>5, <2>1, <2>2
  <1> QED
    BY <1>4, <1>6, <1>7 DEF m

-----------------------------------------------------------------------------
(* What the actions do with sequences of frames.                           *)

LEMMA TailOrdered ==
  ASSUME NEW l, NEW S, NEW s \in Seq(S), s # <<>>, Ordered(l, s)
  PROVE  Ordered(l, Tail(s)) /\ Precedes(l, {Head(s)}, Range(Tail(s)))
  <1>1. /\ Tail(s) \in Seq(S) /\ Len(Tail(s)) = Len(s) - 1 /\ Len(s) \in Nat \ {0}
        /\ \A i \in 1..(Len(s) - 1) : Tail(s)[i] = s[i + 1]
        /\ Head(s) = s[1]
    BY TailRange
  <1>2. DOMAIN Tail(s) = 1..(Len(s) - 1) /\ DOMAIN s = 1..Len(s)
    BY <1>1, InRange
  <1>3. \A i \in 1..(Len(s) - 1) : i + 1 \in 1..Len(s) /\ 1 \in 1..Len(s) /\ 1 < i + 1
    BY <1>1
  <1>4. Ordered(l, Tail(s))
    <2> SUFFICES ASSUME NEW i \in 1..(Len(s) - 1), NEW j \in 1..(Len(s) - 1), i < j
                 PROVE  Pos(l, Tail(s)[i]) < Pos(l, Tail(s)[j])
      BY <1>2 DEF Ordered
    <2>1. Pos(l, s[i + 1]) < Pos(l, s[j + 1])
      BY <1>1, <1>2, <1>3 DEF Ordered
    <2> QED
      BY <1>1, <2>1
  <1>5. Precedes(l, {Head(s)}, Range(Tail(s)))
    <2> SUFFICES ASSUME NEW g \in Range(Tail(s))
                 PROVE  Pos(l, s[1]) < Pos(l, g)
      BY <1>1 DEF Precedes
    <2>0. PICK i \in DOMAIN Tail(s) : Tail(s)[i] = g
      BY DEF Range
    <2>1. i \in 1..(Len(s) - 1) /\ Tail(s)[i] = g
      BY <1>2, <2>0
    <2>2. Pos(l, s[1]) < Pos(l, s[i + 1])
      BY <1>2, <1>3 DEF Ordered
    <2> QED
      BY <1>1, <2>1, <2>2
  <1> QED
    BY <1>4, <1>5

LEMMA AppendOrdered ==
  ASSUME NEW l, NEW S, NEW s \in Seq(S), NEW x \in S,
         Ordered(l, s), Precedes(l, Range(s), {x})
  PROVE  Ordered(l, Append(s, x))
  <1>1. /\ Append(s, x) \in Seq(S)
        /\ Len(Append(s, x)) = Len(s) + 1 /\ Append(s, x)[Len(s) + 1] = x
        /\ \A i \in 1..Len(s) : Append(s, x)[i] = s[i]
    BY AppendRange
  <1>2. /\ DOMAIN Append(s, x) = 1..(Len(s) + 1) /\ DOMAIN s = 1..Len(s) /\ Len(s) \in Nat
        /\ \A i \in 1..Len(s) : s[i] \in Range(s)
    BY <1>1, InRange
  <1> SUFFICES ASSUME NEW i \in 1..(Len(s) + 1), NEW j \in 1..(Len(s) + 1), i < j
               PROVE  Pos(l, Append(s, x)[i]) < Pos(l, Append(s, x)[j])
    BY <1>2 DEF Ordered
  <1>3. i \in 1..Len(s) /\ (j \in 1..Len(s) \/ j = Len(s) + 1)
    BY <1>2
  <1>4. CASE j \in 1..Len(s)
    BY <1>1, <1>2, <1>3, <1>4 DEF Ordered
  <1>5. CASE j = Len(s) + 1
    BY <1>1, <1>2, <1>3, <1>5 DEF Precedes
  <1> QED
    BY <1>3, <1>4, <1>5

\* A frame that is sent next leaves a gap of missed frames only: what the log
\* has after the last one was missed, is still to come after it, or is it.
LEMMA AppendGapless ==
  ASSUME NEW S, NEW l \in Seq(S), Distinct(l), NEW s \in Seq(S), NEW x \in S,
         x \in Range(l), Range(s) \subseteq Range(l), NEW M, NEW W,
         Gapless(l, s, M), Precedes(l, {x}, W),
         s # <<>> => Accounted(l, s[Len(s)], M \cup W \cup {x})
  PROVE  Gapless(l, Append(s, x), M)
  <1>1. /\ Len(Append(s, x)) = Len(s) + 1 /\ Append(s, x)[Len(s) + 1] = x
        /\ \A i \in 1..Len(s) : Append(s, x)[i] = s[i]
    BY AppendRange
  <1>2. /\ Len(s) \in Nat /\ \A i \in 1..Len(s) : s[i] \in Range(l)
    BY InRange
  <1>3. /\ \A i \in 1..Len(l) : Pos(l, l[i]) = i
        /\ \A f \in Range(l) : Pos(l, f) \in 1..Len(l)
        /\ Len(l) \in Nat
    BY Positions, InRange
  <1> SUFFICES ASSUME NEW i \in 1..Len(s),
                      NEW p \in (Pos(l, Append(s, x)[i]) + 1)..(Pos(l, Append(s, x)[i + 1]) - 1)
               PROVE  l[p] \in M
    BY <1>1, <1>2 DEF Gapless
  <1>4. CASE i < Len(s)
    <2>1. i \in 1..(Len(s) - 1) /\ i + 1 \in 1..Len(s)
      BY <1>2, <1>4
    <2>2. Append(s, x)[i] = s[i] /\ Append(s, x)[i + 1] = s[i + 1]
      BY <1>1, <2>1
    <2> QED
      BY <2>1, <2>2 DEF Gapless
  <1>5. CASE i = Len(s)
    <2>1. Append(s, x)[i] = s[i] /\ Append(s, x)[i + 1] = x
      BY <1>1, <1>5
    <2>2. Pos(l, s[i]) \in 1..Len(l) /\ Pos(l, x) \in 1..Len(l)
      BY <1>2, <1>3
    <2>3. p \in (Pos(l, s[i]) + 1)..Len(l) /\ p < Pos(l, x) /\ p \in 1..Len(l)
      BY <1>3, <2>1, <2>2
    <2>4. l[p] \in M \cup W \cup {x}
      <3>1. s # <<>>
        BY <1>5
      <3> QED
        BY <1>5, <2>3, <3>1 DEF Accounted
    <2>5. Pos(l, l[p]) = p
      BY <1>3, <2>3
    <2>6. l[p] # x /\ l[p] \notin W
      BY <2>2, <2>3, <2>5 DEF Precedes
    <2> QED
      BY <2>4, <2>6
  <1> QED
    BY <1>2, <1>4, <1>5

\* What is said of frames of a log stays true when the log grows; the new
\* frame comes after all of them.
LEMMA GrowthKeeps ==
  ASSUME NEW S, NEW l \in Seq(S), Distinct(l), NEW g \in S, g \notin Range(l)
  PROVE  /\ \A F, G : F \subseteq Range(l) /\ G \subseteq Range(l) /\ Precedes(l, F, G)
               => Precedes(Append(l, g), F, G)
         /\ \A F : F \subseteq Range(l) => Precedes(Append(l, g), F, {g})
         /\ \A s \in Seq(S) : Range(s) \subseteq Range(l) /\ Ordered(l, s)
               => Ordered(Append(l, g), s)
         /\ \A s \in Seq(S) : \A M, N :
               Range(s) \subseteq Range(l) /\ Gapless(l, s, M) /\ M \subseteq N
               => Gapless(Append(l, g), s, N)
         /\ \A f \in Range(l) : \A M, N :
               Accounted(l, f, M) /\ M \cup {g} \subseteq N => Accounted(Append(l, g), f, N)
         /\ \A M : Accounted(Append(l, g), g, M)
  <1> DEFINE m == Append(l, g)
  <1>1. /\ Pos(m, g) = Len(l) + 1
        /\ \A f \in Range(l) : Pos(m, f) = Pos(l, f) /\ Pos(l, f) \in 1..Len(l)
    BY LogGrows
  <1>2. /\ Len(m) = Len(l) + 1 /\ m[Len(l) + 1] = g
        /\ \A i \in 1..Len(l) : m[i] = l[i]
        /\ Len(l) \in Nat
    BY AppendRange, InRange
  <1> HIDE DEF m
  <1>3. ASSUME NEW F, NEW G, F \subseteq Range(l), G \subseteq Range(l), Precedes(l, F, G)
        PROVE  Precedes(m, F, G)
    BY <1>1, <1>3 DEF Precedes
  <1>4. ASSUME NEW F, F \subseteq Range(l)
        PROVE  Precedes(m, F, {g})
    BY <1>1, <1>2, <1>4 DEF Precedes
  <1>5. ASSUME NEW s \in Seq(S), Range(s) \subseteq Range(l)
        PROVE  /\ \A i \in DOMAIN s : Pos(m, s[i]) = Pos(l, s[i])
               /\ \A i \in DOMAIN s : Pos(l, s[i]) \in 1..Len(l)
               /\ DOMAIN s = 1..Len(s) /\ Len(s) \in Nat
    BY <1>1, <1>5, InRange
  <1>6. ASSUME NEW s \in Seq(S), Range(s) \subseteq Range(l), Ordered(l, s)
        PROVE  Ordered(m, s)
    BY <1>5, <1>6 DEF Ordered
  <1>7. ASSUME NEW s \in Seq(S), NEW M, NEW N, Range(s) \subseteq Range(l),
               Gapless(l, s, M), M \subseteq N
        PROVE  Gapless(m, s, N)
    <2> SUFFICES ASSUME NEW i \in 1..(Len(s) - 1),
                        NEW p \in (Pos(m, s[i]) + 1)..(Pos(m, s[i + 1]) - 1)
                 PROVE  m[p] \in N
      BY DEF Gapless
    <2>1. i \in DOMAIN s /\ i + 1 \in DOMAIN s
      BY <1>5, <1>7
    <2>2. /\ Pos(m, s[i]) = Pos(l, s[i]) /\ Pos(m, s[i + 1]) = Pos(l, s[i + 1])
          /\ Pos(l, s[i]) \in 1..Len(l) /\ Pos(l, s[i + 1]) \in 1..Len(l)
      BY <1>5, <1>7, <2>1
    <2>3. l[p] \in M
      BY <1>7, <2>2 DEF Gapless
    <2>4. p \in 1..Len(l)
      BY <1>2, <2>2
    <2> QED
      BY <1>2, <1>7, <2>3, <2>4
  <1>8. ASSUME NEW f \in Range(l), NEW M, NEW N, Accounted(l, f, M), M \cup {g} \subseteq N
        PROVE  Accounted(m, f, N)
    <2> SUFFICES ASSUME NEW p \in (Pos(m, f) + 1)..Len(m)
                 PROVE  m[p] \in N
      BY DEF Accounted
    <2>1. Pos(m, f) = Pos(l, f) /\ Pos(l, f) \in 1..Len(l)
      BY <1>1
    <2>2. p = Len(l) + 1 \/ (p \in (Pos(l, f) + 1)..Len(l) /\ p \in 1..Len(l))
      BY <1>2, <2>1
    <2>3. CASE p = Len(l) + 1
      BY <1>2, <1>8, <2>3
    <2>4. CASE p \in (Pos(l, f) + 1)..Len(l) /\ p \in 1..Len(l)
      BY <1>2, <1>8, <2>4 DEF Accounted
    <2> QED
      BY <2>2, <2>3, <2>4
  <1>9. \A M : Accounted(m, g, M)
    BY <1>1, <1>2 DEF Accounted
  <1> QED
    BY <1>3, <1>4, <1>6, <1>7, <1>8, <1>9 DEF m

-----------------------------------------------------------------------------
(* What a step keeps that adds nothing to the log.                         *)

LEMMA Mono ==
  /\ \A l, f, M, N : Accounted(l, f, M) /\ M \subseteq N => Accounted(l, f, N)
  /\ \A l, s, M, N : Gapless(l, s, M) /\ M \subseteq N => Gapless(l, s, N)
  /\ \A l, F, G, A, B : Precedes(l, F, G) /\ A \subseteq F /\ B \subseteq G => Precedes(l, A, B)
  <1>1. ASSUME NEW l, NEW f, NEW M, NEW N, Accounted(l, f, M), M \subseteq N
        PROVE  Accounted(l, f, N)
    BY <1>1 DEF Accounted
  <1>2. ASSUME NEW l, NEW s, NEW M, NEW N, Gapless(l, s, M), M \subseteq N
        PROVE  Gapless(l, s, N)
    BY <1>2 DEF Gapless
  <1>3. ASSUME NEW l, NEW F, NEW G, NEW A, NEW B,
               Precedes(l, F, G), A \subseteq F, B \subseteq G
        PROVE  Precedes(l, A, B)
    BY <1>3 DEF Precedes
  <1> QED
    BY <1>1, <1>2, <1>3

\* A client that is not concerned has the same frames, is owed the same or
\* less, and what it is no longer owed was missed.
LEMMA StaysConnected ==
  ASSUME NEW c, Connected(c), got'[c] = got[c], log' = log,
         Owed(c)' \subseteq Owed(c),
         missed \cup Owed(c) \subseteq missed' \cup Owed(c)'
  PROVE  Connected(c)'
  <1>1. Precedes(log, Range(got[c]), Owed(c)') /\ got'[c] = got[c]
    BY Mono DEF Connected
  <1>2. got[c] # <<>> => Accounted(log, got[c][Len(got[c])], missed' \cup Owed(c)')
    BY Mono DEF Connected
  <1> QED
    BY <1>1, <1>2 DEF Connected

LEMMA StaysServed ==
  ASSUME NEW c, Served(c), got'[c] = got[c], log' = log, missed \subseteq missed'
  PROVE  Served(c)'
  <1>1. Gapless(log, got[c], missed')
    BY Mono DEF Served
  <1> QED
    BY <1>1 DEF Served

\* Frames leave the wire or the queue for the missed ones, or a broadcast
\* ends.
LEMMA StaysAccounted ==
  ASSUME NothingLost, log' = log, Waiting' \subseteq Waiting,
         missed \cup Waiting \subseteq missed' \cup Waiting',
         sending' \in {sending, NoFrame}
  PROVE  NothingLost'
  <1>1. \A f \in Waiting' : Accounted(log, f, missed' \cup Waiting')
    BY Mono DEF NothingLost
  <1>2. sending' # NoFrame => Accounted(log, sending', missed' \cup Waiting')
    BY Mono DEF NothingLost
  <1> QED
    BY <1>1, <1>2 DEF NothingLost

\* The connection is made, a run starts, or nothing happens.
LEMMA RestKeeps ==
  ASSUME FeedInv, listener' \in {"connecting", "listening", "deaf"},
         UNCHANGED <<txs, wire, queue, sending, left, clients, got, log, missed>>
  PROVE  FeedInv'
  BY DEF FeedInv, FeedTypes, Logged, InLine, NothingLost, Served, Connected, Waiting, Owed

-----------------------------------------------------------------------------
(* One action at a time.                                                   *)

LEMMA CommitTxKeeps ==
  ASSUME FeedInv, NEW run \in Runs, NEW t \in Tx, CommitTx(run, t)
  PROVE  FeedInv'
  <1> USE DEF FeedInv
  <1> DEFINE g == <<run, t>>
  <1>1. /\ g \in Frame /\ g \notin Range(log)
        /\ txs' = txs \cup {g} /\ log' = Append(log, g)
        /\ UNCHANGED <<listener, queue, sending, left, clients, got>>
        /\ \/ wire' = Append(wire, g) /\ missed' = missed
           \/ missed' = missed \cup {g} /\ wire' = wire
    BY DEF CommitTx, Inserts, CreditAccount, Frame, Logged
  <1> HIDE DEF g
  <1>2. /\ log \in Seq(Frame) /\ Distinct(log) /\ wire \in Seq(Frame) /\ queue \in Seq(Frame)
        /\ Waiting \subseteq Range(log) /\ missed \subseteq Range(log)
    BY DEF FeedTypes, Logged
  <1>3. /\ log' \in Seq(Frame) /\ Distinct(log') /\ Range(log') = Range(log) \cup {g}
        /\ \A F, G : F \subseteq Range(log) /\ G \subseteq Range(log) /\ Precedes(log, F, G)
               => Precedes(log', F, G)
        /\ \A F : F \subseteq Range(log) => Precedes(log', F, {g})
        /\ \A s \in Seq(Frame) : Range(s) \subseteq Range(log) /\ Ordered(log, s)
               => Ordered(log', s)
        /\ \A s \in Seq(Frame) : \A M, N :
               Range(s) \subseteq Range(log) /\ Gapless(log, s, M) /\ M \subseteq N
               => Gapless(log', s, N)
        /\ \A f \in Range(log) : \A M, N :
               Accounted(log, f, M) /\ M \cup {g} \subseteq N => Accounted(log', f, N)
        /\ \A M : Accounted(log', g, M)
    <2> DEFINE m == Append(log, g)
    <2>1. m \in Seq(Frame) /\ Distinct(m) /\ Range(m) = Range(log) \cup {g}
      BY <1>1, <1>2, LogGrows, AppendRange
    <2>2. /\ \A F, G : F \subseteq Range(log) /\ G \subseteq Range(log) /\ Precedes(log, F, G)
                 => Precedes(m, F, G)
          /\ \A F : F \subseteq Range(log) => Precedes(m, F, {g})
          /\ \A s \in Seq(Frame) : Range(s) \subseteq Range(log) /\ Ordered(log, s)
                 => Ordered(m, s)
          /\ \A s \in Seq(Frame) : \A M, N :
                 Range(s) \subseteq Range(log) /\ Gapless(log, s, M) /\ M \subseteq N
                 => Gapless(m, s, N)
          /\ \A f \in Range(log) : \A M, N :
                 Accounted(log, f, M) /\ M \cup {g} \subseteq N => Accounted(m, f, N)
          /\ \A M : Accounted(m, g, M)
      BY <1>1, <1>2, GrowthKeeps, Zenon
    <2>3. log' = m
      BY <1>1
    <2> HIDE DEF m
    <2> QED
      BY <2>1, <2>2, <2>3, Zenon
  <1>4. /\ wire' \in Seq(Frame)
        /\ \/ Range(wire') = Range(wire) \cup {g} /\ missed' = missed
           \/ missed' = missed \cup {g} /\ wire' = wire
        /\ Ordered(log', wire')
    <2>1. Ordered(log', wire) /\ Precedes(log', Range(wire), {g})
      BY <1>2, <1>3 DEF InLine, Waiting
    <2>2. CASE wire' = Append(wire, g) /\ missed' = missed
      <3>1. Ordered(log', Append(wire, g))
        BY <1>1, <1>2, <2>1, AppendOrdered
      <3> QED
        BY <1>1, <1>2, <2>2, <3>1, AppendRange
    <2>3. CASE missed' = missed \cup {g} /\ wire' = wire
      BY <1>2, <2>1, <2>3
    <2> QED
      BY <1>1, <2>2, <2>3
  <1>5. /\ Waiting' = Waiting \cup {g} \/ Waiting' = Waiting
        /\ missed' \cup Waiting' = missed \cup Waiting \cup {g}
        /\ missed \subseteq missed' /\ missed' \subseteq missed \cup {g}
    BY <1>1, <1>4 DEF Waiting
  <1>6. FeedTypes'
    BY <1>1, <1>3, <1>4 DEF FeedTypes
  <1>7. Logged'
    BY <1>1, <1>3, <1>5 DEF Logged
  <1>8. InLine'
    <2>1. Ordered(log', queue')
      BY <1>1, <1>2, <1>3 DEF InLine, Waiting
    <2>2. Precedes(log', Range(queue'), Range(wire'))
      <3>1. Range(queue) \subseteq Range(log) /\ Range(wire) \subseteq Range(log)
        BY <1>2 DEF Waiting
      <3>2. Precedes(log', Range(queue), Range(wire)) /\ Precedes(log', Range(queue), {g})
        BY <1>3, <3>1 DEF InLine
      <3> QED
        BY <1>1, <1>4, <3>2 DEF Precedes
    <2>3. ASSUME sending' # NoFrame
          PROVE  Precedes(log', {sending'}, Waiting')
      <3>1. sending # NoFrame /\ {sending} \subseteq Range(log) /\ sending' = sending
        BY <1>1, <2>3 DEF Logged
      <3>2. Precedes(log', {sending}, Waiting) /\ Precedes(log', {sending}, {g})
        BY <1>2, <1>3, <3>1 DEF InLine
      <3> QED
        BY <1>5, <3>1, <3>2 DEF Precedes
    <2> QED
      BY <1>4, <2>1, <2>2, <2>3 DEF InLine
  <1>9. NothingLost'
    <2>1. \A f \in Waiting' : Accounted(log', f, missed' \cup Waiting')
      <3> SUFFICES ASSUME NEW f \in Waiting'
                   PROVE  Accounted(log', f, missed' \cup Waiting')
        OBVIOUS
      <3>1. CASE f = g
        BY <1>3, <3>1
      <3>2. CASE f \in Waiting
        <4>1. f \in Range(log) /\ Accounted(log, f, missed \cup Waiting)
          BY <1>2, <3>2 DEF NothingLost
        <4> QED
          BY <1>3, <1>5, <4>1
      <3> QED
        BY <1>5, <3>1, <3>2
    <2>2. ASSUME sending' # NoFrame
          PROVE  Accounted(log', sending', missed' \cup Waiting')
      <3>1. /\ sending # NoFrame /\ sending \in Range(log) /\ sending' = sending
            /\ Accounted(log, sending, missed \cup Waiting)
        BY <1>1, <2>2 DEF Logged, NothingLost
      <3> QED
        BY <1>3, <1>5, <3>1
    <2> QED
      BY <2>1, <2>2 DEF NothingLost
  <1>10. ASSUME NEW c \in Clients
         PROVE  Served(c)'
    <2>1. got[c] \in Seq(Frame) /\ Range(got[c]) \subseteq Range(log)
      BY DEF FeedTypes, Logged
    <2>2. Ordered(log', got[c]) /\ Gapless(log', got[c], missed')
      BY <1>3, <1>5, <2>1 DEF Served
    <2> QED
      BY <1>1, <2>2 DEF Served
  <1>11. ASSUME NEW c \in clients'
         PROVE  Connected(c)'
    <2>1. c \in clients /\ c \in Clients /\ got' = got /\ Connected(c)
      BY <1>1 DEF FeedTypes
    <2>2. got[c] \in Seq(Frame) /\ Range(got[c]) \subseteq Range(log)
      BY <2>1 DEF FeedTypes, Logged
    <2>3. /\ Owed(c)' = Owed(c) \cup {g} \/ Owed(c)' = Owed(c)
          /\ missed' \cup Owed(c)' = missed \cup Owed(c) \cup {g}
      BY <1>1, <1>5 DEF Owed
    <2>4. Owed(c) \subseteq Range(log)
      BY <1>2 DEF Owed, Logged, FeedTypes
    <2>5. Precedes(log', Range(got[c]), Owed(c)')
      <3>1. Precedes(log', Range(got[c]), Owed(c)) /\ Precedes(log', Range(got[c]), {g})
        BY <1>3, <2>1, <2>2, <2>4 DEF Connected
      <3> QED
        BY <2>3, <3>1 DEF Precedes
    <2>6. ASSUME got[c] # <<>>
          PROVE  Accounted(log', got[c][Len(got[c])], missed' \cup Owed(c)')
      <3>1. Len(got[c]) \in 1..Len(got[c])
        BY <2>2, <2>6
      <3>2. got[c][Len(got[c])] \in Range(log)
        BY <2>2, <3>1, InRange
      <3> QED
        BY <1>3, <2>1, <2>3, <2>6, <3>2 DEF Connected
    <2> QED
      BY <2>1, <2>5, <2>6 DEF Connected
  <1> QED
    BY <1>6, <1>7, <1>8, <1>9, <1>10, <1>11

LEMMA ConnectionDropsKeeps ==
  ASSUME FeedInv, ConnectionDrops
  PROVE  FeedInv'
  <1> USE DEF FeedInv
  <1>1. /\ listener' = "deaf" /\ wire' = <<>> /\ missed' = missed \cup Range(wire)
        /\ UNCHANGED <<txs, queue, sending, left, clients, got, log>>
    BY DEF ConnectionDrops, ledgerVars
  <1>2. wire' \in Seq(Frame) /\ Range(wire') = {}
    BY <1>1, EmptyRange
  <1>3. /\ Waiting' = Range(queue) /\ Waiting' \subseteq Waiting
        /\ missed \cup Waiting = missed' \cup Waiting' /\ missed \subseteq missed'
    BY <1>1, <1>2 DEF Waiting
  <1>4. FeedTypes'
    BY <1>1, <1>2 DEF FeedTypes
  <1>5. Logged'
    BY <1>1, <1>3 DEF Logged, Waiting
  <1>6. InLine'
    <2>1. Ordered(log, <<>>)
      BY DEF Ordered
    <2>2. Precedes(log, Range(queue), {})
      BY DEF Precedes
    <2>3. sending # NoFrame => Precedes(log, {sending}, Waiting')
      BY <1>3, Mono DEF InLine
    <2> QED
      BY <1>1, <1>2, <2>1, <2>2, <2>3 DEF InLine
  <1>7. NothingLost'
    BY <1>1, <1>3, StaysAccounted
  <1>8. \A c \in Clients : Served(c)'
    BY <1>1, <1>3, StaysServed
  <1>9. ASSUME NEW c \in clients'
        PROVE  Connected(c)'
    <2>1. /\ Owed(c)' \subseteq Owed(c) /\ missed \cup Owed(c) \subseteq missed' \cup Owed(c)'
          /\ Connected(c) /\ got'[c] = got[c]
      BY <1>1, <1>3 DEF Owed
    <2> QED
      BY <1>1, <2>1, StaysConnected
  <1> QED
    BY <1>4, <1>5, <1>6, <1>7, <1>8, <1>9

LEMMA EnqueueKeeps ==
  ASSUME FeedInv, Enqueue
  PROVE  FeedInv'
  <1> USE DEF FeedInv
  <1> DEFINE h == Head(wire)
             tail == Tail(wire)
  <1>1. /\ wire # <<>> /\ wire' = tail
        /\ \/ Len(queue) < QueueSize /\ queue' = Append(queue, h) /\ missed' = missed
           \/ missed' = missed \cup {h} /\ queue' = queue
        /\ UNCHANGED <<txs, listener, sending, left, clients, got, log>>
    BY DEF Enqueue, ledgerVars
  <1>2. wire \in Seq(Frame) /\ queue \in Seq(Frame) /\ Len(queue) <= QueueSize
    BY DEF FeedTypes
  <1>3. /\ h \in Frame /\ tail \in Seq(Frame) /\ Range(wire) = Range(tail) \cup {h}
        /\ Ordered(log, tail) /\ Precedes(log, {h}, Range(tail))
    BY <1>1, <1>2, TailRange, TailOrdered DEF InLine
  <1>4. Precedes(log, Range(queue), {h}) /\ Precedes(log, Range(queue), Range(tail))
    BY <1>3, Mono DEF InLine
  <1> HIDE DEF h, tail
  <1>5. /\ queue' \in Seq(Frame) /\ Len(queue') <= QueueSize
        /\ \/ Range(queue') = Range(queue) \cup {h} /\ missed' = missed
           \/ missed' = missed \cup {h} /\ queue' = queue
        /\ Ordered(log, queue') /\ Precedes(log, Range(queue'), Range(tail))
    <2>1. CASE Len(queue) < QueueSize /\ queue' = Append(queue, h) /\ missed' = missed
      <3>1. Ordered(log, Append(queue, h))
        BY <1>2, <1>3, <1>4, AppendOrdered DEF InLine
      <3>2. /\ Append(queue, h) \in Seq(Frame) /\ Len(Append(queue, h)) = Len(queue) + 1
            /\ Range(Append(queue, h)) = Range(queue) \cup {h}
        BY <1>2, <1>3, AppendRange
      <3>3. Len(queue) \in Nat /\ QueueSize \in Nat
        BY <1>2, FeedAssumption, InRange
      <3>4. Precedes(log, Range(queue) \cup {h}, Range(tail))
        BY <1>3, <1>4 DEF Precedes
      <3>5. Len(queue) + 1 <= QueueSize
        BY <2>1, <3>3
      <3> QED
        BY <2>1, <3>1, <3>2, <3>4, <3>5
    <2>2. CASE missed' = missed \cup {h} /\ queue' = queue
      BY <1>2, <1>4, <2>2 DEF InLine
    <2> QED
      BY <1>1, <2>1, <2>2
  <1>6. /\ Waiting' \subseteq Waiting /\ missed \cup Waiting = missed' \cup Waiting'
        /\ missed \subseteq missed' /\ missed' \subseteq missed \cup Waiting
    BY <1>1, <1>3, <1>5 DEF Waiting
  <1>7. FeedTypes'
    BY <1>1, <1>3, <1>5 DEF FeedTypes
  <1>8. Logged'
    BY <1>1, <1>6 DEF Logged
  <1>9. InLine'
    <2>1. sending # NoFrame => Precedes(log, {sending}, Waiting')
      BY <1>6, Mono DEF InLine
    <2> QED
      BY <1>1, <1>3, <1>5, <2>1 DEF InLine
  <1>10. NothingLost'
    BY <1>1, <1>6, StaysAccounted
  <1>11. \A c \in Clients : Served(c)'
    BY <1>1, <1>6, StaysServed
  <1>12. ASSUME NEW c \in clients'
         PROVE  Connected(c)'
    <2>1. /\ Owed(c)' \subseteq Owed(c) /\ missed \cup Owed(c) \subseteq missed' \cup Owed(c)'
          /\ Connected(c) /\ got'[c] = got[c]
      BY <1>1, <1>6 DEF Owed
    <2> QED
      BY <1>1, <2>1, StaysConnected
  <1> QED
    BY <1>7, <1>8, <1>9, <1>10, <1>11, <1>12

\* The first frame of the queue moves into the broadcast: every client
\* connected is owed it in place of the one in the queue.
LEMMA DrainKeeps ==
  ASSUME FeedInv, Drain
  PROVE  FeedInv'
  <1> USE DEF FeedInv
  <1> DEFINE h == Head(queue)
             tail == Tail(queue)
  <1>1. /\ sending = NoFrame /\ left = {} /\ queue # <<>> /\ queue' = tail
        /\ sending' = IF clients = {} THEN NoFrame ELSE h
        /\ left' = clients
        /\ UNCHANGED <<txs, listener, wire, clients, got, log, missed>>
    BY DEF Drain, ledgerVars, FeedTypes
  <1>2. /\ wire \in Seq(Frame) /\ queue \in Seq(Frame) /\ Len(queue) <= QueueSize
        /\ log \in Seq(Frame) /\ Distinct(log)
    BY DEF FeedTypes, Logged
  <1>3. /\ h \in Frame /\ tail \in Seq(Frame) /\ Range(queue) = Range(tail) \cup {h}
        /\ Len(tail) = Len(queue) - 1 /\ Len(queue) \in Nat
        /\ Ordered(log, tail) /\ Precedes(log, {h}, Range(tail))
    BY <1>1, <1>2, TailRange, TailOrdered DEF InLine
  <1>4. Precedes(log, {h}, Range(wire)) /\ Precedes(log, Range(tail), Range(wire))
    BY <1>3, Mono DEF InLine
  <1> HIDE DEF h, tail
  <1>5. h # NoFrame /\ h \in Waiting /\ h \in Range(log)
    <2>1. NoFrame \notin Frame
      BY FeedAssumption DEF Frame
    <2> QED
      BY <1>3, <2>1 DEF Waiting, Logged
  <1>6. Waiting' = Range(tail) \cup Range(wire) /\ Waiting = Waiting' \cup {h}
    BY <1>1, <1>3 DEF Waiting
  <1>7. Precedes(log, {h}, Waiting')
    BY <1>3, <1>4, <1>6 DEF Precedes
  <1>8. FeedTypes'
    <2>1. Len(tail) <= QueueSize
      BY <1>2, <1>3, FeedAssumption
    <2> QED
      BY <1>1, <1>3, <1>5, <2>1 DEF FeedTypes
  <1>9. Logged'
    BY <1>1, <1>5, <1>6 DEF Logged
  <1>10. InLine'
    BY <1>1, <1>3, <1>4, <1>7 DEF InLine
  <1>11. \A f \in Waiting : Pos(log, f) \in 1..Len(log)
    BY <1>2, Positions DEF Logged
  <1>12. ASSUME NEW f \in Waiting, Accounted(log, f, missed \cup Waiting), ~(Pos(log, f) < Pos(log, h))
         PROVE  Accounted(log, f, missed \cup Waiting')
    <2> SUFFICES ASSUME NEW p \in (Pos(log, f) + 1)..Len(log)
                 PROVE  log[p] \in missed \cup Waiting'
      BY DEF Accounted
    <2>1. p \in 1..Len(log) /\ Pos(log, h) < p
      BY <1>2, <1>5, <1>11, <1>12, InRange
    <2>2. log[p] # h
      <3>1. Pos(log, log[p]) = p
        BY <1>2, <2>1, Positions
      <3> QED
        BY <1>5, <1>11, <2>1, <3>1
    <2> QED
      BY <1>6, <1>12, <2>2 DEF Accounted
  <1>13. NothingLost'
    <2>1. \A f \in Waiting' : Accounted(log, f, missed \cup Waiting')
      <3> SUFFICES ASSUME NEW f \in Waiting'
                   PROVE  Accounted(log, f, missed \cup Waiting')
        OBVIOUS
      <3>1. f \in Waiting /\ Accounted(log, f, missed \cup Waiting)
        BY <1>6 DEF NothingLost
      <3>2. Pos(log, h) < Pos(log, f)
        BY <1>7 DEF Precedes
      <3>3. ~(Pos(log, f) < Pos(log, h))
        BY <1>5, <1>11, <3>1, <3>2
      <3> QED
        BY <1>12, <3>1, <3>3
    <2>2. Accounted(log, h, missed \cup Waiting')
      <3>1. Accounted(log, h, missed \cup Waiting)
        BY <1>5 DEF NothingLost
      <3>2. Pos(log, h) \in Nat
        BY <1>2, <1>5, <1>11, InRange
      <3>3. ~(Pos(log, h) < Pos(log, h))
        BY <3>2
      <3> QED
        BY <1>5, <1>12, <3>1, <3>3
    <2> QED
      BY <1>1, <2>1, <2>2 DEF NothingLost
  <1>14. \A c \in Clients : Served(c)'
    BY <1>1, StaysServed
  <1>15. ASSUME NEW c \in clients'
         PROVE  Connected(c)'
    <2>1. /\ Owed(c)' = Owed(c) /\ Connected(c) /\ got'[c] = got[c]
      BY <1>1, <1>6 DEF Owed
    <2> QED
      BY <1>1, <2>1, StaysConnected
  <1> QED
    BY <1>8, <1>9, <1>10, <1>13, <1>14, <1>15

\* Without c the broadcast goes on with the others, who are owed what they
\* were owed.
LEMMA ServedOrGoneKeeps ==
  ASSUME FeedInv, NEW c \in left, ServedOrGone(c)
  PROVE  /\ left' = left \ {c} /\ ((sending' = NoFrame) <=> (left' = {}))
         /\ sending' \in {sending, NoFrame} /\ sending # NoFrame
         /\ \A d \in left' : sending' = sending /\ d \in left
         /\ \A d \in left : d # c => d \in left'
  BY DEF ServedOrGone, FeedInv, FeedTypes

LEMMA SendKeeps ==
  ASSUME FeedInv, NEW c \in Clients, Send(c)
  PROVE  FeedInv'
  <1> USE DEF FeedInv
  <1>1. /\ c \in left /\ got' = [got EXCEPT ![c] = Append(got[c], sending)]
        /\ ServedOrGone(c)
        /\ UNCHANGED <<txs, listener, wire, queue, clients, log, missed>>
    BY DEF Send, ledgerVars
  <1>2. /\ left' = left \ {c} /\ ((sending' = NoFrame) <=> (left' = {}))
        /\ sending' \in {sending, NoFrame} /\ sending # NoFrame
        /\ \A d \in left' : sending' = sending /\ d \in left
        /\ \A d \in left : d # c => d \in left'
    BY <1>1, ServedOrGoneKeeps
  <1>3. /\ log \in Seq(Frame) /\ Distinct(log) /\ sending \in Frame /\ sending \in Range(log)
        /\ got[c] \in Seq(Frame) /\ Range(got[c]) \subseteq Range(log)
        /\ c \in clients /\ Connected(c) /\ Served(c)
    BY <1>1, <1>2 DEF FeedTypes, Logged
  <1> DEFINE s == Append(got[c], sending)
  <1>4. /\ s \in Seq(Frame) /\ Len(s) = Len(got[c]) + 1 /\ s[Len(got[c]) + 1] = sending
        /\ Range(s) = Range(got[c]) \cup {sending}
    BY <1>3, AppendRange
  <1>5. /\ got'[c] = s /\ \A d \in Clients : d # c => got'[d] = got[d]
        /\ got' \in [Clients -> Seq(Frame)]
    BY <1>1, <1>4 DEF FeedTypes
  <1>6. Owed(c) = Waiting \cup {sending} /\ Owed(c)' = Waiting /\ Waiting' = Waiting
    BY <1>1, <1>2 DEF Owed, Waiting
  <1>7. Ordered(log, s) /\ Gapless(log, s, missed)
    <2>1. Precedes(log, Range(got[c]), {sending})
      BY <1>3, <1>6, Mono DEF Connected
    <2>2. Ordered(log, s)
      BY <1>3, <2>1, AppendOrdered DEF Served
    <2>3. got[c] # <<>> =>
             Accounted(log, got[c][Len(got[c])], missed \cup Waiting \cup {sending})
      <3>1. missed \cup Owed(c) = missed \cup Waiting \cup {sending}
        BY <1>6
      <3> QED
        BY <1>3, <3>1 DEF Connected
    <2>4. Gapless(log, got[c], missed) /\ Precedes(log, {sending}, Waiting)
      BY <1>2, <1>3 DEF Served, InLine
    <2>5. Gapless(log, s, missed)
      BY <1>3, <2>3, <2>4, AppendGapless
    <2> QED
      BY <2>2, <2>5
  <1> HIDE DEF s
  <1>8. FeedTypes'
    BY <1>1, <1>2, <1>5 DEF FeedTypes
  <1>9. Logged'
    <2>1. \A d \in Clients : Range(got'[d]) \subseteq Range(log)
      BY <1>3, <1>4, <1>5 DEF Logged
    <2> QED
      BY <1>1, <1>2, <1>3, <1>6, <2>1 DEF Logged
  <1>10. InLine'
    BY <1>1, <1>2, <1>6 DEF InLine
  <1>11. NothingLost'
    BY <1>1, <1>2, <1>6, StaysAccounted
  <1>12. ASSUME NEW d \in Clients
         PROVE  Served(d)'
    <2>1. CASE d = c
      BY <1>1, <1>5, <1>7, <2>1 DEF Served
    <2>2. CASE d # c
      BY <1>1, <1>5, <2>2, StaysServed
    <2> QED
      BY <2>1, <2>2
  <1>13. ASSUME NEW d \in clients'
         PROVE  Connected(d)'
    <2>1. CASE d = c
      <3>1. Precedes(log, Range(s), Waiting)
        <4>1. Precedes(log, Range(got[c]), Waiting) /\ Precedes(log, {sending}, Waiting)
          BY <1>2, <1>3, <1>6, Mono DEF Connected, InLine
        <4> QED
          BY <1>4, <4>1 DEF Precedes
      <3>2. Accounted(log, s[Len(s)], missed \cup Waiting)
        BY <1>2, <1>4 DEF NothingLost
      <3> QED
        BY <1>1, <1>5, <1>6, <2>1, <3>1, <3>2 DEF Connected
    <2>2. CASE d # c
      <3>1. d \in Clients /\ d \in clients
        BY <1>1 DEF FeedTypes
      <3>2. Owed(d)' = Owed(d) /\ Connected(d) /\ got'[d] = got[d]
        BY <1>1, <1>2, <1>5, <1>6, <2>2, <3>1 DEF Owed
      <3> QED
        BY <1>1, <3>2, StaysConnected
    <2> QED
      BY <2>1, <2>2
  <1> QED
    BY <1>8, <1>9, <1>10, <1>11, <1>12, <1>13

LEMMA JoinKeeps ==
  ASSUME FeedInv, NEW c \in Clients, Join(c)
  PROVE  FeedInv'
  <1> USE DEF FeedInv
  <1>1. /\ c \notin clients /\ clients' = clients \cup {c} /\ c \notin left
        /\ got' = [got EXCEPT ![c] = <<>>]
        /\ UNCHANGED <<txs, listener, wire, queue, sending, left, log, missed>>
    BY DEF Join, ledgerVars, FeedTypes
  <1>2. /\ got'[c] = <<>> /\ \A d \in Clients : d # c => got'[d] = got[d]
        /\ got' \in [Clients -> Seq(Frame)]
    BY <1>1, EmptyRange DEF FeedTypes
  <1>3. Waiting' = Waiting /\ \A d : Owed(d)' = Owed(d)
    BY <1>1 DEF Waiting, Owed
  <1>4. FeedTypes'
    BY <1>1, <1>2 DEF FeedTypes
  <1>5. Logged'
    <2>1. \A d \in Clients : Range(got'[d]) \subseteq Range(log)
      BY <1>2, EmptyRange DEF Logged
    <2> QED
      BY <1>1, <1>3, <2>1 DEF Logged
  <1>6. InLine'
    BY <1>1, <1>3 DEF InLine
  <1>7. NothingLost'
    BY <1>1, <1>3, StaysAccounted
  <1>8. ASSUME NEW d \in Clients
        PROVE  Served(d)'
    <2>1. CASE d = c
      <3>1. Ordered(log, <<>>) /\ Gapless(log, <<>>, missed)
        BY DEF Ordered, Gapless
      <3> QED
        BY <1>1, <1>2, <2>1, <3>1 DEF Served
    <2>2. CASE d # c
      BY <1>1, <1>2, <2>2, StaysServed
    <2> QED
      BY <2>1, <2>2
  <1>9. ASSUME NEW d \in clients'
        PROVE  Connected(d)'
    <2>1. CASE d = c
      <3>1. Precedes(log, {}, Owed(c)')
        BY DEF Precedes
      <3> QED
        BY <1>1, <1>2, <2>1, <3>1, EmptyRange DEF Connected
    <2>2. CASE d # c
      <3>1. d \in clients /\ d \in Clients /\ got'[d] = got[d] /\ Connected(d)
        BY <1>1, <1>2, <2>2 DEF FeedTypes
      <3> QED
        BY <1>1, <1>3, <3>1, StaysConnected
    <2> QED
      BY <2>1, <2>2
  <1> QED
    BY <1>4, <1>5, <1>6, <1>7, <1>8, <1>9

LEMMA LeaveKeeps ==
  ASSUME FeedInv, NEW c \in Clients, Leave(c)
  PROVE  FeedInv'
  <1> USE DEF FeedInv
  <1>1. /\ clients' = clients \ {c}
        /\ UNCHANGED <<txs, listener, wire, queue, got, log, missed>>
    BY DEF Leave, ledgerVars
  <1>2. /\ left' = left \ {c} /\ ((sending' = NoFrame) <=> (left' = {}))
        /\ sending' \in {sending, NoFrame}
        /\ \A d \in left' : sending' = sending
        /\ \A d : d # c => (d \in left <=> d \in left')
    <2>1. CASE c \in left
      BY <2>1, ServedOrGoneKeeps DEF Leave
    <2>2. CASE c \notin left
      BY <2>2 DEF Leave, FeedTypes
    <2> QED
      BY <2>1, <2>2
  <1>3. Waiting' = Waiting
    BY <1>1 DEF Waiting
  <1>4. FeedTypes'
    BY <1>1, <1>2 DEF FeedTypes
  <1>5. Logged'
    BY <1>1, <1>2, <1>3 DEF Logged
  <1>6. InLine'
    BY <1>1, <1>2, <1>3 DEF InLine
  <1>7. NothingLost'
    BY <1>1, <1>2, <1>3, StaysAccounted
  <1>8. \A d \in Clients : Served(d)'
    BY <1>1, StaysServed
  <1>9. ASSUME NEW d \in clients'
        PROVE  Connected(d)'
    <2>1. Owed(d)' = Owed(d) /\ Connected(d) /\ got'[d] = got[d]
      BY <1>1, <1>2, <1>3 DEF Owed
    <2> QED
      BY <1>1, <2>1, StaysConnected
  <1> QED
    BY <1>4, <1>5, <1>6, <1>7, <1>8, <1>9

LEMMA FeedRestartKeeps ==
  ASSUME FeedInv, FeedRestart
  PROVE  FeedInv'
  <1> USE DEF FeedInv
  <1>1. /\ listener' = "connecting" /\ wire' = <<>> /\ queue' = <<>>
        /\ sending' = NoFrame /\ left' = {} /\ clients' = {}
        /\ missed' = missed \cup Range(wire) \cup Range(queue)
        /\ UNCHANGED <<txs, got, log>>
    BY DEF FeedRestart, ledgerVars
  <1>2. Range(wire') = {} /\ wire' \in Seq(Frame) /\ queue' \in Seq(Frame) /\ Waiting' = {}
    BY <1>1, EmptyRange DEF Waiting
  <1>3. FeedTypes'
    <2>1. Len(queue') <= QueueSize
      BY <1>1, FeedAssumption
    <2> QED
      BY <1>1, <1>2, <2>1 DEF FeedTypes
  <1>4. Logged'
    BY <1>1, <1>2 DEF Logged, Waiting
  <1>5. InLine' /\ NothingLost'
    <2>1. Ordered(log, <<>>) /\ Precedes(log, Range(queue'), {})
      BY DEF Ordered, Precedes
    <2> QED
      BY <1>1, <1>2, <2>1 DEF InLine, NothingLost
  <1>6. \A c \in Clients : Served(c)'
    BY <1>1, StaysServed
  <1> QED
    BY <1>1, <1>3, <1>4, <1>5, <1>6

-----------------------------------------------------------------------------
(* The invariant, and what follows from it.                                *)

LEMMA InitFeedInv == FeedStart => FeedInv
  <1> SUFFICES ASSUME FeedStart PROVE FeedInv
    OBVIOUS
  <1>1. /\ txs = {} /\ listener = "connecting"
        /\ wire = <<>> /\ queue = <<>> /\ log = <<>>
        /\ sending = NoFrame /\ left = {}
        /\ clients = {} /\ got = [c \in Clients |-> <<>>]
        /\ missed = {}
    BY DEF FeedStart, LedgerInit, FeedInit
  <1>2. <<>> \in Seq(Frame) /\ Range(<<>>) = {}
    BY EmptyRange
  <1>3. FeedTypes
    <2>1. Len(queue) <= QueueSize
      BY <1>1, FeedAssumption
    <2> QED
      BY <1>1, <1>2, <2>1 DEF FeedTypes
  <1>4. Logged
    BY <1>1, <1>2 DEF Logged, Waiting, Distinct
  <1>5. InLine /\ NothingLost
    BY <1>1, <1>2 DEF InLine, NothingLost, Waiting, Ordered, Precedes
  <1>6. \A c \in Clients : Served(c)
    BY <1>1 DEF Served, Ordered, Gapless
  <1> QED
    BY <1>1, <1>3, <1>4, <1>5, <1>6 DEF FeedInv

LEMMA NextFeedInv ==
  FeedInv /\ [FeedNext]_<<ledgerVars, feedVars>> => FeedInv'
  <1> SUFFICES ASSUME FeedInv, [FeedNext]_<<ledgerVars, feedVars>>
               PROVE  FeedInv'
    OBVIOUS
  <1>1. ASSUME NEW run \in Runs, NEW t \in Tx, CommitTx(run, t)
        PROVE  FeedInv'
    BY <1>1, CommitTxKeeps
  <1>2. CASE NewRun \/ Connect \/ UNCHANGED <<ledgerVars, feedVars>>
    <2>1. /\ listener' \in {"connecting", "listening", "deaf"}
          /\ UNCHANGED <<txs, wire, queue, sending, left, clients, got, log, missed>>
      BY <1>2 DEF NewRun, StartExecutionRun, Connect, feedVars, ledgerVars, FeedInv, FeedTypes
    <2> QED
      BY <2>1, RestKeeps
  <1>3. CASE ConnectionDrops
    BY <1>3, ConnectionDropsKeeps
  <1>4. CASE Enqueue
    BY <1>4, EnqueueKeeps
  <1>5. CASE Drain
    BY <1>5, DrainKeeps
  <1>6. CASE FeedRestart
    BY <1>6, FeedRestartKeeps
  <1>7. ASSUME NEW c \in Clients, Send(c) \/ Join(c) \/ Leave(c)
        PROVE  FeedInv'
    BY <1>7, SendKeeps, JoinKeeps, LeaveKeeps
  <1> QED
    BY <1>1, <1>2, <1>3, <1>4, <1>5, <1>6, <1>7 DEF FeedNext

\* Whatever commits, overflows, drops, joins, leaves or restarts.
THEOREM FeedInvariance == FeedSpec => []FeedInv
  <1>1. FeedStart => FeedInv
    BY InitFeedInv
  <1>2. FeedInv /\ [FeedNext]_<<ledgerVars, feedVars>> => FeedInv'
    BY NextFeedInv
  <1> QED
    BY <1>1, <1>2, PTL DEF FeedSpec

\* The queue stays within its bound, a broadcast has someone to serve as long
\* as it lasts, and the log is what the database has.
THEOREM FeedTypesHold == FeedSpec => []FeedTypeOK
  <1>1. FeedInv => FeedTypeOK
    BY DEF FeedInv, FeedTypes, Logged, FeedTypeOK
  <1> QED
    BY <1>1, FeedInvariance, PTL

\* A connection carries frames in the order of their commits, none twice.
THEOREM FramesInCommitOrder == FeedSpec => []InCommitOrder
  <1>1. FeedInv => InCommitOrder
    <2>1. \A f : Position(f) = Pos(log, f)
      BY DEF Position, Pos
    <2> QED
      BY <2>1 DEF FeedInv, Served, Ordered, InCommitOrder
  <1> QED
    BY <1>1, FeedInvariance, PTL

\* What a connection lacks between two of its frames never got into the
\* queue: broadcasts pass nobody over.
THEOREM OnlyMissedFramesLack == FeedSpec => []GapsWereMissed
  <1>1. FeedInv => GapsWereMissed
    <2>1. \A f : Position(f) = Pos(log, f)
      BY DEF Position, Pos
    <2> QED
      BY <2>1 DEF FeedInv, Served, Gapless, GapsWereMissed
  <1> QED
    BY <1>1, FeedInvariance, PTL
=============================================================================
