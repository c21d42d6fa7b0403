--------------------------- MODULE InformerProofs ---------------------------
(***************************************************************************)
(* What the operators of Informer do to a stream, for streams of anything. *)
(***************************************************************************)
EXTENDS Informer, TLAPS

\* A stream holds contents, and what is not on its way has arrived.
LEMMA StreamReads ==
  ASSUME NEW V, NEW s \in Streams(V)
  PROVE  /\ Cached(s) \in V
         /\ Stored(s) \in V
         /\ ~Lagging(s) => Cached(s) = Stored(s)
<1>1. s \in Seq(V) /\ Len(s) \in Nat /\ Len(s) >= 1
  BY DEF Streams
<1>2. \A i \in 1..Len(s) : s[i] \in V
  BY <1>1
<1>3. 1 \in 1..Len(s) /\ Len(s) \in 1..Len(s)
  BY <1>1
<1>4. ~Lagging(s) => Len(s) = 1
  <2>1. ASSUME NEW n \in Nat, n >= 1
        PROVE  ~(n > 1) => n = 1
    BY <2>1
  <2> QED
    BY <1>1, <2>1 DEF Lagging
<1> QED
  BY <1>2, <1>3, <1>4 DEF Cached, Stored

\* A write is stored; unless it changes nothing, its event is on its way.
LEMMA StreamWrite ==
  ASSUME NEW V, NEW s \in Streams(V), NEW c \in V
  PROVE  /\ Write(s, c) \in Streams(V)
         /\ Stored(Write(s, c)) = c
         /\ Write(s, c) # s => Lagging(Write(s, c))
         /\ ~Lagging(Write(s, c)) => Write(s, c) = s /\ c = Stored(s)
<1>1. s \in Seq(V) /\ Len(s) \in Nat /\ Len(s) >= 1
  BY DEF Streams
<1>2. CASE c = Stored(s)
  BY <1>2 DEF Write, Streams
<1>3. CASE c # Stored(s)
  <2>1. Write(s, c) = Append(s, c)
    BY <1>3 DEF Write
  <2>2. Append(s, c) \in Seq(V) /\ Len(Append(s, c)) = Len(s) + 1
    BY <1>1
  <2>3. Append(s, c)[Len(s) + 1] = c
    BY <1>1
  <2>4. Append(s, c) # <<>>
    BY <1>1, <2>2
  <2> QED
    BY <1>1, <2>1, <2>2, <2>3, <2>4 DEF Streams, Stored, Lagging
<1> QED
  BY <1>2, <1>3

\* An event that changes nothing may be stored all the same.
LEMMA StreamAppend ==
  ASSUME NEW V, NEW s \in Streams(V), NEW c \in V
  PROVE  Append(s, c) \in Streams(V) /\ Stored(Append(s, c)) = c
<1>1. s \in Seq(V) /\ Len(s) \in Nat
  BY DEF Streams
<1>2. Append(s, c) \in Seq(V) /\ Len(Append(s, c)) = Len(s) + 1
  BY <1>1
<1>3. Append(s, c)[Len(s) + 1] = c
  BY <1>1
<1>4. Append(s, c) # <<>>
  BY <1>1, <1>2
<1> QED
  BY <1>2, <1>3, <1>4 DEF Streams, Stored

\* A delivery changes what is cached, never what is stored.
LEMMA StreamDeliver ==
  ASSUME NEW V, NEW s \in Streams(V), Lagging(s)
  PROVE  Deliver(s) \in Streams(V) /\ Stored(Deliver(s)) = Stored(s)
<1>1. s \in Seq(V) /\ Len(s) \in Nat /\ Len(s) > 1
  BY DEF Streams, Lagging
<1>2. Tail(s) \in Seq(V) /\ Len(Tail(s)) = Len(s) - 1
  BY <1>1
<1>3. \A i \in 1..Len(Tail(s)) : Tail(s)[i] = s[i + 1]
  BY <1>1
<1>4. Len(s) - 1 \in 1..Len(Tail(s))
  BY <1>1, <1>2
<1>5. Tail(s)[Len(s) - 1] = s[Len(s)]
  BY <1>1, <1>3, <1>4
<1>6. Tail(s) # <<>>
  <2>1. Len(Tail(s)) # 0
    BY <1>1, <1>2
  <2>2. Len(<<>>) = 0
    OBVIOUS
  <2> QED
    BY <2>1, <2>2
<1> QED
  BY <1>2, <1>5, <1>6 DEF Deliver, Streams, Stored

\* A relist caches what is stored.
LEMMA StreamRelist ==
  ASSUME NEW V, NEW s \in Streams(V)
  PROVE  /\ Relist(s) \in Streams(V)
         /\ Stored(Relist(s)) = Stored(s)
         /\ ~Lagging(Relist(s))
<1>1. Stored(s) \in V
  BY StreamReads
<1> QED
  BY <1>1 DEF Relist, Streams, Stored, Lagging

\* The contents along a stream, from the cached to the stored.
Along(s) == {s[i] : i \in 1..Len(s)}

\* What is cached and what is stored is along the stream; a write adds at most what
\* it writes, a delivery nothing, and a relist leaves only what is stored.
LEMMA StreamAlong ==
  ASSUME NEW V, NEW s \in Streams(V), NEW c \in V
  PROVE  /\ Cached(s) \in Along(s) /\ Stored(s) \in Along(s)
         /\ Along(s) \subseteq V
         /\ Along(Write(s, c)) \subseteq Along(s) \cup {c}
         /\ Lagging(s) => Along(Deliver(s)) \subseteq Along(s)
         /\ Along(Relist(s)) = {Stored(s)}
<1>1. s \in Seq(V) /\ Len(s) \in Nat /\ Len(s) >= 1
  BY DEF Streams
<1>2. Cached(s) \in Along(s) /\ Stored(s) \in Along(s)
  <2>1. 1 \in 1..Len(s) /\ Len(s) \in 1..Len(s)
    BY <1>1
  <2> QED
    BY <2>1 DEF Along, Cached, Stored
<1>3. Along(s) \subseteq V
  BY <1>1 DEF Along
<1>4. Along(Append(s, c)) \subseteq Along(s) \cup {c}
  <2>1. Len(Append(s, c)) = Len(s) + 1 /\ Append(s, c)[Len(s) + 1] = c
    BY <1>1
  <2>2. \A i \in 1..Len(s) : Append(s, c)[i] = s[i]
    BY <1>1
  <2>3. \A i \in 1..(Len(s) + 1) : i \in 1..Len(s) \/ i = Len(s) + 1
    BY <1>1
  <2> QED
    BY <2>1, <2>2, <2>3 DEF Along
<1>5. Along(Write(s, c)) \subseteq Along(s) \cup {c}
  BY <1>4 DEF Write
<1>6. ASSUME Lagging(s) PROVE Along(Deliver(s)) \subseteq Along(s)
  <2>1. Len(Tail(s)) = Len(s) - 1 /\ \A i \in 1..Len(Tail(s)) : Tail(s)[i] = s[i + 1]
    BY <1>1, <1>6 DEF Lagging
  <2>2. \A i \in 1..(Len(s) - 1) : i + 1 \in 1..Len(s)
    BY <1>1
  <2> QED
    BY <2>1, <2>2 DEF Along, Deliver
<1>7. Along(Relist(s)) = {Stored(s)}
  <2>1. Len(<<Stored(s)>>) = 1 /\ <<Stored(s)>>[1] = Stored(s) /\ 1..1 = {1}
    OBVIOUS
  <2> QED
    BY <2>1 DEF Along, Relist
<1> QED
  BY <1>2, <1>3, <1>5, <1>6, <1>7

\* Contents of fewer kinds, streams of fewer kinds.
LEMMA StreamsGrow ==
  ASSUME NEW V, NEW W, V \subseteq W
  PROVE  Streams(V) \subseteq Streams(W)
<1>1. ASSUME NEW s \in Seq(V) PROVE s \in Seq(W)
  <2>1. Len(s) \in Nat /\ s \in [1..Len(s) -> V]
    OBVIOUS
  <2>2. s \in [1..Len(s) -> W]
    BY <2>1
  <2> QED
    BY <2>1, <2>2
<1> QED
  BY <1>1 DEF Streams
=============================================================================
