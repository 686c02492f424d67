------------------------ MODULE BoundaryCodecProofs ------------------------
(***************************************************************************)
(* Proofs about BoundaryCodec, for all inputs and chunks.                  *)
(***************************************************************************)
EXTENDS BoundaryCodec, FiniteSetTheorems, FunctionTheorems, WellFoundedInduction, TLAPS

\* What TypeOK says of a result.
Frames == [value : Seq(Bytes), end : Nat]

\* What a part of a sequence is.
LEMMA Part ==
  ASSUME NEW S, NEW s \in Seq(S), NEW from \in 1 .. Len(s) + 1, NEW to \in from - 1 .. Len(s)
  PROVE  /\ SubSeq(s, from, to) \in Seq(S)
         /\ Len(SubSeq(s, from, to)) = to - from + 1
         /\ \A k \in 1 .. to - from + 1 : SubSeq(s, from, to)[k] = s[from + k - 1]
  OBVIOUS

\* Two sequences of a length with the same elements are the same.
LEMMA SameSequence ==
  ASSUME NEW S, NEW s \in Seq(S), NEW t \in Seq(S), Len(s) = Len(t),
         \A k \in 1 .. Len(s) : s[k] = t[k]
  PROVE  s = t
  OBVIOUS

\* Two sequences joined: the first, then the second.
LEMMA Joined ==
  ASSUME NEW S, NEW s \in Seq(S), NEW t \in Seq(S)
  PROVE  /\ s \o t \in Seq(S) /\ Len(s \o t) = Len(s) + Len(t)
         /\ \A k \in 1 .. Len(s) : (s \o t)[k] = s[k]
  OBVIOUS

\* A set of natural numbers has a least one, and Least is it.
LEMMA LeastOf ==
  ASSUME NEW S \in SUBSET Nat, S # {}
  PROVE  Least(S) \in S /\ \A k \in S : Least(S) <= k
<1>1. \E n \in S : \A k \in S : ~(<<k, n>> \in OpToRel(<, Nat))
  BY NatLessThanWellFounded, WFMin, Zenon
<1>2. PICK n \in S : \A k \in S : ~(<<k, n>> \in OpToRel(<, Nat))
  BY <1>1
<1>3. \A k \in S : n <= k
  <2> SUFFICES ASSUME NEW k \in S, k < n PROVE FALSE
    BY SMT
  <2>1. <<k, n>> \in OpToRel(<, Nat)
    BY Zenon DEF OpToRel
  <2> QED
    BY <1>2, <2>1, Zenon
<1> QED
  BY <1>3 DEF Least

\* The space that is skipped ends at the first byte that is none.
LEMMA SkippedOf ==
  ASSUME NEW s \in Seq(Bytes)
  PROVE  /\ Skipped(s) \in 0 .. Len(s)
         /\ \A k \in 1 .. Skipped(s) : s[k] = "space"
         /\ Skipped(s) < Len(s) => s[Skipped(s) + 1] # "space"
<1> DEFINE T == {n \in 0 .. Len(s) : n < Len(s) => s[n + 1] # "space"}
           n == Least(T)
<1>1. Len(s) \in Nat
  OBVIOUS
<1>2. T \in SUBSET Nat /\ Len(s) \in T
  BY <1>1
<1>3. n \in T /\ \A k \in T : n <= k
  <2> HIDE DEF T
  <2> QED
    BY <1>2, LeastOf
<1> HIDE DEF n
<1>4. ASSUME NEW k \in 1 .. n PROVE s[k] = "space"
  <2>1. k - 1 \in 0 .. Len(s) /\ k - 1 < n /\ (k - 1) + 1 = k
    BY <1>1, <1>3
  <2>2. k - 1 \notin T
    <3> HIDE DEF T
    <3>1. n \in Int /\ k - 1 \in Int
      BY <1>2, <1>3, <2>1
    <3> QED
      BY <1>3, <2>1, <3>1
  <2> QED
    BY <2>1, <2>2
<1> QED
  BY <1>3, <1>4 DEF Skipped

\* There is no other such place.
LEMMA SkippedIs ==
  ASSUME NEW s \in Seq(Bytes), NEW n \in Nat, n < Len(s),
         \A k \in 1 .. n : s[k] = "space", s[n + 1] # "space"
  PROVE  Skipped(s) = n
<1>1. Len(s) \in Nat
  OBVIOUS
<1> DEFINE m == Skipped(s)
<1>2. m \in 0 .. Len(s) /\ (\A k \in 1 .. m : s[k] = "space") /\ (m < Len(s) => s[m + 1] # "space")
  BY SkippedOf
<1> HIDE DEF m
<1>3. ~(m < n)
  <2> SUFFICES ASSUME m < n PROVE FALSE
    OBVIOUS
  <2>1. m + 1 \in 1 .. n /\ m < Len(s)
    BY <1>1, <1>2
  <2> QED
    BY <1>2, <2>1
<1>4. ~(n < m)
  <2> SUFFICES ASSUME n < m PROVE FALSE
    OBVIOUS
  <2>1. n + 1 \in 1 .. m
    BY <1>1, <1>2
  <2> QED
    BY <1>2, <2>1
<1> QED
  BY <1>1, <1>2, <1>3, <1>4 DEF m

\* What decode takes is part of the buffer.
LEMMA DecodeType ==
  ASSUME NEW s \in Seq(Bytes)
  PROVE  /\ Decode(s).found \in BOOLEAN
         /\ Decode(s).frame \in Seq(Bytes)
         /\ Decode(s).cut \in 0 .. Len(s)
<1> DEFINE skipped == Skipped(s)
           rest == From(s, skipped + 1)
           size == IF Values(rest) = {} THEN 0 ELSE Least(Values(rest))
<1>1. Len(s) \in Nat /\ skipped \in 0 .. Len(s)
  BY SkippedOf
<1>2. rest \in Seq(Bytes) /\ Len(rest) = Len(s) - skipped
  <2> HIDE DEF skipped
  <2> QED
    BY <1>1 DEF From
<1>3. size \in 0 .. Len(rest)
  <2> HIDE DEF rest
  <2>1. Values(rest) \subseteq 1 .. Len(rest) /\ Len(rest) \in Nat
    BY <1>2 DEF Values
  <2>2. Values(rest) # {} => Least(Values(rest)) \in Values(rest)
    BY <2>1, LeastOf
  <2> QED
    BY <2>1, <2>2
<1>4. Decode(s) = [found |-> size # 0 \/ ~Incomplete(rest),
                   frame |-> IF size # 0 THEN SubSeq(rest, 1, size) ELSE Broken,
                   cut   |-> Offset(skipped, size)]
  BY DEF Decode
<1> HIDE DEF skipped, rest, size
<1>5. Offset(skipped, size) \in 0 .. Len(s)
  BY <1>1, <1>2, <1>3 DEF Offset
<1>6. SubSeq(rest, 1, size) \in Seq(Bytes) /\ Broken \in Seq(Bytes)
  BY <1>2, <1>3 DEF Broken
<1> QED
  BY <1>4, <1>5, <1>6

\* The types hold, and the buffer is never cut beyond its end.
THEOREM BoundaryTypes == Spec => []TypeOK
<1> USE BoundaryAssumption DEF BoundaryAssumption
<1>1. Init => TypeOK
  <2> SUFFICES ASSUME Init PROVE TypeOK
    OBVIOUS
  <2>1. rbuf \in Seq(Bytes) /\ Len(rbuf) = 0 /\ taken = 0
    BY DEF Init
  <2>2. Decode(rbuf).cut \in 0 .. Len(rbuf)
    BY <2>1, DecodeType
  <2>3. input \in Seq(Bytes) /\ Len(input) \in Nat
    BY DEF Init
  <2>4. frames \in Seq(Frames) /\ Len(frames) = 0
    BY DEF Init
  <2>5. readable \in BOOLEAN /\ eof \in BOOLEAN /\ reader \in {"open", "end", "failed"}
    BY DEF Init
  <2>6. Decode(rbuf).cut <= Len(rbuf) /\ taken \in 0 .. Len(input) /\ Len(rbuf) <= taken
    BY <2>1, <2>2, <2>3
  <2>7. Len(frames) <= MaxFrames
    BY <2>4
  <2> QED
    BY <2>1, <2>3, <2>4, <2>5, <2>6, <2>7 DEF TypeOK, Frames
<1>2. TypeOK /\ [Next]_vars => TypeOK'
  <2> SUFFICES ASSUME TypeOK, [Next]_vars PROVE TypeOK'
    OBVIOUS
  <2>1. /\ input \in Seq(Bytes) /\ Len(input) \in Nat /\ rbuf \in Seq(Bytes)
        /\ Len(rbuf) \in Nat /\ frames \in Seq(Frames) /\ Len(frames) \in Nat
    BY DEF TypeOK, Frames
  <2>2. rbuf' \in Seq(Bytes) => Decode(rbuf').cut <= Len(rbuf')
    <3> SUFFICES ASSUME rbuf' \in Seq(Bytes) PROVE Decode(rbuf').cut <= Len(rbuf')
      OBVIOUS
    <3>1. Len(rbuf') \in Nat
      OBVIOUS
    <3> QED
      BY <3>1, DecodeType
  <2>3. ASSUME NEW n \in 1 .. Len(input) - taken, Read(n) PROVE TypeOK'
    <3>1. taken' \in 0 .. Len(input) /\ taken' = taken + n /\ taken \in Nat
      BY <2>1, <2>3 DEF TypeOK, Read
    <3> DEFINE chunk == SubSeq(input, taken + 1, taken + n)
    <3>2. chunk \in Seq(Bytes) /\ Len(chunk) = n
      BY <2>1, <3>1
    <3> HIDE DEF chunk
    <3>3. rbuf' = rbuf \o chunk
      BY <2>3 DEF Read, chunk
    <3>4. rbuf' \in Seq(Bytes) /\ Len(rbuf') = Len(rbuf) + n
      BY <2>1, <3>2, <3>3, Joined
    <3> QED
      BY <2>1, <2>2, <2>3, <3>1, <3>4 DEF TypeOK, Read
  <2>4. CASE ReadEof
    BY <2>4 DEF TypeOK, ReadEof
  <2>5. CASE DecodeNext
    <3> DEFINE result == Decode(rbuf)
    <3>1. result.found \in BOOLEAN /\ result.frame \in Seq(Bytes) /\ result.cut \in 0 .. Len(rbuf)
      BY <2>1, DecodeType
    <3>2. /\ rbuf' = From(rbuf, result.cut + 1) /\ Len(frames) < MaxFrames
          /\ (IF result.found
              THEN /\ frames' = Append(frames, [value |-> result.frame, end |-> taken - Len(rbuf')])
                   /\ UNCHANGED <<readable, reader>>
              ELSE /\ readable' = eof /\ reader' \in {"open", "end", "failed"}
                   /\ UNCHANGED frames)
          /\ UNCHANGED <<input, taken, eof>>
      BY <2>5 DEF DecodeNext
    <3> HIDE DEF result
    <3>3. rbuf' \in Seq(Bytes) /\ Len(rbuf') <= Len(rbuf)
      <4>1. PICK r : r = rbuf
        OBVIOUS
      <4>2. PICK cut : cut = result.cut
        OBVIOUS
      <4>3. r \in Seq(Bytes) /\ Len(r) \in Nat
        BY <2>1, <4>1
      <4>4. cut \in 0 .. Len(r) /\ cut + 1 \in 1 .. Len(r) + 1 /\ Len(r) \in cut + 1 - 1 .. Len(r)
            /\ Len(r) - (cut + 1) + 1 <= Len(r)
        BY <3>1, <4>1, <4>2, <4>3
      <4>5. /\ SubSeq(r, cut + 1, Len(r)) \in Seq(Bytes)
            /\ Len(SubSeq(r, cut + 1, Len(r))) = Len(r) - (cut + 1) + 1
        BY <4>3, <4>4, Part
      <4>6. rbuf' = SubSeq(r, cut + 1, Len(r))
        BY <3>2, <4>1, <4>2 DEF From
      <4> QED
        BY <4>1, <4>4, <4>5, <4>6
    <3>4. Len(rbuf') <= taken' /\ taken - Len(rbuf') \in Nat
      <4>1. Len(rbuf') \in Nat /\ taken' = taken /\ taken \in Nat /\ Len(rbuf) <= taken
        BY <2>1, <3>2, <3>3 DEF TypeOK
      <4> QED
        BY <2>1, <3>3, <4>1
    <3>5. frames' \in Seq(Frames) /\ Len(frames') <= MaxFrames
      <4>1. \A f \in Frames :
              Append(frames, f) \in Seq(Frames) /\ Len(Append(frames, f)) = Len(frames) + 1
        BY <2>1
      <4>2. CASE result.found
        <5> DEFINE f == [value |-> result.frame, end |-> taken - Len(rbuf')]
        <5>1. f \in Frames /\ frames' = Append(frames, f)
          BY <3>1, <3>2, <3>4, <4>2 DEF Frames
        <5> HIDE DEF f
        <5>2. frames' \in Seq(Frames) /\ Len(frames') = Len(frames) + 1
          BY <4>1, <5>1
        <5> QED
          BY <2>1, <3>2, <5>2
      <4>3. CASE ~result.found
        BY <3>2, <4>3 DEF TypeOK, Frames
      <4> QED
        BY <4>2, <4>3
    <3>6. readable' \in BOOLEAN /\ reader' \in {"open", "end", "failed"}
      BY <3>1, <3>2 DEF TypeOK
    <3> QED
      BY <2>2, <3>2, <3>3, <3>5, <3>6, <3>4 DEF TypeOK, Frames
  <2>6. CASE UNCHANGED vars
    BY <2>6 DEF TypeOK, vars
  <2> QED
    BY <2>3, <2>4, <2>5, <2>6 DEF Next
<1> QED
  BY <1>1, <1>2, PTL DEF Spec

\* What may become a value begins with what may become one.
LEMMA ViablePrefix ==
  ASSUME NEW s \in Seq(Bytes), NEW n \in 1 .. Len(s), Viable(s)
  PROVE  Viable(SubSeq(s, 1, n))
<1> DEFINE p == SubSeq(s, 1, n)
           Places(q, byte) == {k \in DOMAIN q : q[k] = byte}
<1>1. Len(s) \in Nat /\ DOMAIN s = 1 .. Len(s)
  OBVIOUS
<1>2. /\ p \in Seq(Bytes) /\ Len(p) = n /\ DOMAIN p = 1 .. n
      /\ \A k \in 1 .. n : p[k] = s[k]
  BY <1>1
<1>3. /\ s[1] = "open" /\ \A k \in DOMAIN s : s[k] # "garbage"
      /\ \A j, k \in DOMAIN s : s[j] = "close" /\ s[k] = "open" => k < j
      /\ Cardinality(Places(s, "close")) <= Cardinality(Places(s, "open"))
  BY DEF Viable, Count
<1> HIDE DEF p
<1>4. p # <<>> /\ p[1] = "open"
  BY <1>1, <1>2, <1>3
<1>5. \A k \in DOMAIN p : k \in DOMAIN s /\ p[k] = s[k]
  BY <1>1, <1>2
<1>6. /\ \A k \in DOMAIN p : p[k] # "garbage"
      /\ \A j, k \in DOMAIN p : p[j] = "close" /\ p[k] = "open" => k < j
  BY <1>3, <1>5
<1>7. \A q \in Seq(Bytes), byte \in Bytes :
        IsFiniteSet(Places(q, byte)) /\ Cardinality(Places(q, byte)) \in Nat
  <2> SUFFICES ASSUME NEW q \in Seq(Bytes), NEW byte \in Bytes
               PROVE  IsFiniteSet(Places(q, byte)) /\ Cardinality(Places(q, byte)) \in Nat
    OBVIOUS
  <2>1. Places(q, byte) \in SUBSET (1 .. Len(q)) /\ 1 \in Int /\ Len(q) \in Int
    OBVIOUS
  <2> HIDE DEF Places
  <2>2. IsFiniteSet(1 .. Len(q))
    BY <2>1, FS_Interval
  <2>3. IsFiniteSet(Places(q, byte))
    BY <2>1, <2>2, FS_Subset
  <2> QED
    BY <2>3, FS_CardinalityType
<1>8. Cardinality(Places(p, "close")) <= Cardinality(Places(p, "open"))
  <2>1. CASE Places(p, "close") = {}
    <3>1. Cardinality(Places(p, "open")) \in Nat
      BY <1>2, <1>7 DEF Bytes
    <3> HIDE DEF Places
    <3>2. Cardinality(Places(p, "close")) = 0
      BY <2>1, FS_EmptySet
    <3> QED
      BY <3>1, <3>2
  <2>2. CASE Places(p, "close") # {}
    <3>1. PICK j \in DOMAIN p : p[j] = "close"
      BY <2>2
    <3>2. Places(p, "open") = Places(s, "open")
      <4>1. \A k \in DOMAIN s : s[k] = "open" => k < j
        BY <1>3, <1>5, <3>1
      <4>2. \A k \in DOMAIN s : s[k] = "open" => k \in DOMAIN p
        BY <1>1, <1>2, <3>1, <4>1
      <4> QED
        BY <1>5, <4>2
    <3>3. Places(p, "close") \in SUBSET Places(s, "close")
      BY <1>5
    <3>4. /\ IsFiniteSet(Places(s, "close")) /\ Cardinality(Places(s, "close")) \in Nat
          /\ Cardinality(Places(p, "close")) \in Nat /\ Cardinality(Places(p, "open")) \in Nat
      BY <1>2, <1>7 DEF Bytes
    <3> HIDE DEF Places
    <3>5. Cardinality(Places(p, "close")) <= Cardinality(Places(s, "close"))
      BY <3>3, <3>4, FS_Subset
    <3> QED
      BY <1>3, <3>2, <3>4, <3>5
  <2> QED
    BY <2>1, <2>2
<1> QED
  BY <1>4, <1>6, <1>8 DEF Viable, Count, p

\* Once decode has a result, be it a value or an error, no byte that arrives later
\* would have made it another one: it does not matter where the chunks are cut.
THEOREM DecodeIsStable ==
  ASSUME NEW s \in Seq(Bytes), NEW t \in Seq(Bytes), Decode(s).found
  PROVE  Decode(s \o t) = Decode(s)
<1> DEFINE skipped == Skipped(s)
           r == From(s, skipped + 1)
           u == s \o t
           x == From(u, skipped + 1)
           size == IF Values(r) = {} THEN 0 ELSE Least(Values(r))
           longer == IF Values(x) = {} THEN 0 ELSE Least(Values(x))
           found == size # 0 \/ ~Incomplete(r)
           foundLater == longer # 0 \/ ~Incomplete(x)
<1>1. Len(s) \in Nat /\ Len(t) \in Nat /\ skipped \in 0 .. Len(s)
  BY SkippedOf
<1>2. /\ u \in Seq(Bytes) /\ Len(u) = Len(s) + Len(t)
      /\ \A k \in 1 .. Len(s) : u[k] = s[k]
  OBVIOUS
<1>3. /\ (\A k \in 1 .. skipped : s[k] = "space")
      /\ (skipped < Len(s) => s[skipped + 1] # "space")
  BY SkippedOf
<1>4. Decode(s) = [found |-> found,
                   frame |-> IF size # 0 THEN SubSeq(r, 1, size) ELSE Broken,
                   cut   |-> Offset(skipped, size)]
  BY DEF Decode
<1>5. Skipped(u) = skipped =>
        Decode(u) = [found |-> foundLater,
                     frame |-> IF longer # 0 THEN SubSeq(x, 1, longer) ELSE Broken,
                     cut   |-> Offset(skipped, longer)]
  BY DEF Decode
<1>6. found
  BY DEF Decode
<1> HIDE DEF skipped, u
<1>7. /\ r \in Seq(Bytes) /\ Len(r) = Len(s) - skipped
      /\ \A k \in 1 .. Len(s) - skipped : r[k] = s[skipped + k]
  BY <1>1 DEF From
<1>8. /\ x \in Seq(Bytes) /\ Len(x) = Len(u) - skipped
      /\ \A k \in 1 .. Len(u) - skipped : x[k] = u[skipped + k]
  <2>1. Len(u) \in Nat /\ skipped \in 0 .. Len(u)
    BY <1>1, <1>2
  <2> QED
    BY <1>2, <2>1 DEF From
<1> HIDE DEF r, x
<1>9. Len(r) \in Nat /\ Len(x) \in Nat /\ Len(r) <= Len(x)
  BY <1>1, <1>2, <1>7, <1>8
<1>10. ASSUME NEW n \in 0 .. Len(r) PROVE SubSeq(x, 1, n) = SubSeq(r, 1, n)
  <2>1. \A k \in 1 .. n : x[k] = r[k]
    <3> SUFFICES ASSUME NEW k \in 1 .. n PROVE x[k] = r[k]
      OBVIOUS
    <3>1. /\ k \in 1 .. Len(s) - skipped /\ k \in 1 .. Len(u) - skipped
          /\ skipped + k \in 1 .. Len(s)
      BY <1>1, <1>2, <1>7, <1>9
    <3> QED
      BY <1>2, <1>7, <1>8, <3>1
  <2>2. n \in 0 .. Len(x) /\ n \in Nat
    BY <1>9
  <2> QED
    BY <1>7, <1>8, <1>9, <2>1, <2>2
<1>11. /\ Values(r) = {n \in 1 .. Len(r) : IsValue(SubSeq(r, 1, n))}
       /\ Values(x) = {n \in 1 .. Len(x) : IsValue(SubSeq(x, 1, n))}
  BY <1>7, <1>8 DEF Values
<1>12. \A n \in 1 .. Len(r) : n \in Values(x) <=> n \in Values(r)
  <2> SUFFICES ASSUME NEW n \in 1 .. Len(r) PROVE n \in Values(x) <=> n \in Values(r)
    OBVIOUS
  <2>1. n \in 0 .. Len(r) /\ n \in 1 .. Len(x)
    BY <1>9
  <2> QED
    BY <1>10, <1>11, <2>1
<1>13. SubSeq(r, 1, Len(r)) = r
  BY <1>7, <1>9
<1>14. r # <<>>
  <2>1. Values(r) # {} => r # <<>>
    BY <1>11
  <2> QED
    BY <1>6, <2>1 DEF Incomplete
<1>15. Len(r) >= 1 /\ skipped < Len(s)
  BY <1>1, <1>7, <1>9, <1>14
<1>16. Skipped(u) = skipped
  <2>1. skipped + 1 \in 1 .. Len(s) /\ skipped \in Nat /\ skipped < Len(u)
    BY <1>1, <1>2, <1>15
  <2>2. u[skipped + 1] # "space"
    BY <1>2, <1>3, <1>15, <2>1
  <2>3. \A k \in 1 .. skipped : k \in 1 .. Len(s)
    BY <1>1
  <2>4. \A k \in 1 .. skipped : u[k] = "space"
    BY <1>2, <1>3, <2>3
  <2> QED
    BY <1>2, <2>1, <2>2, <2>4, SkippedIs
<1>17. CASE Values(r) # {}
  <2>1. Values(r) \in SUBSET Nat /\ Values(x) \in SUBSET Nat
    BY <1>9, <1>11
  <2>2. /\ Least(Values(r)) \in Values(r) /\ Values(r) \subseteq 1 .. Len(r)
        /\ \A k \in Values(r) : Least(Values(r)) <= k
    BY <1>11, <1>17, <2>1, LeastOf
  <2>3. Least(Values(r)) \in Values(x)
    BY <1>12, <2>2
  <2>4. /\ Least(Values(x)) \in Values(x)
        /\ \A k \in Values(x) : Least(Values(x)) <= k
    BY <2>1, <2>3, LeastOf
  <2>5. Least(Values(x)) <= Least(Values(r))
    BY <2>3, <2>4
  <2>6. Least(Values(x)) \in 1 .. Len(r)
    BY <1>9, <1>11, <2>2, <2>4, <2>5
  <2>7. Least(Values(r)) <= Least(Values(x))
    BY <1>12, <2>2, <2>4, <2>6
  <2>8. longer = size /\ size \in 1 .. Len(r)
    BY <1>9, <1>17, <2>2, <2>3, <2>5, <2>6, <2>7
  <2>9. found = foundLater
    BY <1>9, <2>8
  <2> HIDE DEF longer, size, found, foundLater
  <2>10. SubSeq(x, 1, size) = SubSeq(r, 1, size)
    BY <1>9, <1>10, <2>8
  <2> QED
    BY <1>4, <1>5, <1>16, <2>8, <2>9, <2>10 DEF u
<1>18. CASE Values(r) = {}
  <2>1. ~Viable(r)
    BY <1>18, <1>6 DEF Incomplete
  <2>2. ASSUME NEW n \in Len(r) .. Len(x), Viable(SubSeq(x, 1, n)) PROVE FALSE
    <3>1. n \in 1 .. Len(x) /\ n \in 0 .. Len(x)
      BY <1>9, <1>15
    <3> DEFINE y == SubSeq(x, 1, n)
    <3>2. y \in Seq(Bytes) /\ Len(y) = n /\ \A k \in 1 .. n : y[k] = x[k]
      BY <1>8, <1>9, <3>1
    <3>3. Viable(y)
      BY <2>2
    <3> HIDE DEF y
    <3>4. Len(r) \in 1 .. Len(y) /\ Len(r) \in 0 .. Len(x) /\ Len(r) \in 0 .. Len(r)
      BY <1>9, <1>15, <3>1, <3>2
    <3>5. Viable(SubSeq(y, 1, Len(r)))
      BY <3>2, <3>3, <3>4, ViablePrefix
    <3>6. SubSeq(y, 1, Len(r)) = SubSeq(x, 1, Len(r))
      BY <1>8, <1>9, <3>1, <3>2, <3>4
    <3>7. SubSeq(x, 1, Len(r)) = r
      BY <1>10, <1>13, <3>4
    <3> QED
      BY <2>1, <3>5, <3>6, <3>7
  <2>3. Values(x) = {}
    <3> SUFFICES ASSUME NEW n \in Values(x) PROVE FALSE
      OBVIOUS
    <3>1. n \in 1 .. Len(x) /\ Viable(SubSeq(x, 1, n))
      BY <1>11 DEF IsValue
    <3>2. n \notin 1 .. Len(r)
      BY <1>12, <1>18
    <3>3. n \in Len(r) .. Len(x)
      BY <1>9, <3>1, <3>2
    <3> QED
      BY <2>2, <3>1, <3>3
  <2>4. ~Incomplete(x)
    <3>1. Len(x) \in Len(r) .. Len(x) /\ SubSeq(x, 1, Len(x)) = x /\ x # <<>>
      BY <1>8, <1>9, <1>15
    <3> QED
      BY <2>2, <3>1 DEF Incomplete
  <2>5. longer = 0 /\ size = 0
    BY <1>18, <2>3
  <2>6. found = foundLater
    BY <1>6, <2>4
  <2> HIDE DEF longer, size, found, foundLater
  <2> QED
    BY <1>4, <1>5, <1>16, <2>5, <2>6 DEF u
<1> QED
  BY <1>17, <1>18

-----------------------------------------------------------------------------
(* What becomes of the whole of a sound text.                              *)

\* Where the bytes a + 1 .. b of a text are this one.
Places(s, byte, a, b) == {k \in a + 1 .. b : s[k] = byte}

\* They are counted in place.
LEMMA CountOf ==
  ASSUME NEW s \in Seq(Bytes), NEW a \in 0 .. Len(s), NEW b \in a .. Len(s), NEW byte
  PROVE  /\ IsFiniteSet(Places(s, byte, a, b))
         /\ Cardinality(Places(s, byte, a, b)) \in Nat
         /\ Count(SubSeq(s, a + 1, b), byte) = Cardinality(Places(s, byte, a, b))
<1> DEFINE t == SubSeq(s, a + 1, b)
           P == Places(s, byte, a, b)
           Q == {k \in DOMAIN t : t[k] = byte}
           f == [k \in P |-> k - a]
<1>1. Len(s) \in Nat /\ a \in Nat /\ b \in Nat
  OBVIOUS
<1>2. t \in Seq(Bytes) /\ DOMAIN t = 1 .. b - a /\ \A k \in 1 .. b - a : t[k] = s[a + k]
  BY <1>1
<1>3. P \in SUBSET (a + 1 .. b) /\ IsFiniteSet(a + 1 .. b)
  BY <1>1, FS_Interval DEF Places
<1>4. IsFiniteSet(P) /\ Cardinality(P) \in Nat
  <2> HIDE DEF P
  <2> QED
    BY <1>3, FS_Subset, FS_CardinalityType
<1> HIDE DEF t
<1>5. f \in [P -> Q]
  <2> SUFFICES ASSUME NEW k \in P PROVE k - a \in Q
    OBVIOUS
  <2>1. k \in a + 1 .. b /\ s[k] = byte
    BY DEF Places
  <2>2. k - a \in 1 .. b - a /\ a + (k - a) = k
    BY <1>1, <2>1
  <2> QED
    BY <1>2, <2>1, <2>2
<1>6. \A j, k \in P : f[j] = f[k] => j = k
  BY <1>1, <1>3
<1>7. \A q \in Q : \E k \in P : f[k] = q
  <2> SUFFICES ASSUME NEW q \in Q PROVE \E k \in P : f[k] = q
    OBVIOUS
  <2>1. q \in 1 .. b - a /\ s[a + q] = byte
    BY <1>2
  <2>2. a + q \in a + 1 .. b /\ (a + q) - a = q
    BY <1>1, <2>1
  <2>3. a + q \in P
    BY <2>1, <2>2 DEF Places
  <2> QED
    BY <2>2, <2>3
<1> HIDE DEF P, Q, f
<1>8. ExistsBijection(P, Q)
  <2>1. f \in Bijection(P, Q)
    BY <1>5, <1>6, <1>7, Fun_IsBij
  <2> QED
    BY <2>1, Fun_ExistsBij
<1>9. Cardinality(Q) = Cardinality(P)
  BY <1>4, <1>8, FS_Bijection
<1> QED
  BY <1>4, <1>9 DEF Count, P, Q, t

\* A part and the part that follows it.
LEMMA CountAdds ==
  ASSUME NEW s \in Seq(Bytes), NEW a \in 0 .. Len(s), NEW b \in a .. Len(s), NEW byte
  PROVE  Count(SubSeq(s, 1, b), byte)
           = Count(SubSeq(s, 1, a), byte) + Count(SubSeq(s, a + 1, b), byte)
<1> DEFINE A == Places(s, byte, 0, a)
           B == Places(s, byte, a, b)
           C == Places(s, byte, 0, b)
<1>1. Len(s) \in Nat /\ a \in Nat /\ b \in Nat /\ 0 \in 0 .. Len(s) /\ a \in 0 .. Len(s)
      /\ b \in 0 .. Len(s)
  OBVIOUS
<1>2. C = A \cup B /\ A \cap B = {}
  BY <1>1 DEF Places
<1>3. /\ IsFiniteSet(A) /\ IsFiniteSet(B)
      /\ Cardinality(A) \in Nat /\ Cardinality(B) \in Nat
      /\ Count(SubSeq(s, 1, a), byte) = Cardinality(A)
      /\ Count(SubSeq(s, a + 1, b), byte) = Cardinality(B)
      /\ Count(SubSeq(s, 1, b), byte) = Cardinality(C)
  <2>1. /\ IsFiniteSet(A) /\ Cardinality(A) \in Nat
        /\ Count(SubSeq(s, 0 + 1, a), byte) = Cardinality(A)
        /\ Count(SubSeq(s, 0 + 1, b), byte) = Cardinality(C)
    BY <1>1, CountOf
  <2>2. /\ IsFiniteSet(B) /\ Cardinality(B) \in Nat
        /\ Count(SubSeq(s, a + 1, b), byte) = Cardinality(B)
    BY <1>1, CountOf
  <2>3. 0 + 1 = 1
    OBVIOUS
  <2> QED
    BY <2>1, <2>2, <2>3
<1> HIDE DEF A, B, C
<1>4. Cardinality(A \cup B) = Cardinality(A) + Cardinality(B) - Cardinality(A \cap B)
  BY <1>3, FS_Union
<1>5. Cardinality(A \cap B) = 0
  BY <1>2, FS_EmptySet
<1> QED
  BY <1>2, <1>3, <1>4, <1>5

\* The depth is a number, and what a part does to it is the brackets it opens less
\* those it closes.
LEMMA DepthOf ==
  ASSUME NEW s \in Seq(Bytes), NEW a \in 0 .. Len(s), NEW b \in a .. Len(s)
  PROVE  LET t == SubSeq(s, a + 1, b)
         IN  /\ Depth(s, a) \in Int /\ Depth(s, b) \in Int
             /\ Count(t, "open") \in Nat /\ Count(t, "close") \in Nat
             /\ Depth(s, b) = Depth(s, a) + Count(t, "open") - Count(t, "close")
<1>1. \A byte : /\ Count(SubSeq(s, a + 1, b), byte) \in Nat
                /\ Count(SubSeq(s, 1, a), byte) \in Nat
                /\ Count(SubSeq(s, 1, b), byte) \in Nat
  <2> TAKE byte
  <2>1. Len(s) \in Nat /\ 0 \in 0 .. Len(s) /\ a \in 0 .. Len(s) /\ b \in 0 .. Len(s) /\ 0 + 1 = 1
    OBVIOUS
  <2>2. Count(SubSeq(s, a + 1, b), byte) \in Nat
    BY CountOf
  <2>3. Count(SubSeq(s, 0 + 1, a), byte) \in Nat /\ Count(SubSeq(s, 0 + 1, b), byte) \in Nat
    BY <2>1, CountOf
  <2> QED
    BY <2>1, <2>2, <2>3
<1>2. \A byte : Count(SubSeq(s, 1, b), byte)
                  = Count(SubSeq(s, 1, a), byte) + Count(SubSeq(s, a + 1, b), byte)
  BY CountAdds
<1>3. ASSUME NEW byte
      PROVE  \E i, j, k \in Nat :
               /\ Count(SubSeq(s, 1, a), byte) = i /\ Count(SubSeq(s, 1, b), byte) = j
               /\ Count(SubSeq(s, a + 1, b), byte) = k /\ j = i + k
  BY <1>1, <1>2
<1>4. PICK i, j, k \in Nat :
        /\ Count(SubSeq(s, 1, a), "open") = i /\ Count(SubSeq(s, 1, b), "open") = j
        /\ Count(SubSeq(s, a + 1, b), "open") = k /\ j = i + k
  BY <1>3
<1>5. PICK x, y, z \in Nat :
        /\ Count(SubSeq(s, 1, a), "close") = x /\ Count(SubSeq(s, 1, b), "close") = y
        /\ Count(SubSeq(s, a + 1, b), "close") = z /\ y = x + z
  BY <1>3
<1>6. Depth(s, a) = i - x /\ Depth(s, b) = j - y
  BY <1>4, <1>5 DEF Depth
<1>7. i - x \in Int /\ j - y \in Int /\ j - y = i - x + k - z
  BY <1>4, <1>5
<1> QED
  BY <1>4, <1>5, <1>6, <1>7

\* A text begins at depth 0.
LEMMA DepthAtStart == ASSUME NEW s \in Seq(Bytes) PROVE Depth(s, 0) = 0
<1>1. SubSeq(s, 1, 0) = <<>>
  OBVIOUS
<1>2. \A byte : Count(<<>>, byte) = 0
  <2> TAKE byte
  <2>1. {k \in DOMAIN <<>> : <<>>[k] = byte} = {}
    OBVIOUS
  <2> QED
    BY <2>1, FS_EmptySet DEF Count
<1>3. Count(SubSeq(s, 1, 0), "open") = 0 /\ Count(SubSeq(s, 1, 0), "close") = 0
  BY <1>1, <1>2
<1> QED
  BY <1>3 DEF Depth

\* None is counted if and only if there is none.
LEMMA NoneOf ==
  ASSUME NEW s \in Seq(Bytes), NEW a \in 0 .. Len(s), NEW b \in a .. Len(s), NEW byte
  PROVE  Count(SubSeq(s, a + 1, b), byte) = 0 <=> \A k \in a + 1 .. b : s[k] # byte
<1>1. Places(s, byte, a, b) = {} <=> \A k \in a + 1 .. b : s[k] # byte
  BY DEF Places
<1>2. /\ IsFiniteSet(Places(s, byte, a, b))
      /\ Count(SubSeq(s, a + 1, b), byte) = Cardinality(Places(s, byte, a, b))
  BY CountOf
<1> QED
  BY <1>1, <1>2, FS_EmptySet

\* A part without brackets leaves the depth alone.
LEMMA DepthStays ==
  ASSUME NEW s \in Seq(Bytes), NEW a \in 0 .. Len(s), NEW b \in a .. Len(s),
         \A k \in a + 1 .. b : s[k] # "open" /\ s[k] # "close"
  PROVE  Depth(s, b) = Depth(s, a)
<1>1. Count(SubSeq(s, a + 1, b), "open") = 0 /\ Count(SubSeq(s, a + 1, b), "close") = 0
  BY NoneOf
<1> QED
  BY <1>1, DepthOf

\* A part with brackets of one kind only moves it that way.
LEMMA DepthMoves ==
  ASSUME NEW s \in Seq(Bytes), NEW a \in 0 .. Len(s), NEW b \in a .. Len(s), NEW m \in a + 1 .. b
  PROVE  /\ s[m] = "open" /\ (\A k \in a + 1 .. b : s[k] # "close") => Depth(s, b) > Depth(s, a)
         /\ s[m] = "close" /\ (\A k \in a + 1 .. b : s[k] # "open") => Depth(s, b) < Depth(s, a)
<1>1. /\ Count(SubSeq(s, a + 1, b), "open") \in Nat /\ Count(SubSeq(s, a + 1, b), "close") \in Nat
      /\ Depth(s, a) \in Int
      /\ Depth(s, b) = Depth(s, a) + Count(SubSeq(s, a + 1, b), "open")
                                    - Count(SubSeq(s, a + 1, b), "close")
  BY DepthOf
<1>2. /\ s[m] = "open" => Count(SubSeq(s, a + 1, b), "open") # 0
      /\ s[m] = "close" => Count(SubSeq(s, a + 1, b), "close") # 0
      /\ (\A k \in a + 1 .. b : s[k] # "open") => Count(SubSeq(s, a + 1, b), "open") = 0
      /\ (\A k \in a + 1 .. b : s[k] # "close") => Count(SubSeq(s, a + 1, b), "close") = 0
  BY NoneOf
<1> QED
  BY <1>1, <1>2

\* What may become a value, and what is one, in a text.
Opens(s, a, b) ==
  /\ a < b /\ s[a + 1] = "open"
  /\ \A k \in a + 1 .. b : s[k] # "garbage"
  /\ \A j, k \in a + 1 .. b : s[j] = "close" /\ s[k] = "open" => k < j

\* The counts that decide it are the depths at both ends.
LEMMA ViableIs ==
  ASSUME NEW s \in Seq(Bytes), NEW a \in 0 .. Len(s), NEW b \in a .. Len(s)
  PROVE  LET t == SubSeq(s, a + 1, b)
         IN  /\ Viable(t) <=> Opens(s, a, b) /\ Depth(s, a) <= Depth(s, b)
             /\ IsValue(t) <=> Opens(s, a, b) /\ Depth(s, a) = Depth(s, b) /\ s[b] = "close"
<1> DEFINE t == SubSeq(s, a + 1, b)
<1>1. Len(s) \in Nat /\ a \in Nat /\ b \in Nat
  OBVIOUS
<1>2. /\ t \in Seq(Bytes) /\ Len(t) = b - a /\ DOMAIN t = 1 .. b - a
      /\ \A k \in 1 .. b - a : t[k] = s[a + k]
  BY <1>1
<1>3. /\ Depth(s, a) \in Int /\ Depth(s, b) \in Int
      /\ Count(t, "open") \in Nat /\ Count(t, "close") \in Nat
      /\ Depth(s, b) = Depth(s, a) + Count(t, "open") - Count(t, "close")
  BY DepthOf
<1> HIDE DEF t
<1>4. /\ Count(t, "close") <= Count(t, "open") <=> Depth(s, a) <= Depth(s, b)
      /\ Count(t, "close") = Count(t, "open") <=> Depth(s, a) = Depth(s, b)
  BY <1>3
<1>5. t # <<>> <=> a < b
  BY <1>1, <1>2
<1>6. a < b => t[1] = s[a + 1] /\ t[Len(t)] = s[b]
  BY <1>1, <1>2
<1>7. \A k \in 1 .. b - a : a + k \in a + 1 .. b
  BY <1>1
<1>8. \A k \in a + 1 .. b : k - a \in 1 .. b - a /\ t[k - a] = s[k]
  BY <1>1, <1>2
<1>9. (\A k \in DOMAIN t : t[k] # "garbage") <=> (\A k \in a + 1 .. b : s[k] # "garbage")
  BY <1>2, <1>7, <1>8
<1>10. (\A j, k \in DOMAIN t : t[j] = "close" /\ t[k] = "open" => k < j)
       <=> (\A j, k \in a + 1 .. b : s[j] = "close" /\ s[k] = "open" => k < j)
  <2>1. ASSUME \A j, k \in DOMAIN t : t[j] = "close" /\ t[k] = "open" => k < j,
               NEW j \in a + 1 .. b, NEW k \in a + 1 .. b, s[j] = "close", s[k] = "open"
        PROVE  k < j
    <3>1. k - a < j - a
      BY <1>2, <1>8, <2>1
    <3> QED
      BY <1>1, <3>1
  <2>2. ASSUME \A j, k \in a + 1 .. b : s[j] = "close" /\ s[k] = "open" => k < j,
               NEW j \in DOMAIN t, NEW k \in DOMAIN t, t[j] = "close", t[k] = "open"
        PROVE  k < j
    <3>1. j \in 1 .. b - a /\ k \in 1 .. b - a
      BY <1>2
    <3>2. s[a + j] = "close" /\ s[a + k] = "open"
      BY <1>2, <2>2, <3>1
    <3>3. a + k < a + j
      BY <1>7, <2>2, <3>1, <3>2
    <3> QED
      BY <1>1, <3>1, <3>3
  <2> QED
    BY <2>1, <2>2
<1>11. Viable(t) <=> Opens(s, a, b) /\ Depth(s, a) <= Depth(s, b)
  BY <1>4, <1>5, <1>6, <1>9, <1>10 DEF Viable, Opens
<1>12. IsValue(t) <=> Opens(s, a, b) /\ Depth(s, a) = Depth(s, b) /\ s[b] = "close"
  <2>1. a < b => t[Len(t)] = s[b]
    BY <1>6
  <2>2. Opens(s, a, b) => a < b
    BY DEF Opens
  <2> QED
    BY <1>3, <1>4, <1>11, <2>1, <2>2 DEF IsValue
<1> QED
  BY <1>11, <1>12 DEF t

\* A bounded set of numbers has a greatest.
LEMMA Greatest ==
  ASSUME NEW n \in Nat, NEW S \in SUBSET (1 .. n), S # {}
  PROVE  \E m \in S : \A k \in S : k <= m
<1> DEFINE T == {n - k : k \in S}
<1>1. T \in SUBSET Nat /\ T # {}
  <2>1. \A k \in S : n - k \in Nat
    OBVIOUS
  <2> QED
    BY <2>1
<1>2. Least(T) \in T /\ \A k \in T : Least(T) <= k
  <2> HIDE DEF T
  <2> QED
    BY <1>1, LeastOf
<1>3. PICK m \in S : Least(T) = n - m
  BY <1>2
<1>4. \A k \in S : n - m <= n - k
  BY <1>2, <1>3
<1> QED
  BY <1>3, <1>4

\* Where no value can be read from a place of depth 0 on, one has been begun: what
\* is there may still become a value.
LEMMA Begun ==
  ASSUME NEW s \in Seq(Bytes), Sound(s), NEW a \in 0 .. Len(s), NEW b \in a + 1 .. Len(s),
         Depth(s, a) = 0, s[a + 1] # "space",
         \A m \in a + 1 .. b : ~IsValue(SubSeq(s, a + 1, m))
  PROVE  Viable(SubSeq(s, a + 1, b)) /\ Depth(s, b) > 0
<1>1. /\ Len(s) \in Nat /\ a \in Nat /\ b \in Nat /\ a < b /\ b <= Len(s)
      /\ a + 1 \in 1 .. Len(s) /\ DOMAIN s = 1 .. Len(s)
  OBVIOUS
<1>2. \A k \in 1 .. Len(s) :
        s[k] \in Bytes /\ s[k] # "garbage" /\ Depth(s, k) \in Int /\ Depth(s, k) >= 0
  <2> SUFFICES ASSUME NEW k \in 1 .. Len(s)
               PROVE  s[k] \in Bytes /\ s[k] # "garbage" /\ Depth(s, k) \in Int /\ Depth(s, k) >= 0
    OBVIOUS
  <2>1. k \in 0 .. Len(s) /\ k \in k .. Len(s)
    BY <1>1
  <2>2. Depth(s, k) \in Int
    BY <2>1, DepthOf
  <2> QED
    BY <1>1, <2>2 DEF Sound
<1>3. s[a + 1] = "open"
  <2> SUFFICES ASSUME s[a + 1] = "close" PROVE FALSE
    BY <1>1, <1>2 DEF Bytes
  <2>1. a + 1 \in a .. Len(s) /\ a + 1 \in a + 1 .. a + 1 /\ \A k \in a + 1 .. a + 1 : k = a + 1
    BY <1>1
  <2>2. Depth(s, a + 1) < Depth(s, a)
    BY <2>1, DepthMoves
  <2> QED
    BY <1>1, <1>2, <2>2
<1>4. ASSUME NEW j \in a + 1 .. b, s[j] = "close", Depth(s, j) = 0,
             \A l, k \in a + 1 .. j : s[l] = "close" /\ s[k] = "open" => k < l
      PROVE  FALSE
  <2>1. j \in a .. Len(s) /\ a < j /\ \A k \in a + 1 .. j : k \in 1 .. Len(s)
    BY <1>1
  <2>2. Opens(s, a, j)
    BY <1>2, <1>3, <1>4, <2>1 DEF Opens
  <2>3. IsValue(SubSeq(s, a + 1, j))
    BY <1>4, <2>1, <2>2, ViableIs
  <2> QED
    BY <2>3
<1>5. \A j, k \in a + 1 .. b : s[j] = "close" /\ s[k] = "open" => k < j
  <2> SUFFICES ASSUME NEW j0 \in a + 1 .. b, NEW k0 \in a + 1 .. b,
                      s[j0] = "close", s[k0] = "open", ~(k0 < j0)
               PROVE  FALSE
    OBVIOUS
  <2> DEFINE Late == {k \in a + 1 .. b : s[k] = "open" /\ \E j \in a + 1 .. k : s[j] = "close"}
             k == Least(Late)
  <2>1. Late \in SUBSET Nat /\ k0 \in Late
    <3>1. j0 \in a + 1 .. k0
      BY <1>1
    <3> QED
      BY <1>1, <3>1
  <2>2. k \in Late /\ \A m \in Late : k <= m
    <3> HIDE DEF Late
    <3> QED
      BY <2>1, LeastOf
  <2> HIDE DEF k
  <2>3. k \in a + 1 .. b /\ s[k] = "open" /\ k \in 1 .. Len(s)
    BY <1>1, <2>2
  <2> DEFINE Before == {j \in a + 1 .. k : s[j] = "close"}
  <2>4. Before \in SUBSET (1 .. k) /\ Before # {} /\ k \in Nat
    BY <1>1, <2>2, <2>3
  <2>5. PICK j \in Before : \A m \in Before : m <= j
    <3> HIDE DEF Before
    <3> QED
      BY <2>4, Greatest
  <2>6. j \in a + 1 .. b /\ s[j] = "close" /\ j < k /\ j \in 1 .. Len(s)
    <3>1. j # k
      BY <2>3
    <3> QED
      BY <1>1, <2>3, <3>1
  <2>7. \A l \in j + 1 .. k - 1 : s[l] = "space"
    <3> SUFFICES ASSUME NEW l \in j + 1 .. k - 1 PROVE s[l] = "space"
      OBVIOUS
    <3>1. /\ l \in a + 1 .. k /\ l \in a + 1 .. b /\ l \in 1 .. Len(s)
          /\ j < l /\ l < k /\ j \in a + 1 .. l
      BY <1>1, <2>3, <2>6
    <3>2. s[l] # "close"
      BY <2>5, <2>6, <3>1
    <3>3. s[l] # "open"
      <4> SUFFICES ASSUME s[l] = "open" PROVE FALSE
        OBVIOUS
      <4>1. l \in Late
        BY <2>6, <3>1
      <4> HIDE DEF Late
      <4> QED
        BY <2>2, <2>3, <3>1, <4>1
    <3> QED
      BY <1>2, <3>1, <3>2, <3>3 DEF Bytes
  <2>8. Depth(s, j) = 0
    BY <1>1, <2>3, <2>6, <2>7 DEF Sound
  <2>9. ASSUME NEW l \in a + 1 .. j, NEW m \in a + 1 .. j, s[l] = "close", s[m] = "open", ~(m < l)
        PROVE  FALSE
    <3>1. m \in a + 1 .. b /\ l \in a + 1 .. m /\ m < k
      BY <1>1, <2>3, <2>6, <2>9
    <3>2. m \in Late
      BY <2>9, <3>1
    <3> HIDE DEF Late
    <3> QED
      BY <1>1, <2>2, <2>3, <3>1, <3>2
  <2> HIDE DEF Before, Late
  <2> QED
    BY <1>4, <2>6, <2>8, <2>9
<1>6. b \in 1 .. Len(s) /\ \A k \in a + 1 .. b : k \in 1 .. Len(s)
  BY <1>1
<1>7. Opens(s, a, b)
  BY <1>1, <1>2, <1>3, <1>5, <1>6 DEF Opens
<1>8. Viable(SubSeq(s, a + 1, b))
  <2>1. b \in a .. Len(s) /\ Depth(s, a) <= Depth(s, b)
    BY <1>1, <1>2, <1>6
  <2> QED
    BY <1>7, <2>1, ViableIs
<1>9. Depth(s, b) # 0
  <2> SUFFICES ASSUME Depth(s, b) = 0 PROVE FALSE
    OBVIOUS
  <2> DEFINE Closes == {j \in a + 1 .. b : s[j] = "close"}
  <2>1. CASE Closes = {}
    <3>1. b \in a .. Len(s) /\ a + 1 \in a + 1 .. b /\ \A k \in a + 1 .. b : s[k] # "close"
      BY <1>1, <2>1
    <3>2. Depth(s, b) > Depth(s, a)
      BY <1>3, <3>1, DepthMoves
    <3> QED
      BY <3>2
  <2>2. CASE Closes # {}
    <3>1. Closes \in SUBSET (1 .. b)
      BY <1>1
    <3>2. PICK j \in Closes : \A m \in Closes : m <= j
      <4> HIDE DEF Closes
      <4> QED
        BY <1>1, <2>2, <3>1, Greatest
    <3>3. j \in a + 1 .. b /\ s[j] = "close" /\ j \in 0 .. Len(s) /\ b \in j .. Len(s)
      BY <1>1
    <3>4. \A k \in j + 1 .. b : s[k] # "open" /\ s[k] # "close"
      <4> SUFFICES ASSUME NEW k \in j + 1 .. b PROVE s[k] # "open" /\ s[k] # "close"
        OBVIOUS
      <4>1. k \in a + 1 .. b /\ ~(k <= j) /\ ~(k < j)
        BY <1>1, <3>3
      <4> QED
        BY <1>5, <3>2, <3>3, <4>1
    <3>5. Depth(s, j) = 0
      BY <3>3, <3>4, DepthStays
    <3>6. \A l \in a + 1 .. j : l \in a + 1 .. b
      BY <1>1, <3>3
    <3> QED
      BY <1>4, <1>5, <3>3, <3>5, <3>6
  <2> QED
    BY <2>1, <2>2
<1> QED
  BY <1>2, <1>6, <1>8, <1>9

\* What follows in a part is part of the whole.
LEMMA PartOfPart ==
  ASSUME NEW S, NEW s \in Seq(S), NEW a \in 0 .. Len(s), NEW n \in a .. Len(s), NEW c \in 0 .. n - a
  PROVE  LET rest == From(SubSeq(s, a + 1, n), c + 1)
         IN  rest = SubSeq(s, a + c + 1, n) /\ Len(rest) = n - a - c
<1> DEFINE t == SubSeq(s, a + 1, n)
           rest == SubSeq(t, c + 1, n - a)
           part == SubSeq(s, a + c + 1, n)
<1>1. Len(s) \in Nat /\ a \in Nat /\ n \in Nat /\ c \in Nat
  OBVIOUS
<1>2. /\ t \in Seq(S) /\ Len(t) = n - a
      /\ \A k \in 1 .. n - a : t[k] = s[a + k]
  BY <1>1
<1>3. From(t, c + 1) = rest
  BY <1>2 DEF From
<1> HIDE DEF t
<1>4. /\ rest \in Seq(S) /\ Len(rest) = n - a - c
      /\ \A k \in 1 .. n - a - c : rest[k] = t[c + k]
  BY <1>1, <1>2
<1>5. /\ part \in Seq(S) /\ Len(part) = n - a - c
      /\ \A k \in 1 .. n - a - c : part[k] = s[a + c + k]
  BY <1>1
<1> HIDE DEF rest, part
<1>6. \A k \in 1 .. n - a - c : rest[k] = part[k]
  <2> SUFFICES ASSUME NEW k \in 1 .. n - a - c PROVE rest[k] = part[k]
    OBVIOUS
  <2>1. c + k \in 1 .. n - a /\ a + (c + k) = a + c + k
    BY <1>1
  <2>2. t[c + k] = s[a + (c + k)]
    BY <1>2, <2>1
  <2> QED
    BY <1>4, <1>5, <2>1, <2>2
<1> QED
  BY <1>3, <1>4, <1>5, <1>6 DEF t, part

\* What decode makes of a sound text from a place of depth 0 on: a value after
\* nothing but space, or nothing but the space, and then a value has been begun
\* unless nothing else is there.
DecodesTo(s, c, n, d) ==
  LET e == c + d.cut
  IN  /\ e \in c .. n /\ Depth(s, e) = 0
      /\ d.found => ValueAt(s, c, d.frame, e)
      /\ ~d.found => /\ OnlySpace(s, c, e)
                     /\ e < n => Depth(s, n) > 0

\* And it does so.
LEMMA DecodeSound ==
  ASSUME NEW s \in Seq(Bytes), Sound(s),
         NEW c \in 0 .. Len(s), NEW n \in c .. Len(s), Depth(s, c) = 0
  PROVE  DecodesTo(s, c, n, Decode(SubSeq(s, c + 1, n)))
<1> DEFINE buf == SubSeq(s, c + 1, n)
           skipped == Skipped(buf)
           a == c + skipped
           rest == From(buf, skipped + 1)
           size == IF Values(rest) = {} THEN 0 ELSE Least(Values(rest))
           d == Decode(buf)
<1>1. Len(s) \in Nat /\ c \in Nat /\ n \in Nat /\ c <= n /\ n <= Len(s)
  OBVIOUS
<1>2. /\ buf \in Seq(Bytes) /\ Len(buf) = n - c
      /\ \A k \in 1 .. n - c : buf[k] = s[c + k]
  BY <1>1
<1>3. /\ d.found = (size # 0 \/ ~Incomplete(rest))
      /\ d.frame = IF size # 0 THEN SubSeq(rest, 1, size) ELSE Broken
      /\ d.cut = skipped + size
  BY DEF Decode, Offset
<1> HIDE DEF buf, d
<1>4. /\ skipped \in 0 .. n - c
      /\ \A k \in 1 .. skipped : buf[k] = "space"
      /\ skipped < n - c => buf[skipped + 1] # "space"
  BY <1>2, SkippedOf
<1> HIDE DEF skipped
<1>5. /\ a \in c .. n /\ a \in 0 .. Len(s) /\ n \in a .. Len(s) /\ a \in Nat
      /\ \A k \in c + 1 .. a : s[k] = "space"
      /\ a < n => s[a + 1] # "space"
  <2>1. a \in c .. n
    BY <1>1, <1>4
  <2>2. ASSUME NEW k \in c + 1 .. a PROVE s[k] = "space"
    <3>1. k - c \in 1 .. skipped /\ k - c \in 1 .. n - c /\ c + (k - c) = k
      BY <1>1, <1>4
    <3> QED
      BY <1>2, <1>4, <3>1
  <2>3. ASSUME a < n PROVE s[a + 1] # "space"
    <3>1. skipped + 1 \in 1 .. n - c /\ skipped < n - c /\ c + (skipped + 1) = a + 1
      BY <1>1, <1>4, <2>3
    <3> QED
      BY <1>2, <1>4, <3>1
  <2> QED
    BY <1>1, <2>1, <2>2, <2>3
<1>6. Depth(s, a) = 0
  <2>1. a \in c .. Len(s) /\ \A k \in c + 1 .. a : s[k] # "open" /\ s[k] # "close"
    BY <1>1, <1>5
  <2> QED
    BY <2>1, DepthStays
<1>7. /\ rest = SubSeq(s, a + 1, n) /\ rest \in Seq(Bytes)
      /\ Len(rest) = n - a /\ (rest = <<>> <=> a = n)
  <2>1. rest = SubSeq(s, c + skipped + 1, n) /\ Len(rest) = n - c - skipped
    BY <1>4, PartOfPart DEF buf
  <2> HIDE DEF rest
  <2>2. c + skipped + 1 = a + 1 /\ n - c - skipped = n - a
    BY <1>1, <1>4
  <2>3. rest \in Seq(Bytes)
    <3>1. a + 1 \in 1 .. Len(s) + 1 /\ n \in a + 1 - 1 .. Len(s)
      BY <1>1, <1>5
    <3> HIDE DEF a
    <3> QED
      BY <2>1, <2>2, <3>1, Part
  <2>4. rest = <<>> <=> Len(rest) = 0
    BY <2>3
  <2>5. Len(rest) = n - a
    BY <2>1, <2>2
  <2>6. n - a = 0 <=> a = n
    BY <1>1, <1>5
  <2> QED
    BY <2>1, <2>2, <2>3, <2>4, <2>5, <2>6
<1> HIDE DEF rest
<1>8. ASSUME NEW m \in 1 .. n - a
      PROVE  /\ SubSeq(rest, 1, m) = SubSeq(s, a + 1, a + m)
             /\ Len(SubSeq(rest, 1, m)) = m
  <2>1. m \in 1 .. Len(rest) /\ a + m \in a + 1 .. n /\ a + m \in Nat
    BY <1>1, <1>5, <1>7
  <2>2. /\ SubSeq(rest, 1, m) \in Seq(Bytes) /\ Len(SubSeq(rest, 1, m)) = m
        /\ \A k \in 1 .. m : SubSeq(rest, 1, m)[k] = rest[k]
    BY <1>7, <2>1
  <2>3. /\ SubSeq(s, a + 1, a + m) \in Seq(Bytes) /\ Len(SubSeq(s, a + 1, a + m)) = m
        /\ \A k \in 1 .. m : SubSeq(s, a + 1, a + m)[k] = s[a + k]
    <3>1. /\ a + 1 \in 1 .. Len(s) + 1 /\ a + m \in a + 1 - 1 .. Len(s)
          /\ (a + m) - (a + 1) + 1 = m
      BY <1>1, <1>5, <2>1
    <3>2. \A k \in 1 .. m : (a + 1) + k - 1 = a + k
      BY <1>5
    <3> HIDE DEF a
    <3> QED
      BY <3>1, <3>2, Part
  <2>4. \A k \in 1 .. m : rest[k] = s[a + k]
    <3>1. a + 1 \in 1 .. Len(s) + 1 /\ n \in a + 1 - 1 .. Len(s) /\ n - (a + 1) + 1 = n - a
      BY <1>1, <1>5
    <3>2. m \in 1 .. n - a /\ \A k \in 1 .. m : k \in 1 .. n - a /\ (a + 1) + k - 1 = a + k
      BY <1>1, <1>5
    <3>3. rest = SubSeq(s, a + 1, n)
      BY <1>7
    <3> HIDE DEF a
    <3>4. \A k \in 1 .. n - (a + 1) + 1 : rest[k] = s[(a + 1) + k - 1]
      BY <3>1, <3>3, Part
    <3> QED
      BY <3>1, <3>2, <3>4
  <2>5. PICK p : p = SubSeq(rest, 1, m)
    OBVIOUS
  <2>6. PICK q : q = SubSeq(s, a + 1, a + m)
    OBVIOUS
  <2> HIDE DEF a
  <2>7. p \in Seq(Bytes) /\ Len(p) = m /\ \A k \in 1 .. m : p[k] = rest[k]
    BY <2>2, <2>5
  <2>8. q \in Seq(Bytes) /\ Len(q) = m /\ \A k \in 1 .. m : q[k] = s[a + k]
    BY <2>3, <2>6
  <2>9. Len(p) = Len(q) /\ \A k \in 1 .. Len(p) : p[k] = q[k]
    BY <2>4, <2>7, <2>8
  <2>10. p = q
    BY <2>7, <2>8, <2>9, SameSequence
  <2> QED
    BY <2>5, <2>6, <2>7, <2>10
<1>9. Values(rest) = {m \in 1 .. n - a : IsValue(SubSeq(rest, 1, m))}
  BY <1>7 DEF Values
<1>10. CASE Values(rest) # {}
  <2>1. Values(rest) \in SUBSET Nat
    BY <1>9
  <2>2. size \in Values(rest)
    BY <1>10, <2>1, LeastOf
  <2>3. size \in 1 .. n - a /\ IsValue(SubSeq(rest, 1, size)) /\ size # 0
    BY <1>1, <1>5, <1>9, <2>2
  <2> HIDE DEF size
  <2>4. /\ d.found = TRUE /\ d.frame = SubSeq(rest, 1, size) /\ Len(d.frame) = size
        /\ d.frame = SubSeq(s, a + 1, a + size)
    BY <1>3, <1>8, <2>3
  <2>5. /\ c + d.cut = a + size /\ a + size \in c .. n /\ a + size \in a .. Len(s)
        /\ (c + d.cut) - Len(d.frame) = a /\ a \in c .. a + size
    BY <1>1, <1>3, <1>4, <1>5, <2>3, <2>4
  <2>6. Depth(s, a + size) = Depth(s, a)
    <3>1. IsValue(SubSeq(s, a + 1, a + size))
      BY <2>3, <2>4
    <3> QED
      BY <1>5, <2>5, <3>1, ViableIs
  <2>7. ValueAt(s, c, d.frame, c + d.cut)
    <3>1. IsValue(d.frame) /\ OnlySpace(s, c, a)
      BY <1>5, <2>3, <2>4 DEF OnlySpace
    <3> HIDE DEF a
    <3>2. SubSeq(s, a + 1, c + d.cut) = d.frame
      BY <2>4, <2>5
    <3>3. (c + d.cut) - Len(d.frame) = a /\ c <= a
      BY <1>1, <1>5, <2>5
    <3> QED
      BY <3>1, <3>2, <3>3, Zenon DEF ValueAt
  <2>8. c + d.cut \in c .. n /\ Depth(s, c + d.cut) = 0
    BY <1>6, <2>5, <2>6
  <2> QED
    BY <2>4, <2>7, <2>8 DEF buf, d, DecodesTo
<1>11. CASE Values(rest) = {}
  <2>1. size = 0 /\ d.cut = skipped /\ c + d.cut = a /\ d.found = ~Incomplete(rest)
    BY <1>3, <1>4, <1>11
  <2>2. ASSUME a < n PROVE Viable(rest) /\ Depth(s, n) > 0
    <3>1. n \in a + 1 .. Len(s)
      BY <1>1, <1>5, <2>2
    <3>2. \A m \in a + 1 .. n : ~IsValue(SubSeq(s, a + 1, m))
      <4> SUFFICES ASSUME NEW m \in a + 1 .. n, IsValue(SubSeq(s, a + 1, m)) PROVE FALSE
        OBVIOUS
      <4>1. m - a \in 1 .. n - a /\ a + (m - a) = m
        BY <1>1, <1>5
      <4>2. m - a \in Values(rest)
        BY <1>8, <1>9, <4>1
      <4> QED
        BY <1>11, <4>2
    <3> HIDE DEF a
    <3> QED
      BY <1>5, <1>6, <1>7, <2>2, <3>1, <3>2, Begun
  <2>3. Incomplete(rest)
    BY <1>1, <1>5, <1>7, <2>2 DEF Incomplete
  <2>4. ~d.found /\ OnlySpace(s, c, c + d.cut)
    BY <1>5, <2>1, <2>3 DEF OnlySpace
  <2> QED
    BY <1>5, <1>6, <2>1, <2>2, <2>4 DEF buf, d, DecodesTo
<1> QED
  BY <1>10, <1>11

\* How much of the input is behind the reader.
Done == taken - Len(rbuf)

\* FramesAreInput, of results f and a text s that is read up to d.
EndIn(f, k) == IF k = 0 THEN 0 ELSE f[k].end

FramesOf(s, f, d) ==
  /\ \A k \in DOMAIN f : ValueAt(s, EndIn(f, k - 1), f[k].value, EndIn(f, k))
  /\ OnlySpace(s, EndIn(f, Len(f)), d)

\* It says the same.
LEMMA FramesIs ==
  ASSUME TypeOK
  PROVE  /\ Done \in 0 .. taken /\ Len(Consumed) = Done
         /\ FramesAreInput <=> (Sound(input) => FramesOf(input, frames, Done))
<1>1. /\ input \in Seq(Bytes) /\ Len(input) \in Nat /\ taken \in 0 .. Len(input)
      /\ Len(rbuf) \in Nat /\ Len(rbuf) <= taken
  BY DEF TypeOK
<1>2. Done \in 0 .. taken /\ Done \in 0 .. Len(input)
  BY <1>1 DEF Done
<1>3. Len(Consumed) = Done
  <2>1. Consumed = SubSeq(input, 1, Done)
    BY DEF Consumed, Done
  <2> QED
    BY <1>1, <1>2, <2>1
<1>4. FramesAreInput <=> (Sound(input) => FramesOf(input, frames, Done))
  BY <1>3 DEF FramesAreInput, FramesOf, EndOf, EndIn
<1> QED
  BY <1>2, <1>3, <1>4

\* Space and more space.
LEMMA SpaceJoins ==
  ASSUME NEW s, NEW a \in Nat, NEW b \in Nat, NEW c \in Nat, OnlySpace(s, a, b), OnlySpace(s, b, c)
  PROVE  OnlySpace(s, a, c)
<1> SUFFICES ASSUME NEW k \in a + 1 .. c PROVE s[k] = "space"
  BY DEF OnlySpace
<1>1. k \in a + 1 .. b \/ k \in b + 1 .. c
  OBVIOUS
<1> QED
  BY <1>1 DEF OnlySpace

\* Where the last result ends.
LEMMA EndType ==
  ASSUME NEW f \in Seq(Frames) PROVE Len(f) \in Nat /\ EndIn(f, Len(f)) \in Nat
<1>1. Len(f) \in Nat /\ (Len(f) # 0 => f[Len(f)] \in Frames)
  OBVIOUS
<1> QED
  BY <1>1 DEF EndIn, Frames

\* One result more.
LEMMA FrameAdded ==
  ASSUME NEW s \in Seq(Bytes), NEW f \in Seq(Frames), NEW v \in Seq(Bytes),
         NEW d \in Nat, NEW e \in Nat,
         FramesOf(s, f, d), EndIn(f, Len(f)) <= d, ValueAt(s, d, v, e)
  PROVE  LET g == Append(f, [value |-> v, end |-> e])
         IN  FramesOf(s, g, e) /\ EndIn(g, Len(g)) = e
<1> DEFINE r == [value |-> v, end |-> e]
           g == Append(f, r)
<1>1. Len(f) \in Nat /\ DOMAIN f = 1 .. Len(f) /\ r \in Frames /\ r.value = v /\ r.end = e
  BY DEF Frames
<1> HIDE DEF r
<1>2. /\ Len(g) = Len(f) + 1 /\ DOMAIN g = 1 .. Len(f) + 1 /\ g[Len(f) + 1] = r
      /\ \A k \in 1 .. Len(f) : g[k] = f[k]
  BY <1>1
<1> HIDE DEF g
<1>3. /\ EndIn(g, Len(f) + 1) = e
      /\ \A k \in 0 .. Len(f) : EndIn(g, k) = EndIn(f, k)
  BY <1>1, <1>2 DEF EndIn
<1> DEFINE Right(h, k) == ValueAt(s, EndIn(h, k - 1), h[k].value, EndIn(h, k))
<1>4. ASSUME NEW k \in 1 .. Len(f) PROVE Right(g, k)
  <2>1. Right(f, k)
    BY <1>1 DEF FramesOf
  <2>2. k - 1 \in 0 .. Len(f) /\ k \in 0 .. Len(f)
    BY <1>1
  <2>3. EndIn(g, k - 1) = EndIn(f, k - 1) /\ EndIn(g, k) = EndIn(f, k) /\ g[k] = f[k]
    BY <1>2, <1>3, <2>2
  <2> QED
    BY <2>1, <2>3
<1>5. Right(g, Len(f) + 1)
  <2> DEFINE start == e - Len(v)
             before == EndIn(f, Len(f))
  <2>1. EndIn(g, (Len(f) + 1) - 1) = before /\ g[Len(f) + 1].value = v
    BY <1>1, <1>2, <1>3
  <2>2. before \in Nat /\ start \in Nat /\ d <= start /\ before <= start
    BY EndType DEF ValueAt
  <2>3. OnlySpace(s, before, start)
    <3>1. OnlySpace(s, before, d) /\ OnlySpace(s, d, start)
      BY DEF FramesOf, ValueAt
    <3> HIDE DEF before, start
    <3> QED
      BY <2>2, <3>1, SpaceJoins
  <2>4. ValueAt(s, before, v, e)
    BY <2>2, <2>3 DEF ValueAt
  <2> QED
    BY <1>3, <2>1, <2>4
<1>6. \A k \in DOMAIN g : Right(g, k)
  <2> SUFFICES ASSUME NEW k \in 1 .. Len(f) + 1 PROVE Right(g, k)
    BY <1>2
  <2>1. k \in 1 .. Len(f) \/ k = Len(f) + 1
    BY <1>1
  <2> HIDE DEF Right
  <2> QED
    BY <1>4, <1>5, <2>1
<1>7. EndIn(g, Len(g)) = e /\ OnlySpace(s, EndIn(g, Len(g)), e)
  BY <1>2, <1>3 DEF OnlySpace
<1> QED
  BY <1>6, <1>7 DEF FramesOf, g, r

\* What the reader has, it has from the input in order; before it are the results,
\* and the depth there is 0.
ReadingInv ==
  /\ rbuf = SubSeq(input, Done + 1, taken)
  /\ eof => taken = Len(input)
  /\ Sound(input) => /\ Depth(input, Done) = 0 /\ EndIn(frames, Len(frames)) <= Done
                     /\ FramesOf(input, frames, Done)
  /\ TruncationFails

\* It holds before anything is read.
LEMMA ReadingStarts == TypeOK /\ Init => ReadingInv
<1> SUFFICES ASSUME TypeOK, Init PROVE ReadingInv
  OBVIOUS
<1>1. Done = 0 /\ taken = 0 /\ rbuf = <<>> /\ frames = <<>> /\ input \in Seq(Bytes)
  <2>1. taken = 0 /\ rbuf = <<>> /\ frames = <<>>
    BY DEF Init
  <2>2. input \in Seq(Bytes)
    BY DEF TypeOK
  <2>3. Len(rbuf) = 0
    BY <2>1
  <2>4. Done = 0
    <3>1. Done = taken - Len(rbuf) /\ taken = 0
      BY <2>1 DEF Done
    <3> QED
      BY <2>3, <3>1
  <2> QED
    BY <2>1, <2>2, <2>4
<1>2. SubSeq(input, Done + 1, taken) = <<>>
  BY <1>1
<1>3. Depth(input, Done) = 0
  BY <1>1, DepthAtStart
<1>4. EndIn(frames, Len(frames)) = 0 /\ FramesOf(input, frames, Done)
  BY <1>1 DEF EndIn, FramesOf, OnlySpace
<1> QED
  BY <1>1, <1>2, <1>3, <1>4 DEF ReadingInv, TruncationFails, Init

\* A chunk goes on where the reader's bytes end.
LEMMA ReadingReads ==
  ASSUME TypeOK, ReadingInv, NEW n \in 1 .. Len(input) - taken, Read(n)
  PROVE  ReadingInv'
<1>1. /\ input \in Seq(Bytes) /\ Len(input) \in Nat /\ taken \in 0 .. Len(input)
      /\ Done \in 0 .. taken
  BY FramesIs DEF TypeOK
<1>2. /\ rbuf' = rbuf \o SubSeq(input, taken + 1, taken + n)
      /\ taken' = taken + n /\ UNCHANGED <<input, eof, frames, reader>> /\ reader = "open"
  BY DEF Read
<1>3. ~eof
  BY <1>1 DEF ReadingInv
<1> DEFINE d == Done
<1>4. rbuf = SubSeq(input, d + 1, taken)
  BY DEF ReadingInv
<1> HIDE DEF d
<1>5. d \in 0 .. taken
  BY <1>1 DEF d
<1>6. rbuf' = SubSeq(input, d + 1, taken + n) /\ Len(rbuf') = taken + n - d
  <2>1. SubSeq(input, d + 1, taken) \o SubSeq(input, taken + 1, taken + n)
          = SubSeq(input, d + 1, taken + n)
    BY <1>1, <1>5
  <2>2. Len(SubSeq(input, d + 1, taken + n)) = taken + n - d
    BY <1>1, <1>5
  <2> QED
    BY <1>2, <1>4, <2>1, <2>2
<1>7. Done' = d
  <2>1. Done' = taken' - Len(rbuf')
    BY DEF Done
  <2> QED
    BY <1>1, <1>2, <1>5, <1>6, <2>1
<1>8. rbuf' = SubSeq(input', Done' + 1, taken')
  BY <1>2, <1>6, <1>7
<1>9. Sound(input) => /\ Depth(input, d) = 0 /\ EndIn(frames, Len(frames)) <= d
                      /\ FramesOf(input, frames, d)
  BY DEF ReadingInv, d
<1> QED
  BY <1>2, <1>3, <1>7, <1>8, <1>9 DEF ReadingInv, TruncationFails

\* decode moves the reader on, over a value or nothing but space in a sound text.
LEMMA DecodeAdvances ==
  ASSUME TypeOK, ReadingInv, DecodeNext
  PROVE  LET r == Decode(rbuf)
             e == Done + r.cut
         IN  /\ e \in Done .. taken /\ e \in Nat
             /\ rbuf' = SubSeq(input, e + 1, taken) /\ Len(rbuf') = taken - e
             /\ taken - Len(rbuf') = e /\ Done' = e
             /\ Sound(input) => DecodesTo(input, Done, taken, r)
<1> DEFINE r == Decode(rbuf)
           d == Done
           e == d + r.cut
<1>1. /\ input \in Seq(Bytes) /\ Len(input) \in Nat /\ taken \in 0 .. Len(input)
      /\ d \in 0 .. taken /\ Len(rbuf) = taken - d
      /\ rbuf \in Seq(Bytes) /\ taken' = taken
  BY FramesIs DEF TypeOK, Done, DecodeNext
<1>2. rbuf = SubSeq(input, d + 1, taken) /\ (Sound(input) => Depth(input, d) = 0)
  BY DEF ReadingInv
<1>3. rbuf' = From(rbuf, r.cut + 1)
  BY DEF DecodeNext
<1>4. r.cut \in 0 .. Len(rbuf)
  BY <1>1, DecodeType
<1>5. d \in 0 .. Len(input) /\ taken \in d .. Len(input) /\ r.cut \in 0 .. taken - d
  BY <1>1, <1>4
<1>6. Sound(input) => DecodesTo(input, d, taken, r)
  <2>1. Sound(input) => DecodesTo(input, d, taken, Decode(SubSeq(input, d + 1, taken)))
    <3> HIDE DEF d
    <3> QED
      BY <1>1, <1>2, <1>5, DecodeSound
  <2> QED
    BY <1>2, <2>1
<1> HIDE DEF r, d
<1>7. e \in d .. taken /\ rbuf' = SubSeq(input, e + 1, taken) /\ Len(rbuf') = taken - e
  <2> DEFINE c == r.cut
  <2>1. rbuf' = From(SubSeq(input, d + 1, taken), c + 1)
    BY <1>2, <1>3, Zenon
  <2>2. c \in 0 .. taken - d /\ e = d + c
    BY <1>5
  <2> HIDE DEF c, e
  <2>3. rbuf' = SubSeq(input, d + c + 1, taken) /\ Len(rbuf') = taken - d - c
    BY <1>1, <1>5, <2>1, <2>2, PartOfPart
  <2> QED
    BY <1>1, <2>2, <2>3
<1>8. taken - Len(rbuf') = e /\ e \in Nat
  BY <1>1, <1>7
<1>9. Done' = e
  BY <1>1, <1>8 DEF Done
<1> HIDE DEF e
<1> QED
  BY <1>6, <1>7, <1>8, <1>9 DEF r, d, e

\* decode takes a value, or the space before one, and leaves the rest.
LEMMA ReadingDecodes ==
  ASSUME TypeOK, ReadingInv, DecodeNext
  PROVE  ReadingInv'
<1> DEFINE r == Decode(rbuf)
           d == Done
           e == d + r.cut
           Results(f, n) == /\ Depth(input, n) = 0 /\ EndIn(f, Len(f)) <= n
                            /\ FramesOf(input, f, n)
<1>1. /\ input \in Seq(Bytes) /\ Len(input) \in Nat /\ taken \in 0 .. Len(input)
      /\ d \in 0 .. taken /\ Len(rbuf) = taken - d
      /\ rbuf \in Seq(Bytes) /\ frames \in Seq(Frames)
  BY FramesIs DEF TypeOK, Done, Frames
<1>2. rbuf = SubSeq(input, d + 1, taken)
  BY DEF ReadingInv
<1>3. (eof => taken = Len(input)) /\ (Sound(input) => Results(frames, d))
  BY DEF ReadingInv
<1>4. reader = "open" /\ input' = input /\ taken' = taken /\ eof' = eof
  BY DEF DecodeNext
<1>5. rbuf' = From(rbuf, r.cut + 1)
  BY DEF DecodeNext
<1>6. IF r.found
      THEN /\ frames' = Append(frames, [value |-> r.frame, end |-> taken - Len(rbuf')])
           /\ reader' = reader
      ELSE /\ frames' = frames
           /\ reader' = IF ~eof THEN "open" ELSE IF rbuf' = <<>> THEN "end" ELSE "failed"
  BY DEF DecodeNext
<1>7. r.cut \in 0 .. Len(rbuf) /\ r.frame \in Seq(Bytes)
  BY <1>1, DecodeType
<1>8. d \in 0 .. Len(input) /\ taken \in d .. Len(input) /\ r.cut \in 0 .. taken - d
  BY <1>1, <1>7
<1>9. Sound(input) => DecodesTo(input, d, taken, r)
  BY DecodeAdvances
<1>10. /\ e \in d .. taken /\ rbuf' = SubSeq(input, e + 1, taken) /\ Len(rbuf') = taken - e
       /\ taken - Len(rbuf') = e /\ Done' = e /\ e \in Nat
  BY DecodeAdvances
<1> HIDE DEF r, d
<1>11. taken - Len(rbuf') = e /\ e \in Nat /\ d \in Nat /\ d <= e
  BY <1>1, <1>10
<1>12. Done' = e
  BY <1>10
<1>13. Sound(input) =>
         /\ Depth(input, e) = 0
         /\ r.found => ValueAt(input, d, r.frame, e)
         /\ ~r.found => /\ OnlySpace(input, d, e)
                        /\ e < taken => Depth(input, taken) > 0
  BY <1>9, Zenon DEF DecodesTo
<1> HIDE DEF e
<1>14. rbuf' = SubSeq(input', Done' + 1, taken')
  BY <1>4, <1>10, <1>12
<1>15. ASSUME Sound(input) PROVE Results(frames', e)
  <2>1. FramesOf(input, frames, d) /\ EndIn(frames, Len(frames)) <= d
    BY <1>3, <1>15
  <2>2. CASE r.found
    <3>1. FramesOf(input, frames', e) /\ EndIn(frames', Len(frames')) = e
      <4> DEFINE v == r.frame
                 g == Append(frames, [value |-> v, end |-> e])
      <4>1. v \in Seq(Bytes) /\ ValueAt(input, d, v, e)
        BY <1>7, <1>13, <1>15, <2>2
      <4>2. frames' = g
        BY <1>6, <1>11, <2>2
      <4> HIDE DEF v
      <4>3. \A s, w \in Seq(Bytes), f \in Seq(Frames), m, n \in Nat :
              (FramesOf(s, f, m) /\ EndIn(f, Len(f)) <= m /\ ValueAt(s, m, w, n))
              => LET h == Append(f, [value |-> w, end |-> n])
                 IN  FramesOf(s, h, n) /\ EndIn(h, Len(h)) = n
        BY FrameAdded
      <4>4. input \in Seq(Bytes) /\ frames \in Seq(Frames) /\ d \in Nat /\ e \in Nat
        BY <1>1, <1>11
      <4> HIDE DEF Results
      <4>5. FramesOf(input, g, e) /\ EndIn(g, Len(g)) = e
        BY <2>1, <4>1, <4>3, <4>4
      <4> QED
        BY <4>2, <4>5
    <3> QED
      BY <1>11, <1>13, <1>15, <3>1
  <2>3. CASE ~r.found
    <3>1. frames' = frames
      BY <1>6, <2>3
    <3> DEFINE before == EndIn(frames, Len(frames))
    <3>2. before \in Nat /\ OnlySpace(input, before, d) /\ OnlySpace(input, d, e)
      BY <1>1, <1>13, <1>15, <2>1, <2>3, EndType DEF FramesOf
    <3> HIDE DEF before
    <3>3. OnlySpace(input, before, e)
      BY <1>11, <3>2, SpaceJoins
    <3>4. FramesOf(input, frames, e)
      BY <2>1, <3>3 DEF FramesOf, before
    <3>5. before <= e
      BY <1>11, <2>1, <3>2 DEF before
    <3> QED
      BY <1>13, <1>15, <3>1, <3>4, <3>5 DEF before
  <2> QED
    BY <2>2, <2>3
<1>16. TruncationFails'
  <2> SUFFICES ASSUME Sound(input), reader' # "open"
               PROVE  reader' = "failed" <=> Depth(input, Len(input)) > 0
    BY <1>4 DEF TruncationFails
  <2>1. ~r.found /\ eof /\ reader' = IF rbuf' = <<>> THEN "end" ELSE "failed"
    BY <1>4, <1>6
  <2>2. taken = Len(input)
    BY <1>3, <2>1
  <2>3. rbuf' = <<>> <=> e = taken
    <3>1. rbuf' \in Seq(Bytes)
      <4>1. e + 1 \in 1 .. Len(input) + 1 /\ taken \in e + 1 - 1 .. Len(input)
        BY <1>1, <1>8, <1>10, <1>11
      <4> QED
        BY <1>1, <1>10, <4>1, Part
    <3>2. rbuf' = <<>> <=> Len(rbuf') = 0
      BY <3>1
    <3>3. Len(rbuf') = taken - e /\ e \in Nat /\ taken \in Nat
      BY <1>1, <1>10
    <3> QED
      BY <3>2, <3>3
  <2>4. CASE e = taken
    BY <1>13, <2>1, <2>2, <2>3, <2>4
  <2>5. CASE e # taken
    <3>1. e < taken
      BY <1>1, <1>10, <1>11, <2>5
    <3> QED
      BY <1>13, <2>1, <2>2, <2>3, <2>5, <3>1
  <2> QED
    BY <2>4, <2>5
<1> QED
  BY <1>3, <1>4, <1>12, <1>14, <1>15, <1>16 DEF ReadingInv

\* So it always holds.
LEMMA Reading == Spec => [](TypeOK /\ ReadingInv)
<1>1. TypeOK /\ Init => ReadingInv
  BY ReadingStarts
<1>2. TypeOK /\ ReadingInv /\ [Next]_vars => ReadingInv'
  <2> SUFFICES ASSUME TypeOK, ReadingInv, [Next]_vars PROVE ReadingInv'
    OBVIOUS
  <2>1. CASE ReadEof
    BY <2>1 DEF ReadEof, ReadingInv, TruncationFails, Done
  <2>2. CASE UNCHANGED vars
    BY <2>2 DEF vars, ReadingInv, TruncationFails, Done
  <2> QED
    BY <2>1, <2>2, ReadingReads, ReadingDecodes DEF Next
<1> QED
  BY <1>1, <1>2, BoundaryTypes, PTL DEF Spec

\* Wherever the chunks of a sound text are cut, the results are its values, whole
\* and in order, with nothing left out but space.
THEOREM ResultsAreTheValues == Spec => []FramesAreInput
<1>1. TypeOK /\ ReadingInv => FramesAreInput
  BY FramesIs DEF ReadingInv
<1> QED
  BY <1>1, Reading, PTL

\* The stream of a sound text ends with an error if and only if the text ends in the
\* middle of a value.
THEOREM TruncationDetected == Spec => []TruncationFails
<1>1. ReadingInv => TruncationFails
  BY DEF ReadingInv
<1> QED
  BY <1>1, Reading, PTL

-----------------------------------------------------------------------------
(* The reader of a sound text comes to an end.                             *)

\* A value begins with a bracket that opens and ends with one that closes.
LEMMA ValuesAreLong == ASSUME NEW v \in Seq(Bytes), IsValue(v) PROVE Len(v) >= 2
<1>1. Len(v) \in Nat /\ v # <<>> /\ v[1] = "open" /\ v[Len(v)] = "close"
  BY DEF IsValue, Viable
<1>2. Len(v) # 0 /\ Len(v) # 1
  BY <1>1
<1> QED
  BY <1>1, <1>2

\* So a result takes that much off the input.
LEMMA ResultEats ==
  ASSUME TypeOK, ReadingInv, DecodeNext, Sound(input), Decode(rbuf).found
  PROVE  Done' >= Done + 2
<1> DEFINE v == Decode(rbuf).frame
           e == Done + Decode(rbuf).cut
<1>1. v \in Seq(Bytes) /\ Done \in Nat
  <2>1. v \in Seq(Bytes)
    BY DecodeType DEF TypeOK
  <2>2. taken \in Nat /\ Done \in 0 .. taken
    BY FramesIs DEF TypeOK
  <2> QED
    BY <2>1, <2>2
<1>2. Done' = e /\ e \in Nat
  BY DecodeAdvances
<1>3. ValueAt(input, Done, v, e)
  BY DecodeAdvances DEF DecodesTo
<1> HIDE DEF v, e
<1>4. IsValue(v) /\ Done <= e - Len(v)
  BY <1>3 DEF ValueAt
<1>5. Len(v) \in Nat /\ Len(v) >= 2
  BY <1>1, <1>4, ValuesAreLong
<1> QED
  BY <1>1, <1>2, <1>4, <1>5

\* The results of a sound text take their bytes off the input, as the comment in decode
\* says: two for each of them at least.  (Those of other texts do not, see
\* EveryResultEatsInput.)
THEOREM SoundResultsEat == Spec => [](Sound(input) => 2 * Len(frames) <= Len(Consumed))
<1> DEFINE Eaten == Sound(input) => 2 * Len(frames) <= Done
<1>1. TypeOK /\ Init => Eaten
  <2> SUFFICES ASSUME TypeOK, Init PROVE 2 * Len(frames) <= Done
    OBVIOUS
  <2>1. Done \in 0 .. taken /\ Len(frames) = 0 /\ taken = 0
    BY FramesIs DEF Init
  <2> QED
    BY <2>1
<1>2. TypeOK /\ TypeOK' /\ ReadingInv /\ Eaten /\ [Next]_vars => Eaten'
  <2> SUFFICES ASSUME TypeOK, TypeOK', ReadingInv, Eaten, [Next]_vars, Sound(input)'
               PROVE  (2 * Len(frames) <= Done)'
    OBVIOUS
  <2>1. input' = input
    BY DEF Next, Read, ReadEof, DecodeNext, vars
  <2>2. /\ 2 * Len(frames) <= Done /\ Len(frames) \in Nat /\ frames \in Seq(Frames)
        /\ Done \in 0 .. taken /\ taken \in Nat
    BY <2>1, FramesIs DEF TypeOK, Frames
  <2>3. ASSUME NEW n \in 1 .. Len(input) - taken, Read(n) PROVE (2 * Len(frames) <= Done)'
    <3>1. Done' = Done /\ frames' = frames
      <4>1. /\ input \in Seq(Bytes) /\ Len(input) \in Nat /\ taken \in 0 .. Len(input)
            /\ rbuf \in Seq(Bytes) /\ Len(rbuf) \in Nat /\ n \in Nat
        BY DEF TypeOK
      <4>2. /\ taken + 1 \in 1 .. Len(input) + 1 /\ taken + n \in (taken + 1) - 1 .. Len(input)
            /\ (taken + n) - (taken + 1) + 1 = n
        BY <4>1
      <4>3. /\ SubSeq(input, taken + 1, taken + n) \in Seq(Bytes)
            /\ Len(SubSeq(input, taken + 1, taken + n)) = n
        BY <4>1, <4>2, Part
      <4>4. Len(rbuf') = Len(rbuf) + n /\ taken' = taken + n /\ frames' = frames
        BY <2>3, <4>1, <4>3, Joined DEF Read
      <4> QED
        BY <4>1, <4>4 DEF Done
    <3> QED
      BY <2>2, <3>1
  <2>4. CASE ReadEof \/ UNCHANGED vars
    BY <2>2, <2>4 DEF ReadEof, vars, Done
  <2>5. CASE DecodeNext /\ Decode(rbuf).found
    <3>1. Done' >= Done + 2 /\ Done' \in Nat
      BY <2>1, <2>5, ResultEats, DecodeAdvances
    <3>2. Len(frames') = Len(frames) + 1
      <4>1. PICK f : frames' = Append(frames, f)
        BY <2>5 DEF DecodeNext
      <4> QED
        BY <2>2, <4>1
    <3> QED
      BY <2>2, <3>1, <3>2
  <2>6. CASE DecodeNext /\ ~Decode(rbuf).found
    <3>1. Done' \in Done .. taken /\ frames' = frames
      BY <2>6, DecodeAdvances DEF DecodeNext
    <3> QED
      BY <2>2, <3>1
  <2> QED
    BY <2>3, <2>4, <2>5, <2>6 DEF Next
<1>3. TypeOK /\ Eaten => (Sound(input) => 2 * Len(frames) <= Len(Consumed))
  BY FramesIs
<1> HIDE DEF Eaten
<1> QED
  BY <1>1, <1>2, <1>3, BoundaryTypes, Reading, PTL DEF Spec

\* As the provers have no ENABLED, each Can... is the guard of the action after its name.
CanRead == reader = "open" /\ ~readable /\ taken < Len(input)
CanReadEof == reader = "open" /\ ~readable /\ taken = Len(input)
CanDecodeNext == reader = "open" /\ readable /\ Len(frames) < MaxFrames

\* The reader of a sound text has a step until it ends, if only MaxFrames is no less than
\* the values that fit into the text.
THEOREM ReaderHasAStep ==
  Spec => [](Sound(input) /\ Len(input) < 2 * MaxFrames /\ reader = "open"
             => CanRead \/ CanReadEof \/ CanDecodeNext)
<1>1. TypeOK /\ (Sound(input) => 2 * Len(frames) <= Len(Consumed))
        => (Sound(input) /\ Len(input) < 2 * MaxFrames /\ reader = "open"
            => CanRead \/ CanReadEof \/ CanDecodeNext)
  <2> SUFFICES ASSUME TypeOK, 2 * Len(frames) <= Len(Consumed), Len(input) < 2 * MaxFrames,
                      reader = "open"
               PROVE  CanRead \/ CanReadEof \/ CanDecodeNext
    OBVIOUS
  <2>1. /\ Len(Consumed) \in 0 .. taken /\ taken \in 0 .. Len(input) /\ Len(input) \in Nat
        /\ Len(frames) \in Nat /\ MaxFrames \in Nat
    BY FramesIs, BoundaryAssumption DEF TypeOK, BoundaryAssumption
  <2>2. Len(frames) < MaxFrames
    BY <2>1
  <2> QED
    BY <2>1, <2>2 DEF CanRead, CanReadEof, CanDecodeNext
<1> QED
  BY <1>1, BoundaryTypes, SoundResultsEat, PTL

\* An upper bound of the steps left to the reader: a byte is read, is decoded and is taken
\* with its value, the end is read and decoded, and then the reader ends.
ToDo ==
  3 * (Len(input) - taken) + Len(rbuf) + (IF eof THEN 0 ELSE 2)
    + (IF readable THEN 1 ELSE 0) + (IF reader = "open" THEN 1 ELSE 0)

\* The end of the input is looked at once it is read, and stays to be.
EofIsSeen == eof => readable

\* So it is done after that many steps at most, however the text was cut into chunks.
THEOREM ReaderComesCloser ==
  Spec => [](ToDo \in Nat) /\ [][Sound(input) => ToDo' < ToDo]_vars
<1>1. Init => EofIsSeen
  BY DEF Init, EofIsSeen
<1>2. EofIsSeen /\ [Next]_vars => EofIsSeen'
  BY DEF EofIsSeen, Next, Read, ReadEof, DecodeNext, vars
<1>3. TypeOK => ToDo \in Nat
  <2> SUFFICES ASSUME TypeOK PROVE ToDo \in Nat
    OBVIOUS
  <2>1. Len(input) - taken \in Nat /\ Len(rbuf) \in Nat
    BY DEF TypeOK
  <2> QED
    BY <2>1 DEF ToDo
<1>4. TypeOK /\ TypeOK' /\ ReadingInv /\ EofIsSeen /\ [Next]_vars
        => [Sound(input) => ToDo' < ToDo]_vars
  <2> SUFFICES ASSUME TypeOK, TypeOK', ReadingInv, EofIsSeen, Next, Sound(input)
               PROVE  ToDo' < ToDo
    OBVIOUS
  <2>1. /\ input \in Seq(Bytes) /\ Len(input) \in Nat /\ taken \in 0 .. Len(input)
        /\ rbuf \in Seq(Bytes) /\ Len(rbuf) \in Nat /\ Len(rbuf') \in Nat
        /\ readable \in BOOLEAN /\ eof \in BOOLEAN
    BY DEF TypeOK
  <2>2. ASSUME NEW n \in 1 .. Len(input) - taken, Read(n) PROVE ToDo' < ToDo
    <3>1. Len(rbuf') = Len(rbuf) + n /\ n \in Nat
      <4>1. /\ n \in Nat /\ taken + 1 \in 1 .. Len(input) + 1
            /\ taken + n \in (taken + 1) - 1 .. Len(input) /\ (taken + n) - (taken + 1) + 1 = n
        BY <2>1
      <4>2. /\ SubSeq(input, taken + 1, taken + n) \in Seq(Bytes)
            /\ Len(SubSeq(input, taken + 1, taken + n)) = n
        BY <2>1, <4>1, Part
      <4> QED
        BY <2>1, <2>2, <4>1, <4>2, Joined DEF Read
    <3>2. /\ UNCHANGED <<input, eof, reader>> /\ taken' = taken + n
          /\ readable' /\ ~readable
      BY <2>2 DEF Read
    <3> QED
      BY <2>1, <3>1, <3>2 DEF ToDo
  <2>3. CASE ReadEof
    <3>1. UNCHANGED <<input, taken, rbuf, reader>> /\ eof' /\ ~eof /\ readable' /\ ~readable
      BY <2>3 DEF ReadEof, EofIsSeen
    <3> QED
      BY <2>1, <3>1 DEF ToDo
  <2>4. CASE DecodeNext
    <3>1. UNCHANGED <<input, taken, eof>> /\ readable /\ reader = "open"
      BY <2>4 DEF DecodeNext
    <3> PICK d, e, b, c : d = Done /\ e = Done' /\ b = Len(rbuf) /\ c = Len(rbuf')
      OBVIOUS
    <3>2. /\ b \in Nat /\ c \in Nat /\ e - d = b - c /\ c <= b
      <4>1. taken \in Nat /\ b \in Nat /\ c \in Nat
        BY <2>1
      <4>2. d = taken - b
        BY DEF Done
      <4>3. e \in d .. taken /\ taken - c = e
        BY <2>4, DecodeAdvances
      <4> QED
        BY <4>1, <4>2, <4>3
    <3>3. CASE Decode(rbuf).found
      <4>1. UNCHANGED <<readable, reader>>
        BY <2>4, <3>3 DEF DecodeNext
      <4>2. e >= d + 2
        BY <2>4, <3>3, ResultEats
      <4>3. d \in Int /\ e \in Int
        BY <2>1, <3>2 DEF Done
      <4>4. c < b
        BY <3>2, <4>2, <4>3
      <4> QED
        BY <2>1, <3>1, <4>1, <4>4 DEF ToDo
    <3>4. CASE ~Decode(rbuf).found
      <4>1. readable' = eof /\ (eof => reader' # "open") /\ (~eof => reader' = "open")
        BY <2>4, <3>4 DEF DecodeNext
      <4> QED
        BY <2>1, <3>1, <3>2, <4>1 DEF ToDo
    <3> QED
      BY <3>3, <3>4
  <2> QED
    BY <2>2, <2>3, <2>4 DEF Next
<1> QED
  BY <1>1, <1>2, <1>3, <1>4, BoundaryTypes, Reading, PTL DEF Spec
=============================================================================
