----------------------------- MODULE TinyProofs -----------------------------
(***************************************************************************)
(* Proofs about Tiny.tla and the Rio.tla below it, for any requests and    *)
(* any sizes of the buffers.                                               *)
(***************************************************************************)
EXTENDS Tiny, SequenceTheorems, TLAPS

Spots == {"boot", "accept", "request", "headers", "write", "wait", "close", "dead"}
PeerSpots == {"idle", "connect", "send", "read", "eof"}

Rios == [cnt : Int, bufptr : Int, buf : [1..RIO_BUFSIZE -> Int]]

\* the unread bytes are inside the buffer
RioOK(rp) == rp.cnt > 0 => rp.bufptr >= 1 /\ rp.bufptr + rp.cnt <= RIO_BUFSIZE + 1

RioTypes == rio \in [Ends -> Rios] /\ \A x \in Ends : RioOK(rio[x])
StreamTypes == in \in [Ends -> Seq(Int)] /\ open \in [Ends -> BOOLEAN] /\ reset \in [Ends -> BOOLEAN]
ServerTypes ==
  /\ spc \in Spots /\ line \in Seq(Int) /\ out \in Seq(Seq(Int)) /\ Len(out) <= 4
  /\ child \in {"none", "running", "exited"} /\ cgiout \in Seq(Int)
PeerTypes ==
  /\ ppc \in PeerSpots /\ request \in Requests
  /\ pout \in Seq(Int) /\ chunk \in Seq(Int) /\ relayed \in Seq(Int)
CountTypes == tries \in [Ends -> Nat] /\ fds \in [Ends -> Int]
TypeOK == RioTypes /\ StreamTypes /\ ServerTypes /\ PeerTypes /\ CountTypes

----------------------------------------------------------------------------
(* Sequences                                                               *)

LEMMA Others == Other("tiny") = "peer" /\ Other("peer") = "tiny" /\ Ends = {"tiny", "peer"}
<1>1. \A x \in {"tiny", "peer"} : Other(x) \in {"tiny", "peer"} /\ Other(x) # x
  <2> SUFFICES ASSUME NEW x \in {"tiny", "peer"}
               PROVE  Other(x) \in {"tiny", "peer"} /\ Other(x) # x
    OBVIOUS
  <2>1. \E y \in Ends : y # x
    BY DEF Ends
  <2> QED
    BY <2>1 DEF Other, Ends
<1> QED
  BY <1>1 DEF Ends

LEMMA SplitAt ==
  ASSUME NEW s \in Seq(Int), NEW k \in 0..Len(s)
  PROVE  /\ SubSeq(s, 1, k) \in Seq(Int) /\ Len(SubSeq(s, 1, k)) = k
         /\ Rest(s, k) \in Seq(Int) /\ Len(Rest(s, k)) = Len(s) - k
         /\ SubSeq(s, 1, k) \o Rest(s, k) = s
         /\ \A i \in 1..k : SubSeq(s, 1, k)[i] = s[i]
         /\ k = Len(s) => Rest(s, k) = <<>>
<1>1. /\ Len(s) \in Nat
      /\ \A i \in 1..Len(s) : s[i] \in Int
  BY LenProperties
<1>2. /\ SubSeq(s, 1, k) \in Seq(Int) /\ Len(SubSeq(s, 1, k)) = k
      /\ \A i \in 1..k : SubSeq(s, 1, k)[i] = s[i]
  BY <1>1, SubSeqProperties
<1>3. /\ Rest(s, k) \in Seq(Int) /\ Len(Rest(s, k)) = Len(s) - k
      /\ \A i \in 1..(Len(s) - k) : Rest(s, k)[i] = s[k + i]
  BY <1>1, SubSeqProperties DEF Rest
<1> DEFINE A == SubSeq(s, 1, k)
           B == Rest(s, k)
<1>4. A \o B = s
  <2> HIDE DEF A, B
  <2>1. /\ A \o B \in Seq(Int)
        /\ Len(A \o B) = Len(A) + Len(B)
        /\ \A i \in 1..(Len(A) + Len(B)) : (A \o B)[i] = IF i <= Len(A) THEN A[i] ELSE B[i - Len(A)]
    BY <1>2, <1>3, ConcatProperties DEF A, B
  <2>2. Len(A \o B) = Len(s)
    BY <1>1, <1>2, <1>3, <2>1 DEF A, B
  <2>3. ASSUME NEW i \in 1..Len(s) PROVE (A \o B)[i] = s[i]
    <3>1. CASE i <= k
      <4>1. i \in 1..k
        BY <1>1, <3>1
      <4>2. A[i] = s[i]
        BY <1>2, <4>1 DEF A
      <4>3. (A \o B)[i] = A[i]
        BY <1>1, <1>2, <1>3, <2>1, <3>1 DEF A, B
      <4> QED
        BY <4>2, <4>3
    <3>2. CASE i > k
      <4>1. i - k \in 1..(Len(s) - k) /\ k + (i - k) = i
        BY <1>1, <3>2
      <4>2. B[i - k] = s[i]
        BY <1>3, <4>1 DEF B
      <4>3. (A \o B)[i] = B[i - k]
        BY <1>1, <1>2, <1>3, <2>1, <3>2, SMTT(30) DEF A, B
      <4> QED
        BY <4>2, <4>3
    <3>3. i <= k \/ i > k
      BY <1>1
    <3> QED
      BY <3>1, <3>2, <3>3
  <2> QED
    BY <2>1, <2>2, <2>3, SeqEqual
<1>5. k = Len(s) => Rest(s, k) = <<>>
  <2>1. Rest(s, k) # <<>> => Len(Rest(s, k)) \in Nat \ {0}
    BY <1>3, EmptySeq
  <2> QED
    BY <1>1, <1>3, <2>1
<1> QED
  BY <1>2, <1>3, <1>4, <1>5

LEMMA MinOfTwo ==
  ASSUME NEW a \in Int, NEW b \in Int
  PROVE  Min({a, b}) = IF a <= b THEN a ELSE b
<1>1. \E x \in {a, b} : \A y \in {a, b} : x <= y
  OBVIOUS
<1>2. Min({a, b}) \in {a, b} /\ \A y \in {a, b} : Min({a, b}) <= y
  BY <1>1 DEF Min
<1> QED
  BY <1>2

LEMMA Assoc ==
  ASSUME NEW a \in Seq(Int), NEW b \in Seq(Int), NEW c \in Seq(Int)
  PROVE  (a \o b) \o c = a \o (b \o c)
BY ConcatAssociative, SMTT(40)

LEMMA SameMiddle ==
  ASSUME NEW a \in Seq(Int), NEW b \in Seq(Int), NEW c \in Seq(Int),
         NEW d \in Seq(Int), NEW e \in Seq(Int), b \o c = d \o e
  PROVE  a \o b \o c = a \o d \o e
<1>1. a \o b \o c = a \o (b \o c)
  BY Assoc, ZenonT(40)
<1>2. a \o d \o e = a \o (d \o e)
  BY Assoc, ZenonT(40)
<1> QED
  BY <1>1, <1>2

LEMMA NoPrefix == \A s \in Seq(Int) : s \o <<>> = s /\ <<>> \o s = s
BY ConcatEmptySeq

\* read() has put data at the start of the buffer
LEMMA UnreadFilled ==
  ASSUME NEW rp \in Rios, NEW data \in Seq(Int), Len(data) \in 1..RIO_BUFSIZE
  PROVE  /\ Filled(rp, data) \in Rios /\ RioOK(Filled(rp, data))
         /\ Unread(Filled(rp, data)) = data
<1> DEFINE F == Filled(rp, data)
<1>1. /\ F.cnt = Len(data) /\ F.bufptr = 1
      /\ F.buf = [i \in 1..RIO_BUFSIZE |-> IF i <= Len(data) THEN data[i] ELSE rp.buf[i]]
  BY DEF Filled, Rios
<1>2. \A i \in 1..Len(data) : data[i] \in Int
  BY LenProperties
<1>3. F \in Rios
  <2>1. F.buf \in [1..RIO_BUFSIZE -> Int]
    BY <1>1, <1>2, RioAssumption DEF Rios, RioAssumption
  <2> QED
    BY <1>1, <2>1 DEF Rios, Filled
<1>4. RioOK(F)
  BY <1>1, RioAssumption DEF RioOK, RioAssumption
<1> HIDE DEF F
<1>5. Copyable(F, F.cnt) = Len(data)
  BY <1>1, MinOfTwo, SMTT(30) DEF Copyable
<1>6. Unread(F) = SubSeq(F.buf, 1, Len(data))
  BY <1>1, <1>5 DEF Unread, Copied
<1>7. \A i \in 1..Len(data) : F.buf[i] = data[i]
  BY <1>1, RioAssumption DEF RioAssumption
<1>8. /\ SubSeq(F.buf, 1, Len(data)) \in Seq(Int)
      /\ Len(SubSeq(F.buf, 1, Len(data))) = Len(data)
      /\ \A i \in 1..Len(data) : SubSeq(F.buf, 1, Len(data))[i] = F.buf[1 + i - 1]
  <2>1. \A i \in 1..Len(data) : F.buf[i] \in Int
    BY <1>2, <1>7
  <2> QED
    BY <2>1, SubSeqProperties
<1>9. \A i \in 1..Len(data) : SubSeq(F.buf, 1, Len(data))[i] = data[i]
  BY <1>7, <1>8
<1>10. SubSeq(F.buf, 1, Len(data)) = data
  BY <1>8, <1>9, SeqEqual
<1> QED
  BY <1>3, <1>4, <1>6, <1>10 DEF F

LEMMA UnreadTyped ==
  ASSUME NEW rp \in Rios, RioOK(rp)
  PROVE  /\ Unread(rp) \in Seq(Int)
         /\ rp.cnt <= 0 => Unread(rp) = <<>>
         /\ rp.cnt > 0 => Unread(rp) = SubSeq(rp.buf, rp.bufptr, rp.bufptr + rp.cnt - 1)
<1>1. rp.cnt \in Int /\ rp.bufptr \in Int /\ rp.buf \in [1..RIO_BUFSIZE -> Int] /\ RIO_BUFSIZE \in Nat
  BY RioAssumption DEF Rios, RioAssumption
<1>2. CASE rp.cnt <= 0
  <2>1. Unread(rp) = <<>>
    BY <1>2 DEF Unread
  <2>2. <<>> \in Seq(Int)
    BY EmptySeq
  <2> QED
    BY <1>1, <1>2, <2>1, <2>2
<1>3. CASE rp.cnt > 0
  <2>1. Copyable(rp, rp.cnt) = rp.cnt
    BY <1>1, MinOfTwo DEF Copyable
  <2>2. Unread(rp) = SubSeq(rp.buf, rp.bufptr, rp.bufptr + rp.cnt - 1)
    <3>1. ~(rp.cnt <= 0)
      BY <1>1, <1>3
    <3> QED
      BY <2>1, <3>1 DEF Unread, Copied
  <2>3. \A i \in rp.bufptr..(rp.bufptr + rp.cnt - 1) : rp.buf[i] \in Int
    BY <1>1, <1>3 DEF RioOK
  <2>4. Unread(rp) \in Seq(Int)
    BY <1>1, <2>2, <2>3, SubSeqProperties
  <2> QED
    BY <1>1, <1>3, <2>2, <2>4
<1> QED
  BY <1>1, <1>2, <1>3

\* rio_read() copies the start of what is unread and leaves the rest
LEMMA UnreadAdvanced ==
  ASSUME NEW rp \in Rios, RioOK(rp), rp.cnt > 0, NEW n \in Nat \ {0}
  PROVE  /\ Advanced(rp, n) \in Rios /\ RioOK(Advanced(rp, n))
         /\ Copied(rp, n) \in Seq(Int) /\ Copied(rp, n) # <<>> /\ Len(Copied(rp, n)) <= n
         /\ Copied(rp, n) \o Unread(Advanced(rp, n)) = Unread(rp)
         /\ n = 1 => Copied(rp, n) = <<rp.buf[rp.bufptr]>> /\ rp.buf[rp.bufptr] \in Int
<1>1. rp.cnt \in Int /\ rp.bufptr \in Int /\ rp.buf \in [1..RIO_BUFSIZE -> Int] /\ RIO_BUFSIZE \in Nat
  BY RioAssumption DEF Rios, RioAssumption
<1> DEFINE k == Copyable(rp, n)
           b == rp.bufptr
           A == Advanced(rp, n)
<1>2. k = IF n <= rp.cnt THEN n ELSE rp.cnt
  BY <1>1, MinOfTwo DEF Copyable
<1>3. k \in Int /\ 1 <= k /\ k <= n /\ k <= rp.cnt
  BY <1>1, <1>2
<1>4. A.bufptr = b + k /\ A.cnt = rp.cnt - k /\ A.buf = rp.buf /\ A \in Rios
  <2> HIDE DEF k
  <2>1. A = [rp EXCEPT !.bufptr = @ + k, !.cnt = @ - k]
    BY DEF Advanced, k
  <2>2. A.bufptr = b + k /\ A.cnt = rp.cnt - k /\ A.buf = rp.buf
    BY <2>1 DEF Rios
  <2>3. A \in Rios
    <3>1. rp.bufptr + k \in Int /\ rp.cnt - k \in Int
      BY <1>1, <1>3
    <3> DEFINE f == rp.bufptr + k
               g == rp.cnt - k
    <3> HIDE DEF f, g
    <3>2. A = [rp EXCEPT !.bufptr = f, !.cnt = g]
      BY <2>1 DEF f, g
    <3>3. f \in Int /\ g \in Int
      BY <3>1 DEF f, g
    <3> HIDE DEF A
    <3> QED
      BY <3>2, <3>3 DEF Rios
  <2> QED
    BY <2>2, <2>3
<1>5. b \in Int /\ 1 <= b /\ b + rp.cnt <= RIO_BUFSIZE + 1
  BY <1>1 DEF RioOK
<1>6. Copied(rp, n) = SubSeq(rp.buf, b, b + k - 1)
  BY DEF Copied
<1> HIDE DEF k, b, A
<1>7. RioOK(A)
  BY <1>1, <1>3, <1>4, <1>5 DEF RioOK
<1>8. rp.buf \in Seq(Int) /\ Len(rp.buf) = RIO_BUFSIZE
  <2>1. rp.buf \in Seq(Int)
    BY <1>1, SeqDef
  <2>2. Len(rp.buf) \in Nat /\ DOMAIN rp.buf = 1..Len(rp.buf) /\ DOMAIN rp.buf = 1..RIO_BUFSIZE
    BY <1>1, <2>1, LenProperties
  <2> QED
    BY <1>1, <2>1, <2>2
<1>9. /\ Copied(rp, n) \in Seq(Int) /\ Len(Copied(rp, n)) = k
      /\ \A i \in 1..k : Copied(rp, n)[i] = rp.buf[b + i - 1]
  <2>1. \A i \in b..(b + k - 1) : rp.buf[i] \in Int
    BY <1>1, <1>3, <1>5
  <2>2. b + k - 1 \in Int /\ b <= b + k - 1 /\ (b + k - 1) - b + 1 = k
    BY <1>3, <1>5
  <2> QED
    BY <1>5, <1>6, <2>1, <2>2, SubSeqProperties
<1>10. Unread(rp) = SubSeq(rp.buf, b, b + rp.cnt - 1)
  BY UnreadTyped DEF b
<1>11. Unread(A) = SubSeq(rp.buf, b + k, b + rp.cnt - 1)
  <2>1. CASE A.cnt > 0
    <3>1. Unread(A) = SubSeq(A.buf, A.bufptr, A.bufptr + A.cnt - 1)
      BY <1>4, <1>7, <2>1, UnreadTyped
    <3>2. A.bufptr + A.cnt - 1 = b + rp.cnt - 1
      BY <1>1, <1>3, <1>4, <1>5
    <3> QED
      BY <1>4, <3>1, <3>2
  <2>2. CASE A.cnt <= 0
    <3>1. b + rp.cnt - 1 < b + k
      BY <1>1, <1>3, <1>4, <1>5, <2>2
    <3>2. SubSeq(rp.buf, b + k, b + rp.cnt - 1) = <<>>
      BY <1>1, <1>3, <1>5, <3>1, SubSeqEmpty
    <3>3. Unread(A) = <<>>
      BY <1>4, <1>7, <2>2, UnreadTyped
    <3> QED
      BY <3>2, <3>3
  <2>3. A.cnt \in Int
    BY <1>4 DEF Rios
  <2> QED
    BY <2>1, <2>2, <2>3
<1>12. Copied(rp, n) \o Unread(A) = Unread(rp)
  <2> DEFINE e == b + k - 1
  <2>1. e + 1 = b + k
    BY <1>3, <1>5
  <2>2. b \in 1..(Len(rp.buf) + 1) /\ e \in (b - 1)..Len(rp.buf) /\ b + rp.cnt - 1 \in e..Len(rp.buf)
    <3>1. b \in 1..(RIO_BUFSIZE + 1)
      BY <1>1, <1>3, <1>5
    <3>2. e \in (b - 1)..RIO_BUFSIZE
      BY <1>1, <1>3, <1>5
    <3>3. b + rp.cnt - 1 \in e..RIO_BUFSIZE
      BY <1>1, <1>3, <1>5, SMTT(30)
    <3> QED
      BY <1>8, <3>1, <3>2, <3>3
  <2> HIDE DEF e
  <2>3. SubSeq(rp.buf, b, e) \o SubSeq(rp.buf, e + 1, b + rp.cnt - 1) = SubSeq(rp.buf, b, b + rp.cnt - 1)
    BY <1>8, <2>2, ConcatAdjacentSubSeq
  <2>4. Copied(rp, n) = SubSeq(rp.buf, b, e)
    BY <1>6 DEF e
  <2> QED
    BY <1>10, <1>11, <2>1, <2>3, <2>4
<1>13. ASSUME n = 1 PROVE Copied(rp, n) = <<rp.buf[b]>> /\ rp.buf[b] \in Int
  <2>1. k = 1 /\ b + 1 - 1 = b /\ rp.buf[b] \in Int
    BY <1>1, <1>3, <1>5, <1>13
  <2>2. Copied(rp, n)[1] = rp.buf[b]
    BY <1>9, <2>1
  <2>3. Copied(rp, n) \in Seq(Int) /\ Len(Copied(rp, n)) = 1
    BY <1>9, <2>1
  <2>4. <<rp.buf[b]>> \in Seq(Int) /\ Len(<<rp.buf[b]>>) = 1 /\ <<rp.buf[b]>>[1] = rp.buf[b]
    BY <2>1
  <2>5. \A i \in 1..1 : Copied(rp, n)[i] = <<rp.buf[b]>>[i]
    BY <2>2, <2>4
  <2> QED
    BY <2>1, <2>3, <2>4, <2>5, SeqEqual
<1>14. Copied(rp, n) # <<>>
  BY <1>3, <1>9, EmptySeq
<1> QED
  BY <1>3, <1>4, <1>7, <1>9, <1>12, <1>13, <1>14 DEF A, b

LEMMA JoinedTyped ==
  ASSUME NEW q \in Seq(Seq(Int))
  PROVE  (\A k \in 1..4 : Piece(q, k) \in Seq(Int)) /\ Joined(q) \in Seq(Int)
<1>1. \A k \in DOMAIN q : q[k] \in Seq(Int)
  BY LenProperties
<1>2. <<>> \in Seq(Int)
  BY EmptySeq
<1>3. \A k \in 1..4 : Piece(q, k) \in Seq(Int)
  BY <1>1, <1>2 DEF Piece
<1>4. Piece(q, 1) \in Seq(Int) /\ Piece(q, 2) \in Seq(Int) /\ Piece(q, 3) \in Seq(Int) /\ Piece(q, 4) \in Seq(Int)
  BY <1>3
<1>5. Piece(q, 3) \o Piece(q, 4) \in Seq(Int)
  BY <1>4, ConcatProperties
<1>6. Piece(q, 2) \o (Piece(q, 3) \o Piece(q, 4)) \in Seq(Int)
  BY <1>4, <1>5, ConcatProperties
<1>7. Joined(q) \in Seq(Int)
  BY <1>4, <1>6, ConcatProperties DEF Joined
<1> QED
  BY <1>3, <1>7

\* what a write() takes is the start of what was to be written
LEMMA JoinedWrote ==
  ASSUME NEW q \in Seq(Seq(Int)), Len(q) <= 4, q # <<>>, NEW k \in 1..Len(Head(q))
  PROVE  /\ Wrote(q, k) \in Seq(Seq(Int)) /\ Len(Wrote(q, k)) <= 4
         /\ Head(q) \in Seq(Int) /\ SubSeq(Head(q), 1, k) \in Seq(Int)
         /\ SubSeq(Head(q), 1, k) \o Joined(Wrote(q, k)) = Joined(q)
<1> DEFINE h == Head(q)
           T == Tail(q)
           W == Wrote(q, k)
           X == Piece(q, 2) \o (Piece(q, 3) \o Piece(q, 4))
<1>1. /\ Len(q) \in 1..4 /\ DOMAIN q = 1..Len(q)
      /\ h \in Seq(Int) /\ h = q[1]
      /\ T \in Seq(Seq(Int)) /\ Len(T) = Len(q) - 1
      /\ \A i \in 1..(Len(q) - 1) : T[i] = q[i + 1]
  <2>1. Len(q) \in Nat \ {0} /\ DOMAIN q = 1..Len(q)
    BY EmptySeq, LenProperties
  <2>2. h \in Seq(Int) /\ T \in Seq(Seq(Int)) /\ Len(T) = Len(q) - 1
    BY HeadTailProperties
  <2>3. \A i \in 1..Len(T) : T[i] = q[i + 1]
    BY HeadTailProperties
  <2>4. h = q[1]
    OBVIOUS
  <2>5. Len(q) \in 1..4
    <3> DEFINE n == Len(q)
    <3>1. n \in Nat /\ n # 0 /\ n <= 4
      BY <2>1
    <3> HIDE DEF n
    <3>2. n \in 1..4
      BY <3>1
    <3> QED
      BY <3>2 DEF n
  <2>6. \A i \in 1..(Len(q) - 1) : T[i] = q[i + 1]
    BY <2>2, <2>3
  <2> HIDE DEF h, T
  <2> QED
    BY <2>1, <2>2, <2>4, <2>5, <2>6
<1>2. DOMAIN T = 1..(Len(q) - 1)
  <2>1. DOMAIN T = 1..Len(T)
    BY <1>1, LenProperties
  <2> QED
    BY <1>1, <2>1
<1>3. Piece(q, 1) = h
  BY <1>1 DEF Piece
<1>4. /\ Piece(q, 2) \in Seq(Int) /\ Piece(q, 3) \in Seq(Int) /\ Piece(q, 4) \in Seq(Int)
      /\ Piece(q, 3) \o Piece(q, 4) \in Seq(Int)
      /\ X \in Seq(Int)
  <2>1. Piece(q, 2) \in Seq(Int) /\ Piece(q, 3) \in Seq(Int) /\ Piece(q, 4) \in Seq(Int)
    BY JoinedTyped
  <2>2. Piece(q, 3) \o Piece(q, 4) \in Seq(Int)
    BY <2>1, ConcatProperties
  <2>3. X \in Seq(Int)
    BY <2>1, <2>2, ConcatProperties
  <2> QED
    BY <2>1, <2>2, <2>3
<1>5. Joined(q) = h \o X
  BY <1>3 DEF Joined
<1>6. Len(h) \in Nat /\ k \in 0..Len(h)
  BY <1>1, LenProperties
<1>7. /\ SubSeq(h, 1, k) \in Seq(Int)
      /\ Rest(h, k) \in Seq(Int)
      /\ SubSeq(h, 1, k) \o Rest(h, k) = h
      /\ k = Len(h) => Rest(h, k) = <<>>
  BY <1>1, <1>6, SplitAt
<1>8. CASE k = Len(h)
  <2>1. W = T
    BY <1>8 DEF Wrote
  <2>2. /\ Piece(T, 1) = Piece(q, 2) /\ Piece(T, 2) = Piece(q, 3)
        /\ Piece(T, 3) = Piece(q, 4) /\ Piece(T, 4) = <<>>
    <3> HIDE DEF T, h
    <3>1. \A i \in 1..3 : (i \in DOMAIN T <=> i + 1 \in DOMAIN q) /\ (i \in DOMAIN T => T[i] = q[i + 1])
      BY <1>1, <1>2
    <3>2. 4 \notin DOMAIN T
      BY <1>1, <1>2
    <3>3. \A i \in 1..3 : Piece(T, i) = Piece(q, i + 1)
      BY <3>1 DEF Piece
    <3>4. Piece(T, 1) = Piece(q, 1 + 1) /\ Piece(T, 2) = Piece(q, 2 + 1) /\ Piece(T, 3) = Piece(q, 3 + 1)
      BY <3>3
    <3> QED
      BY <3>2, <3>4 DEF Piece
  <2>3. Joined(T) = X
    <3>1. Piece(q, 4) \o <<>> = Piece(q, 4)
      BY <1>4, NoPrefix
    <3> QED
      BY <2>2, <3>1 DEF Joined
  <2>4. SubSeq(h, 1, k) = h
    BY <1>7, <1>8, NoPrefix
  <2>5. W \in Seq(Seq(Int)) /\ Len(W) <= 4
    BY <1>1, <2>1
  <2>6. SubSeq(h, 1, k) \o Joined(W) = Joined(q)
    BY <1>5, <2>1, <2>3, <2>4
  <2> QED
    BY <1>1, <1>7, <2>5, <2>6
<1>9. CASE k # Len(h)
  <2> DEFINE R == Rest(h, k)
  <2> HIDE DEF T, h, R
  <2>1. W = <<R>> \o T
    BY <1>9 DEF Wrote, T, h, R
  <2>2. <<R>> \in Seq(Seq(Int)) /\ Len(<<R>>) = 1 /\ <<R>>[1] = R
    BY <1>7 DEF R
  <2> HIDE DEF W
  <2>3. /\ W \in Seq(Seq(Int)) /\ Len(W) = Len(q)
        /\ \A i \in 1..Len(q) : W[i] = IF i <= 1 THEN <<R>>[i] ELSE T[i - 1]
    <3>1. /\ <<R>> \o T \in Seq(Seq(Int))
          /\ Len(<<R>> \o T) = Len(<<R>>) + Len(T)
          /\ \A i \in 1..(Len(<<R>>) + Len(T)) :
               (<<R>> \o T)[i] = IF i <= Len(<<R>>) THEN <<R>>[i] ELSE T[i - Len(<<R>>)]
      BY <1>1, <2>2, ConcatProperties
    <3>2. Len(<<R>>) + Len(T) = Len(q)
      BY <1>1, <2>2
    <3> QED
      BY <2>1, <2>2, <3>1, <3>2
  <2>4. DOMAIN W = 1..Len(q)
    BY <2>3, LenProperties
  <2>5. Piece(W, 1) = R
    BY <1>1, <2>2, <2>3, <2>4 DEF Piece
  <2>6. \A i \in 2..4 : Piece(W, i) = Piece(q, i)
    <3>1. \A i \in 2..Len(q) : i - 1 \in 1..(Len(q) - 1) /\ (i - 1) + 1 = i /\ ~(i <= 1) /\ i \in 1..Len(q)
      BY <1>1
    <3>2. \A i \in 2..Len(q) : W[i] = q[i]
      BY <1>1, <2>3, <3>1
    <3>3. \A i \in 2..4 : i \in 1..Len(q) => i \in 2..Len(q)
      BY <1>1
    <3> QED
      BY <1>1, <2>4, <3>2, <3>3 DEF Piece
  <2>7. Joined(W) = R \o X
    <3>1. Piece(W, 2) = Piece(q, 2) /\ Piece(W, 3) = Piece(q, 3) /\ Piece(W, 4) = Piece(q, 4)
      BY <2>6
    <3> QED
      BY <2>5, <3>1 DEF Joined
  <2>8. SubSeq(h, 1, k) \o (R \o X) = (SubSeq(h, 1, k) \o R) \o X
    <3> DEFINE Z == SubSeq(h, 1, k)
    <3>1. Z \in Seq(Int) /\ R \in Seq(Int) /\ X \in Seq(Int)
      BY <1>4, <1>7 DEF R
    <3> HIDE DEF X, Z
    <3>2. Z \o (R \o X) = (Z \o R) \o X
      BY <3>1, Assoc, ZenonT(40)
    <3> QED
      BY <3>2 DEF Z
  <2> HIDE DEF X
  <2>9. SubSeq(h, 1, k) \o Joined(W) = Joined(q)
    BY <1>5, <1>7, <2>7, <2>8 DEF R
  <2>10. Len(W) <= 4
    BY <1>1, <2>3
  <2> QED
    BY <1>1, <1>7, <2>3, <2>9, <2>10 DEF h, W
<1> QED
  BY <1>8, <1>9

LEMMA PiecesTyped ==
  ASSUME NEW reply
  PROVE  /\ Pieces(reply) \in Seq(Seq(Int)) /\ Len(Pieces(reply)) <= 4
         /\ Output(reply) \in Seq(Int) /\ Whole(reply) \in Seq(Int)
<1>1. Pieces(reply) \in Seq(Seq(Int)) /\ Len(Pieces(reply)) <= 4
  BY DEF Pieces
<1>2. Output(reply) \in Seq(Int)
  BY DEF Output
<1> QED
  BY <1>1, <1>2, JoinedTyped, ConcatProperties DEF Whole

LEMMA NothingJoined == Joined(<<>>) = <<>> /\ <<>> \in Seq(Seq(Int))
<1>1. <<>> \in Seq(Int) /\ <<>> \in Seq(Seq(Int))
  BY EmptySeq
<1>2. \A k \in 1..4 : Piece(<<>>, k) = <<>>
  BY DEF Piece
<1> QED
  BY <1>1, <1>2, NoPrefix DEF Joined

----------------------------------------------------------------------------
(* The system calls of one end                                             *)

LEMMA FreshRio == rio_readinitb \in Rios /\ RioOK(rio_readinitb) /\ Unread(rio_readinitb) = <<>>
BY DEF rio_readinitb, Rios, RioOK, Unread

\* what a process holds and what the kernel holds for it stay the same together
LEMMA RefillKeeps ==
  ASSUME RioTypes, StreamTypes, NEW x \in Ends, Refill(x)
  PROVE  /\ RioTypes' /\ StreamTypes'
         /\ Unread(rio'[x]) \o in'[x] = Unread(rio[x]) \o in[x]
         /\ \A y \in Ends \ {x} : rio'[y] = rio[y] /\ in'[y] = in[y]
         /\ UNCHANGED <<open, reset>>
<1>1. rio[x] \in Rios /\ rio[x].cnt <= 0 /\ in[x] \in Seq(Int)
  BY DEF RioTypes, StreamTypes, Refill
<1>2. Unread(rio[x]) = <<>>
  BY <1>1 DEF Unread
<1>3. <<>> \o in[x] = in[x]
  BY <1>1, NoPrefix
<1>4. CASE rio' = [rio EXCEPT ![x] = Interrupted(@)] /\ UNCHANGED net
  <2> DEFINE r == Interrupted(rio[x])
  <2>1. r \in Rios /\ r.cnt = -1
    BY <1>1 DEF Interrupted, Rios
  <2>2. RioOK(r) /\ Unread(r) = <<>>
    BY <2>1 DEF RioOK, Unread
  <2>3. rio' = [rio EXCEPT ![x] = r]
    BY <1>4
  <2> HIDE DEF r
  <2>4. RioTypes' /\ rio'[x] = r /\ \A y \in Ends \ {x} : rio'[y] = rio[y]
    BY <2>1, <2>2, <2>3 DEF RioTypes
  <2> QED
    BY <1>2, <1>4, <2>2, <2>4 DEF StreamTypes, net
<1>5. ASSUME NEW k \in 1..Min({RIO_BUFSIZE, Len(in[x])}),
             rio' = [rio EXCEPT ![x] = Filled(@, SubSeq(in[x], 1, k))],
             in' = [in EXCEPT ![x] = Rest(@, k)],
             UNCHANGED <<open, reset>>
      PROVE  /\ RioTypes' /\ StreamTypes'
             /\ Unread(rio'[x]) \o in'[x] = Unread(rio[x]) \o in[x]
             /\ \A y \in Ends \ {x} : rio'[y] = rio[y] /\ in'[y] = in[y]
  <2> DEFINE d == SubSeq(in[x], 1, k)
             r == Filled(rio[x], d)
             t == Rest(in[x], k)
  <2>1. Len(in[x]) \in Nat /\ RIO_BUFSIZE \in Nat
    BY <1>1, LenProperties, RioAssumption DEF RioAssumption
  <2>2. k \in 1..RIO_BUFSIZE /\ k \in 0..Len(in[x])
    BY <2>1, MinOfTwo
  <2>3. d \in Seq(Int) /\ Len(d) \in 1..RIO_BUFSIZE /\ t \in Seq(Int) /\ d \o t = in[x]
    BY <1>1, <2>2, SplitAt
  <2>4. rio' = [rio EXCEPT ![x] = r] /\ in' = [in EXCEPT ![x] = t]
    BY <1>5
  <2> HIDE DEF d, t
  <2>5. r \in Rios /\ RioOK(r) /\ Unread(r) = d
    BY <1>1, <2>3, UnreadFilled
  <2> HIDE DEF r
  <2>6. RioTypes' /\ rio'[x] = r /\ \A y \in Ends \ {x} : rio'[y] = rio[y]
    BY <2>4, <2>5 DEF RioTypes
  <2>7. StreamTypes' /\ in'[x] = t /\ \A y \in Ends \ {x} : in'[y] = in[y]
    BY <1>5, <2>3, <2>4 DEF StreamTypes
  <2> QED
    BY <1>2, <1>3, <2>3, <2>5, <2>6, <2>7
<1> QED
  <2>1. CASE rio' = [rio EXCEPT ![x] = Interrupted(@)] /\ UNCHANGED net
    BY <1>4, <2>1 DEF net
  <2>2. CASE ~(rio' = [rio EXCEPT ![x] = Interrupted(@)] /\ UNCHANGED net)
    BY <1>5, <2>2 DEF Refill
  <2> QED
    BY <2>1, <2>2

LEMMA PrefixTyped ==
  ASSUME NEW s \in Seq(Int), NEW p \in Prefixes(s)
  PROVE  p \in Seq(Int)
<1>1. PICK l \in 0..Len(s) : p = SubSeq(s, 1, l)
  BY DEF Prefixes
<1> QED
  BY <1>1, SplitAt

\* k bytes are on their way to the other end, or it is closed
LEMMA SentReaches ==
  ASSUME StreamTypes, NEW x \in Ends, NEW y \in Ends, y = Other(x), y # x,
         NEW s \in Seq(Int), NEW k \in 1..Len(s), Sent(x, s, k)
  PROVE  /\ StreamTypes' /\ open' = open /\ ~reset[x]
         /\ reset'[y] = reset[y]
         /\ open[y] => reset'[x] = reset[x] /\ in'[y] = in[y] \o SubSeq(s, 1, k) /\ in'[x] = in[x]
         /\ ~open[y] => reset'[x] = TRUE
<1>1. SubSeq(s, 1, k) \in Seq(Int)
  <2>1. k \in 0..Len(s)
    BY LenProperties
  <2> QED
    BY <2>1, SplitAt
<1>2. CASE open[y]
  <2> DEFINE t == in[y] \o SubSeq(s, 1, k)
  <2>1. t \in Seq(Int)
    BY <1>1, ConcatProperties DEF StreamTypes
  <2>2. in' = [in EXCEPT ![y] = t] /\ UNCHANGED <<open, reset>> /\ ~reset[x]
    BY <1>2 DEF Sent
  <2> HIDE DEF t
  <2>3. StreamTypes' /\ in'[y] = t /\ in'[x] = in[x]
    BY <2>1, <2>2 DEF StreamTypes
  <2> QED
    BY <1>2, <2>2, <2>3 DEF t
<1>3. CASE ~open[y]
  <2>1. /\ reset' = [reset EXCEPT ![x] = TRUE] /\ open' = open /\ ~reset[x]
        /\ \E p \in Prefixes(in[x]) : in' = [in EXCEPT ![x] = p]
    BY <1>3 DEF Sent
  <2>2. PICK p \in Prefixes(in[x]) : in' = [in EXCEPT ![x] = p]
    BY <2>1
  <2>3. p \in Seq(Int)
    BY PrefixTyped DEF StreamTypes
  <2> QED
    BY <1>3, <2>1, <2>2, <2>3 DEF StreamTypes
<1> QED
  BY <1>2, <1>3

\* an end closes: the other one loses nothing, or is reset
LEMMA Leaves ==
  ASSUME StreamTypes, NEW x \in Ends, NEW y \in Ends, y = Other(x), y # x,
         Shut(x) \/ Aborted(x)
  PROVE  /\ StreamTypes' /\ open' = [open EXCEPT ![x] = FALSE] /\ reset'[x] = reset[x]
         /\ \/ reset'[y] = TRUE
            \/ reset'[y] = reset[y] /\ in'[y] = in[y]
<1>1. open' = [open EXCEPT ![x] = FALSE]
  BY DEF Shut, Aborted
<1>2. CASE in' = [in EXCEPT ![x] = <<>>] /\ UNCHANGED reset
  <2>1. <<>> \in Seq(Int)
    BY EmptySeq
  <2> QED
    BY <1>1, <1>2, <2>1 DEF StreamTypes
<1>3. ASSUME NEW p \in Prefixes(in[y]), in' = [in EXCEPT ![y] = p, ![x] = <<>>],
             reset' = [reset EXCEPT ![y] = TRUE]
      PROVE  StreamTypes' /\ reset'[x] = reset[x] /\ reset'[y] = TRUE
  <2>1. <<>> \in Seq(Int) /\ p \in Seq(Int)
    BY EmptySeq, PrefixTyped DEF StreamTypes
  <2> QED
    BY <1>1, <1>3, <2>1 DEF StreamTypes
<1> QED
  BY <1>1, <1>2, <1>3 DEF Shut, Aborted

----------------------------------------------------------------------------
(* The connection and what each side holds of it.                          *)

(* A server that serves has its end open; a peer without a connection has  *)
(* passed on nothing; only a peer that has left resets the server.         *)
Connected ==
  /\ spc \in {"request", "headers", "write", "wait", "close"} => open["tiny"]
  /\ spc \in {"boot", "dead"} => ~open["tiny"]
  /\ ppc \in {"idle", "connect"} => ~open["peer"] /\ relayed = <<>> /\ chunk = <<>>
  /\ ppc \in {"send", "read"} => open["peer"]
  /\ ppc = "connect" => ~open["tiny"] /\ pout = Numbered(Len(request.text))
  /\ open["tiny"] /\ reset["tiny"] => ~open["peer"]

Held ==
  /\ spc = "wait" <=> child # "none"
  /\ child = "exited" => cgiout = <<>>
  /\ spc \in {"boot", "dead"} => fds["tiny"] = 0
  /\ spc = "accept" => fds["tiny"] = 1
  /\ spc \notin {"boot", "dead", "accept"} => fds["tiny"] = 2
  /\ ppc \in {"idle", "connect"} => fds["peer"] = 0
  /\ ppc \notin {"idle", "connect"} => fds["peer"] = 1

Shape == TypeOK /\ Connected /\ Held

LEMMA NoAddressesLeft ==
  ASSUME CountTypes, NEW x \in Ends, NextAddress(x)
  PROVE  CountTypes' /\ fds' = fds
<1>1. fds' = fds /\ tries[x] > 0 /\ tries' = [tries EXCEPT ![x] = @ - 1]
  BY DEF NextAddress, CloseFailed
<1>2. tries[x] - 1 \in Nat
  BY <1>1 DEF CountTypes
<1> QED
  BY <1>1, <1>2 DEF CountTypes

LEMMA LineTaken ==
  ASSUME ServerTypes, Reading, NEW l \in Seq(Int), TakeLine(l)
  PROVE  /\ ServerTypes' /\ line' = <<>> /\ UNCHANGED <<child, cgiout>>
         /\ spc' \in {"close", "write", "headers"}
         /\ spc' = "close" => l = <<>>
         /\ spc' = "write" => out' = Pieces(request.reply)
<1>1. line' = <<>> /\ UNCHANGED <<child, cgiout>>
  BY DEF TakeLine
<1>2. <<>> \in Seq(Int)
  BY EmptySeq
<1>3. /\ Pieces(request.reply) \in Seq(Seq(Int)) /\ Len(Pieces(request.reply)) <= 4
  BY PiecesTyped
<1>4. \/ spc' = "close" /\ l = <<>> /\ out' = out
      \/ spc' = "write" /\ out' = Pieces(request.reply)
      \/ spc' = "headers" /\ out' = out
  <2>0. ASSUME spc = "request"
        PROVE  /\ l = <<>> => spc' = "close" /\ out' = out
               /\ l # <<>> /\ request.reply = "501" => Respond
               /\ l # <<>> /\ request.reply # "501" => spc' = "headers" /\ out' = out
    BY <2>0 DEF TakeLine
  <2>1. CASE spc = "request"
    BY <2>0, <2>1 DEF Respond
  <2>4. CASE spc = "headers"
    <3>1. IF blank' THEN Respond ELSE UNCHANGED <<spc, out>>
      BY <2>4 DEF TakeLine
    <3>2. CASE blank'
      BY <3>1, <3>2 DEF Respond
    <3>3. CASE ~blank'
      BY <2>4, <3>1, <3>3
    <3> QED
      BY <3>2, <3>3
  <2> QED
    BY <2>1, <2>4 DEF Reading
<1>5. out' \in Seq(Seq(Int)) /\ Len(out') <= 4
  BY <1>3, <1>4 DEF ServerTypes
<1>6. spc' \in Spots
  BY <1>4 DEF Spots
<1> QED
  BY <1>1, <1>2, <1>4, <1>5, <1>6 DEF ServerTypes

LEMMA TakesACopy ==
  ASSUME TypeOK, ServerCopies
  PROVE  LET l == line \o Copied(rio["tiny"], 1) IN
         /\ l \in Seq(Int) /\ l # <<>>
         /\ IF EndsLine(l) THEN TakeLine(l) ELSE line' = l /\ UNCHANGED <<spc, blank, out, child, cgiout>>
         /\ rio' = [rio EXCEPT !["tiny"] = Advanced(rio["tiny"], 1)] /\ RioTypes'
         /\ l \o Unread(rio'["tiny"]) = line \o Unread(rio["tiny"])
         /\ UNCHANGED <<net, peer, tries, fds>>
<1> DEFINE c == Copied(rio["tiny"], 1)
           r == Advanced(rio["tiny"], 1)
<1>1. rio["tiny"] \in Rios /\ RioOK(rio["tiny"]) /\ rio["tiny"].cnt > 0 /\ line \in Seq(Int)
  BY Others DEF TypeOK, RioTypes, ServerTypes, ServerCopies
<1>2. /\ c \in Seq(Int) /\ c # <<>> /\ r \in Rios /\ RioOK(r)
      /\ c \o Unread(r) = Unread(rio["tiny"])
  BY <1>1, UnreadAdvanced
<1>3. rio' = [rio EXCEPT !["tiny"] = r]
  BY DEF ServerCopies
<1>4. Unread(r) \in Seq(Int)
  BY <1>2, UnreadTyped
<1> HIDE DEF c, r
<1>5. RioTypes' /\ rio'["tiny"] = r
  BY <1>2, <1>3, Others DEF TypeOK, RioTypes
<1>6. line \o c \in Seq(Int) /\ line \o c # <<>>
  <2>1. line \o c \in Seq(Int) /\ Len(line \o c) = Len(line) + Len(c)
    BY <1>1, <1>2, ConcatProperties
  <2>2. Len(c) \in Nat \ {0} /\ Len(line) \in Nat
    BY <1>1, <1>2, EmptySeq, LenProperties
  <2>3. Len(line \o c) # 0
    BY <2>1, <2>2
  <2> QED
    BY <2>1, <2>3
<1>7. (line \o c) \o Unread(r) = line \o Unread(rio["tiny"])
  <2> DEFINE u == Unread(r)
  <2>1. u \in Seq(Int)
    BY <1>4
  <2> HIDE DEF u
  <2>2. (line \o c) \o u = line \o (c \o u)
    BY <1>1, <1>2, <2>1, Assoc, ZenonT(40)
  <2> QED
    BY <1>2, <2>2 DEF u
<1> QED
  BY <1>3, <1>5, <1>6, <1>7 DEF ServerCopies, c, r

LEMMA NumberedTyped == \A n \in Nat : Numbered(n) \in Seq(Int) /\ Len(Numbered(n)) = n
<1> SUFFICES ASSUME NEW n \in Nat PROVE Numbered(n) \in Seq(Int) /\ Len(Numbered(n)) = n
  OBVIOUS
<1>1. \A i \in 1..n : i \in Int
  OBVIOUS
<1>2. Numbered(n) \in [1..n -> Int]
  BY <1>1 DEF Numbered
<1>3. Numbered(n) \in Seq(Int)
  BY <1>2, SeqDef
<1> QED
  BY <1>3 DEF Numbered

LEMMA RequestTyped == TypeOK => Len(request.text) \in Nat
<1> SUFFICES ASSUME TypeOK PROVE Len(request.text) \in Nat
  OBVIOUS
<1>1. request.text \in Seq({"c", "l", "r"})
  BY TinyAssumption DEF TypeOK, PeerTypes, TinyAssumption
<1> QED
  BY <1>1, LenProperties

LEMMA ShapeFromStart == Init => Shape
<1> SUFFICES ASSUME Init PROVE Shape
  OBVIOUS
<1>1. <<>> \in Seq(Int) /\ <<>> \in Seq(Seq(Int)) /\ Len(<<>>) <= 4
  BY EmptySeq
<1>2. RioTypes
  BY FreshRio DEF RioTypes, Init
<1>3. StreamTypes
  BY <1>1 DEF StreamTypes, Init
<1>4. ServerTypes
  BY <1>1 DEF ServerTypes, Init, Spots
<1>5. PeerTypes
  BY <1>1 DEF PeerTypes, Init, PeerSpots
<1>6. CountTypes
  BY TinyAssumption DEF CountTypes, Init, TinyAssumption
<1>7. Connected /\ Held
  BY Others DEF Connected, Held, Init
<1> QED
  BY <1>2, <1>3, <1>4, <1>5, <1>6, <1>7 DEF Shape, TypeOK

\* the server's steps up to the request
LEMMA ServerReadsInShape ==
  ASSUME Shape, Listen \/ Accept \/ ServerRefills \/ ServerCopies \/ ServerSeesEof
  PROVE  Shape'
<1> USE DEF Shape
<1>1. CASE Listen
  <2> USE DEF Listen
  <2>1. CASE NextAddress("tiny") /\ UNCHANGED server
    <3>1. CountTypes' /\ fds' = fds
      BY <2>1, Others, NoAddressesLeft DEF TypeOK
    <3>2. RioTypes' /\ StreamTypes' /\ ServerTypes' /\ PeerTypes'
      BY <1>1, <2>1 DEF TypeOK, RioTypes, StreamTypes, ServerTypes, PeerTypes, net, server, peer
    <3>3. Connected' /\ Held'
      BY <1>1, <2>1, <3>1 DEF Connected, Held, net, server, peer
    <3> QED
      BY <3>1, <3>2, <3>3 DEF TypeOK
  <2>2. CASE Opened("tiny") /\ spc' = "accept" /\ UNCHANGED <<line, blank, out, child, cgiout>>
    <3>1. tries' = tries /\ fds' = [fds EXCEPT !["tiny"] = @ + 1] /\ fds["tiny"] = 0 /\ fds \in [Ends -> Int]
      BY <1>1, <2>2 DEF Opened, Held, TypeOK, CountTypes
    <3>2. CountTypes' /\ fds'["tiny"] = 1 /\ fds'["peer"] = fds["peer"]
      BY <3>1, Others DEF CountTypes, TypeOK
    <3>3. RioTypes' /\ StreamTypes' /\ ServerTypes' /\ PeerTypes'
      BY <1>1, <2>2 DEF TypeOK, RioTypes, StreamTypes, ServerTypes, PeerTypes, net, peer, Spots
    <3>4. Connected'
      BY <1>1, <2>2 DEF Connected, net, peer
    <3>5. Held'
      BY <1>1, <2>2, <3>2 DEF Held, peer
    <3> QED
      BY <3>2, <3>3, <3>4, <3>5 DEF TypeOK
  <2>3. CASE tries["tiny"] = 0 /\ ServerDies /\ UNCHANGED tries
    <3>1. CountTypes' /\ fds'["tiny"] = 0 /\ fds'["peer"] = fds["peer"]
      BY <2>3, Others DEF ServerDies, CountTypes, TypeOK
    <3>2. RioTypes' /\ StreamTypes' /\ ServerTypes' /\ PeerTypes'
      BY <1>1, <2>3 DEF TypeOK, RioTypes, StreamTypes, ServerTypes, PeerTypes, net, peer, Spots, ServerDies
    <3>3. Connected'
      BY <1>1, <2>3 DEF Connected, net, peer, ServerDies
    <3>4. Held'
      BY <1>1, <2>3, <3>1 DEF Held, peer, ServerDies
    <3> QED
      BY <3>1, <3>2, <3>3, <3>4 DEF TypeOK
  <2> QED
    BY <1>1, <2>1, <2>2, <2>3
<1>2. CASE Accept
  <2>1. CountTypes' /\ fds'["tiny"] = 2 /\ fds'["peer"] = fds["peer"]
    <3>1. tries' = tries /\ fds' = [fds EXCEPT !["tiny"] = @ + 1] /\ fds["tiny"] = 1 /\ fds \in [Ends -> Int]
      BY <1>2 DEF Accept, Held, TypeOK, CountTypes
    <3> QED
      BY <3>1, Others DEF CountTypes, TypeOK
  <2>2. RioTypes'
    BY <1>2, FreshRio DEF Accept, RioTypes, TypeOK
  <2>3. StreamTypes' /\ ServerTypes' /\ PeerTypes'
    BY <1>2, EmptySeq DEF TypeOK, StreamTypes, ServerTypes, PeerTypes, net, peer, Spots, Accept
  <2>4. Connected'
    BY <1>2 DEF Connected, net, peer, Accept
  <2>5. Held'
    BY <1>2, <2>1 DEF Held, peer, Accept
  <2> QED
    BY <2>1, <2>2, <2>3, <2>4, <2>5 DEF TypeOK
<1>3. CASE ServerRefills
  <2>1. RioTypes' /\ StreamTypes' /\ UNCHANGED <<open, reset>>
    BY <1>3, Others, RefillKeeps DEF ServerRefills, TypeOK
  <2>2. ServerTypes' /\ PeerTypes' /\ CountTypes'
    BY <1>3 DEF ServerRefills, TypeOK, ServerTypes, PeerTypes, CountTypes, server, peer
  <2>3. Connected' /\ Held'
    BY <1>3, <2>1 DEF ServerRefills, Connected, Held, server, peer
  <2> QED
    BY <2>1, <2>2, <2>3 DEF TypeOK
<1>4. CASE ServerCopies
  <2> DEFINE l == line \o Copied(rio["tiny"], 1)
  <2>1. /\ l \in Seq(Int) /\ RioTypes' /\ Reading
        /\ IF EndsLine(l) THEN TakeLine(l) ELSE line' = l /\ UNCHANGED <<spc, blank, out, child, cgiout>>
        /\ UNCHANGED <<net, peer, tries, fds>>
    BY <1>4, TakesACopy DEF ServerCopies
  <2> HIDE DEF l
  <2>2. /\ ServerTypes' /\ UNCHANGED <<child, cgiout>>
        /\ spc' \in {"request", "close", "write", "headers"}
    <3>1. CASE EndsLine(l)
      BY <2>1, <3>1, LineTaken DEF TypeOK
    <3>2. CASE ~EndsLine(l)
      BY <2>1, <3>2 DEF TypeOK, ServerTypes, Reading
    <3> QED
      BY <3>1, <3>2
  <2>3. StreamTypes' /\ PeerTypes' /\ CountTypes'
    BY <2>1 DEF TypeOK, StreamTypes, PeerTypes, CountTypes, net, peer
  <2>4. Connected' /\ Held'
    BY <2>1, <2>2 DEF Reading, Connected, Held, net, peer
  <2> QED
    BY <2>1, <2>2, <2>3, <2>4 DEF TypeOK
<1>5. CASE ServerSeesEof
  <2>1. /\ ServerTypes' /\ UNCHANGED <<child, cgiout>>
        /\ spc' \in {"close", "write", "headers"}
    BY <1>5, LineTaken DEF ServerSeesEof, TypeOK, ServerTypes
  <2>2. RioTypes'
    <3> DEFINE r == AtEnd(rio["tiny"])
    <3>1. rio' = [rio EXCEPT !["tiny"] = r]
      BY <1>5 DEF ServerSeesEof
    <3>2. r \in Rios /\ r.cnt = 0
      BY Others DEF AtEnd, RioTypes, Rios, TypeOK
    <3> HIDE DEF r
    <3>3. RioOK(r)
      BY <3>2 DEF RioOK
    <3> QED
      BY <3>1, <3>2, <3>3, Others DEF RioTypes, TypeOK
  <2>3. StreamTypes' /\ PeerTypes' /\ CountTypes'
    BY <1>5 DEF ServerSeesEof, TypeOK, StreamTypes, PeerTypes, CountTypes, net, peer
  <2>4. Connected' /\ Held'
    BY <1>5, <2>1 DEF ServerSeesEof, Reading, Connected, Held, net, peer
  <2> QED
    BY <2>1, <2>2, <2>3, <2>4 DEF TypeOK
<1> QED
  BY <1>1, <1>2, <1>3, <1>4, <1>5

\* the server's steps from the answer to the next client, and its ends
LEMMA ServerAnswersInShape ==
  ASSUME Shape, \/ ServerReadFails \/ ServerWrites \/ ServerWriteFails \/ Written \/ ChildRuns \/ Waited
                \/ ServerCloses \/ ServerFails
  PROVE  Shape'
<1> USE DEF Shape
<1>1. ASSUME ServerDies, Shut("tiny") \/ Aborted("tiny"), UNCHANGED <<rio, peer, tries>>,
             spc \in {"accept", "request", "headers", "write"}
      PROVE  Shape'
  <2>1. CountTypes' /\ fds'["tiny"] = 0 /\ fds'["peer"] = fds["peer"]
    BY <1>1, Others DEF ServerDies, CountTypes, TypeOK
  <2>2. StreamTypes' /\ ~open'["tiny"] /\ open'["peer"] = open["peer"]
    BY <1>1, Others, Leaves DEF TypeOK, StreamTypes
  <2>3. RioTypes' /\ ServerTypes' /\ PeerTypes'
    BY <1>1 DEF TypeOK, RioTypes, ServerTypes, PeerTypes, peer, Spots, ServerDies
  <2>4. Connected'
    BY <1>1, <2>2 DEF Connected, peer, ServerDies
  <2>5. Held'
    BY <1>1, <2>1 DEF Held, peer, ServerDies
  <2> QED
    BY <2>1, <2>2, <2>3, <2>4, <2>5 DEF TypeOK
<1>2. ASSUME NEW s \in Seq(Int), NEW k \in 1..Len(s), Sent("tiny", s, k), spc \in {"write", "wait"}
      PROVE  /\ StreamTypes' /\ open' = open
             /\ open'["tiny"] /\ reset'["tiny"] => ~open'["peer"]
  <2>1. /\ StreamTypes' /\ open' = open /\ ~reset["tiny"]
        /\ open["peer"] => reset'["tiny"] = reset["tiny"]
    BY <1>2, Others, SentReaches DEF TypeOK
  <2> QED
    BY <2>1
<1>3. CASE ServerReadFails
  BY <1>1, <1>3 DEF ServerReadFails, Reading
<1>4. CASE ServerWrites
  <2>1. PICK k \in 1 .. Len(Head(out)) : Sent("tiny", Head(out), k) /\ out' = Wrote(out, k)
    BY <1>4 DEF ServerWrites
  <2>2. /\ out \in Seq(Seq(Int)) /\ Len(out) <= 4 /\ out # <<>> /\ spc = "write"
        /\ UNCHANGED <<spc, line, blank, child, cgiout, rio, peer, tries, fds>>
    BY <1>4 DEF ServerWrites, TypeOK, ServerTypes
  <2>3. Wrote(out, k) \in Seq(Seq(Int)) /\ Len(Wrote(out, k)) <= 4 /\ Head(out) \in Seq(Int)
    BY <2>2, JoinedWrote
  <2>4. /\ StreamTypes' /\ open' = open
        /\ open'["tiny"] /\ reset'["tiny"] => ~open'["peer"]
    BY <1>2, <2>1, <2>2, <2>3
  <2>5. RioTypes' /\ ServerTypes' /\ PeerTypes' /\ CountTypes'
    BY <2>1, <2>2, <2>3 DEF TypeOK, RioTypes, ServerTypes, PeerTypes, CountTypes, peer
  <2>6. Connected' /\ Held'
    BY <2>2, <2>4 DEF Connected, Held, peer
  <2> QED
    BY <2>4, <2>5, <2>6 DEF TypeOK
<1>5. CASE ServerWriteFails
  BY <1>1, <1>5 DEF ServerWriteFails
<1>6. CASE Written
  <2>1. CASE request.reply = "empty"
    BY <1>1, <1>6, <2>1 DEF Written
  <2>2. CASE request.reply \in {"cgi", "cgi_crash", "cgi_noexec"}
    <3>1. /\ spc' = "wait" /\ child' = "running" /\ cgiout' = Output(request.reply) /\ spc = "write"
          /\ UNCHANGED <<line, blank, out, net, fds, rio, peer, tries>>
      BY <1>6, <2>2 DEF Written
    <3>2. cgiout' \in Seq(Int)
      BY <3>1, PiecesTyped
    <3>3. TypeOK'
      BY <3>1, <3>2 DEF TypeOK, RioTypes, StreamTypes, ServerTypes, PeerTypes, CountTypes, net, peer, Spots
    <3>4. Connected' /\ Held'
      BY <3>1 DEF Connected, Held, net, peer
    <3> QED
      BY <3>3, <3>4
  <2>3. CASE request.reply \notin {"empty", "cgi", "cgi_crash", "cgi_noexec"}
    <3>1. /\ spc' = "close" /\ spc = "write"
          /\ UNCHANGED <<line, blank, out, child, cgiout, net, fds, rio, peer, tries>>
      BY <1>6, <2>3 DEF Written
    <3>2. TypeOK'
      BY <3>1 DEF TypeOK, RioTypes, StreamTypes, ServerTypes, PeerTypes, CountTypes, net, peer, Spots
    <3>3. Connected' /\ Held'
      BY <3>1 DEF Connected, Held, net, peer
    <3> QED
      BY <3>2, <3>3
  <2> QED
    BY <2>1, <2>2, <2>3
<1>7. CASE ChildRuns
  <2>1. /\ child = "running" /\ spc = "wait" /\ cgiout \in Seq(Int)
        /\ UNCHANGED <<spc, line, blank, out, rio, peer, tries, fds>>
    BY <1>7 DEF ChildRuns, Held, TypeOK, ServerTypes
  <2>2. CASE /\ cgiout # <<>>
             /\ \E k \in 1 .. Len(cgiout) : Sent("tiny", cgiout, k) /\ cgiout' = Rest(cgiout, k)
             /\ UNCHANGED child
    <3>1. PICK k \in 1 .. Len(cgiout) : Sent("tiny", cgiout, k) /\ cgiout' = Rest(cgiout, k)
      BY <2>2
    <3>2. cgiout' \in Seq(Int)
      <4>1. k \in 0..Len(cgiout)
        BY <2>1, LenProperties
      <4> QED
        BY <2>1, <3>1, <4>1, SplitAt
    <3>3. /\ StreamTypes' /\ open' = open
          /\ open'["tiny"] /\ reset'["tiny"] => ~open'["peer"]
      BY <1>2, <2>1, <3>1
    <3>4. RioTypes' /\ ServerTypes' /\ PeerTypes' /\ CountTypes'
      BY <2>1, <2>2, <3>2 DEF TypeOK, RioTypes, ServerTypes, PeerTypes, CountTypes, peer
    <3>5. Connected' /\ Held'
      BY <2>1, <2>2, <3>3 DEF Connected, Held, peer
    <3> QED
      BY <3>3, <3>4, <3>5 DEF TypeOK
  <2>3. CASE child' = "exited" /\ cgiout' = <<>> /\ UNCHANGED net
    <3>1. TypeOK'
      BY <2>1, <2>3, EmptySeq DEF TypeOK, RioTypes, StreamTypes, ServerTypes, PeerTypes, CountTypes, net, peer
    <3>2. Connected' /\ Held'
      BY <2>1, <2>3 DEF Connected, Held, net, peer
    <3> QED
      BY <3>1, <3>2
  <2> QED
    BY <1>7, <2>2, <2>3 DEF ChildRuns
<1>8. CASE Waited
  <2>1. TypeOK'
    BY <1>8 DEF Waited, TypeOK, RioTypes, StreamTypes, ServerTypes, PeerTypes, CountTypes, net, peer, Spots
  <2>2. Connected' /\ Held'
    BY <1>8 DEF Waited, Connected, Held, net, peer
  <2> QED
    BY <2>1, <2>2
<1>9. CASE ServerCloses
  <2>1. CountTypes' /\ fds'["tiny"] = 1 /\ fds'["peer"] = fds["peer"]
    <3>1. tries' = tries /\ fds' = [fds EXCEPT !["tiny"] = @ - 1] /\ fds["tiny"] = 2 /\ fds \in [Ends -> Int]
      BY <1>9 DEF ServerCloses, Closed, Held, TypeOK, CountTypes
    <3> QED
      BY <3>1, Others DEF CountTypes, TypeOK
  <2>2. StreamTypes' /\ ~open'["tiny"] /\ open'["peer"] = open["peer"]
    BY <1>9, Others, Leaves DEF ServerCloses, TypeOK, StreamTypes
  <2>3. RioTypes' /\ ServerTypes' /\ PeerTypes'
    BY <1>9 DEF ServerCloses, TypeOK, RioTypes, ServerTypes, PeerTypes, peer, Spots
  <2>4. Connected'
    BY <1>9, <2>2 DEF ServerCloses, Connected, peer
  <2>5. Held'
    BY <1>9, <2>1 DEF ServerCloses, Held, peer
  <2> QED
    BY <2>1, <2>2, <2>3, <2>4, <2>5 DEF TypeOK
<1>10. CASE BodyFails
  BY <1>1, <1>10 DEF BodyFails, BodyIsNext
<1>11. CASE AcceptFails
  <2>1. CASE open["tiny"]
    BY <1>1, <1>11, <2>1 DEF AcceptFails
  <2>2. CASE ~open["tiny"]
    <3>1. ServerDies /\ spc = "accept" /\ UNCHANGED <<net, rio, peer, tries>>
      BY <1>11, <2>2 DEF AcceptFails
    <3>2. CountTypes' /\ fds'["tiny"] = 0 /\ fds'["peer"] = fds["peer"]
      BY <3>1, Others DEF ServerDies, CountTypes, TypeOK
    <3>3. RioTypes' /\ StreamTypes' /\ ServerTypes' /\ PeerTypes'
      BY <3>1 DEF TypeOK, RioTypes, StreamTypes, ServerTypes, PeerTypes, net, peer, Spots, ServerDies
    <3>4. Connected'
      BY <2>2, <3>1 DEF Connected, net, peer, ServerDies
    <3>5. Held'
      BY <3>1, <3>2 DEF Held, peer, ServerDies
    <3> QED
      BY <3>2, <3>3, <3>4, <3>5 DEF TypeOK
  <2> QED
    BY <2>1, <2>2
<1> QED
  BY <1>3, <1>4, <1>5, <1>6, <1>7, <1>8, <1>9, <1>10, <1>11 DEF ServerFails

LEMMA PeerCopiesPart ==
  ASSUME TypeOK, PeerCopies
  PROVE  /\ chunk' \in Seq(Int) /\ RioTypes'
         /\ rio'["tiny"] = rio["tiny"]
         /\ chunk' \o Unread(rio'["peer"]) = chunk \o Unread(rio["peer"])
<1> DEFINE n == CHUNK - Len(chunk)
           c == Copied(rio["peer"], n)
           r == Advanced(rio["peer"], n)
<1>1. /\ rio["peer"] \in Rios /\ RioOK(rio["peer"]) /\ rio["peer"].cnt > 0
      /\ chunk \in Seq(Int) /\ Len(chunk) \in Nat /\ CHUNK \in Nat
      /\ Len(chunk) < CHUNK
  BY Others, TinyAssumption, LenProperties DEF TypeOK, RioTypes, PeerTypes, PeerCopies, TinyAssumption
<1>2. n \in Nat \ {0}
  BY <1>1
<1>3. rio' = [rio EXCEPT !["peer"] = r] /\ chunk' = chunk \o c
  BY DEF PeerCopies
<1> HIDE DEF n
<1>4. c \in Seq(Int) /\ r \in Rios /\ RioOK(r) /\ c \o Unread(r) = Unread(rio["peer"])
  BY <1>1, <1>2, UnreadAdvanced
<1>5. Unread(r) \in Seq(Int)
  BY <1>4, UnreadTyped
<1> HIDE DEF c, r
<1>6. RioTypes' /\ rio'["peer"] = r /\ rio'["tiny"] = rio["tiny"]
  BY <1>3, <1>4, Others DEF TypeOK, RioTypes
<1>7. chunk \o c \in Seq(Int)
  BY <1>1, <1>4, ConcatProperties
<1>8. (chunk \o c) \o Unread(r) = chunk \o Unread(rio["peer"])
  <2> DEFINE u == Unread(r)
  <2>1. u \in Seq(Int)
    BY <1>5
  <2> HIDE DEF u
  <2>2. (chunk \o c) \o u = chunk \o (c \o u)
    BY <1>1, <1>4, <2>1, Assoc, ZenonT(40)
  <2> QED
    BY <1>4, <2>2 DEF u
<1> QED
  BY <1>3, <1>6, <1>7, <1>8

\* the peer's steps while it is connected
LEMMA PeerTalksInShape ==
  ASSUME Shape, PeerWrites \/ PeerRefills \/ PeerCopies \/ PeerRelays \/ PeerSeesEof
  PROVE  Shape'
<1> USE DEF Shape
<1>1. CASE PeerWrites
  <2>1. PICK k \in 1 .. Len(pout) : Sent("peer", pout, k) /\ pout' = Rest(pout, k)
    BY <1>1 DEF PeerWrites
  <2>2. /\ pout \in Seq(Int) /\ ppc = "send" /\ ppc' \in {"read", "send"}
        /\ UNCHANGED <<request, chunk, relayed, rio, server, tries, fds>>
    BY <1>1 DEF PeerWrites, TypeOK, PeerTypes
  <2>3. pout' \in Seq(Int)
    <3>1. k \in 0..Len(pout)
      BY <2>2, LenProperties
    <3> QED
      BY <2>1, <2>2, <3>1, SplitAt
  <2>4. /\ StreamTypes' /\ open' = open
        /\ reset'["tiny"] = reset["tiny"]
    BY <2>1, <2>2, Others, SentReaches DEF TypeOK
  <2>5. RioTypes' /\ ServerTypes' /\ PeerTypes' /\ CountTypes'
    BY <2>2, <2>3 DEF TypeOK, RioTypes, ServerTypes, PeerTypes, CountTypes, server, PeerSpots
  <2>6. Connected' /\ Held'
    BY <2>2, <2>4 DEF Connected, Held, server
  <2> QED
    BY <2>4, <2>5, <2>6 DEF TypeOK
<1>2. CASE PeerRefills
  <2>1. RioTypes' /\ StreamTypes' /\ UNCHANGED <<open, reset>>
    BY <1>2, Others, RefillKeeps DEF PeerRefills, TypeOK
  <2>2. ServerTypes' /\ PeerTypes' /\ CountTypes'
    BY <1>2 DEF PeerRefills, TypeOK, ServerTypes, PeerTypes, CountTypes, server, peer
  <2>3. Connected' /\ Held'
    BY <1>2, <2>1 DEF PeerRefills, Connected, Held, server, peer
  <2> QED
    BY <2>1, <2>2, <2>3 DEF TypeOK
<1>3. CASE PeerCopies
  <2>1. chunk' \in Seq(Int) /\ RioTypes'
    BY <1>3, PeerCopiesPart
  <2>2. ppc = "read" /\ UNCHANGED <<ppc, request, pout, relayed, net, server, tries, fds>>
    BY <1>3 DEF PeerCopies
  <2>3. StreamTypes' /\ ServerTypes' /\ PeerTypes' /\ CountTypes'
    BY <2>1, <2>2 DEF TypeOK, StreamTypes, ServerTypes, PeerTypes, CountTypes, server, net
  <2>4. Connected' /\ Held'
    BY <2>2 DEF Connected, Held, server, net
  <2> QED
    BY <2>1, <2>3, <2>4 DEF TypeOK
<1>4. CASE PeerRelays
  <2>1. /\ ppc = "read" /\ relayed' = relayed \o chunk /\ chunk' = <<>>
        /\ UNCHANGED <<ppc, request, pout, rio, net, server, tries, fds>>
    BY <1>4 DEF PeerRelays
  <2>2. relayed' \in Seq(Int) /\ chunk' \in Seq(Int)
    BY <2>1, EmptySeq, ConcatProperties DEF TypeOK, PeerTypes
  <2>3. TypeOK'
    BY <2>1, <2>2 DEF TypeOK, RioTypes, StreamTypes, ServerTypes, PeerTypes, CountTypes, server, net
  <2>4. Connected' /\ Held'
    BY <2>1 DEF Connected, Held, server, net
  <2> QED
    BY <2>3, <2>4
<1>5. CASE PeerSeesEof
  <2>1. TypeOK'
    BY <1>5 DEF PeerSeesEof, TypeOK, RioTypes, StreamTypes, ServerTypes, PeerTypes, CountTypes, server, net, PeerSpots
  <2>2. Connected' /\ Held'
    BY <1>5 DEF PeerSeesEof, Connected, Held, server, net
  <2> QED
    BY <2>1, <2>2
<1> QED
  BY <1>1, <1>2, <1>3, <1>4, <1>5

LEMMA ConnectInShape ==
  ASSUME Shape, Connect
  PROVE  Shape'
<1> USE DEF Shape
<1>0. UNCHANGED server /\ ppc = "connect"
  BY DEF Connect
<1>1. CASE NextAddress("peer") /\ UNCHANGED <<rio, net, peer>>
  <2>1. CountTypes' /\ fds' = fds
    BY <1>1, Others, NoAddressesLeft DEF TypeOK
  <2>2. RioTypes' /\ StreamTypes' /\ ServerTypes' /\ PeerTypes'
    BY <1>0, <1>1 DEF TypeOK, RioTypes, StreamTypes, ServerTypes, PeerTypes, net, server, peer
  <2>3. Connected' /\ Held'
    BY <1>0, <1>1, <2>1 DEF Connected, Held, net, server, peer
  <2> QED
    BY <2>1, <2>2, <2>3 DEF TypeOK
<1>2. CASE /\ Opened("peer") /\ spc \notin {"boot", "dead"} /\ ppc' = "send"
           /\ open' = [x \in Ends |-> TRUE] /\ in' = [x \in Ends |-> <<>>]
           /\ reset' = [x \in Ends |-> FALSE]
           /\ rio' = [rio EXCEPT !["peer"] = rio_readinitb]
           /\ UNCHANGED <<request, pout, chunk, relayed>>
  <2>1. CountTypes' /\ fds'["peer"] = 1 /\ fds'["tiny"] = fds["tiny"]
    <3>1. tries' = tries /\ fds' = [fds EXCEPT !["peer"] = @ + 1] /\ fds["peer"] = 0 /\ fds \in [Ends -> Int]
      BY <1>0, <1>2 DEF Opened, Held, TypeOK, CountTypes
    <3> QED
      BY <3>1, Others DEF CountTypes, TypeOK
  <2>2. StreamTypes' /\ open'["tiny"] /\ open'["peer"] /\ ~reset'["tiny"]
    BY <1>2, EmptySeq, Others DEF StreamTypes
  <2>3. RioTypes'
    BY <1>2, FreshRio DEF RioTypes, TypeOK
  <2>4. ServerTypes' /\ PeerTypes'
    BY <1>0, <1>2 DEF TypeOK, ServerTypes, PeerTypes, server, PeerSpots
  <2>5. Connected'
    BY <1>0, <1>2, <2>2 DEF Connected, server
  <2>6. Held'
    BY <1>0, <1>2, <2>1 DEF Held, server
  <2> QED
    BY <2>1, <2>2, <2>3, <2>4, <2>5, <2>6 DEF TypeOK
<1>3. CASE tries["peer"] = 0 /\ PeerExits /\ UNCHANGED <<rio, net, tries>>
  <2>1. CountTypes' /\ fds'["peer"] = 0 /\ fds'["tiny"] = fds["tiny"]
    BY <1>3, Others DEF PeerExits, CountTypes, TypeOK
  <2>2. /\ ppc' = "idle" /\ pout' = <<>> /\ chunk' = <<>> /\ relayed' = <<>> /\ request' = request
        /\ UNCHANGED <<rio, net, tries>>
    BY <1>3 DEF PeerExits, Forget
  <2>3. RioTypes' /\ StreamTypes' /\ ServerTypes' /\ PeerTypes'
    BY <1>0, <2>2, EmptySeq DEF TypeOK, RioTypes, StreamTypes, ServerTypes, PeerTypes, net, server, PeerSpots
  <2>4. Connected'
    BY <1>0, <2>2 DEF Connected, server, net
  <2>5. Held'
    BY <1>0, <2>1, <2>2 DEF Held, server, net
  <2> QED
    BY <2>1, <2>3, <2>4, <2>5 DEF TypeOK
<1> QED
  BY <1>1, <1>2, <1>3 DEF Connect

\* the peer begins, gives up or is done
LEMMA PeerComesAndGoesInShape ==
  ASSUME Shape, Begin \/ PeerFails \/ PeerCloses \/ PeerQuits
  PROVE  Shape'
<1> USE DEF Shape
<1>1. CASE Begin
  <2>1. /\ ppc = "idle" /\ ~open["tiny"] /\ ppc' = "connect" /\ request' \in Requests
        /\ pout' = Numbered(Len(request'.text))
        /\ tries' = [tries EXCEPT !["peer"] = Addresses]
        /\ UNCHANGED <<rio, net, server, chunk, relayed, fds>>
    BY <1>1 DEF Begin
  <2>2. Len(request'.text) \in Nat
    <3>1. request'.text \in Seq({"c", "l", "r"})
      BY <2>1, TinyAssumption DEF TinyAssumption
    <3> QED
      BY <3>1, LenProperties
  <2>3. pout' \in Seq(Int)
    BY <2>1, <2>2, NumberedTyped
  <2>4. CountTypes'
    BY <2>1, TinyAssumption DEF TypeOK, CountTypes, TinyAssumption
  <2>5. RioTypes' /\ StreamTypes' /\ ServerTypes' /\ PeerTypes'
    BY <2>1, <2>3 DEF TypeOK, RioTypes, StreamTypes, ServerTypes, PeerTypes, net, server, PeerSpots
  <2>6. Connected' /\ Held'
    BY <2>1 DEF Connected, Held, server, net
  <2> QED
    BY <2>4, <2>5, <2>6 DEF TypeOK
<1>2. ASSUME Shut("peer") \/ Aborted("peer"), UNCHANGED <<rio, server, tries>>,
             ppc' = "idle", Forget, fds' = [fds EXCEPT !["peer"] = 0]
      PROVE  Shape'
  <2>1. CountTypes' /\ fds'["peer"] = 0 /\ fds'["tiny"] = fds["tiny"]
    BY <1>2, Others DEF CountTypes, TypeOK
  <2>2. StreamTypes' /\ ~open'["peer"] /\ open'["tiny"] = open["tiny"]
    BY <1>2, Others, Leaves DEF TypeOK, StreamTypes
  <2>3. RioTypes' /\ ServerTypes' /\ PeerTypes'
    BY <1>2, EmptySeq DEF TypeOK, RioTypes, ServerTypes, PeerTypes, server, PeerSpots, Forget
  <2>4. Connected'
    BY <1>2, <2>2 DEF Connected, server, Forget
  <2>5. Held'
    BY <1>2, <2>1 DEF Held, server
  <2> QED
    BY <2>1, <2>2, <2>3, <2>4, <2>5 DEF TypeOK
<1>3. CASE PeerFails
  BY <1>2, <1>3 DEF PeerFails, PeerExits
<1>4. CASE PeerCloses
  <2>1. fds["peer"] = 1 /\ fds \in [Ends -> Int]
    BY <1>4 DEF PeerCloses, Held, TypeOK, CountTypes
  <2>2. fds' = [fds EXCEPT !["peer"] = 0]
    BY <1>4, <2>1, Others DEF PeerCloses, Closed
  <2> QED
    BY <1>2, <1>4, <2>2 DEF PeerCloses
<1>5. CASE PeerQuits
  BY <1>2, <1>5 DEF PeerQuits, PeerExits
<1> QED
  BY <1>1, <1>3, <1>4, <1>5

LEMMA ShapeKept == Shape /\ [Next]_vars => Shape'
<1> SUFFICES ASSUME Shape, [Next]_vars PROVE Shape'
  OBVIOUS
<1>1. CASE Server
  BY <1>1, ServerReadsInShape, ServerAnswersInShape DEF Server
<1>2. CASE Peer
  BY <1>2, PeerTalksInShape, ConnectInShape, PeerComesAndGoesInShape DEF Peer
<1>3. CASE Begin \/ PeerQuits
  BY <1>3, PeerComesAndGoesInShape
<1>5. CASE ServerFails
  BY <1>5, ServerAnswersInShape
<1>4. CASE UNCHANGED vars
  <2> USE DEF Shape, vars, net, server, peer
  <2>1. TypeOK'
    BY <1>4 DEF TypeOK, RioTypes, StreamTypes, ServerTypes, PeerTypes, CountTypes
  <2>2. Connected' /\ Held'
    BY <1>4 DEF Connected, Held
  <2> QED
    BY <2>1, <2>2
<1> QED
  BY <1>1, <1>2, <1>3, <1>4, <1>5 DEF Next

\* The types, the connection and what each side holds (csapp.c:730-879, 934-1033).
THEOREM ShapeHolds == Spec => []Shape
<1>1. Init => Shape
  BY ShapeFromStart
<1>2. Shape /\ [Next]_vars => Shape'
  BY ShapeKept
<1> QED
  BY <1>1, <1>2, PTL DEF Spec

(* Whatever fails on the way, a server that waits for a client holds its   *)
(* listening socket alone and no CGI process, and a peer between two       *)
(* requests holds no socket (tiny.c:38, 205-211, csapp.c:934-1013).        *)
THEOREM DescriptorsReturned == Spec => []NothingLeft
<1>1. Shape => NothingLeft
  BY DEF Shape, Held, NothingLeft
<1> QED
  BY <1>1, ShapeHolds, PTL

(* Once it has a client the server dies of nothing but this client, who    *)
(* has left before, or of the system calls between the headers and the     *)
(* content (tiny.c:161-169, 205, csapp.c:791-806, 894-923).                *)
THEOREM DeathHasCause == Spec => DiesMidwayOfPeer
<1>1. Shape /\ [Next]_vars => [spc \notin {"boot", "accept", "dead"} /\ spc' = "dead" =>
                                 \/ reset["tiny"] /\ ~open["peer"]
                                 \/ BodyIsNext]_vars
  <2> SUFFICES ASSUME Shape, Next, spc \notin {"boot", "accept", "dead"}, spc' = "dead",
                      ~(reset["tiny"] /\ ~open["peer"])
               PROVE  BodyIsNext
    OBVIOUS
  <2>0. ~reset["tiny"]
    BY DEF Shape, TypeOK, ServerTypes, Spots, Connected
  <2>1. CASE Written
    <3>1. CASE request.reply \in {"cgi", "cgi_crash", "cgi_noexec"}
      BY <2>1, <3>1 DEF Written
    <3>2. CASE request.reply \notin {"empty", "cgi", "cgi_crash", "cgi_noexec"}
      BY <2>1, <3>2 DEF Written
    <3>3. CASE request.reply = "empty"
      <4>1. spc = "write" /\ out = <<>>
        BY <2>1 DEF Written
      <4>2. Pieces("empty") = << <<1>> >> /\ Tail(<< <<1>> >>) = <<>>
        BY DEF Pieces
      <4> QED
        BY <3>3, <4>1, <4>2 DEF BodyIsNext
    <3> QED
      BY <2>1, <3>1, <3>2, <3>3 DEF Written
  <2>2. ~ServerCopies
    <3> SUFFICES ASSUME ServerCopies PROVE FALSE
      OBVIOUS
    <3> DEFINE l == line \o Copied(rio["tiny"], 1)
    <3>1. /\ l \in Seq(Int) /\ Reading
          /\ IF EndsLine(l) THEN TakeLine(l) ELSE line' = l /\ UNCHANGED <<spc, blank, out, child, cgiout>>
      BY TakesACopy DEF Shape, ServerCopies
    <3> HIDE DEF l
    <3> QED
      BY <3>1, LineTaken DEF Shape, TypeOK
  <2>3. ~ServerSeesEof
    BY LineTaken DEF ServerSeesEof, Shape, TypeOK, ServerTypes
  <2>4. ~Peer /\ ~Begin /\ ~PeerQuits
    BY DEF Peer, Connect, PeerWrites, PeerRefills, PeerCopies, PeerRelays, PeerSeesEof, PeerFails, PeerCloses,
           Begin, PeerQuits, server
  <2>5. /\ ~Listen /\ ~Accept /\ ~ServerRefills /\ ~ServerReadFails /\ ~ServerWrites /\ ~ServerWriteFails
        /\ ~ChildRuns /\ ~Waited /\ ~ServerCloses
    BY <2>0 DEF Listen, Accept, ServerRefills, ServerReadFails, ReadFails, ServerWrites, ServerWriteFails, ChildRuns,
           Waited, ServerCloses, server
  <2>6. ~AcceptFails
    BY DEF AcceptFails
  <2>7. CASE BodyFails
    BY <2>7 DEF BodyFails
  <2> QED
    BY <2>1, <2>2, <2>3, <2>4, <2>5, <2>6, <2>7 DEF Next, Server, ServerFails
<1> QED
  BY <1>1, ShapeHolds, PTL DEF Spec, DiesMidwayOfPeer

----------------------------------------------------------------------------
(* The request on its way                                                  *)

ServerHas == IF Reading THEN line \o Unread(rio["tiny"]) ELSE <<>>

\* the characters the server has not taken as a line
Way == ServerHas \o (in["tiny"] \o pout)

Listening == spc \in {"accept", "request", "headers"} /\ open["tiny"] /\ open["peer"]

(* What is on its way is the end of the request. *)
Requested == Listening => \E taken \in Seq(Int) : taken \o Way = Numbered(Len(request.text))

LEMMA WayTyped ==
  ASSUME TypeOK
  PROVE  /\ line \in Seq(Int) /\ Unread(rio["tiny"]) \in Seq(Int) /\ in["tiny"] \in Seq(Int) /\ pout \in Seq(Int)
         /\ in["tiny"] \o pout \in Seq(Int)
         /\ ServerHas \in Seq(Int) /\ Way \in Seq(Int)
<1>1. /\ line \in Seq(Int) /\ Unread(rio["tiny"]) \in Seq(Int) /\ in["tiny"] \in Seq(Int) /\ pout \in Seq(Int)
      /\ <<>> \in Seq(Int)
  BY Others, UnreadTyped, EmptySeq DEF TypeOK, RioTypes, StreamTypes, ServerTypes, PeerTypes
<1>2. ServerHas \in Seq(Int)
  BY <1>1, ConcatProperties DEF ServerHas
<1>3. in["tiny"] \o pout \in Seq(Int)
  BY <1>1, ConcatProperties
<1> QED
  BY <1>1, <1>2, <1>3, ConcatProperties DEF Way

LEMMA WayShortens ==
  ASSUME Requested, Listening, request' = request,
         NEW x \in Seq(Int), Way' \in Seq(Int), Way = x \o Way'
  PROVE  Requested'
<1>1. PICK taken \in Seq(Int) : taken \o Way = Numbered(Len(request.text))
  BY DEF Requested
<1> DEFINE w == Way'
<1>2. w \in Seq(Int) /\ Way = x \o w
  OBVIOUS
<1> HIDE DEF w
<1>3. taken \o (x \o w) = (taken \o x) \o w
  BY <1>2, Assoc, ZenonT(40)
<1>4. taken \o x \in Seq(Int)
  BY ConcatProperties
<1>5. (taken \o x) \o w = Numbered(Len(request.text))
  BY <1>1, <1>2, <1>3
<1> QED
  BY <1>4, <1>5 DEF Requested, w

LEMMA RequestedKept == Shape /\ Requested /\ [Next]_vars => Requested'
<1> SUFFICES ASSUME Shape, Requested, [Next]_vars, Listening' PROVE Requested'
  BY DEF Requested
<1> USE DEF Shape
<1>1. /\ line \in Seq(Int) /\ Unread(rio["tiny"]) \in Seq(Int) /\ in["tiny"] \in Seq(Int) /\ pout \in Seq(Int)
      /\ in["tiny"] \o pout \in Seq(Int)
      /\ ServerHas \in Seq(Int) /\ Way \in Seq(Int) /\ <<>> \in Seq(Int)
  BY WayTyped, EmptySeq
<1>2. /\ \A s \in Seq(Int) : s \o <<>> = s /\ <<>> \o s = s
      /\ <<>> \o Way = Way
  BY <1>1, NoPrefix
<1>3. ASSUME Listening, Way' = Way, request' = request PROVE Requested'
  BY <1>1, <1>2, <1>3, WayShortens
<1>4. CASE Accept
  <2>1. /\ spc = "accept" /\ spc' = "request" /\ line' = <<>> /\ rio' = [rio EXCEPT !["tiny"] = rio_readinitb]
        /\ UNCHANGED <<net, peer>>
    BY <1>4 DEF Accept
  <2>2. rio'["tiny"] = rio_readinitb
    BY <2>1, Others DEF TypeOK, RioTypes
  <2>3. ServerHas = <<>>
    BY <2>1 DEF ServerHas, Reading
  <2>4. ServerHas' = <<>>
    BY <1>1, <1>2, <2>1, <2>2, FreshRio DEF ServerHas, Reading
  <2>5. Listening /\ Way' = Way /\ request' = request
    BY <2>1, <2>3, <2>4 DEF Listening, Way, net, peer
  <2> QED
    BY <1>3, <2>5
<1>5. CASE ServerRefills
  <2>1. /\ Unread(rio'["tiny"]) \o in'["tiny"] = Unread(rio["tiny"]) \o in["tiny"]
        /\ RioTypes' /\ StreamTypes' /\ UNCHANGED <<open, reset>>
        /\ Reading /\ UNCHANGED <<server, peer>>
    BY <1>5, Others, RefillKeeps DEF ServerRefills, TypeOK
  <2> DEFINE u == Unread(rio["tiny"])
             v == Unread(rio'["tiny"])
             i == in["tiny"]
             j == in'["tiny"]
  <2>2. u \in Seq(Int) /\ v \in Seq(Int) /\ i \in Seq(Int) /\ j \in Seq(Int) /\ v \o j = u \o i
    BY <1>1, <2>1, Others, UnreadTyped DEF RioTypes, StreamTypes
  <2>3. ServerHas = line \o u /\ ServerHas' = line \o v
    BY <2>1 DEF ServerHas, Reading, server
  <2>4. Way = (line \o u) \o (i \o pout) /\ Way' = (line \o v) \o (j \o pout)
    BY <2>1, <2>3 DEF Way, peer
  <2> HIDE DEF u, v, i, j
  <2>5. /\ line \in Seq(Int) /\ pout \in Seq(Int)
        /\ u \in Seq(Int) /\ v \in Seq(Int) /\ i \in Seq(Int) /\ j \in Seq(Int)
    BY <1>1, <2>2
  <2>6. (line \o v) \o (j \o pout) = (line \o (v \o j)) \o pout
    <3> DEFINE a == line \o v
    <3>1. a \in Seq(Int) /\ j \in Seq(Int) /\ pout \in Seq(Int)
      BY <2>5, ConcatProperties
    <3>2. line \in Seq(Int) /\ v \in Seq(Int) /\ j \in Seq(Int)
      BY <2>5
    <3>3. a \o j = line \o (v \o j)
      BY <3>2, Assoc, ZenonT(40)
    <3> HIDE DEF a
    <3>4. (a \o j) \o pout = a \o (j \o pout)
      BY <3>1, Assoc, ZenonT(40)
    <3> QED
      BY <3>3, <3>4 DEF a
  <2>9. (line \o u) \o (i \o pout) = (line \o (u \o i)) \o pout
    <3> DEFINE a == line \o u
    <3>1. a \in Seq(Int) /\ i \in Seq(Int) /\ pout \in Seq(Int)
      BY <2>5, ConcatProperties
    <3>2. line \in Seq(Int) /\ u \in Seq(Int) /\ i \in Seq(Int)
      BY <2>5
    <3>3. a \o i = line \o (u \o i)
      BY <3>2, Assoc, ZenonT(40)
    <3> HIDE DEF a
    <3>4. (a \o i) \o pout = a \o (i \o pout)
      BY <3>1, Assoc, ZenonT(40)
    <3> QED
      BY <3>3, <3>4 DEF a
  <2>7. Way' = Way
    BY <2>2, <2>4, <2>6, <2>9
  <2>8. Listening /\ request' = request
    BY <2>1 DEF Listening, Reading, server, peer
  <2> QED
    BY <1>3, <2>7, <2>8
<1>6. CASE ServerCopies
  <2> DEFINE l == line \o Copied(rio["tiny"], 1)
             v == Unread(rio'["tiny"])
             t == in["tiny"] \o pout
  <2>1. /\ l \in Seq(Int) /\ l # <<>> /\ RioTypes' /\ Reading
        /\ IF EndsLine(l) THEN TakeLine(l) ELSE line' = l /\ UNCHANGED <<spc, blank, out, child, cgiout>>
        /\ UNCHANGED <<net, peer, tries, fds>>
        /\ l \o v = line \o Unread(rio["tiny"])
    BY <1>6, TakesACopy DEF ServerCopies
  <2>2. v \in Seq(Int) /\ t \in Seq(Int)
    BY <1>1, <2>1, Others, UnreadTyped DEF RioTypes
  <2>3. ServerHas = l \o v /\ Way = (l \o v) \o t
    BY <2>1 DEF ServerHas, Way
  <2>4. Listening /\ request' = request
    BY <2>1 DEF Listening, Reading, net, peer
  <2>5. Reading' => ServerHas' = line' \o v /\ Way' = (line' \o v) \o t
    BY <2>1 DEF ServerHas, Way, net, peer
  <2> HIDE DEF l, v, t
  <2>6. CASE EndsLine(l)
    <3>1. line' = <<>> /\ spc' \in {"close", "write", "headers"}
      BY <2>1, <2>6, LineTaken DEF TypeOK
    <3>2. Reading'
      BY <3>1 DEF Reading, Listening
    <3>3. Way' = v \o t
      BY <1>2, <2>2, <2>5, <3>1, <3>2
    <3>4. (l \o v) \o t = l \o (v \o t) /\ v \o t \in Seq(Int)
      BY <2>1, <2>2, Assoc, ConcatProperties
    <3> QED
      BY <2>1, <2>3, <2>4, <3>3, <3>4, WayShortens
  <2>7. CASE ~EndsLine(l)
    <3>1. line' = l /\ spc' = spc
      BY <2>1, <2>7
    <3>2. Reading'
      BY <2>1, <3>1 DEF Reading
    <3> QED
      BY <1>3, <2>3, <2>4, <2>5, <3>1, <3>2
  <2> QED
    BY <2>6, <2>7
<1>7. CASE PeerWrites
  <2>1. PICK k \in 1 .. Len(pout) : Sent("peer", pout, k) /\ pout' = Rest(pout, k)
    BY <1>7 DEF PeerWrites
  <2>2. UNCHANGED <<request, rio, server>>
    BY <1>7 DEF PeerWrites
  <2> DEFINE p == SubSeq(pout, 1, k)
             q == pout'
  <2>3. p \in Seq(Int) /\ q \in Seq(Int) /\ p \o q = pout
    <3>1. k \in 0..Len(pout)
      BY <1>1, LenProperties
    <3> QED
      BY <1>1, <2>1, <3>1, SplitAt
  <2>4. open' = open /\ open["tiny"]
    BY <1>1, <2>1, Others, SentReaches DEF TypeOK, Listening
  <2>5. in'["tiny"] = in["tiny"] \o p
    <3> HIDE DEF p
    <3>1. in' = [in EXCEPT !["tiny"] = in["tiny"] \o p]
      BY <2>1, <2>4, Others DEF Sent, p
    <3>2. "tiny" \in DOMAIN in
      BY <1>1, Others DEF TypeOK, StreamTypes
    <3> QED
      BY <3>1, <3>2
  <2>6. ServerHas' = ServerHas /\ Way' = ServerHas \o ((in["tiny"] \o p) \o q)
    BY <2>2, <2>5 DEF ServerHas, Way, Reading, server
  <2> HIDE DEF p, q
  <2>7. (in["tiny"] \o p) \o q = in["tiny"] \o pout
    <3> DEFINE i == in["tiny"]
    <3>1. i \in Seq(Int)
      BY <1>1
    <3> HIDE DEF i
    <3>2. (i \o p) \o q = i \o (p \o q)
      BY <2>3, <3>1, Assoc, ZenonT(40)
    <3> QED
      BY <2>3, <3>2 DEF i
  <2>8. Way' = Way
    BY <2>6, <2>7 DEF Way
  <2>9. Listening
    BY <2>2, <2>4 DEF Listening, server
  <2> QED
    BY <1>3, <2>2, <2>8, <2>9
<1>8. ASSUME UNCHANGED <<spc, line, pout, request, open>>, in'["tiny"] = in["tiny"], rio'["tiny"] = rio["tiny"]
      PROVE  Requested'
  <2>1. Listening
    BY <1>8 DEF Listening
  <2>2. ServerHas' = ServerHas
    BY <1>8 DEF ServerHas, Reading
  <2>3. Way' = Way
    BY <1>8, <2>2 DEF Way
  <2> QED
    BY <1>3, <1>8, <2>1, <2>3
<1>9. CASE Connect
  <2>1. CASE NextAddress("peer") /\ UNCHANGED <<rio, net, peer>>
    BY <1>8, <1>9, <2>1 DEF Connect, net, peer, server
  <2>2. CASE /\ spc \notin {"boot", "dead"}
             /\ in' = [x \in Ends |-> <<>>]
             /\ UNCHANGED <<request, pout, chunk, relayed>>
    <3>1. /\ ppc = "connect" /\ UNCHANGED server
      BY <1>9 DEF Connect
    <3>2. spc = "accept" /\ pout = Numbered(Len(request.text))
      BY <2>2, <3>1 DEF Connected, TypeOK, ServerTypes, Spots
    <3>3. ServerHas' = <<>> /\ in'["tiny"] = <<>>
      BY <2>2, <3>1, <3>2, Others DEF ServerHas, Reading, server
    <3>4. Way' = <<>> \o (<<>> \o pout)
      BY <2>2, <3>3 DEF Way
    <3>5. <<>> \o (<<>> \o (<<>> \o pout)) = pout
      BY <1>1, <1>2
    <3>6. <<>> \o Way' = Numbered(Len(request'.text))
      BY <2>2, <3>2, <3>4, <3>5
    <3> QED
      BY <1>1, <3>6 DEF Requested
  <2>3. CASE UNCHANGED <<rio, net, tries>>
    BY <1>9, <2>3 DEF Connect, Connected, Listening, net
  <2> QED
    BY <1>9, <2>1, <2>2, <2>3 DEF Connect
<1>10. CASE PeerRefills
  BY <1>8, <1>10, Others, RefillKeeps DEF PeerRefills, TypeOK, server, peer
<1>11. CASE PeerCopies
  BY <1>8, <1>11, PeerCopiesPart DEF PeerCopies, server, net
<1>12. CASE PeerRelays \/ PeerSeesEof \/ UNCHANGED vars
  BY <1>8, <1>12 DEF PeerRelays, PeerSeesEof, server, net, vars, peer
<1>13. ~PeerFails /\ ~PeerCloses /\ ~PeerQuits /\ ~Begin
  <2>1. ~(Shut("peer") \/ Aborted("peer"))
    BY Others, Leaves DEF Listening, TypeOK, StreamTypes
  <2> QED
    BY <2>1 DEF PeerFails, PeerCloses, PeerQuits, Begin, Listening, net
<1>14. ~ServerSeesEof
  BY Others DEF ServerSeesEof, AtEof, Listening, net
<1>15. ~ServerCloses
  <2>1. ~Shut("tiny")
    BY Others, Leaves DEF Listening, TypeOK, StreamTypes
  <2> QED
    BY <2>1 DEF ServerCloses
<1>16. /\ ~ServerReadFails /\ ~ServerWrites /\ ~ServerWriteFails /\ ~ChildRuns /\ ~Waited
  BY DEF ServerReadFails, ServerWrites, ServerWriteFails, ServerDies, ChildRuns, Held, Waited, Listening
<1>17. CASE Listen
  BY <1>17 DEF Listen, Connected, Listening, net
<1>19. ~ServerFails
  BY DEF ServerFails, AcceptFails, BodyFails, ServerDies, Listening
<1>18. CASE Written
  <2>1. CASE request.reply = "empty"
    BY <1>18, <2>1 DEF Written, ServerDies, Listening
  <2>2. CASE request.reply \in {"cgi", "cgi_crash", "cgi_noexec"}
    BY <1>18, <2>2 DEF Written, Listening
  <2>3. CASE request.reply \notin {"empty", "cgi", "cgi_crash", "cgi_noexec"}
    BY <1>18, <2>3 DEF Written, Listening
  <2> QED
    BY <2>1, <2>2, <2>3
<1> QED
  BY <1>4, <1>5, <1>6, <1>7, <1>9, <1>10, <1>11, <1>12, <1>13, <1>14, <1>15, <1>16, <1>17, <1>18, <1>19
     DEF Next, Server, Peer

LEMMA EndInOrder ==
  ASSUME NEW n \in Nat, NEW t \in Seq(Int), NEW s \in Seq(Int), t \o s = Numbered(n)
  PROVE  s = [i \in 1..Len(s) |-> n - Len(s) + i]
<1>1. Len(t) \in Nat /\ Len(s) \in Nat
  BY LenProperties
<1>2. /\ Len(t \o s) = Len(t) + Len(s)
      /\ \A i \in 1..(Len(t) + Len(s)) : (t \o s)[i] = IF i <= Len(t) THEN t[i] ELSE s[i - Len(t)]
  BY ConcatProperties
<1>3. Len(t) + Len(s) = n
  BY <1>2, NumberedTyped
<1>4. ASSUME NEW i \in 1..Len(s) PROVE s[i] = n - Len(s) + i
  <2> DEFINE j == Len(t) + i
  <2>1. j \in 1..(Len(t) + Len(s)) /\ ~(j <= Len(t)) /\ j - Len(t) = i /\ j \in 1..n
    BY <1>1, <1>3
  <2>2. j = n - Len(s) + i
    <3> DEFINE a == Len(t)
               b == Len(s)
    <3>1. a \in Nat /\ b \in Nat /\ a + b = n /\ i \in Int
      BY <1>1, <1>3
    <3> HIDE DEF a, b
    <3>2. a + i = n - b + i
      BY <3>1
    <3> QED
      BY <3>2 DEF a, b
  <2> HIDE DEF j
  <2>3. (t \o s)[j] = s[i]
    BY <1>2, <2>1
  <2>4. Numbered(n)[j] = j
    BY <2>1 DEF Numbered
  <2> QED
    BY <2>2, <2>3, <2>4
<1>5. s = [i \in 1..Len(s) |-> s[i]]
  BY LenProperties
<1> QED
  BY <1>4, <1>5

(* However read() and write() cut the request, what the server has not     *)
(* taken of it is its end, without a gap and in order (csapp.c:761-879).   *)
THEOREM RequestsArriveInOrder == Spec => []RequestInOrder
<1>1. Init => Requested
  BY Others DEF Init, Requested, Listening
<1>2. Shape /\ Requested /\ [Next]_vars => Requested'
  BY RequestedKept
<1>3. Shape /\ Requested => RequestInOrder
  <2> SUFFICES ASSUME Shape, Requested, Reading, open["peer"]
               PROVE  RequestInOrder
    BY DEF RequestInOrder
  <2> DEFINE u == Unread(rio["tiny"])
             i == in["tiny"]
             s == line \o u \o i \o pout
             n == Len(request.text)
  <2>1. line \in Seq(Int) /\ u \in Seq(Int) /\ i \in Seq(Int) /\ pout \in Seq(Int) /\ line \o u \in Seq(Int)
    BY WayTyped, ConcatProperties DEF Shape
  <2>2. n \in Nat
    BY RequestTyped DEF Shape
  <2>3. Way = (line \o u) \o (i \o pout)
    BY DEF Way, ServerHas
  <2>4. Listening
    BY DEF Listening, Reading, Shape, Connected
  <2>5. PICK taken \in Seq(Int) : taken \o Way = Numbered(n)
    BY <2>4 DEF Requested
  <2> HIDE DEF u, i, n
  <2>6. s = (line \o u) \o (i \o pout) /\ s \in Seq(Int)
    <3> DEFINE a == line \o u
    <3>1. a \in Seq(Int)
      BY <2>1
    <3> HIDE DEF a
    <3>2. (a \o i) \o pout = a \o (i \o pout) /\ a \o i \in Seq(Int)
      BY <2>1, <3>1, Assoc, ConcatProperties
    <3>3. (a \o i) \o pout \in Seq(Int)
      BY <2>1, <3>2, ConcatProperties
    <3> QED
      BY <3>2, <3>3 DEF a
  <2>7. taken \o s = Numbered(n)
    BY <2>3, <2>5, <2>6
  <2> HIDE DEF s
  <2>8. s = [k \in 1..Len(s) |-> n - Len(s) + k]
    BY <2>2, <2>6, <2>7, EndInOrder
  <2> QED
    BY <2>8 DEF RequestInOrder, s, n, u, i
<1> QED
  BY <1>1, <1>2, <1>3, ShapeHolds, PTL DEF Spec

----------------------------------------------------------------------------
(* The response on its way                                                 *)

\* what the server and its CGI process have not written yet
Left == IF ~open["tiny"] THEN <<>>
        ELSE IF spc \in {"accept", "request", "headers"} THEN Whole(request.reply)
        ELSE IF spc = "write" THEN Joined(out) \o Output(request.reply)
        ELSE IF spc = "wait" THEN cgiout
        ELSE <<>>

\* what the peer has not copied into its buffer
Coming == Unread(rio["peer"]) \o (in["peer"] \o Left)

(* The peer may still see the end of the stream: it has no reset, and none *)
(* is certain, as it is when it has to write to a server that is gone.     *)
Talking == /\ ~reset["peer"]
           /\ ppc = "read" \/ (ppc = "send" /\ open["tiny"])

(* What a peer has that sees the end of the stream after it passed on s.   *)
Stands(s) == s = Whole(request.reply) \/ (spc = "dead" /\ s = Headers(request.reply))

(* A client that has sent all and is in the listen queue is reset by a     *)
(* server that closes.                                                     *)
Queued == spc = "accept" /\ open["tiny"] /\ ppc = "read" => in["tiny"] # <<>>

(* Without a reset nothing of the response is lost, doubled or moved, but  *)
(* for the content when the server died before it; a reset never shows as  *)
(* the end of the stream.                                                  *)
Answered == /\ Talking => Stands(relayed \o (chunk \o Coming))
            /\ ppc = "eof" => Stands(relayed)
            /\ Queued

LEMMA ComingTyped ==
  ASSUME TypeOK
  PROVE  /\ Left \in Seq(Int) /\ Unread(rio["peer"]) \in Seq(Int) /\ in["peer"] \in Seq(Int)
         /\ in["peer"] \o Left \in Seq(Int) /\ Coming \in Seq(Int)
         /\ chunk \in Seq(Int) /\ relayed \in Seq(Int) /\ out \in Seq(Seq(Int)) /\ cgiout \in Seq(Int)
         /\ Whole(request.reply) \in Seq(Int) /\ Output(request.reply) \in Seq(Int)
<1>1. /\ Unread(rio["peer"]) \in Seq(Int) /\ in["peer"] \in Seq(Int) /\ <<>> \in Seq(Int)
      /\ chunk \in Seq(Int) /\ relayed \in Seq(Int) /\ out \in Seq(Seq(Int)) /\ cgiout \in Seq(Int)
  BY Others, UnreadTyped, EmptySeq DEF TypeOK, RioTypes, StreamTypes, ServerTypes, PeerTypes
<1>2. Whole(request.reply) \in Seq(Int) /\ Output(request.reply) \in Seq(Int)
  BY PiecesTyped
<1>3. Joined(out) \o Output(request.reply) \in Seq(Int)
  BY <1>1, <1>2, JoinedTyped, ConcatProperties
<1>4. Left \in Seq(Int)
  BY <1>1, <1>2, <1>3 DEF Left
<1>5. in["peer"] \o Left \in Seq(Int)
  BY <1>1, <1>4, ConcatProperties
<1> QED
  BY <1>1, <1>2, <1>4, <1>5, ConcatProperties DEF Coming

\* a common end can be taken off
LEMMA SameEnd ==
  ASSUME NEW a \in Seq(Int), NEW b \in Seq(Int), NEW c \in Seq(Int), a \o c = b \o c
  PROVE  a = b
<1>1. /\ Len(a) \in Nat /\ Len(b) \in Nat /\ Len(c) \in Nat
      /\ Len(a \o c) = Len(a) + Len(c) /\ Len(b \o c) = Len(b) + Len(c)
      /\ \A i \in 1..(Len(a) + Len(c)) : (a \o c)[i] = IF i <= Len(a) THEN a[i] ELSE c[i - Len(a)]
      /\ \A i \in 1..(Len(b) + Len(c)) : (b \o c)[i] = IF i <= Len(b) THEN b[i] ELSE c[i - Len(b)]
  BY LenProperties, ConcatProperties
<1>2. Len(a) = Len(b)
  BY <1>1
<1>3. ASSUME NEW i \in 1..Len(a) PROVE a[i] = b[i]
  <2>1. i \in 1..(Len(a) + Len(c)) /\ i \in 1..(Len(b) + Len(c)) /\ i <= Len(a) /\ i <= Len(b)
    BY <1>1, <1>2
  <2>2. (a \o c)[i] = a[i]
    BY <1>1, <2>1
  <2>3. (b \o c)[i] = b[i]
    BY <1>1, <2>1
  <2> QED
    BY <2>2, <2>3
<1> QED
  BY <1>2, <1>3, SeqEqual

\* where the content is next, the response is the headers and what is left
LEMMA HeadersFirst ==
  ASSUME BodyIsNext
  PROVE  /\ Headers(request.reply) \in Seq(Int)
         /\ Whole(request.reply) = Headers(request.reply) \o (Joined(out) \o Output(request.reply))
<1> DEFINE r == request.reply
           j == Joined(Pieces(r))
<1>1. j \in Seq(Int) /\ Output(r) \in Seq(Int) /\ <<>> \in Seq(Int)
  BY PiecesTyped, JoinedTyped, EmptySeq
<1>2. CASE out = <<>> /\ Headers(r) = j
  <2>1. Joined(out) \o Output(r) = Output(r)
    BY <1>1, <1>2, NothingJoined, NoPrefix
  <2> QED
    BY <1>1, <1>2, <2>1 DEF Whole
<1>3. CASE r = "file" /\ out = Tail(Pieces(r))
  <2> DEFINE a == <<1>>
             b == <<2, 3, 4, 5>>
  <2>1. Pieces(r) = <<a, b>> /\ out = <<b>> /\ Output(r) = <<>>
    BY <1>3 DEF Pieces, Output
  <2>2. a \in Seq(Int) /\ b \in Seq(Int)
    OBVIOUS
  <2> HIDE DEF a, b
  <2>3. Headers(r) = a
    BY <1>3, <2>1 DEF Headers, Piece
  <2>4. Joined(Pieces(r)) = a \o (b \o (<<>> \o <<>>))
    BY <2>1 DEF Joined, Piece
  <2>5. Joined(out) = b \o (<<>> \o (<<>> \o <<>>))
    BY <2>1 DEF Joined, Piece
  <2>6. /\ <<>> \o <<>> = <<>> /\ b \o <<>> = b
    BY <1>1, <2>2, NoPrefix
  <2>7. Joined(Pieces(r)) = a \o b /\ Joined(out) = b
    BY <2>4, <2>5, <2>6
  <2>8. a \o b \in Seq(Int) /\ (a \o b) \o <<>> = a \o b
    BY <2>2, ConcatProperties, NoPrefix
  <2> QED
    BY <2>1, <2>2, <2>3, <2>6, <2>7, <2>8 DEF Whole
<1>4. CASE r = "empty" /\ out = Tail(Pieces(r))
  <2>1. out = <<>>
    BY <1>4 DEF Pieces
  <2> QED
    BY <1>2, <1>4, <2>1 DEF Headers
<1>5. CASE r \in {"cgi", "cgi_crash", "cgi_noexec"} /\ out = <<>>
  BY <1>2, <1>5 DEF Headers
<1> QED
  BY <1>3, <1>4, <1>5 DEF BodyIsNext

\* the server and the kernel between them move what is left
LEMMA MovedOn ==
  ASSUME Answered, UNCHANGED <<relayed, chunk, request>>, rio'["peer"] = rio["peer"],
         Talking' => Talking /\ in'["peer"] \o Left' = in["peer"] \o Left,
         ppc' = "eof" => ppc = "eof", spc = "dead" => spc' = "dead", Queued'
  PROVE  Answered'
<1>1. ASSUME Talking' PROVE Stands(relayed \o (chunk \o Coming))'
  <2>1. Coming' = Coming
    BY <1>1 DEF Coming
  <2> QED
    BY <1>1, <2>1 DEF Answered, Stands
<1>2. ASSUME ppc' = "eof" PROVE Stands(relayed)'
  BY <1>2 DEF Answered, Stands
<1> QED
  BY <1>1, <1>2 DEF Answered

\* what a queued client has sent stays until the server accepts it or dies
LEMMA QueuedKept == Shape /\ Queued /\ Next => Queued'
<1> SUFFICES ASSUME Shape, Queued, Next, spc' = "accept", open'["tiny"], ppc' = "read"
             PROVE  in'["tiny"] # <<>>
  BY DEF Queued
<1> USE DEF Shape
<1>1. CASE Listen
  BY <1>1 DEF Listen, Connected, net
<1>2. CASE ServerCloses
  BY <1>2, Others, Leaves DEF ServerCloses, TypeOK, StreamTypes
<1>3. CASE PeerWrites
  <2>1. PICK k \in 1 .. Len(pout) : Sent("peer", pout, k)
    BY <1>3 DEF PeerWrites
  <2>2. pout \in Seq(Int) /\ in["tiny"] \in Seq(Int)
    BY Others DEF TypeOK, PeerTypes, StreamTypes
  <2>3. open' = open /\ (open["tiny"] => in'["tiny"] = in["tiny"] \o SubSeq(pout, 1, k))
    BY <2>1, <2>2, Others, SentReaches DEF TypeOK
  <2>4. SubSeq(pout, 1, k) \in Seq(Int) /\ Len(SubSeq(pout, 1, k)) = k /\ k \in Nat \ {0}
    <3>1. k \in 0..Len(pout) /\ k \in Nat \ {0}
      BY <2>2, LenProperties
    <3> QED
      BY <2>2, <3>1, SplitAt
  <2> DEFINE q == SubSeq(pout, 1, k)
             i == in["tiny"]
  <2>5. q \in Seq(Int) /\ Len(q) \in Nat \ {0} /\ i \in Seq(Int) /\ Len(i) \in Nat
    BY <2>2, <2>4, LenProperties
  <2> HIDE DEF q, i
  <2>6. i \o q \in Seq(Int) /\ Len(i \o q) = Len(i) + Len(q)
    BY <2>5, ConcatProperties
  <2>7. Len(i \o q) # 0
    BY <2>5, <2>6
  <2> QED
    BY <2>3, <2>6, <2>7, EmptySeq DEF q, i
<1>4. CASE PeerRefills
  BY <1>4, Others, RefillKeeps DEF PeerRefills, TypeOK, Queued, server, peer
<1>5. CASE PeerCopies \/ PeerRelays
  BY <1>5 DEF PeerCopies, PeerRelays, Queued, server, net
<1>6. ~PeerSeesEof /\ ~PeerFails /\ ~PeerCloses /\ ~PeerQuits /\ ~Begin /\ ~Connect
  BY DEF PeerSeesEof, PeerFails, PeerCloses, PeerQuits, PeerExits, Begin, Connect, Connected, peer
<1>7. /\ ~Accept /\ ~ServerReadFails /\ ~ServerWrites /\ ~ServerWriteFails /\ ~ChildRuns /\ ~Waited /\ ~ServerRefills
      /\ ~ServerFails
  BY DEF Accept, ServerReadFails, ServerWrites, ServerWriteFails, ServerDies, ChildRuns, Held, Waited,
         ServerRefills, Reading, server, ServerFails, AcceptFails, BodyFails
<1>8. ~Written
  <2>1. CASE request.reply = "empty"
    BY <2>1 DEF Written, ServerDies
  <2>2. CASE request.reply \in {"cgi", "cgi_crash", "cgi_noexec"}
    BY <2>2 DEF Written
  <2>3. CASE request.reply \notin {"empty", "cgi", "cgi_crash", "cgi_noexec"}
    BY <2>3 DEF Written
  <2> QED
    BY <2>1, <2>2, <2>3
<1>9. ~ServerSeesEof
  BY LineTaken DEF ServerSeesEof, TypeOK, ServerTypes
<1>10. ~ServerCopies
  <2> SUFFICES ASSUME ServerCopies PROVE FALSE
    OBVIOUS
  <2> DEFINE l == line \o Copied(rio["tiny"], 1)
  <2>1. /\ l \in Seq(Int) /\ Reading
        /\ IF EndsLine(l) THEN TakeLine(l) ELSE line' = l /\ UNCHANGED <<spc, blank, out, child, cgiout>>
    BY TakesACopy DEF ServerCopies
  <2> HIDE DEF l
  <2> QED
    BY <2>1, LineTaken DEF TypeOK, Reading
<1> QED
  BY <1>1, <1>2, <1>3, <1>4, <1>5, <1>6, <1>7, <1>8, <1>9, <1>10 DEF Next, Server, Peer

LEMMA AnsweredByServer == Shape /\ Answered /\ Server => Answered'
<1> SUFFICES ASSUME Shape, Answered, Server PROVE Answered'
  OBVIOUS
<1> USE DEF Shape
<1>0. spc # "dead" /\ Queued'
  <2>1. Queued'
    BY QueuedKept DEF Next, Answered
  <2> QED
    BY <2>1 DEF Server, Listen, Accept, ServerRefills, ServerReadFails, ServerCopies, ServerSeesEof, Reading,
       ServerWrites, ServerWriteFails, Written, ChildRuns, Waited, ServerCloses, Held
<1>1. /\ Left \in Seq(Int) /\ in["peer"] \in Seq(Int) /\ out \in Seq(Seq(Int)) /\ cgiout \in Seq(Int)
      /\ Output(request.reply) \in Seq(Int)
  BY ComingTyped
<1>2. ASSUME UNCHANGED peer, rio'["peer"] = rio["peer"], open'["tiny"] => open["tiny"],
             Talking' => ~reset["peer"] /\ in'["peer"] \o Left' = in["peer"] \o Left
      PROVE  Answered'
  <2>1. Talking' => Talking
    BY <1>2 DEF Talking, peer
  <2> QED
    BY <1>0, <1>2, <2>1, MovedOn DEF peer
<1>3. Talking /\ open["tiny"] => open["peer"] /\ ~reset["tiny"]
  BY DEF Talking, Connected
<1>4. CASE Listen
  <2>1. UNCHANGED <<rio, net, peer>> /\ ~open["tiny"]
    BY <1>4 DEF Listen, Connected
  <2>2. Left' = Left
    BY <2>1 DEF Left, net
  <2> QED
    BY <1>2, <2>1, <2>2 DEF net, Talking
<1>5. CASE Accept
  <2>1. /\ UNCHANGED <<net, peer>> /\ spc = "accept" /\ spc' = "request"
        /\ rio' = [rio EXCEPT !["tiny"] = rio_readinitb]
    BY <1>5 DEF Accept
  <2>2. rio'["peer"] = rio["peer"]
    BY <2>1, Others DEF TypeOK, RioTypes
  <2>3. Left' = Left
    BY <2>1 DEF Left, net, peer
  <2> QED
    BY <1>2, <2>1, <2>2, <2>3 DEF net, Talking
<1>6. CASE ServerRefills
  <2>1. /\ rio'["peer"] = rio["peer"] /\ in'["peer"] = in["peer"] /\ UNCHANGED <<open, reset>>
        /\ UNCHANGED <<server, peer>>
    BY <1>6, Others, RefillKeeps DEF ServerRefills, TypeOK
  <2>2. Left' = Left
    BY <2>1 DEF Left, server, peer
  <2> QED
    BY <1>2, <2>1, <2>2 DEF Talking
<1>7. CASE ServerCopies
  <2> DEFINE l == line \o Copied(rio["tiny"], 1)
  <2>1. /\ l \in Seq(Int) /\ l # <<>> /\ Reading
        /\ IF EndsLine(l) THEN TakeLine(l) ELSE line' = l /\ UNCHANGED <<spc, blank, out, child, cgiout>>
        /\ UNCHANGED <<net, peer, tries, fds>>
        /\ rio' = [rio EXCEPT !["tiny"] = Advanced(rio["tiny"], 1)]
    BY <1>7, TakesACopy DEF ServerCopies
  <2> HIDE DEF l
  <2>2. \/ spc' \in {"request", "headers"}
        \/ spc' = "write" /\ out' = Pieces(request.reply)
    <3>1. CASE EndsLine(l)
      BY <2>1, <3>1, LineTaken DEF TypeOK
    <3>2. CASE ~EndsLine(l)
      BY <2>1, <3>2 DEF Reading
    <3> QED
      BY <3>1, <3>2
  <2>3. rio'["peer"] = rio["peer"]
    BY <2>1, Others DEF TypeOK, RioTypes
  <2>4. Left' = Left
    BY <2>1, <2>2 DEF Left, Whole, Reading, net, peer
  <2> QED
    BY <1>2, <2>1, <2>3, <2>4 DEF Talking, net
<1>8. CASE ServerSeesEof
  <2>1. UNCHANGED <<net, peer>> /\ rio' = [rio EXCEPT !["tiny"] = AtEnd(@)] /\ ~open["peer"]
    BY <1>8, Others DEF ServerSeesEof, AtEof
  <2>2. rio'["peer"] = rio["peer"]
    BY <2>1, Others DEF TypeOK, RioTypes
  <2>3. ~Talking'
    BY <2>1 DEF Talking, Connected, net, peer
  <2> QED
    BY <1>2, <2>1, <2>2, <2>3 DEF net
<1>9. CASE ServerReadFails \/ ServerWriteFails
  <2>1. UNCHANGED <<rio, peer>> /\ Shut("tiny") /\ reset["tiny"] /\ open["tiny"]
    BY <1>9 DEF ServerReadFails, ServerWriteFails, ReadFails, Reading, Connected
  <2>2. ~Talking'
    <3>1. reset["peer"] => reset'["peer"]
      BY <2>1, Others, Leaves DEF TypeOK, StreamTypes
    <3>2. ~Talking
      BY <1>3, <2>1
    <3> QED
      BY <2>1, <3>1, <3>2 DEF Talking, peer
  <2> QED
    BY <1>2, <2>1, <2>2
<1>10. ASSUME NEW s \in Seq(Int), NEW k \in 1..Len(s), Sent("tiny", s, k),
              NEW r \in Seq(Int), Left = SubSeq(s, 1, k) \o r, open' = open => Left' = r,
              UNCHANGED <<rio, peer>>
       PROVE  Answered'
  <2>1. /\ open' = open
        /\ reset'["peer"] = reset["peer"]
        /\ open["peer"] => in'["peer"] = in["peer"] \o SubSeq(s, 1, k)
    BY <1>10, Others, SentReaches DEF TypeOK
  <2> DEFINE p == SubSeq(s, 1, k)
             i == in["peer"]
  <2>2. p \in Seq(Int) /\ i \in Seq(Int) /\ Left = p \o r /\ Left' = r
    <3>1. k \in 0..Len(s)
      BY LenProperties
    <3> QED
      BY <1>1, <1>10, <2>1, <3>1, SplitAt
  <2> HIDE DEF p, i
  <2>3. (i \o p) \o r = i \o (p \o r)
    BY <2>2, Assoc, ZenonT(40)
  <2>4. Talking' => open["peer"] /\ ~reset["peer"]
    BY <1>10, <2>1 DEF Talking, Connected, peer
  <2>5. Talking' => in'["peer"] \o Left' = in["peer"] \o Left
    BY <2>1, <2>2, <2>3, <2>4 DEF p, i
  <2> QED
    BY <1>2, <1>10, <2>1, <2>4, <2>5
<1>11. CASE ServerWrites
  <2>1. PICK k \in 1 .. Len(Head(out)) : Sent("tiny", Head(out), k) /\ out' = Wrote(out, k)
    BY <1>11 DEF ServerWrites
  <2>2. /\ Len(out) <= 4 /\ out # <<>> /\ spc = "write" /\ open["tiny"]
        /\ UNCHANGED <<spc, line, blank, child, cgiout, rio, peer, tries, fds>>
    BY <1>11 DEF ServerWrites, TypeOK, ServerTypes, Connected
  <2> DEFINE p == SubSeq(Head(out), 1, k)
             w == Joined(Wrote(out, k))
             o == Output(request.reply)
  <2>3. /\ Wrote(out, k) \in Seq(Seq(Int)) /\ Head(out) \in Seq(Int) /\ p \in Seq(Int)
        /\ p \o w = Joined(out)
    BY <1>1, <2>2, JoinedWrote
  <2>4. w \in Seq(Int) /\ o \in Seq(Int)
    BY <1>1, <2>3, JoinedTyped
  <2>5. Left = Joined(out) \o o
    BY <2>2 DEF Left
  <2>6. open' = open => Left' = w \o o
    BY <2>1, <2>2 DEF Left, peer
  <2> HIDE DEF p, w, o
  <2>7. (p \o w) \o o = p \o (w \o o)
    BY <2>3, <2>4, Assoc, ZenonT(40)
  <2>8. w \o o \in Seq(Int)
    BY <2>4, ConcatProperties
  <2>9. Left = p \o (w \o o)
    BY <2>3, <2>5, <2>7
  <2> QED
    BY <1>10, <2>1, <2>2, <2>3, <2>6, <2>8, <2>9 DEF p
<1>12. CASE Written
  <2>1. spc = "write" /\ out = <<>> /\ UNCHANGED <<rio, peer>> /\ open["tiny"]
    BY <1>12 DEF Written, Connected
  <2>2. Left = Output(request.reply)
    BY <1>1, <2>1, NothingJoined, NoPrefix DEF Left
  <2>3. CASE request.reply = "empty"
    <3>1. Shut("tiny") /\ spc' = "dead"
      BY <1>12, <2>3 DEF Written, ServerDies
    <3>2. ~open'["tiny"] /\ (reset'["peer"] \/ (reset'["peer"] = reset["peer"] /\ in'["peer"] = in["peer"]))
      BY <3>1, Others, Leaves DEF TypeOK, StreamTypes
    <3>3. Left = <<>> /\ Left' = <<>>
      BY <2>2, <2>3, <3>2 DEF Left, Output
    <3> QED
      BY <1>2, <2>1, <3>2, <3>3 DEF Talking
  <2>4. CASE request.reply \in {"cgi", "cgi_crash", "cgi_noexec"}
    <3>1. spc' = "wait" /\ cgiout' = Output(request.reply) /\ UNCHANGED net
      BY <1>12, <2>4 DEF Written
    <3>2. Left' = Left
      BY <2>1, <2>2, <3>1 DEF Left, net
    <3> QED
      BY <1>2, <2>1, <3>1, <3>2 DEF Talking, net
  <2>5. CASE request.reply \notin {"empty", "cgi", "cgi_crash", "cgi_noexec"}
    <3>1. spc' = "close" /\ UNCHANGED net
      BY <1>12, <2>5 DEF Written
    <3>2. Left' = <<>> /\ Left = <<>>
      BY <2>2, <2>5, <3>1 DEF Left, Output
    <3> QED
      BY <1>2, <2>1, <3>1, <3>2 DEF Talking, net
  <2> QED
    BY <2>3, <2>4, <2>5
<1>13. CASE ChildRuns
  <2>1. child = "running" /\ spc = "wait" /\ open["tiny"] /\ UNCHANGED <<spc, rio, peer>>
    BY <1>13 DEF ChildRuns, Held, Connected
  <2>2. Left = cgiout
    BY <2>1 DEF Left
  <2>3. CASE \E k \in 1 .. Len(cgiout) : Sent("tiny", cgiout, k) /\ cgiout' = Rest(cgiout, k)
    <3>1. PICK k \in 1 .. Len(cgiout) : Sent("tiny", cgiout, k) /\ cgiout' = Rest(cgiout, k)
      BY <2>3
    <3> DEFINE r == Rest(cgiout, k)
    <3>2. r \in Seq(Int) /\ cgiout = SubSeq(cgiout, 1, k) \o r
      <4>1. k \in 0..Len(cgiout)
        BY <1>1, LenProperties
      <4> QED
        BY <1>1, <4>1, SplitAt
    <3>3. open' = open => Left' = r
      BY <2>1, <3>1 DEF Left
    <3> HIDE DEF r
    <3> QED
      BY <1>1, <1>10, <2>1, <2>2, <3>1, <3>2, <3>3
  <2>4. CASE (cgiout = <<>> \/ reset["tiny"]) /\ cgiout' = <<>> /\ UNCHANGED net
    <3>1. Talking' => Talking
      BY <2>1, <2>4 DEF Talking, net, peer
    <3>2. Talking => Left' = Left
      BY <1>3, <2>1, <2>2, <2>4 DEF Left, net
    <3> QED
      BY <1>2, <2>1, <2>4, <3>1, <3>2 DEF Talking, net
  <2> QED
    BY <1>13, <2>3, <2>4 DEF ChildRuns
<1>14. CASE Waited
  <2>1. cgiout = <<>> /\ spc = "wait" /\ spc' = "close" /\ UNCHANGED <<rio, net, peer>>
    BY <1>14 DEF Waited, Reapable, Held
  <2>2. Left = <<>> /\ Left' = <<>>
    BY <2>1 DEF Left
  <2> QED
    BY <1>2, <2>1, <2>2 DEF Talking, net
<1>15. CASE ServerCloses
  <2>1. Shut("tiny") /\ spc = "close" /\ UNCHANGED <<rio, peer>>
    BY <1>15 DEF ServerCloses
  <2>2. ~open'["tiny"] /\ (reset'["peer"] \/ (reset'["peer"] = reset["peer"] /\ in'["peer"] = in["peer"]))
    BY <2>1, Others, Leaves DEF TypeOK, StreamTypes
  <2>3. Left = <<>> /\ Left' = <<>>
    BY <2>1, <2>2 DEF Left
  <2> QED
    BY <1>2, <2>1, <2>2, <2>3 DEF Talking
<1> QED
  BY <1>4, <1>5, <1>6, <1>7, <1>8, <1>9, <1>11, <1>12, <1>13, <1>14, <1>15 DEF Server

LEMMA AnsweredByPeer == Shape /\ Answered /\ (Peer \/ Begin \/ PeerQuits) => Answered'
<1> SUFFICES ASSUME Shape, Answered, Peer \/ Begin \/ PeerQuits PROVE Answered'
  OBVIOUS
<1> USE DEF Shape
<1>1. /\ Left \in Seq(Int) /\ Unread(rio["peer"]) \in Seq(Int) /\ in["peer"] \in Seq(Int)
      /\ in["peer"] \o Left \in Seq(Int) /\ Coming \in Seq(Int)
      /\ chunk \in Seq(Int) /\ relayed \in Seq(Int) /\ Whole(request.reply) \in Seq(Int)
  BY ComingTyped
<1>0. Queued'
  BY QueuedKept DEF Next, Answered
<1>2. CASE ppc' \in {"idle", "connect"}
  BY <1>0, <1>2 DEF Answered, Talking
<1>10. ASSUME UNCHANGED <<spc, request>>, ppc' # "eof",
              Talking' => Talking /\ relayed' \o (chunk' \o Coming') = relayed \o (chunk \o Coming)
       PROVE  Answered'
  BY <1>0, <1>10 DEF Answered, Stands
<1>3. Begin \/ PeerFails \/ PeerCloses \/ PeerQuits => ppc' \in {"idle", "connect"}
  BY DEF Begin, PeerFails, PeerCloses, PeerQuits, PeerExits
<1>4. CASE Connect
  <2>1. ppc = "connect" /\ UNCHANGED server
    BY <1>4 DEF Connect
  <2>2. CASE NextAddress("peer") /\ UNCHANGED <<rio, net, peer>>
    BY <1>2, <2>1, <2>2 DEF peer
  <2>3. CASE /\ Opened("peer") /\ spc \notin {"boot", "dead"} /\ ppc' = "send"
             /\ open' = [x \in Ends |-> TRUE] /\ in' = [x \in Ends |-> <<>>]
             /\ reset' = [x \in Ends |-> FALSE]
             /\ rio' = [rio EXCEPT !["peer"] = rio_readinitb]
             /\ UNCHANGED <<request, pout, chunk, relayed>>
    <3> DEFINE w == Whole(request.reply)
    <3>1. spc = "accept" /\ relayed = <<>> /\ chunk = <<>>
      BY <2>1, <2>3 DEF Connected, TypeOK, ServerTypes, Spots
    <3>2. rio'["peer"] = rio_readinitb /\ in'["peer"] = <<>> /\ open'["tiny"]
      BY <2>3, Others DEF TypeOK, RioTypes
    <3>3. Left' = w
      BY <2>1, <2>3, <3>1, <3>2 DEF Left, server
    <3>4. Coming' = <<>> \o (<<>> \o w)
      BY <3>2, <3>3, FreshRio DEF Coming
    <3> HIDE DEF w
    <3>5. w \in Seq(Int)
      BY <1>1 DEF w
    <3>6. <<>> \o (<<>> \o (<<>> \o (<<>> \o w))) = w
      BY <3>5, NoPrefix
    <3>7. relayed' \o (chunk' \o Coming') = Whole(request'.reply)
      BY <2>3, <3>1, <3>4, <3>6 DEF w
    <3> QED
      BY <1>0, <2>3, <3>7 DEF Answered, Stands
  <2>4. CASE PeerExits
    BY <1>2, <2>4 DEF PeerExits
  <2> QED
    BY <1>4, <2>2, <2>3, <2>4 DEF Connect
<1>5. CASE PeerWrites
  <2>1. PICK k \in 1 .. Len(pout) : Sent("peer", pout, k)
    BY <1>5 DEF PeerWrites
  <2>2. ppc = "send" /\ ppc' \in {"read", "send"} /\ UNCHANGED <<request, chunk, relayed, rio, server>>
    BY <1>5 DEF PeerWrites
  <2>3. pout \in Seq(Int)
    BY DEF TypeOK, PeerTypes
  <2>4. /\ open' = open
        /\ open["tiny"] => reset'["peer"] = reset["peer"] /\ in'["peer"] = in["peer"]
        /\ ~open["tiny"] => reset'["peer"] = TRUE
    BY <2>1, <2>3, Others, SentReaches DEF TypeOK
  <2>5. Left' = Left
    BY <2>2, <2>4 DEF Left, server
  <2>6. Talking' => Talking /\ in'["peer"] \o Left' = in["peer"] \o Left
    BY <2>2, <2>4, <2>5 DEF Talking
  <2> QED
    BY <1>0, <2>2, <2>6, MovedOn DEF server
<1>6. CASE PeerRefills
  <2>1. /\ Unread(rio'["peer"]) \o in'["peer"] = Unread(rio["peer"]) \o in["peer"]
        /\ RioTypes' /\ StreamTypes' /\ UNCHANGED <<open, reset>>
        /\ ppc = "read" /\ UNCHANGED <<server, peer>>
    BY <1>6, Others, RefillKeeps DEF PeerRefills, TypeOK
  <2> DEFINE u == Unread(rio["peer"])
             v == Unread(rio'["peer"])
             i == in["peer"]
             j == in'["peer"]
             f == Left
  <2>2. u \in Seq(Int) /\ v \in Seq(Int) /\ i \in Seq(Int) /\ j \in Seq(Int) /\ f \in Seq(Int) /\ v \o j = u \o i
    BY <1>1, <2>1, Others, UnreadTyped DEF RioTypes, StreamTypes
  <2>3. Left' = f
    BY <2>1 DEF Left, server, peer
  <2>4. Coming = u \o (i \o f) /\ Coming' = v \o (j \o f)
    BY <2>3 DEF Coming
  <2> HIDE DEF u, v, i, j, f
  <2>5. (u \o i) \o f = u \o (i \o f)
    BY <2>2, Assoc, ZenonT(40)
  <2>6. (v \o j) \o f = v \o (j \o f)
    BY <2>2, Assoc, ZenonT(40)
  <2>7. Coming' = Coming
    BY <2>2, <2>4, <2>5, <2>6
  <2>8. UNCHANGED <<spc, request>> /\ ppc' # "eof" /\ (Talking' => Talking)
    BY <2>1 DEF Talking, server, peer
  <2> QED
    BY <1>10, <2>1, <2>7, <2>8 DEF peer
<1>7. CASE PeerCopies
  <2>1. /\ chunk' \in Seq(Int) /\ RioTypes'
        /\ chunk' \o Unread(rio'["peer"]) = chunk \o Unread(rio["peer"])
        /\ ppc = "read" /\ UNCHANGED <<ppc, request, relayed, net, server>>
    BY <1>7, PeerCopiesPart DEF PeerCopies
  <2> DEFINE u == Unread(rio["peer"])
             v == Unread(rio'["peer"])
             t == in["peer"] \o Left
             c == chunk'
  <2>2. u \in Seq(Int) /\ v \in Seq(Int) /\ t \in Seq(Int) /\ c \in Seq(Int) /\ chunk \in Seq(Int)
        /\ c \o v = chunk \o u
    BY <1>1, <2>1, Others, UnreadTyped DEF RioTypes
  <2>3. Left' = Left
    BY <2>1 DEF Left, server, net
  <2>4. Coming = u \o t /\ Coming' = v \o t
    BY <2>1, <2>3 DEF Coming, net
  <2> HIDE DEF u, v, t, c
  <2>5. (chunk \o u) \o t = chunk \o (u \o t)
    BY <2>2, Assoc, ZenonT(40)
  <2>6. (c \o v) \o t = c \o (v \o t)
    BY <2>2, Assoc, ZenonT(40)
  <2>7. chunk' \o Coming' = chunk \o Coming
    BY <2>2, <2>4, <2>5, <2>6 DEF c
  <2>8. UNCHANGED <<spc, request>> /\ ppc' # "eof" /\ (Talking' => Talking)
    BY <2>1 DEF Talking, server, net
  <2> QED
    BY <1>10, <2>1, <2>7, <2>8
<1>8. CASE PeerRelays
  <2>1. /\ relayed' = relayed \o chunk /\ chunk' = <<>> /\ ppc = "read"
        /\ UNCHANGED <<ppc, request, rio, net, server>>
    BY <1>8 DEF PeerRelays
  <2>2. Left' = Left
    BY <2>1 DEF Left, server, net
  <2>3. Coming' = Coming
    BY <2>1, <2>2 DEF Coming, net
  <2> DEFINE f == Coming
  <2>4. relayed \in Seq(Int) /\ chunk \in Seq(Int) /\ f \in Seq(Int)
    BY <1>1
  <2> HIDE DEF f
  <2>5. (relayed \o chunk) \o f = relayed \o (chunk \o f) /\ <<>> \o f = f
    BY <2>4, Assoc, NoPrefix
  <2>6. relayed' \o (chunk' \o Coming') = relayed \o (chunk \o Coming)
    BY <2>1, <2>3, <2>5 DEF f
  <2>8. UNCHANGED <<spc, request>> /\ ppc' # "eof" /\ (Talking' => Talking)
    BY <2>1 DEF Talking, server, net
  <2> QED
    BY <1>10, <2>6, <2>8
<1>9. CASE PeerSeesEof
  <2>1. /\ ppc = "read" /\ chunk = <<>> /\ ppc' = "eof" /\ UNCHANGED <<spc, request, relayed>>
        /\ rio["peer"].cnt <= 0 /\ in["peer"] = <<>> /\ ~open["tiny"] /\ ~reset["peer"]
    BY <1>9, Others DEF PeerSeesEof, AtEof, server
  <2>2. Unread(rio["peer"]) = <<>> /\ Left = <<>>
    BY <2>1 DEF Unread, Left
  <2>3. relayed \o (<<>> \o (<<>> \o (<<>> \o <<>>))) = relayed
    BY <1>1, NoPrefix, EmptySeq
  <2>4. Stands(relayed)
    BY <2>1, <2>2, <2>3 DEF Answered, Talking, Coming
  <2> QED
    BY <1>0, <2>1, <2>4 DEF Answered, Talking, Stands
<1> QED
  BY <1>2, <1>3, <1>4, <1>5, <1>6, <1>7, <1>8, <1>9 DEF Peer

(* A server that dies on its way to the content leaves the headers alone   *)
(* to the peer, and one that dies at accept() resets it.                   *)
LEMMA AnsweredByFailure == Shape /\ Answered /\ ServerFails => Answered'
<1> SUFFICES ASSUME Shape, Answered, ServerFails PROVE Answered'
  OBVIOUS
<1> USE DEF Shape
<1>1. spc' = "dead" /\ UNCHANGED <<rio, peer>> /\ spc # "dead"
  BY DEF ServerFails, AcceptFails, BodyFails, BodyIsNext, ServerDies
<1>2. Queued'
  BY <1>1 DEF Queued
<1>3. ppc' = "eof" => Stands(relayed)'
  BY <1>1 DEF Answered, Stands, peer
<1>4. CASE AcceptFails
  <2>1. CASE open["tiny"]
    <3>1. spc = "accept"
      BY <1>4 DEF AcceptFails
    <3>2. ASSUME Aborted("tiny") PROVE ~Talking'
      <4>1. reset'["peer"] = TRUE
        BY <3>2, Others DEF Aborted, TypeOK, StreamTypes
      <4> QED
        BY <4>1 DEF Talking
    <3>3. ASSUME Shut("tiny") PROVE ~Talking'
      <4>1. ~open'["tiny"] /\ (reset["peer"] => reset'["peer"])
        BY <3>3, Others, Leaves DEF TypeOK, StreamTypes
      <4>2. ASSUME ppc = "read", ~reset["peer"] PROVE reset'["peer"] = TRUE
        <5>1. in["tiny"] # <<>> /\ open["peer"]
          BY <2>1, <3>1, <4>2 DEF Answered, Queued, Connected
        <5> QED
          BY <3>3, <5>1, Others DEF Shut, TypeOK, StreamTypes
      <4> QED
        BY <1>1, <4>1, <4>2 DEF Talking, peer
    <3> QED
      BY <1>2, <1>3, <1>4, <2>1, <3>2, <3>3 DEF AcceptFails, Answered
  <2>2. CASE ~open["tiny"]
    <3>1. UNCHANGED net
      BY <1>4, <2>2 DEF AcceptFails
    <3>2. Left' = Left
      BY <2>2, <3>1 DEF Left, net
    <3> QED
      BY <1>1, <1>2, <3>1, <3>2, MovedOn DEF Talking, peer, net
  <2> QED
    BY <2>1, <2>2
<1>5. CASE BodyFails
  <2> DEFINE h == Headers(request.reply)
             f == Left
             u == Unread(rio["peer"])
             i == in["peer"]
  <2>1. BodyIsNext /\ Shut("tiny") /\ open["tiny"] /\ spc = "write"
    BY <1>5 DEF BodyFails, BodyIsNext, Connected
  <2>2. ~open'["tiny"] /\ (reset'["peer"] \/ (reset'["peer"] = reset["peer"] /\ in'["peer"] = in["peer"]))
    BY <2>1, Others, Leaves DEF TypeOK, StreamTypes
  <2>3. h \in Seq(Int) /\ Whole(request.reply) = h \o f
    BY <2>1, HeadersFirst DEF Left
  <2>4. /\ f \in Seq(Int) /\ u \in Seq(Int) /\ i \in Seq(Int)
        /\ chunk \in Seq(Int) /\ relayed \in Seq(Int)
    BY ComingTyped
  <2>5. ASSUME Talking' PROVE Stands(relayed \o (chunk \o Coming))'
    <3>1. Talking /\ in'["peer"] = i
      BY <1>1, <2>1, <2>2, <2>5 DEF Talking, peer
    <3>0. relayed \o (chunk \o Coming) = Whole(request.reply)
      BY <1>1, <3>1 DEF Answered, Stands
    <3>2. relayed \o (chunk \o (u \o (i \o f))) = h \o f
      BY <2>3, <3>0 DEF Coming
    <3>3. Coming' = u \o (i \o <<>>)
      BY <1>1, <2>2, <3>1 DEF Coming, Left
    <3> HIDE DEF h, f, u, i
    <3>4. i \o <<>> = i /\ u \o i \in Seq(Int)
      BY <2>4, NoPrefix, ConcatProperties
    <3> DEFINE v == u \o i
    <3>11. (u \o i) \o f = u \o (i \o f)
      BY <2>4, Assoc, ZenonT(40)
    <3>5. u \o (i \o f) = v \o f /\ v \in Seq(Int)
      BY <3>4, <3>11
    <3> HIDE DEF v
    <3> DEFINE w == chunk \o v
    <3>6. chunk \o (v \o f) = w \o f /\ w \in Seq(Int)
      BY <2>4, <3>5, Assoc, ConcatProperties
    <3> HIDE DEF w
    <3> DEFINE z == relayed \o w
    <3>7. relayed \o (w \o f) = z \o f /\ z \in Seq(Int)
      BY <2>4, <3>6, Assoc, ConcatProperties
    <3> HIDE DEF z
    <3>8. z \o f = h \o f
      BY <3>2, <3>5, <3>6, <3>7
    <3>9. z = h
      BY <2>3, <2>4, <3>7, <3>8, SameEnd, ZenonT(40)
    <3>10. relayed' \o (chunk' \o Coming') = z
      BY <1>1, <3>3, <3>4 DEF peer, v, w, z
    <3> QED
      BY <1>1, <3>9, <3>10 DEF Stands, h, peer
  <2> QED
    BY <1>2, <1>3, <2>5 DEF Answered
<1> QED
  BY <1>4, <1>5 DEF ServerFails

(* A peer that sees the end of the stream has passed on the whole response *)
(* of the server and its CGI process, or the headers alone when a system   *)
(* call ended the server before the content: whatever read() and write()   *)
(* do with their counts, a response cut anywhere else shows as a reset     *)
(* (tiny.c:33-35, 149-239, csapp.c:761-850, proxy.c:150-155).              *)
THEOREM EofMeansWhole == Spec => []WholeAtEof
<1>1. Init => Answered
  BY DEF Init, Answered, Talking, Queued
<1>2. Shape /\ Answered /\ [Next]_vars => Answered'
  <2> SUFFICES ASSUME Shape, Answered, UNCHANGED vars PROVE Answered'
    BY AnsweredByServer, AnsweredByFailure, AnsweredByPeer DEF Next
  <2>1. Left' = Left
    BY DEF Left, vars, server, peer, net
  <2>2. Coming' = Coming
    BY <2>1 DEF Coming, vars, net
  <2> QED
    BY <2>2 DEF Answered, Talking, Stands, Queued, vars, peer, net, server
<1>3. Answered => WholeAtEof
  BY DEF Answered, Stands, WholeAtEof
<1> QED
  BY <1>1, <1>2, <1>3, ShapeHolds, PTL DEF Spec
=============================================================================
