---------------------------- MODULE LinkProofs ----------------------------
(***************************************************************************)
(* The link, for any number of jobs and all sizes of buffers, frames,      *)
(* payloads and errors: both decoders stay in step with what was written,  *)
(* leave no complete frame behind, meet no frame too large for them, and   *)
(* the loops never all wait while one of them has a job in its hands.      *)
(*                                                                         *)
(* The frames of a direction lie end to end, the decoded ones first, and   *)
(* the reader's buffer begins where these end.  A batch of dispatches and  *)
(* a drained chunk are functions defined by recursion; what they compute   *)
(* is proved by looking at the least place where it would fail.  That the  *)
(* cycle cannot deadlock rests on the whereabouts of every job: what each  *)
(* loop waits for is in a stream, in the channel or in another's hands.    *)
(***************************************************************************)
EXTENDS Link, WellFoundedInduction, TLAPS

\* A nonempty set of natural numbers has a least element: induction without
\* an operator as parameter.
LEMMA Least ==
  ASSUME NEW T \in SUBSET Nat, T # {}
  PROVE  \E n \in T : \A m \in T : n <= m
<1> DEFINE R == OpToRel(<, Nat)
<1>1. IsWellFoundedOn(R, Nat)
  BY NatLessThanWellFounded, Zenon
<1>2. \A x, y \in Nat : x < y => <<x, y>> \in R
  BY Zenon DEF OpToRel
<1> HIDE DEF R
<1>3. \E x \in T : \A y \in T : ~ (<<y, x>> \in R)
  BY <1>1, WFMin, Zenon
<1>4. \E x \in T : \A y \in T : ~ (y < x)
  BY <1>2, <1>3, Zenon
<1> QED BY <1>4

\* A nonempty set of naturals up to b has a greatest element.
LEMMA Greatest ==
  ASSUME NEW b \in Nat, NEW S \in SUBSET (0 .. b), S # {}
  PROVE  \E n \in S : \A m \in S : m <= n
<1> DEFINE T == {b - n : n \in S}
<1>1. T \in SUBSET Nat /\ T # {}
  <2>1. PICK s : s \in S
    BY Zenon
  <2>2. b - s \in T
    BY <2>1, Zenon
  <2> QED BY <2>2
<1>2. PICK t \in T : \A m \in T : t <= m
  <2> HIDE DEF T
  <2> QED BY <1>1, Least, Zenon
<1> QED BY <1>2

\* A function defined from its value one place below exists.
LEMMA Recursion ==
  ASSUME NEW V, NEW b \in V, NEW n \in Nat, NEW G \in [1 .. n -> [V -> V]]
  PROVE  \E f \in [0 .. n -> V] : f[0] = b /\ \A k \in 1 .. n : f[k] = G[k][f[k - 1]]
<1> DEFINE Upto(m) == \E f \in [0 .. m -> V] : f[0] = b /\ \A k \in 1 .. m : f[k] = G[k][f[k - 1]]
           T == {m \in 0 .. n : ~Upto(m)}
<1>1. SUFFICES ASSUME T # {} PROVE FALSE
  <2>1. n \in 0 .. n
    OBVIOUS
  <2>2. Upto(n) => \E f \in [0 .. n -> V] : f[0] = b /\ \A k \in 1 .. n : f[k] = G[k][f[k - 1]]
    BY Zenon
  <2> HIDE DEF Upto
  <2> QED BY <2>1, <2>2, Zenon
<1>2. PICK m \in T : \A i \in T : m <= i
  <2>1. T \in SUBSET Nat OBVIOUS
  <2> HIDE DEF T
  <2> QED BY <1>1, <2>1, Least, Zenon
<1>3. m # 0
  <2>1. Upto(0)
    <3>1. [i \in 0 .. 0 |-> b] \in [0 .. 0 -> V] /\ [i \in 0 .. 0 |-> b][0] = b /\ 1 .. 0 = {}
      OBVIOUS
    <3> QED BY <3>1, Zenon
  <2> QED BY <1>2, <2>1, Zenon
<1>4. PICK f \in [0 .. m - 1 -> V] : f[0] = b /\ \A k \in 1 .. m - 1 : f[k] = G[k][f[k - 1]]
  <2>1. Upto(m - 1)
    <3>1. m - 1 \in 0 .. n /\ ~(m <= m - 1)
      BY <1>2, <1>3
    <3> HIDE DEF Upto
    <3> QED BY <1>2, <3>1, Zenon
  <2> QED BY <2>1, Zenon
<1> DEFINE g == [i \in 0 .. m |-> IF i = m THEN G[m][f[m - 1]] ELSE f[i]]
<1>5. g \in [0 .. m -> V] /\ g[0] = b /\ \A k \in 1 .. m : g[k] = G[k][g[k - 1]]
  <2>1. m \in 1 .. n BY <1>2, <1>3
  <2>2. f[m - 1] \in V BY <2>1
  <2>3. G[m][f[m - 1]] \in V BY <2>1, <2>2, Zenon
  <2>4. g \in [0 .. m -> V] BY <2>1, <2>3
  <2>5. g[0] = b BY <2>1, <1>4
  <2>6. \A k \in 1 .. m : g[k] = G[k][g[k - 1]] BY <2>1, <1>4
  <2> QED BY <2>4, <2>5, <2>6, Zenon
<1> QED BY <1>2, <1>5, Zenon

-----------------------------------------------------------------------------
\* The frames of protocol.rs and _protocol.py, before and after a stream has
\* given them their place.
Kinds == {"register", "dispatch", "steps", "stored", "record", "success", "failure"}
Message == [kind : Kinds, job : Nat, body : Nat, text : BOOLEAN]
Frame == [kind : Kinds, job : Nat, body : Nat, text : BOOLEAN, at : Nat]

\* Frames that lie end to end from the first byte of the stream.
Laid(F) ==
  /\ F \in Seq(Frame)
  /\ \A i \in 1 .. Len(F) : F[i].at = IF i = 1 THEN 0 ELSE EndOf(F[i - 1])

\* H is F with frames written after it.
Extends(F, H) ==
  /\ Len(F) <= Len(H)
  /\ \A i \in 1 .. Len(F) : H[i] = F[i]

\* The byte sizes of the link are positive.
LEMMA Sizes ==
  /\ HEADER_BYTES \in Nat \ {0} /\ PipeBytes \in Nat \ {0}
  /\ ReadBytes \in Nat \ {0} /\ MAX_FRAME_BYTES \in Nat \ {0}
BY LinkConstants, Zenon

\* A frame of a stream ends after it starts.
LEMMA Ends ==
  ASSUME NEW F, Laid(F), NEW i \in 1 .. Len(F)
  PROVE  /\ F[i] \in Frame /\ F[i].at \in Nat /\ EndOf(F[i]) \in Nat
         /\ F[i].at < EndOf(F[i])
<1>1. F[i] \in Frame
  BY DEF Laid
<1> QED BY <1>1, Sizes DEF EndOf, Frame

\* A frame of a stream begins no earlier than each one before it ends.
LEMMA InPlace ==
  ASSUME NEW F, Laid(F), NEW i \in 1 .. Len(F), NEW j \in 1 .. Len(F), i < j
  PROVE  EndOf(F[i]) <= F[j].at
<1> DEFINE T == {k \in 1 .. Len(F) : i < k /\ ~(EndOf(F[i]) <= F[k].at)}
<1>1. SUFFICES ASSUME T # {} PROVE FALSE
  BY Zenon
<1>2. PICK k \in T : \A m \in T : k <= m
  <2>1. T \in SUBSET Nat
    BY DEF Laid
  <2> HIDE DEF T
  <2> QED BY <1>1, <2>1, Least, Zenon
<1>3. Len(F) \in Nat /\ k # 1
  BY DEF Laid
<1>4. F[k].at = EndOf(F[k - 1]) /\ k - 1 \in 1 .. Len(F)
  BY <1>3 DEF Laid
<1>5. CASE k - 1 = i
  BY <1>4, <1>5, Ends
<1>6. CASE k - 1 # i
  <2>1. EndOf(F[i]) <= F[k - 1].at
    BY <1>2, <1>3, <1>4, <1>6
  <2> QED BY <2>1, <1>4, Ends
<1> QED BY <1>5, <1>6, Zenon

\* The next frame is placed where the last one ends, past every other.
LEMMA AfterLast ==
  ASSUME NEW F, Laid(F)
  PROVE  /\ F = <<>> => After(F) = 0
         /\ F # <<>> => Len(F) \in 1 .. Len(F) /\ After(F) = EndOf(F[Len(F)])
         /\ After(F) \in Nat
         /\ \A i \in 1 .. Len(F) : EndOf(F[i]) <= After(F)
<1>1. F = <<>> => After(F) = 0
  BY Zenon DEF After
<1>2. F # <<>> => Len(F) \in 1 .. Len(F) /\ After(F) = EndOf(F[Len(F)])
  BY DEF After, EndOf, Laid
<1>3. After(F) \in Nat
  BY <1>1, <1>2, Ends
<1>4. ASSUME NEW i \in 1 .. Len(F) PROVE EndOf(F[i]) <= After(F)
  <2>1. F # <<>> /\ Len(F) \in 1 .. Len(F)
    BY <1>2
  <2>2. CASE i = Len(F)
    BY <2>1, <2>2, <1>2, Ends
  <2>3. CASE i < Len(F)
    <3>1. EndOf(F[i]) <= F[Len(F)].at
      BY <2>1, <2>3, InPlace, Zenon
    <3> QED BY <3>1, <2>1, <1>2, Ends
  <2> QED BY <2>1, <2>2, <2>3
<1> QED BY <1>1, <1>2, <1>3, <1>4, Zenon

\* write appends a frame and leaves the stream laid end to end.
LEMMA Placing ==
  ASSUME NEW F, Laid(F), NEW f \in Message
  PROVE  /\ Laid(Place(F, f)) /\ Extends(F, Place(F, f))
         /\ Len(Place(F, f)) = Len(F) + 1
         /\ Place(F, f)[Len(F) + 1] =
              [kind |-> f.kind, job |-> f.job, body |-> f.body, text |-> f.text, at |-> After(F)]
<1> DEFINE x == [kind |-> f.kind, job |-> f.job, body |-> f.body, text |-> f.text, at |-> After(F)]
<1>1. x \in Frame /\ x.at = After(F)
  BY AfterLast, Zenon DEF Message, Frame
<1>2. Place(F, f) = Append(F, x) /\ F \in Seq(Frame)
  BY Zenon DEF Place, Laid
<1> HIDE DEF x
<1>3. /\ Append(F, x) \in Seq(Frame) /\ Len(Append(F, x)) = Len(F) + 1
      /\ \A i \in 1 .. Len(F) : Append(F, x)[i] = F[i]
      /\ Append(F, x)[Len(F) + 1] = x /\ Len(F) \in Nat
  BY <1>1, <1>2
<1>4. ASSUME NEW i \in 1 .. Len(F) + 1
      PROVE  Append(F, x)[i].at = IF i = 1 THEN 0 ELSE EndOf(Append(F, x)[i - 1])
  <2>1. CASE i <= Len(F)
    BY <2>1, <1>3 DEF Laid
  <2>2. CASE i = Len(F) + 1 /\ F = <<>>
    BY <2>2, <1>1, <1>3, AfterLast
  <2>3. CASE i = Len(F) + 1 /\ F # <<>>
    BY <2>3, <1>1, <1>3, AfterLast
  <2> QED BY <2>1, <2>2, <2>3, <1>3
<1> QED BY <1>2, <1>3, <1>4 DEF Laid, Extends, x

\* What is written to a stream lies after what was there.
LEMMA Longer ==
  ASSUME NEW F, Laid(F), NEW H, Laid(H), Extends(F, H)
  PROVE  /\ After(F) <= After(H)
         /\ \A i \in Len(F) + 1 .. Len(H) : After(F) <= H[i].at
<1>0. Len(F) \in Nat /\ Len(H) \in Nat
  BY DEF Laid
<1>1. CASE F = <<>>
  BY <1>0, <1>1, AfterLast, Ends
<1>2. CASE F # <<>>
  <2>1. After(F) = EndOf(F[Len(F)]) /\ Len(F) \in 1 .. Len(F)
    BY <1>2, AfterLast, Zenon
  <2>2. After(F) = EndOf(H[Len(F)]) /\ Len(F) \in 1 .. Len(H)
    BY <1>0, <2>1 DEF Extends
  <2> QED BY <1>0, <2>2, AfterLast, InPlace
<1> QED BY <1>1, <1>2, Zenon

-----------------------------------------------------------------------------
\* One direction: F was written, G decoded, the reader's buffer begins at p,
\* t bytes are read and u are in the kernel or past it.
Stream(F, G, p, t, u) ==
  /\ Laid(F) /\ Laid(G) /\ Extends(G, F)
  /\ p = After(G) /\ {p, t, u} \subseteq Nat
  /\ p <= t /\ t <= u /\ u <= After(F) /\ u - t <= PipeBytes

\* What is decoded is a prefix of what was written.
LEMMA Prefix ==
  ASSUME NEW F, Laid(F), NEW G, Laid(G), Extends(G, F)
  PROVE  Len(G) <= Len(F) /\ G = SubSeq(F, 1, Len(G))
BY DEF Laid, Extends

\* A reader standing where its last frame ended stands at the next one, and
\* the frames from there on are those it has not decoded.
LEMMA Undecoded ==
  ASSUME NEW F, Laid(F), NEW G, Laid(G), Extends(G, F)
  PROVE  /\ \A i \in 1 .. Len(F) : i > Len(G) <=> F[i].at >= After(G)
         /\ \A i \in 1 .. Len(F) : F[i].at = After(G) => i = Len(G) + 1
         /\ Len(G) < Len(F) => F[Len(G) + 1].at = After(G)
<1>0. Len(F) \in Nat /\ Len(G) \in Nat /\ Len(G) <= Len(F) /\ After(G) \in Nat
  BY AfterLast DEF Laid, Extends
<1>1. ASSUME NEW i \in 1 .. Len(F), i > Len(G) PROVE F[i].at >= After(G)
  BY <1>0, <1>1, Longer, Ends
<1>2. ASSUME NEW i \in 1 .. Len(F), i <= Len(G) PROVE F[i].at < After(G)
  <2>1. i \in 1 .. Len(G) /\ F[i] = G[i]
    BY <1>0, <1>2 DEF Extends
  <2>2. EndOf(G[i]) <= After(G)
    BY <2>1, AfterLast, Zenon
  <2> QED BY <1>0, <2>1, <2>2, Ends
<1>3. ASSUME Len(G) < Len(F) PROVE F[Len(G) + 1].at = After(G)
  <2>1. CASE G = <<>>
    <3>1. Len(G) = 0 /\ After(G) = 0 /\ 1 \in 1 .. Len(F)
      BY <1>0, <1>3, <2>1, AfterLast
    <3>2. F[1].at = 0
      BY <3>1, Zenon DEF Laid
    <3> QED BY <3>1, <3>2
  <2>2. CASE G # <<>>
    <3>1. After(G) = EndOf(G[Len(G)]) /\ Len(G) \in 1 .. Len(G)
      BY <2>2, AfterLast, Zenon
    <3>2. G[Len(G)] = F[Len(G)] /\ Len(G) + 1 \in 1 .. Len(F)
      BY <1>0, <1>3, <3>1 DEF Extends
    <3> QED BY <1>0, <3>1, <3>2 DEF Laid
  <2> QED BY <2>1, <2>2, Zenon
<1>4. ASSUME NEW i \in 1 .. Len(F), F[i].at = After(G) PROVE i = Len(G) + 1
  <2>1. i > Len(G)
    BY <1>0, <1>2, <1>4
  <2>2. SUFFICES ASSUME i > Len(G) + 1 PROVE FALSE
    BY <1>0, <2>1
  <2>3. Len(G) + 1 \in 1 .. Len(F) /\ Len(G) < Len(F)
    BY <1>0, <2>2
  <2>4. EndOf(F[Len(G) + 1]) <= F[i].at
    BY <2>2, <2>3, InPlace, Zenon
  <2> QED BY <1>0, <1>3, <1>4, <2>3, <2>4, Ends
<1>5. ASSUME NEW i \in 1 .. Len(F) PROVE i > Len(G) <=> F[i].at >= After(G)
  <2>1. F[i].at \in Nat /\ i \in Nat
    BY <1>0, Ends
  <2>2. CASE i > Len(G)
    BY <2>2, <1>1, Zenon
  <2>3. CASE i <= Len(G)
    BY <2>1, <2>3, <1>0, <1>2
  <2> QED BY <1>0, <2>1, <2>2, <2>3
<1> QED BY <1>3, <1>4, <1>5, Zenon

\* Writing more frames leaves a stream as the reader sees it.
LEMMA StreamWritten ==
  ASSUME NEW F, NEW G, NEW p, NEW t, NEW u, Stream(F, G, p, t, u),
         NEW H, Laid(H), Extends(F, H)
  PROVE  Stream(H, G, p, t, u)
<1>1. After(F) <= After(H) /\ After(F) \in Nat /\ After(H) \in Nat
  BY Longer, AfterLast, Zenon DEF Stream
<1>2. Extends(G, H)
  <2>1. Len(F) \in Nat /\ Len(G) \in Nat /\ Len(H) \in Nat /\ Extends(G, F)
    BY DEF Stream, Laid
  <2> QED BY <2>1 DEF Extends
<1> QED BY <1>1, <1>2 DEF Stream

\* Decoder::next_message: taking the complete frame at the buffer's start
\* leaves the buffer at the start of the next one.
LEMMA StreamDecodes ==
  ASSUME NEW F, NEW G, NEW p, NEW t, NEW u, Stream(F, G, p, t, u),
         NEW f \in Range(F), f.at = p, EndOf(f) <= t
  PROVE  Stream(F, Append(G, f), EndOf(f), t, u)
<1>0. /\ Laid(F) /\ Laid(G) /\ Extends(G, F) /\ Len(G) \in Nat /\ Len(F) \in Nat
      /\ G \in Seq(Frame) /\ p = After(G)
  BY DEF Stream, Laid
<1>1. Len(G) + 1 \in 1 .. Len(F) /\ f = F[Len(G) + 1] /\ f \in Frame /\ EndOf(f) \in Nat
  <2>1. PICK i \in 1 .. Len(F) : f = F[i]
    BY <1>0 DEF Range, Laid
  <2> QED BY <1>0, <2>1, Undecoded, Ends, Zenon
<1> DEFINE H == Append(G, f)
<1>2. /\ H \in Seq(Frame) /\ Len(H) = Len(G) + 1 /\ H[Len(G) + 1] = f
      /\ \A i \in 1 .. Len(G) : H[i] = G[i]
  BY <1>0, <1>1
<1> HIDE DEF H
<1>3. Extends(H, F)
  BY <1>0, <1>1, <1>2 DEF Extends
<1>4. Laid(H)
  <2>1. \A i \in 1 .. Len(H) : H[i] = F[i] /\ i \in 1 .. Len(F)
    BY <1>0, <1>2, <1>3 DEF Extends
  <2>2. ASSUME NEW i \in 1 .. Len(H) PROVE H[i].at = IF i = 1 THEN 0 ELSE EndOf(H[i - 1])
    <3>1. H[i] = F[i] /\ i \in 1 .. Len(F)
      BY <2>1, Zenon
    <3>2. i # 1 => i - 1 \in 1 .. Len(H)
      BY <1>0, <1>2
    <3> QED BY <3>1, <3>2, <2>1, <1>0, Zenon DEF Laid
  <2> QED BY <1>2, <2>2, Zenon DEF Laid
<1>5. After(H) = EndOf(f)
  <2>1. H # <<>>
    BY <1>0, <1>2
  <2> QED BY <2>1, <1>2, <1>4, AfterLast, Zenon
<1> QED BY <1>0, <1>1, <1>3, <1>4, <1>5, Zenon DEF Stream, H

\* drain yields in order the frames it finds complete: InOrder keeps a run of
\* frames of the stream as it is.
LEMMA Kept ==
  ASSUME NEW F \in Seq(Frame), NEW m \in 0 .. Len(F), NEW k \in m .. Len(F), NEW out,
         \A i \in 1 .. Len(F) : F[i] \in out <=> m < i /\ i <= k
  PROVE  InOrder(F, out) = [x \in 1 .. k - m |-> F[m + x]]
<1> DEFINE rule(f) == [i \in 0 .. Len(F) |->
                         IF i = 0 THEN <<>>
                         ELSE IF F[i] \in out THEN Append(f[i - 1], F[i]) ELSE f[i - 1]]
           top(i) == IF i < m THEN m ELSE IF i <= k THEN i ELSE k
           part(n) == [x \in 1 .. n - m |-> F[m + x]]
           good == [i \in 0 .. Len(F) |-> part(top(i))]
<1>0. Len(F) \in Nat /\ m \in Nat /\ k \in Nat /\ m <= k /\ k <= Len(F)
  OBVIOUS
<1>1. part(m) = <<>>
  <2>1. 1 .. m - m = {}
    BY <1>0
  <2> QED BY <2>1
<1>2. ASSUME NEW i \in 1 .. Len(F), m < i, i <= k PROVE Append(part(i - 1), F[i]) = part(i)
  <2>1. part(i - 1) \in Seq(Frame) /\ Len(part(i - 1)) = i - 1 - m
    BY <1>0, <1>2
  <2> QED BY <1>0, <1>2, <2>1
<1> HIDE DEF part
<1>3. \A i \in 1 .. Len(F) :
      part(top(i)) = IF F[i] \in out THEN Append(part(top(i - 1)), F[i]) ELSE part(top(i - 1))
  <2> TAKE i \in 1 .. Len(F)
  <2>1. CASE i <= m
    <3>1. F[i] \notin out /\ top(i) = m /\ top(i - 1) = m
      BY <1>0, <2>1
    <3> QED BY <3>1, Zenon
  <2>2. CASE m < i /\ i <= k
    <3>1. F[i] \in out /\ top(i) = i /\ top(i - 1) = i - 1
      BY <1>0, <2>2
    <3> QED BY <3>1, <2>2, <1>2, Zenon
  <2>3. CASE k < i
    <3>1. F[i] \notin out /\ top(i) = k /\ top(i - 1) = k
      BY <1>0, <2>3
    <3> QED BY <3>1, Zenon
  <2> QED BY <1>0, <2>1, <2>2, <2>3
<1>4. top(0) = m /\ top(Len(F)) = k
  BY <1>0
<1> HIDE DEF top
<1>5. good = rule(good)
  <2>1. ASSUME NEW i \in 0 .. Len(F) PROVE good[i] = rule(good)[i]
    <3>1. CASE i = 0
      BY <3>1, <1>1, <1>4, Zenon
    <3>2. CASE i # 0
      <4>1. i \in 1 .. Len(F) /\ i - 1 \in 0 .. Len(F)
        BY <1>0, <3>2
      <4> QED BY <4>1, <3>2, <1>3, Zenon
    <3> QED BY <3>1, <3>2, Zenon
  <2> QED BY <2>1, Zenon
<1>6. ASSUME NEW f, f = rule(f) PROVE f[Len(F)] = part(k)
  <2> DEFINE T == {i \in 0 .. Len(F) : f[i] # part(top(i))}
  <2>1. SUFFICES ASSUME T # {} PROVE FALSE
    <3>1. Len(F) \in 0 .. Len(F)
      BY <1>0
    <3> QED BY <3>1, <1>4, Zenon
  <2>2. PICK i \in T : \A n \in T : i <= n
    <3>1. T \in SUBSET Nat
      BY <1>0
    <3> HIDE DEF T
    <3> QED BY <2>1, <3>1, Least, Zenon
  <2>3. CASE i = 0
    <3>1. f[0] = <<>>
      BY <1>0, <1>6
    <3> QED BY <3>1, <2>2, <2>3, <1>1, <1>4, Zenon
  <2>4. CASE i # 0
    <3>1. i \in 1 .. Len(F) /\ i - 1 \in 0 .. Len(F) /\ ~(i <= i - 1)
      BY <1>0, <2>4
    <3>2. f[i - 1] = part(top(i - 1))
      BY <3>1, <2>2, Zenon
    <3>3. f[i] = IF F[i] \in out THEN Append(f[i - 1], F[i]) ELSE f[i - 1]
      BY <3>1, <1>6, <2>4, Zenon
    <3> QED BY <3>1, <3>2, <3>3, <1>3, <2>2, Zenon
  <2> QED BY <2>3, <2>4, Zenon
<1>7. InOrder(F, out) = (CHOOSE f : f = rule(f))[Len(F)]
  BY Zenon DEF InOrder
<1> HIDE DEF rule, good
<1>8. (CHOOSE f : f = rule(f)) = rule(CHOOSE f : f = rule(f))
  BY <1>5, Zenon
<1> QED BY <1>6, <1>7, <1>8, Zenon DEF part

\* An element that bounds its set is the maximum of the set.
LEMMA MaxIs ==
  ASSUME NEW S, NEW x \in S, x \in Nat, \A y \in S : y \in Nat /\ y <= x
  PROVE  Max(S) = x
<1> DEFINE c == CHOOSE y \in S : \A z \in S : y >= z
<1>1. c \in S /\ \A z \in S : c >= z
  BY \A z \in S : x >= z, Zenon
<1>2. Max(S) = c
  BY Zenon DEF Max
<1> HIDE DEF c
<1> QED BY <1>1, <1>2

\* The frames drain finds complete, and where it leaves its buffer.
Whole(F, p, lim) == {f \in Range(F) : f.at >= p /\ EndOf(f) <= lim}
LastEnd(p, out) == Max({p} \cup {EndOf(f) : f \in out})

\* Decoder.drain: after the loop the buffer begins where the last complete
\* frame ended, and what was decoded is still a prefix of what was written.
LEMMA StreamDrains ==
  ASSUME NEW F, NEW G, NEW p, NEW t, NEW u, Stream(F, G, p, t, u),
         NEW lim \in Nat, t <= lim, lim <= u, NEW out, out = Whole(F, p, lim)
  PROVE  /\ Stream(F, G \o InOrder(F, out), LastEnd(p, out), lim, u)
         /\ LastEnd(p, out) >= p
         /\ \A f \in out : EndOf(f) <= LastEnd(p, out)
<1>a. out = {f \in Range(F) : f.at >= p /\ EndOf(f) <= lim}
  BY Zenon DEF Whole
<1> DEFINE m == Len(G)
           S == {i \in 0 .. Len(F) : i = m \/ (i > m /\ EndOf(F[i]) <= lim)}
<1>0. /\ Laid(F) /\ Laid(G) /\ Extends(G, F) /\ Len(G) \in Nat /\ Len(F) \in Nat
      /\ G \in Seq(Frame) /\ F \in Seq(Frame) /\ p = After(G) /\ p \in Nat /\ t \in Nat /\ u \in Nat
      /\ m <= Len(F) /\ p <= lim
  BY DEF Stream, Laid, Extends
<1>1. PICK k \in S : \A i \in S : i <= k
  <2>1. m \in S /\ S \in SUBSET (0 .. Len(F))
    BY <1>0
  <2> HIDE DEF S
  <2> QED BY <1>0, <2>1, Greatest, Zenon
<1>2. k \in m .. Len(F) /\ k \in Nat
  BY <1>0, <1>1
<1>3. \A i \in 1 .. Len(F) : F[i] \in out <=> m < i /\ i <= k
  <2> TAKE i \in 1 .. Len(F)
  <2>1. F[i] \in Range(F) /\ F[i].at \in Nat /\ EndOf(F[i]) \in Nat
    BY <1>0, Ends DEF Range
  <2>2. F[i].at >= p <=> i > m
    BY <1>0, Undecoded, Zenon
  <2>3. F[i] \in out => m < i /\ i <= k
    BY <1>0, <1>1, <1>a, <2>1, <2>2
  <2>4. ASSUME m < i, i <= k PROVE EndOf(F[i]) <= lim
    <3>1. k \in 1 .. Len(F) /\ EndOf(F[k]) <= lim
      BY <1>0, <1>1, <1>2, <2>4
    <3>2. CASE i = k
      BY <3>1, <3>2, Zenon
    <3>3. CASE i < k
      <4>1. EndOf(F[i]) <= F[k].at
        BY <1>0, <3>1, <3>3, InPlace, Zenon
      <4> QED BY <1>0, <2>1, <3>1, <4>1, Ends
    <3> QED BY <1>2, <2>4, <3>2, <3>3
  <2> QED BY <1>0, <1>a, <2>1, <2>2, <2>3, <2>4, Zenon
<1> DEFINE K == [x \in 1 .. k - m |-> F[m + x]]
           H == G \o K
<1>4. InOrder(F, out) = K
  <2>1. m \in 0 .. Len(F)
    BY <1>0
  <2> HIDE DEF m
  <2> QED BY <1>0, <1>2, <1>3, <2>1, Kept, Zenon
<1>5. K \in Seq(Frame) /\ Len(K) = k - m /\ \A x \in 1 .. k - m : K[x] = F[m + x]
  <2>1. k - m \in Nat /\ \A x \in 1 .. k - m : m + x \in 1 .. Len(F) /\ F[m + x] \in Frame
    BY <1>0, <1>2
  <2> HIDE DEF m
  <2> QED BY <2>1
<1> HIDE DEF K
<1>6. H \in Seq(Frame) /\ Len(H) = k /\ \A i \in 1 .. k : H[i] = F[i]
  <2>1. H \in Seq(Frame) /\ Len(H) = Len(G) + Len(K)
    <3>1. G \in Seq(Frame) /\ K \in Seq(Frame)
      BY <1>0, <1>5, Zenon
    <3> HIDE DEF m
    <3> QED BY <3>1
  <2>2. ASSUME NEW i \in 1 .. k PROVE H[i] = F[i]
    <3>1. CASE i <= m
      <4>1. H[i] = G[i]
        BY <1>0, <1>5, <3>1
      <4> QED BY <1>0, <4>1, <3>1 DEF Extends
    <3>2. CASE i > m
      <4>1. H[i] = K[i - m] /\ i - m \in 1 .. k - m
        <5>1. i \in Nat /\ Len(G) + Len(K) = k /\ i > Len(G)
          BY <1>0, <1>2, <1>5, <3>2
        <5>2. H[i] = K[i - Len(G)]
          BY <1>0, <1>5, <5>1
        <5> QED BY <1>0, <1>2, <3>2, <5>2
      <4>2. m + (i - m) = i
        BY <1>0, <1>2
      <4> QED BY <1>5, <4>1, <4>2, Zenon
    <3>3. i <= m \/ i > m
      BY <1>0, <1>2
    <3> QED BY <3>1, <3>2, <3>3, Zenon
  <2> QED BY <1>0, <1>2, <1>5, <2>1, <2>2
<1> HIDE DEF H
<1>7. Laid(H) /\ Extends(H, F)
  <2>1. \A i \in 1 .. k : H[i] = F[i] /\ i \in 1 .. Len(F)
    BY <1>0, <1>2, <1>6
  <2>2. ASSUME NEW i \in 1 .. k PROVE H[i].at = IF i = 1 THEN 0 ELSE EndOf(H[i - 1])
    <3>1. i # 1 => i - 1 \in 1 .. k
      BY <1>2
    <3> QED BY <2>1, <3>1, <1>0, Zenon DEF Laid
  <2> QED BY <1>0, <1>2, <1>6, <2>1, <2>2 DEF Laid, Extends
<1> DEFINE E == {p} \cup {EndOf(f) : f \in out}
<1>8. \A f \in out : /\ f.at >= p /\ EndOf(f) \in Nat /\ EndOf(f) > p
                     /\ EndOf(f) <= After(H) /\ EndOf(f) <= lim
  <2> TAKE f \in out
  <2>1. PICK i \in 1 .. Len(F) : f = F[i]
    BY <1>0, <1>a DEF Range
  <2>2. i \in 1 .. k /\ f = H[i]
    BY <1>0, <1>2, <1>3, <1>6, <2>1
  <2>3. EndOf(f) <= After(H)
    BY <1>6, <1>7, <2>2, AfterLast, Zenon
  <2> QED BY <1>0, <1>a, <2>1, <2>3, Ends
<1>9. After(H) \in E /\ After(H) \in Nat /\ After(H) >= p /\ After(H) <= lim
  <2>1. CASE k = m
    <3>1. H = G
      BY <1>0, <1>6, <2>1 DEF Extends
    <3> QED BY <1>0, <3>1
  <2>2. CASE k > m
    <3>1. k \in 1 .. Len(F) /\ F[k] \in out /\ H # <<>>
      BY <1>0, <1>2, <1>3, <1>6, <2>2
    <3>2. After(H) = EndOf(F[k])
      BY <1>2, <1>6, <1>7, <3>1, AfterLast, Zenon
    <3> QED BY <3>1, <3>2, <1>0, <1>8
  <2> QED BY <1>0, <1>2, <2>1, <2>2, Zenon
<1>10. Max(E) = After(H)
  <2>1. \A y \in E : y \in Nat /\ y <= After(H)
    BY <1>0, <1>8, <1>9, Zenon
  <2> HIDE DEF E
  <2> QED BY <2>1, <1>9, MaxIs, Zenon
<1>11. u - lim <= PipeBytes
  <2>1. u - t <= PipeBytes
    BY Zenon DEF Stream
  <2> QED BY <1>0, <2>1, Sizes
<1>12. Stream(F, H, After(H), lim, u)
  BY <1>0, <1>7, <1>9, <1>11, Zenon DEF Stream
<1>13. LastEnd(p, out) = After(H)
  BY <1>10, Zenon DEF LastEnd
<1> QED BY <1>4, <1>8, <1>9, <1>12, <1>13, Zenon DEF H

\* No frame written downward is larger than the child accepts.
Fits(F) == \A i \in 1 .. Len(F) : F[i].body <= MAX_FRAME_BYTES

\* What the supervisor encodes are frames, and an acknowledgement always fits.
LEMMA Encoded ==
  ASSUME NEW j \in Jobs
  PROVE  /\ {encode_dispatch(j), encode_steps(j), encode_stored(j)} \subseteq Message
         /\ encode_stored(j).body <= MAX_FRAME_BYTES
<1>1. /\ DISPATCH_HEAD_BYTES \in Nat /\ TaskName[j] \in Nat /\ MaxJobs \in Nat
      /\ Payload[j] \in Nat /\ Replay[j] \in Nat
  BY LinkConstants, Zenon DEF Jobs
<1>2. j \in Nat /\ 1 + Replay[j] \in Nat /\ DISPATCH_HEAD_BYTES + TaskName[j] + Payload[j] \in Nat
  BY <1>1 DEF Jobs
<1>3. \A k \in Kinds, b \in Nat : Body(k, j, b, TRUE) \in Message
  BY <1>2, Zenon DEF Body, Message
<1>4. encode_stored(j).body = 1 /\ 1 <= MAX_FRAME_BYTES
  BY Sizes DEF encode_stored, Body
<1>5. "dispatch" \in Kinds /\ "steps" \in Kinds /\ "stored" \in Kinds /\ 1 \in Nat
  BY Zenon DEF Kinds
<1>6. encode_dispatch(j) \in Message /\ encode_steps(j) \in Message /\ encode_stored(j) \in Message
  BY <1>2, <1>3, <1>5, Zenon DEF encode_dispatch, encode_steps, encode_stored
<1> QED BY <1>4, <1>6, Zenon

\* A frame is written only when it is no larger than MAX_FRAME_BYTES.
LEMMA Added ==
  ASSUME NEW s, NEW F, Laid(F), Extends(s, F), Fits(F), Len(s) \in Nat, NEW f \in Message
  PROVE  Encodes(f) => Laid(Place(F, f)) /\ Extends(s, Place(F, f)) /\ Fits(Place(F, f))
<1> DEFINE H == Place(F, f)
<1>1. /\ Laid(H) /\ Extends(F, H) /\ Len(H) = Len(F) + 1 /\ Len(F) \in Nat
      /\ H[Len(F) + 1].body = f.body
  <2>1. Len(F) \in Nat
    BY DEF Laid
  <2>2. H[Len(F) + 1] =
         [kind |-> f.kind, job |-> f.job, body |-> f.body, text |-> f.text, at |-> After(F)]
    BY Placing, Zenon
  <2>3. H[Len(F) + 1].body = f.body
    BY <2>2
  <2> QED BY <2>1, <2>3, Placing, Zenon
<1> HIDE DEF H
<1>2. Extends(s, H)
  BY <1>1 DEF Extends
<1>3. Encodes(f) => Fits(H)
  BY <1>1 DEF Fits, Extends, Encodes
<1> QED BY <1>1, <1>2, <1>3, Zenon DEF H

\* A dispatch, with its replayed steps before it, keeps the stream laid and
\* fitting.
LEMMA JobAdded ==
  ASSUME NEW s, NEW F, Laid(F), Extends(s, F), Fits(F), Len(s) \in Nat, NEW j \in Jobs
  PROVE  /\ Laid(AddJob(F, j)) /\ Extends(s, AddJob(F, j)) /\ Fits(AddJob(F, j))
         /\ AddJob(F, j) \in Seq(Frame)
<1> DEFINE H == IF Replay[j] > 0 THEN AddFrame(F, encode_steps(j)) ELSE F
<1>1. Laid(H) /\ Extends(s, H) /\ Fits(H)
  <2>1. encode_steps(j) \in Message
    BY Encoded, Zenon
  <2> HIDE DEF H
  <2>2. H = F \/ (Encodes(encode_steps(j)) /\ H = Place(F, encode_steps(j)))
    BY Zenon DEF H, AddFrame
  <2> QED BY <2>1, <2>2, Added, Zenon
<1>2. AddJob(F, j) = AddFrame(H, encode_dispatch(j))
  BY Zenon DEF AddJob
<1> HIDE DEF H
<1>3. AddJob(F, j) = H \/ (Encodes(encode_dispatch(j)) /\ AddJob(F, j) = Place(H, encode_dispatch(j)))
  BY <1>2, Zenon DEF AddFrame
<1>4. encode_dispatch(j) \in Message
  BY Encoded, Zenon
<1>5. Laid(AddJob(F, j)) /\ Extends(s, AddJob(F, j)) /\ Fits(AddJob(F, j))
  BY <1>1, <1>3, <1>4, Added, Zenon
<1> QED BY <1>5, Zenon DEF Laid

\* Behind its first n frames, H announces a job of one of these kinds.
Holds(H, n, kinds, j) ==
  \E i \in n + 1 .. Len(H) : H[i].kind \in kinds /\ H[i].job = j

\* What a stream holds behind some point it still holds when it is longer.
LEMMA StillHolds ==
  ASSUME NEW F, Laid(F), NEW H, Laid(H), Extends(F, H), NEW n \in Nat,
         NEW kinds, NEW j, Holds(F, n, kinds, j)
  PROVE  Holds(H, n, kinds, j)
<1>1. PICK i \in n + 1 .. Len(F) : F[i].kind \in kinds /\ F[i].job = j
  BY Zenon DEF Holds
<1>2. i \in n + 1 .. Len(H) /\ H[i] = F[i]
  BY DEF Laid, Extends
<1> QED BY <1>1, <1>2, Zenon DEF Holds

\* A frame just written is behind whatever was decoded, and ends past every
\* other.
LEMMA JustWritten ==
  ASSUME NEW F, Laid(F), NEW f \in Message, NEW n \in Nat, n <= Len(F)
  PROVE  /\ Holds(Place(F, f), n, {f.kind}, f.job)
         /\ \A i \in 1 .. Len(Place(F, f)) :
               \/ i \in 1 .. Len(F) /\ Place(F, f)[i] = F[i]
               \/ Place(F, f)[i].kind = f.kind /\ Place(F, f)[i].job = f.job
<1> DEFINE H == Place(F, f)
<1>1. /\ Laid(H) /\ Extends(F, H) /\ Len(H) = Len(F) + 1 /\ Len(F) \in Nat
      /\ H[Len(F) + 1] =
           [kind |-> f.kind, job |-> f.job, body |-> f.body, text |-> f.text, at |-> After(F)]
  <2>1. Len(F) \in Nat
    BY DEF Laid
  <2> QED BY <2>1, Placing, Zenon
<1>2. H[Len(F) + 1].kind = f.kind /\ H[Len(F) + 1].job = f.job
  BY <1>1
<1> HIDE DEF H
<1>3. Len(F) + 1 \in n + 1 .. Len(H)
  BY <1>1
<1>4. \A i \in 1 .. Len(H) : i = Len(F) + 1 \/ (i \in 1 .. Len(F) /\ H[i] = F[i])
  BY <1>1 DEF Extends
<1>5. Holds(H, n, {f.kind}, f.job)
  BY <1>2, <1>3, Zenon DEF Holds
<1> QED BY <1>2, <1>4, <1>5, Zenon DEF H

\* A stream that holds something behind F is longer than F by some bytes.
LEMMA HoldsMore ==
  ASSUME NEW F, Laid(F), NEW H, Laid(H), Extends(F, H), NEW kinds, NEW j,
         Holds(H, Len(F), kinds, j)
  PROVE  After(F) < After(H)
<1>1. PICK i \in Len(F) + 1 .. Len(H) : TRUE
  BY Zenon DEF Holds
<1>2. After(F) <= H[i].at /\ After(F) \in Nat /\ After(H) \in Nat
  BY <1>1, Longer, AfterLast, Zenon
<1>3. i \in 1 .. Len(H)
  BY <1>1 DEF Laid
<1>4. EndOf(H[i]) <= After(H) /\ H[i].at \in Nat /\ EndOf(H[i]) \in Nat /\ H[i].at < EndOf(H[i])
  BY <1>3, AfterLast, Ends, Zenon
<1> QED BY <1>2, <1>4

\* What one job adds to the batch is its own, and its dispatch is among it.
LEMMA JobWritten ==
  ASSUME NEW F, Laid(F), Fits(F), NEW j \in Jobs
  PROVE  LET H == AddJob(F, j)
         IN  /\ Laid(H) /\ Extends(F, H) /\ Fits(H)
             /\ \A i \in 1 .. Len(H) : (i \in 1 .. Len(F) /\ H[i] = F[i]) \/ H[i].job = j
             /\ Encodes(encode_dispatch(j)) => Holds(H, Len(F), {"dispatch"}, j)
<1> DEFINE E == IF Replay[j] > 0 THEN AddFrame(F, encode_steps(j)) ELSE F
           H == AddJob(F, j)
<1>0. /\ encode_steps(j) \in Message /\ encode_dispatch(j) \in Message
      /\ encode_steps(j).job = j /\ encode_dispatch(j).job = j /\ encode_dispatch(j).kind = "dispatch"
  <2>1. encode_steps(j).job = j /\ encode_dispatch(j).job = j /\ encode_dispatch(j).kind = "dispatch"
    BY DEF encode_steps, encode_dispatch, Body
  <2> QED BY <2>1, Encoded, Zenon
<1>1. Len(F) \in Nat /\ Extends(F, F)
  BY DEF Laid, Extends
<1>2. Laid(H) /\ Extends(F, H) /\ Fits(H)
  BY <1>1, JobAdded, Zenon
<1>3. /\ E = F \/ E = Place(F, encode_steps(j))
      /\ H = AddFrame(E, encode_dispatch(j))
  BY Zenon DEF AddJob, AddFrame
<1>4. Encodes(encode_dispatch(j)) => H = Place(E, encode_dispatch(j))
  BY <1>3, Zenon DEF AddFrame
<1>5. H = E \/ H = Place(E, encode_dispatch(j))
  BY <1>3, Zenon DEF AddFrame
<1> HIDE DEF E, H
<1>6. Laid(E) /\ Len(F) <= Len(E)
  <2>1. CASE E = F
    BY <1>1, <2>1
  <2>2. CASE E = Place(F, encode_steps(j))
    <3>1. Laid(E) /\ Len(E) = Len(F) + 1
      BY <1>0, <2>2, Placing, Zenon
    <3> QED BY <1>1, <3>1
  <2> QED BY <1>3, <2>1, <2>2, Zenon
<1>7. \A i \in 1 .. Len(E) : (i \in 1 .. Len(F) /\ E[i] = F[i]) \/ E[i].job = j
  <2>1. Len(F) <= Len(F)
    BY <1>1
  <2>2. CASE E = F
    BY <2>2, Zenon
  <2>3. CASE E = Place(F, encode_steps(j))
    <3>1. \A i \in 1 .. Len(Place(F, encode_steps(j))) :
            \/ i \in 1 .. Len(F) /\ Place(F, encode_steps(j))[i] = F[i]
            \/ Place(F, encode_steps(j))[i].job = encode_steps(j).job
      BY <1>0, <1>1, <2>1, JustWritten, Zenon
    <3> QED BY <1>0, <2>3, <3>1, Zenon
  <2> QED BY <1>3, <2>2, <2>3, Zenon
<1>8. \A i \in 1 .. Len(H) : (i \in 1 .. Len(E) /\ H[i] = E[i]) \/ H[i].job = j
  <2>1. Len(E) \in Nat /\ Len(E) <= Len(E)
    BY <1>6 DEF Laid
  <2>2. CASE H = E
    BY <2>2, Zenon
  <2>3. CASE H = Place(E, encode_dispatch(j))
    <3>1. \A i \in 1 .. Len(Place(E, encode_dispatch(j))) :
            \/ i \in 1 .. Len(E) /\ Place(E, encode_dispatch(j))[i] = E[i]
            \/ Place(E, encode_dispatch(j))[i].job = encode_dispatch(j).job
      BY <1>0, <1>6, <2>1, JustWritten, Zenon
    <3> QED BY <1>0, <2>3, <3>1, Zenon
  <2> QED BY <1>5, <2>2, <2>3, Zenon
<1>9. Encodes(encode_dispatch(j)) => Holds(H, Len(F), {"dispatch"}, j)
  <2>1. ASSUME Encodes(encode_dispatch(j))
        PROVE  Holds(Place(E, encode_dispatch(j)), Len(F), {encode_dispatch(j).kind}, encode_dispatch(j).job)
    BY <1>0, <1>1, <1>6, JustWritten, Zenon
  <2> QED BY <1>0, <1>4, <2>1
<1>10. \A i \in 1 .. Len(H) : (i \in 1 .. Len(F) /\ H[i] = F[i]) \/ H[i].job = j
  BY <1>7, <1>8, Zenon
<1> QED BY <1>2, <1>9, <1>10, Zenon DEF H

\* What the first i jobs of a batch have added to the stream s.
Built(s, last, i, H) ==
  /\ Laid(H) /\ Extends(s, H) /\ Fits(H)
  /\ \A x \in 1 .. Len(H) :
        (x \in 1 .. Len(s) /\ H[x] = s[x]) \/ H[x].job \in last + 1 .. last + i
  /\ \A j \in last + 1 .. last + i :
        Encodes(encode_dispatch(j)) => Holds(H, Len(s), {"dispatch"}, j)

\* The next job of the batch.
LEMMA NextBuilt ==
  ASSUME NEW s, Laid(s), NEW last \in Nat, NEW i \in Nat, i # 0, last + i \in Jobs,
         NEW F, Built(s, last, i - 1, F)
  PROVE  Built(s, last, i, AddJob(F, last + i))
<1> DEFINE H == AddJob(F, last + i)
<1>1. Laid(F) /\ Extends(s, F) /\ Fits(F) /\ Len(s) \in Nat /\ Len(F) \in Nat /\ Len(s) <= Len(F)
  BY DEF Built, Laid, Extends
<1>2. /\ Laid(H) /\ Extends(F, H) /\ Fits(H)
      /\ \A x \in 1 .. Len(H) : (x \in 1 .. Len(F) /\ H[x] = F[x]) \/ H[x].job = last + i
      /\ Encodes(encode_dispatch(last + i)) => Holds(H, Len(F), {"dispatch"}, last + i)
  BY <1>1, JobWritten, Zenon
<1> HIDE DEF H
<1>3. Extends(s, H)
  BY <1>1, <1>2 DEF Extends, Laid
<1>4. last + i \in last + 1 .. last + i /\ last + 1 .. last + (i - 1) \subseteq last + 1 .. last + i
  OBVIOUS
<1>5. \A x \in 1 .. Len(H) :
         (x \in 1 .. Len(s) /\ H[x] = s[x]) \/ H[x].job \in last + 1 .. last + i
  BY <1>2, <1>4, Zenon DEF Built
<1>6. ASSUME NEW j \in last + 1 .. last + i, Encodes(encode_dispatch(j))
      PROVE  Holds(H, Len(s), {"dispatch"}, j)
  <2>1. CASE j = last + i
    <3>1. Holds(H, Len(F), {"dispatch"}, j)
      BY <1>2, <1>6, <2>1, Zenon
    <3>2. PICK x \in Len(F) + 1 .. Len(H) : H[x].kind \in {"dispatch"} /\ H[x].job = j
      BY <3>1, Zenon DEF Holds
    <3>3. x \in Len(s) + 1 .. Len(H)
      BY <1>1, <3>2
    <3> QED BY <3>2, <3>3, Zenon DEF Holds
  <2>2. CASE j # last + i
    <3>1. j \in last + 1 .. last + (i - 1)
      BY <2>2
    <3> QED BY <1>1, <1>2, <1>6, <3>1, StillHolds, Zenon DEF Built
  <2> QED BY <2>1, <2>2, Zenon
<1> QED BY <1>2, <1>3, <1>5, <1>6, Zenon DEF Built, H

\* AddJobs is the last of the streams its loop builds one from the other.
LEMMA BatchLoop ==
  ASSUME NEW s, Laid(s), Fits(s), NEW last \in Nat, NEW n \in Nat, last + 1 .. last + n \subseteq Jobs
  PROVE  \E f : /\ f[0] = s /\ \A k \in 1 .. n : f[k] = AddJob(f[k - 1], last + k)
                /\ AddJobs(s, last, n) = f[n]
<1> DEFINE V == {H \in Seq(Frame) : Laid(H) /\ Extends(s, H) /\ Fits(H)}
           G == [k \in 1 .. n |-> [H \in V |-> AddJob(H, last + k)]]
           rule(f) == [k \in 0 .. n |-> IF k = 0 THEN s ELSE AddJob(f[k - 1], last + k)]
<1>1. s \in V /\ Len(s) \in Nat
  BY DEF Laid, Extends
<1>2. ASSUME NEW k \in 1 .. n, NEW H \in V PROVE AddJob(H, last + k) \in V
  <2>1. last + k \in Jobs
    BY DEF Jobs
  <2> QED BY <1>1, <2>1, JobAdded, Zenon
<1>3. G \in [1 .. n -> [V -> V]]
  BY <1>2, Zenon
<1>4. PICK g \in [0 .. n -> V] : g[0] = s /\ \A k \in 1 .. n : g[k] = G[k][g[k - 1]]
  <2> HIDE DEF G, V
  <2> QED BY <1>1, <1>3, Recursion
<1> HIDE DEF V
<1>5. g = rule(g)
  <2>1. ASSUME NEW k \in 0 .. n PROVE g[k] = rule(g)[k]
    <3>1. CASE k = 0
      BY <3>1, <1>4, Zenon
    <3>2. CASE k # 0
      <4>1. k \in 1 .. n /\ k - 1 \in 0 .. n
        BY <3>2
      <4>2. g[k - 1] \in V
        BY <4>1, Zenon
      <4> QED BY <4>1, <4>2, <3>2, <1>4, Zenon
    <3> QED BY <3>1, <3>2, Zenon
  <2> QED BY <2>1, Zenon
<1>6. ASSUME NEW f, f = rule(f) PROVE f[0] = s /\ \A k \in 1 .. n : f[k] = AddJob(f[k - 1], last + k)
  <2>1. 0 \in 0 .. n /\ \A k \in 1 .. n : k \in 0 .. n /\ k # 0
    OBVIOUS
  <2>2. \A k \in 0 .. n : f[k] = IF k = 0 THEN s ELSE AddJob(f[k - 1], last + k)
    BY <1>6, Zenon
  <2> QED BY <2>1, <2>2, Zenon
<1>7. AddJobs(s, last, n) = (CHOOSE f : f = rule(f))[n]
  BY Zenon DEF AddJobs
<1> HIDE DEF rule
<1>8. (CHOOSE f : f = rule(f)) = rule(CHOOSE f : f = rule(f))
  BY <1>5, Zenon
<1> QED BY <1>6, <1>7, <1>8, Zenon

\* The batch of dispatches of one fetch, whatever its length, keeps the stream
\* laid and fitting, and holds the dispatch of every job that fits a frame.
LEMMA BatchWritten ==
  ASSUME NEW s, Laid(s), Fits(s), NEW last \in Nat, NEW n \in Nat, last + 1 .. last + n \subseteq Jobs
  PROVE  Built(s, last, n, AddJobs(s, last, n))
<1>1. PICK f : /\ f[0] = s /\ \A k \in 1 .. n : f[k] = AddJob(f[k - 1], last + k)
               /\ AddJobs(s, last, n) = f[n]
  BY BatchLoop, Zenon
<1> DEFINE T == {i \in 0 .. n : ~Built(s, last, i, f[i])}
<1>2. SUFFICES ASSUME T # {} PROVE FALSE
  BY <1>1, n \in 0 .. n, Zenon
<1>3. PICK i \in T : \A k \in T : i <= k
  <2>1. T \in SUBSET Nat
    OBVIOUS
  <2> HIDE DEF T
  <2> QED BY <1>2, <2>1, Least, Zenon
<1>4. CASE i = 0
  <2>1. Extends(s, s) /\ last + 1 .. last + 0 = {} /\ Len(s) \in Nat
    BY DEF Extends, Laid
  <2>2. Built(s, last, 0, s)
    BY <2>1, Zenon DEF Built
  <2> QED BY <1>1, <1>3, <1>4, <2>2, Zenon
<1>5. CASE i # 0
  <2>1. i \in 1 .. n /\ i - 1 \in 0 .. n /\ ~(i <= i - 1) /\ last + i \in Jobs /\ i \in Nat
    BY <1>5 DEF Jobs
  <2>2. Built(s, last, i - 1, f[i - 1])
    BY <1>3, <2>1, Zenon
  <2>3. Built(s, last, i, AddJob(f[i - 1], last + i))
    BY <1>5, <2>1, <2>2, NextBuilt, Zenon
  <2> QED BY <1>1, <1>3, <2>1, <2>3, Zenon
<1> QED BY <1>4, <1>5, Zenon

-----------------------------------------------------------------------------
\* What the child writes: the registration, then reports of its jobs, and no
\* failure report larger than the supervisor accepts.
Reports(F) ==
  \A i \in 1 .. Len(F) :
     /\ F[i].kind \in {"register", "record", "success", "failure"}
     /\ F[i].kind # "register" => F[i].job \in Jobs
     /\ F[i].kind = "failure" => F[i].body <= MAX_FRAME_BYTES

\* Both directions.
Streams ==
  /\ DOMAIN frames = Dirs /\ DOMAIN put = Dirs /\ DOMAIN taken = Dirs /\ DOMAIN got = Dirs
  /\ base \in Nat /\ pos \in Nat
  /\ Stream(frames["down"], got["down"], start, taken["down"], put["down"])
  /\ Stream(frames["up"], got["up"], base + pos, taken["up"], put["up"])
  /\ Fits(frames["down"]) /\ Reports(frames["up"])

\* The loops, with what the acknowledgement channel holds and what was refused.
Control ==
  /\ dsp \in {"top", "full", "idle", "writing", "gone"}
  /\ col \in {"read", "decode", "send", "gone"}
  /\ sending \in Jobs \cup {NoJob} /\ (sending # NoJob <=> col = "send")
  /\ acks \in Seq(Jobs) /\ Len(acks) <= ACK_CAPACITY
  /\ child \in {"reading", "ended"}
  /\ task \in [Jobs -> {"none", "run", "wait", "fail", "done"}]
  /\ leased \in Nat
  /\ \A j \in refused : Payload[j] > payload_limit(j) \/ TaskName[j] > MAX_NAME_BYTES

\* A collector gone from a session still open is standing before a frame that
\* it could not read, and not for the size of a failure report.
Stopped ==
  col = "gone" =>
     \/ Closed
     \/ /\ base + pos < After(frames["up"])
        /\ \A f \in StartsAt("up", base + pos) : f.kind = "failure" => ~f.text

\* The inductive invariant.  InSync and EnqueuedIsDispatchable need the streams
\* laid end to end; FailureFits needs to know why the collector stopped.
LinkInv == Streams /\ Control /\ NothingStranded /\ Stopped

\* The bytes, the buffers and what was decoded.
still == <<frames, put, taken, base, pos, start, got>>

\* The kernel takes the lesser of its room and what is left to write.
LEMMA MinOfTwo ==
  ASSUME NEW a \in Int, NEW b \in Int
  PROVE  Min({a, b}) \in {a, b} /\ Min({a, b}) <= a /\ Min({a, b}) <= b
<1> DEFINE c == CHOOSE y \in {a, b} : \A z \in {a, b} : y <= z
<1>1. \E y \in {a, b} : \A z \in {a, b} : y <= z
  OBVIOUS
<1>2. c \in {a, b} /\ \A z \in {a, b} : c <= z
  BY <1>1, Zenon
<1>3. Min({a, b}) = c
  BY Zenon DEF Min
<1> HIDE DEF c
<1> QED BY <1>2, <1>3, Zenon

\* There are two directions.
LEMMA Ways == "up" \in Dirs /\ "down" \in Dirs /\ "up" # "down" /\ Dirs = {"up", "down"}
BY Zenon DEF Dirs

\* A step that moves no byte leaves both streams as they are.
LEMMA StreamsStill ==
  ASSUME Streams, UNCHANGED still
  PROVE  Streams'
BY Zenon DEF Streams, still, Stream

\* The kernel takes n bytes of what was written, within its room.
LEMMA StreamPut ==
  ASSUME NEW F, NEW G, NEW p, NEW t, NEW u, Stream(F, G, p, t, u), NEW n \in Nat,
         n <= PipeBytes - (u - t), n <= After(F) - u
  PROVE  Stream(F, G, p, t, u + n)
<1>1. After(F) \in Nat
  BY AfterLast, Zenon DEF Stream
<1> QED BY <1>1, Sizes DEF Stream

\* The reader takes n bytes of what the kernel has.
LEMMA StreamTaken ==
  ASSUME NEW F, NEW G, NEW p, NEW t, NEW u, Stream(F, G, p, t, u), NEW n \in Nat, n <= u - t
  PROVE  Stream(F, G, p, t + n, u)
BY Sizes DEF Stream

\* The counters of a direction are natural numbers in the order of its bytes.
LEMMA Numbers ==
  ASSUME Streams, NEW d \in Dirs
  PROVE  /\ put[d] \in Nat /\ taken[d] \in Nat /\ After(frames[d]) \in Nat
         /\ taken[d] <= put[d] /\ put[d] <= After(frames[d]) /\ put[d] - taken[d] <= PipeBytes
         /\ Laid(frames[d])
<1>1. Stream(frames[d], got[d], IF d = "up" THEN base + pos ELSE start, taken[d], put[d])
  BY Ways, Zenon DEF Streams
<1> QED BY <1>1, AfterLast, Zenon DEF Stream

\* Accept keeps both streams, and happens only while there is something to
\* write.
LEMMA StreamsAccept ==
  ASSUME Streams, NEW d \in Dirs, Accept(d), UNCHANGED <<frames, taken, base, pos, start, got>>
  PROVE  Streams' /\ put[d] < After(frames[d])
<1> DEFINE n == Min({Room(d), After(frames[d]) - put[d]})
<1>1. n \in Nat /\ n > 0 /\ put' = [put EXCEPT ![d] = put[d] + n]
  <2>1. n > 0 /\ put' = [put EXCEPT ![d] = put[d] + n]
    BY Zenon DEF Accept
  <2>2. Room(d) \in Int /\ After(frames[d]) - put[d] \in Int
    BY Numbers, Sizes DEF Room
  <2>3. n = Room(d) \/ n = After(frames[d]) - put[d]
    BY <2>2, MinOfTwo, Zenon
  <2> HIDE DEF n
  <2> QED BY <2>1, <2>2, <2>3
<1>2. n <= PipeBytes - (put[d] - taken[d]) /\ n <= After(frames[d]) - put[d]
  <2>2. Room(d) \in Int /\ After(frames[d]) - put[d] \in Int
    BY Numbers, Sizes DEF Room
  <2> QED BY <2>2, MinOfTwo, Zenon DEF Room
<1> HIDE DEF n
<1>3. put[d] < After(frames[d])
  BY <1>1, <1>2, Numbers
<1>4. CASE d = "up"
  <2>1. put'["up"] = put["up"] + n /\ put'["down"] = put["down"] /\ DOMAIN put' = Dirs
    BY <1>1, <1>4, Ways, Zenon DEF Streams
  <2>2. Stream(frames["up"], got["up"], base + pos, taken["up"], put["up"] + n)
    BY <1>1, <1>2, <1>4, StreamPut, Zenon DEF Streams
  <2> QED BY <1>3, <2>1, <2>2, Zenon DEF Streams, Stream
<1>5. CASE d = "down"
  <2>1. put'["down"] = put["down"] + n /\ put'["up"] = put["up"] /\ DOMAIN put' = Dirs
    BY <1>1, <1>5, Ways, Zenon DEF Streams
  <2>2. Stream(frames["down"], got["down"], start, taken["down"], put["down"] + n)
    BY <1>1, <1>2, <1>5, StreamPut, Zenon DEF Streams
  <2> QED BY <1>3, <2>1, <2>2, Zenon DEF Streams, Stream
<1> QED BY <1>4, <1>5, Ways, Zenon

\* A read returns no more than the kernel holds.
LEMMA ChunkFits ==
  ASSUME Streams, NEW d \in Dirs, Chunk(d) > 0
  PROVE  Chunk(d) \in Nat /\ Chunk(d) <= put[d] - taken[d]
<1>1. ReadBytes \in Int /\ put[d] - taken[d] \in Int
  BY Numbers, Sizes
<1>2. Chunk(d) \in {ReadBytes, put[d] - taken[d]} /\ Chunk(d) <= put[d] - taken[d]
  BY <1>1, MinOfTwo, Zenon DEF Chunk
<1> QED BY <1>1, <1>2

\* Writing in one direction keeps both streams.
LEMMA StreamsWrite ==
  ASSUME Streams, NEW d \in Dirs, NEW H, frames' = [frames EXCEPT ![d] = H],
         Laid(H), Extends(frames[d], H), IF d = "up" THEN Reports(H) ELSE Fits(H),
         UNCHANGED <<put, taken, base, pos, start, got>>
  PROVE  Streams'
<1>1. CASE d = "up"
  <2>1. frames'["up"] = H /\ frames'["down"] = frames["down"] /\ DOMAIN frames' = Dirs
    BY <1>1, Ways, Zenon DEF Streams
  <2>2. Stream(H, got["up"], base + pos, taken["up"], put["up"])
    BY <1>1, StreamWritten, Zenon DEF Streams
  <2> QED BY <1>1, <2>1, <2>2, Zenon DEF Streams
<1>2. CASE d = "down"
  <2>1. frames'["down"] = H /\ frames'["up"] = frames["up"] /\ DOMAIN frames' = Dirs
    BY <1>2, Ways, Zenon DEF Streams
  <2>2. Stream(H, got["down"], start, taken["down"], put["down"])
    BY <1>2, StreamWritten, Zenon DEF Streams
  <2>3. d # "up"
    BY <1>2, Ways, Zenon
  <2> QED BY <2>1, <2>2, <2>3, Zenon DEF Streams
<1> QED BY <1>1, <1>2, Ways, Zenon

\* The frames of a longer stream that are new begin where the old ones end.
LEMMA RangeGrows ==
  ASSUME NEW F, Laid(F), NEW H, Laid(H), Extends(F, H)
  PROVE  /\ Range(F) \subseteq Range(H)
         /\ \A f \in Range(H) \ Range(F) : /\ f.at \in Nat /\ f.at >= After(F)
                                           /\ EndOf(f) \in Nat /\ EndOf(f) > f.at
<1>1. /\ DOMAIN F = 1 .. Len(F) /\ DOMAIN H = 1 .. Len(H) /\ Len(F) \in Nat /\ Len(H) \in Nat
      /\ Len(F) <= Len(H)
  BY DEF Laid, Extends
<1>2. Range(F) \subseteq Range(H)
  BY <1>1 DEF Range, Extends
<1>3. ASSUME NEW f \in Range(H) \ Range(F)
      PROVE  f.at \in Nat /\ f.at >= After(F) /\ EndOf(f) \in Nat /\ EndOf(f) > f.at
  <2>1. PICK i \in 1 .. Len(H) : f = H[i]
    BY <1>1, Zenon DEF Range
  <2>2. i \in Len(F) + 1 .. Len(H)
    <3>1. i \notin 1 .. Len(F)
      BY <1>1, <2>1, Zenon DEF Range, Extends
    <3> QED BY <1>1, <3>1
  <2>3. After(F) <= H[i].at
    BY <2>2, Longer, Zenon
  <2> QED BY <2>1, <2>3, Ends, AfterLast, Zenon
<1> QED BY <1>2, <1>3, Zenon

\* Frames written behind the buffer do not complete the one a collector waits
\* for.
LEMMA NeedsMoreStays ==
  ASSUME Streams, NeedsMore, taken'["up"] = taken["up"], UNCHANGED <<base, pos>>,
         Laid(frames'["up"]), Extends(frames["up"], frames'["up"])
  PROVE  NeedsMore'
<1>1. Range(frames["up"]) \subseteq Range(frames'["up"])
  BY RangeGrows, Numbers, Ways, Zenon
<1>2. Announced \subseteq Announced'
  BY <1>1, Zenon DEF Announced, StartsAt
<1>3. Buffered' = Buffered
  BY Zenon DEF Buffered
<1> QED BY <1>2, <1>3, Zenon DEF NeedsMore

\* Nor do they complete one for the child.
LEMMA CompleteStays ==
  ASSUME Streams, Complete(taken["down"]) = {}, taken'["down"] = taken["down"], start' = start,
         Laid(frames'["down"]), Extends(frames["down"], frames'["down"])
  PROVE  Complete(taken["down"])' = {}
<1>1. SUFFICES ASSUME NEW f \in Range(frames'["down"]), f.at >= start,
                      EndOf(f) <= taken["down"]
               PROVE  FALSE
  BY Zenon DEF Complete
<1>2. f \notin Range(frames["down"])
  BY <1>1, Zenon DEF Complete
<1>3. f.at \in Nat /\ f.at >= After(frames["down"]) /\ EndOf(f) \in Nat /\ EndOf(f) > f.at
  BY <1>1, <1>2, RangeGrows, Numbers, Ways, Zenon
<1> QED BY <1>1, <1>3, Numbers, Ways

\* A socket at its end stays so: the child has reported everything and only a
\* running task writes.
LEMMA ClosedStays ==
  ASSUME Streams, Closed, [Next]_vars
  PROVE  Closed'
<1> DEFINE Ended == /\ child = "ended" /\ \A j \in Jobs : task[j] \in {"none", "done"}
                    /\ put["up"] = After(frames["up"])
<1>1. ASSUME over, over' = over \/ over' = TRUE PROVE Closed'
  BY <1>1, Zenon DEF Closed
<1>2. ASSUME Ended, UNCHANGED <<child, task>>, put'["up"] = put["up"], frames'["up"] = frames["up"]
      PROVE  Closed'
  BY <1>2, Zenon DEF Closed
<1>3. ASSUME UNCHANGED over, UNCHANGED <<child, task>>,
             put'["up"] = put["up"], frames'["up"] = frames["up"]
      PROVE  Closed'
  BY <1>1, <1>2, <1>3, Zenon DEF Closed
<1>4. CASE PipeUp
  <2>1. put["up"] < After(frames["up"]) /\ ~over /\ over' = over
    BY <1>4, StreamsAccept, Ways, Zenon DEF PipeUp, supervisor, python
  <2> QED BY <2>1, Numbers, Ways DEF Closed
<1>5. CASE WriteAll
  <2>1. put'["up"] = put["up"]
    BY <1>5, Ways, Zenon DEF WriteAll, Accept, Streams
  <2> QED BY <1>3, <1>5, <2>1, Zenon DEF WriteAll, python
<1>6. CASE ForwardAck
  <2>1. frames'["up"] = frames["up"]
    BY <1>6, Ways, Zenon DEF ForwardAck, Write, Streams
  <2> QED BY <1>3, <1>6, <2>1, Zenon DEF ForwardAck, python
<1>7. ASSUME NEW n, Fetch(n) PROVE Closed'
  <2>1. frames'["up"] = frames["up"] /\ UNCHANGED <<put, over, child, task>>
    BY <1>7, Ways, Zenon DEF Fetch, python, Streams
  <2> QED BY <1>3, <2>1, Zenon
<1>8. CASE WaitForSlot \/ SlotFreed \/ Poll \/ StopDispatch \/ Shutdown
  BY <1>3, <1>8, Zenon DEF WaitForSlot, SlotFreed, Poll, StopDispatch, Shutdown, wire, python
<1>9. CASE Drained \/ DrainTimeout
  BY <1>9, Zenon DEF Drained, DrainTimeout, Kill, Closed
<1>10. CASE Collect \/ Linger \/ NextChunk \/ Unreadable \/ SendAck \/ CollectEOF
  BY <1>3, <1>10, Zenon DEF Collect, Linger, NextChunk, Unreadable, SendAck, CollectEOF, wire, python
<1>11. CASE NextMessage
  BY <1>3, <1>11, Zenon DEF NextMessage, wire, python
<1>12. CASE Serve \/ ServeEOF
  <2>1. over => FALSE
    BY <1>12, Zenon DEF Serve, ServeEOF
  <2>2. child = "reading"
    BY <1>12, Zenon DEF Serve, ServeEOF
  <2> QED BY <2>1, <2>2, Zenon DEF Closed
<1>13. ASSUME NEW j \in Jobs, Step(j) \/ StepTimeout(j) \/ Finish(j) PROVE Closed'
  <2>1. task[j] \in {"run", "wait", "fail"} /\ ~over
    BY <1>13, Zenon DEF Step, StepTimeout, Finish, Succeed, Fail, Report
  <2> QED BY <2>1, Zenon DEF Closed
<1>14. CASE UNCHANGED vars
  BY <1>3, <1>14, Zenon DEF vars, wire, supervisor, python
<1> QED BY <1>4, <1>5, <1>6, <1>7, <1>8, <1>9, <1>10, <1>11, <1>12, <1>13, <1>14, Zenon
        DEF Next, Dispatching, Collecting, Serving

-----------------------------------------------------------------------------
\* Nothing written is taken back.
Grows == \A d \in Dirs : Extends(frames[d], frames'[d])

\* A step that writes nothing takes nothing back.
LEMMA Same == ASSUME UNCHANGED frames, Streams PROVE Grows
BY Numbers DEF Grows, Extends, Laid

\* What stopped the collector stays at the head of its buffer.
LEMMA StoppedStays ==
  ASSUME LinkInv, [Next]_vars, Streams', Grows, UNCHANGED <<base, pos>>, col = "gone"
  PROVE  Stopped'
<1>1. CASE Closed
  BY <1>1, ClosedStays, Zenon DEF LinkInv, Stopped
<1>2. CASE ~Closed
  <2> DEFINE F == frames["up"]
             H == frames'["up"]
  <2>1. base + pos < After(F) /\ \A f \in Range(F) : f.at = base + pos /\ f.kind = "failure" => ~f.text
    BY <1>2, Zenon DEF LinkInv, Stopped, StartsAt
  <2>2. Laid(F) /\ Laid(H) /\ Extends(F, H) /\ base \in Nat /\ pos \in Nat
    BY Ways, Zenon DEF LinkInv, Streams, Stream, Grows
  <2> HIDE DEF F, H
  <2>3. After(F) <= After(H) /\ After(F) \in Nat /\ After(H) \in Nat
    BY <2>2, Longer, AfterLast, Zenon
  <2>4. base + pos < After(H)
    BY <2>1, <2>2, <2>3
  <2>5. \A f \in Range(H) : f.at = base + pos => f \in Range(F)
    BY <2>1, <2>2, <2>3, RangeGrows
  <2>6. \A f \in StartsAt("up", base + pos)' : f.kind = "failure" => ~f.text
    BY <2>1, <2>5, Zenon DEF StartsAt, H
  <2> QED BY <2>4, <2>6, Zenon DEF Stopped, H
<1> QED BY <1>1, <1>2, Zenon

\* A step that reads nothing keeps LinkInv when it keeps the streams and the
\* loops.
LEMMA Assembles ==
  ASSUME LinkInv, [Next]_vars, Streams', Control', Grows, UNCHANGED <<taken, base, pos, start>>,
         col' = "read" => col = "read" \/ NeedsMore,
         child' = "reading" => child = "reading",
         col' = "gone" => col = "gone" \/ Stopped'
  PROVE  LinkInv'
<1>1. Laid(frames'["up"]) /\ Laid(frames'["down"])
  BY Zenon DEF Streams, Stream
<1>2. Extends(frames["up"], frames'["up"]) /\ Extends(frames["down"], frames'["down"])
  BY Ways, Zenon DEF Grows
<1>3. col' = "read" => NeedsMore'
  <2>1. col' = "read" => NeedsMore
    BY Zenon DEF LinkInv, NothingStranded
  <2> QED BY <1>1, <1>2, <2>1, NeedsMoreStays, Zenon DEF LinkInv
<1>4. child' = "reading" => Complete(taken["down"])' = {}
  <2>1. child' = "reading" => Complete(taken["down"]) = {}
    BY Zenon DEF LinkInv, NothingStranded
  <2> QED BY <1>1, <1>2, <2>1, CompleteStays, Zenon DEF LinkInv
<1>5. Stopped'
  BY StoppedStays, Zenon DEF Stopped
<1> QED BY <1>3, <1>4, <1>5, Zenon DEF LinkInv, NothingStranded

\* PipeUp and WriteAll: bytes enter a socket.
LEMMA ByKernel ==
  ASSUME LinkInv, [Next]_vars, PipeUp \/ WriteAll
  PROVE  LinkInv'
<1>1. \E d \in Dirs : Accept(d)
  BY Ways, Zenon DEF PipeUp, WriteAll
<1>2. UNCHANGED <<frames, taken, base, pos, start, got>> /\ UNCHANGED <<col, child>>
  BY Zenon DEF PipeUp, WriteAll, supervisor, python
<1>3. Streams' /\ Grows
  BY <1>1, <1>2, StreamsAccept, Same, Zenon DEF LinkInv
<1>4. Control'
  <2>1. dsp' \in {"top", "full", "idle", "writing", "gone"}
    BY Zenon DEF PipeUp, WriteAll, supervisor, LinkInv, Control
  <2>2. UNCHANGED <<col, sending, acks, child, task, leased, refused>>
    BY Zenon DEF PipeUp, WriteAll, supervisor, python
  <2> QED BY <2>1, <2>2, Zenon DEF LinkInv, Control
<1> QED BY <1>2, <1>3, <1>4, Assembles, Zenon

\* The steps that move no byte.
LEMMA ByWaiting ==
  ASSUME LinkInv, [Next]_vars,
         \/ WaitForSlot \/ SlotFreed \/ Poll \/ Shutdown \/ StopDispatch
         \/ Drained \/ DrainTimeout \/ Linger \/ NextChunk \/ SendAck \/ ServeEOF
         \/ \E j \in Jobs : StepTimeout(j)
  PROVE  LinkInv'
<1>1. UNCHANGED still
  BY Zenon DEF WaitForSlot, SlotFreed, Poll, Shutdown, StopDispatch, Drained, DrainTimeout, Kill, Linger,
     NextChunk, SendAck, ServeEOF, StepTimeout, still, wire, supervisor, python
<1>2. Streams' /\ Grows
  BY <1>1, StreamsStill, Same, Zenon DEF LinkInv, still
<1>3. /\ col' = "read" => col = "read" \/ NeedsMore
      /\ child' = "reading" => child = "reading"
      /\ col' = "gone" => col = "gone"
  BY Zenon DEF WaitForSlot, SlotFreed, Poll, Shutdown, StopDispatch, Drained, DrainTimeout, Kill, Linger,
     NextChunk, SendAck, ServeEOF, StepTimeout, still, wire, supervisor, python
<1>4. Control'
  <2> USE DEF LinkInv, Control
  <2>1. CASE WaitForSlot \/ SlotFreed \/ Poll
    BY <2>1, Zenon DEF WaitForSlot, SlotFreed, Poll, python
  <2>2. CASE Shutdown \/ Drained \/ DrainTimeout \/ Linger
    BY <2>2, Zenon DEF Shutdown, Drained, DrainTimeout, Kill, Linger, python
  <2>3. CASE StopDispatch
    <3>1. <<>> \in Seq(Jobs) /\ Len(<<>>) <= ACK_CAPACITY
      BY LinkConstants
    <3> QED BY <2>3, <3>1, Zenon DEF StopDispatch, python
  <2>4. CASE NextChunk
    <3>1. sending = NoJob
      BY <2>4, Zenon DEF NextChunk
    <3> QED BY <2>4, <3>1, Zenon DEF NextChunk, python
  <2>5. CASE SendAck
    <3>1. acks' \in Seq(Jobs) /\ Len(acks') <= ACK_CAPACITY
      <4>1. sending \in Jobs /\ ACK_CAPACITY \in Nat
        BY <2>5, LinkConstants, Zenon DEF SendAck
      <4>2. CASE UNCHANGED acks
        BY <4>2, Zenon
      <4>3. CASE Len(acks) < ACK_CAPACITY /\ acks' = Append(acks, sending)
        BY <4>1, <4>3
      <4> QED BY <2>5, <4>2, <4>3, Zenon DEF SendAck
    <3>2. sending' = NoJob /\ col' = "decode" /\ UNCHANGED <<dsp, child, task, leased, refused>>
      BY <2>5, Zenon DEF SendAck, python
    <3> QED BY <3>1, <3>2, Zenon
  <2>6. CASE ServeEOF
    <3>1. task' \in [Jobs -> {"none", "run", "wait", "fail", "done"}]
      BY <2>6, Zenon DEF ServeEOF
    <3>2. child' = "ended" /\ UNCHANGED <<dsp, col, sending, acks, leased, refused>>
      BY <2>6, Zenon DEF ServeEOF, supervisor
    <3> QED BY <3>1, <3>2, Zenon
  <2>7. ASSUME NEW j \in Jobs, StepTimeout(j) PROVE Control'
    <3>1. task' \in [Jobs -> {"none", "run", "wait", "fail", "done"}]
      BY <2>7, Zenon DEF StepTimeout
    <3>2. UNCHANGED <<dsp, col, sending, acks, child, leased, refused>>
      BY <2>7, Zenon DEF StepTimeout, supervisor
    <3> QED BY <3>1, <3>2, Zenon
  <2> QED BY <2>1, <2>2, <2>3, <2>4, <2>5, <2>6, <2>7, Zenon
<1> QED BY <1>1, <1>2, <1>3, <1>4, Assembles, Zenon DEF still

\* dispatch forwards one acknowledgement to the child.
LEMMA ByAck ==
  ASSUME LinkInv, [Next]_vars, ForwardAck
  PROVE  LinkInv'
<1> DEFINE F == frames["down"]
           f == encode_stored(Head(acks))
<1>1. /\ acks \in Seq(Jobs) /\ acks # <<>> /\ Len(acks) <= ACK_CAPACITY /\ ACK_CAPACITY \in Nat
      /\ acks' = Tail(acks) /\ frames' = [frames EXCEPT !["down"] = Place(F, f)]
      /\ UNCHANGED <<put, taken, base, pos, start, got>>
  BY LinkConstants, Zenon DEF ForwardAck, LinkInv, Control, Write, python
<1>2. Head(acks) \in Jobs /\ Tail(acks) \in Seq(Jobs) /\ Len(Tail(acks)) <= ACK_CAPACITY
  BY <1>1
<1>3. f \in Message /\ Encodes(f)
  <2>1. f \in Message /\ f.body <= MAX_FRAME_BYTES
    BY <1>2, Encoded, Zenon
  <2>2. f.kind = "stored"
    BY DEF encode_stored, Body
  <2> QED BY <2>1, <2>2 DEF Encodes
<1>4. Laid(F) /\ Fits(F) /\ Extends(F, F) /\ Len(F) \in Nat
  BY Numbers, Ways DEF LinkInv, Streams, Extends, Laid
<1>5. Laid(Place(F, f)) /\ Extends(F, Place(F, f)) /\ Fits(Place(F, f))
  <2> HIDE DEF F, f
  <2> QED BY <1>3, <1>4, Added, Zenon
<1>6. Streams'
  <2>1. Streams /\ "down" # "up" /\ "down" \in Dirs
    BY Ways, Zenon DEF LinkInv
  <2> QED BY <1>1, <1>5, <2>1, StreamsWrite, Zenon
<1>7. Grows
  <2>1. frames'["down"] = Place(F, f) /\ frames'["up"] = frames["up"]
    BY <1>1, Ways, Zenon DEF LinkInv, Streams
  <2>2. Extends(frames["up"], frames["up"])
    BY Numbers, Ways DEF LinkInv, Extends, Laid
  <2> QED BY <1>5, <2>1, <2>2, Ways, Zenon DEF Grows
<1>8. Control'
  <2>1. dsp' = "writing" /\ UNCHANGED <<col, sending, child, task, leased, refused>>
    BY Zenon DEF ForwardAck, python
  <2> QED BY <1>1, <1>2, <2>1, Zenon DEF LinkInv, Control
<1>9. UNCHANGED <<col, child>>
  BY Zenon DEF ForwardAck, python
<1> QED BY <1>1, <1>6, <1>7, <1>8, <1>9, Assembles, Zenon

\* dispatch fetches and writes a batch; what does not fit is discarded.
LEMMA ByFetch ==
  ASSUME LinkInv, [Next]_vars, NEW n \in 0 .. MaxJobs, Fetch(n)
  PROVE  LinkInv'
<1> DEFINE F == frames["down"]
           H == AddJobs(F, leased, n)
           batch == leased + 1 .. leased + n
           sent == {j \in batch : Encodes(encode_dispatch(j))}
<1>1. /\ batch \subseteq Jobs /\ leased \in Nat /\ n \in Nat
      /\ leased' = leased + n /\ refused' = refused \cup (batch \ sent)
      /\ UNCHANGED <<put, taken, base, pos, start, got, col, sending, acks, child, task>>
      /\ \/ UNCHANGED frames
         \/ frames' = [frames EXCEPT !["down"] = H]
      /\ dsp' \in {"idle", "top", "writing"}
  <2>1. /\ batch \subseteq Jobs /\ leased \in Nat
        /\ leased' = leased + n /\ refused' = refused \cup (batch \ sent)
        /\ UNCHANGED <<put, taken, base, pos, start, got, col, sending, acks, child, task>>
    BY Zenon DEF Fetch, python, LinkInv, Control
  <2>2. /\ \/ UNCHANGED frames
           \/ frames' = [frames EXCEPT !["down"] = H]
        /\ dsp' \in {"idle", "top", "writing"}
    BY Zenon DEF Fetch
  <2>3. n \in Nat
    OBVIOUS
  <2> QED BY <2>1, <2>2, <2>3, Zenon
<1>2. Laid(F) /\ Fits(F) /\ Streams
  BY Numbers, Ways, Zenon DEF LinkInv, Streams
<1>3. Laid(H) /\ Extends(F, H) /\ Fits(H)
  <2> HIDE DEF F
  <2> QED BY <1>1, <1>2, BatchWritten, Zenon DEF Built
<1> HIDE DEF H
<1>4. Extends(frames["up"], frames["up"]) /\ Extends(F, F)
  BY <1>2, Numbers, Ways DEF Extends, Laid
<1>5. Streams' /\ Grows
  <2>1. CASE UNCHANGED frames
    BY <1>1, <1>2, <2>1, StreamsStill, Same, Zenon DEF still
  <2>2. CASE frames' = [frames EXCEPT !["down"] = H]
    <3>1. frames'["down"] = H /\ frames'["up"] = frames["up"]
      BY <1>2, <2>2, Ways, Zenon DEF Streams
    <3>2. Grows
      BY <1>3, <1>4, <3>1, Ways, Zenon DEF Grows
    <3>3. Streams'
      BY <1>1, <1>2, <1>3, <2>2, StreamsWrite, Ways, Zenon
    <3> QED BY <3>2, <3>3, Zenon
  <2> QED BY <1>1, <2>1, <2>2, Zenon
<1>6. \A j \in refused' : Payload[j] > payload_limit(j) \/ TaskName[j] > MAX_NAME_BYTES
  <2>1. ASSUME NEW j \in batch \ sent
        PROVE  Payload[j] > payload_limit(j) \/ TaskName[j] > MAX_NAME_BYTES
    <3>1. /\ DISPATCH_HEAD_BYTES \in Nat /\ TaskName[j] \in Nat /\ MAX_FRAME_BYTES \in Nat
          /\ Payload[j] \in Nat /\ MAX_NAME_BYTES \in Nat
          /\ PY_DISPATCH_HEAD_BYTES = DISPATCH_HEAD_BYTES
          /\ PY_MAX_FRAME_BYTES = MAX_FRAME_BYTES
      BY <1>1, Sizes, LinkConstants DEF Jobs
    <3>2. \/ ~(DISPATCH_HEAD_BYTES + TaskName[j] + Payload[j] <= MAX_FRAME_BYTES)
          \/ ~(TaskName[j] <= MAX_NAME_BYTES)
      BY DEF Encodes, encode_dispatch, Body
    <3> QED BY <3>1, <3>2 DEF payload_limit
  <2> QED BY <1>1, <2>1, Zenon DEF LinkInv, Control
<1>7. Control'
  <2>1. leased' \in Nat
    BY <1>1
  <2> QED BY <1>1, <1>6, <2>1, Zenon DEF LinkInv, Control
<1> QED BY <1>1, <1>5, <1>7, Assembles, Zenon

\* What the child encodes, and encode_failure fits the supervisor's limit.
LEMMA Reported ==
  ASSUME NEW j \in Jobs
  PROVE  /\ \A r \in Results : /\ encode_record(j, r) \in Message /\ encode_record(j, r).kind = "record"
                               /\ encode_record(j, r).job = j
                               /\ encode_success(j, r) \in Message /\ encode_success(j, r).kind = "success"
                               /\ encode_success(j, r).job = j
         /\ \A e \in Errors : /\ encode_failure(j, e) \in Message /\ encode_failure(j, e).kind = "failure"
                              /\ encode_failure(j, e).job = j /\ encode_failure(j, e).body <= MAX_FRAME_BYTES
<1>0. /\ Results \subseteq Nat /\ COMPLETE_HEAD_BYTES \in Nat /\ MAX_ERROR_BYTES \in Nat
      /\ TrailerBytes \in Nat /\ MAX_FRAME_BYTES \in Nat /\ j \in Nat
      /\ COMPLETE_HEAD_BYTES + MAX_ERROR_BYTES + TrailerBytes <= MAX_FRAME_BYTES
  BY LinkConstants DEF Jobs
<1>1. \A k \in Kinds, b \in Nat, t \in BOOLEAN :
         Body(k, j, b, t) \in Message /\ Body(k, j, b, t).kind = k /\ Body(k, j, b, t).job = j
         /\ Body(k, j, b, t).body = b
  BY <1>0, Zenon DEF Body, Message
<1>2. "record" \in Kinds /\ "success" \in Kinds /\ "failure" \in Kinds
  BY Zenon DEF Kinds
<1>3. ASSUME NEW r \in Results
      PROVE  /\ encode_record(j, r) \in Message /\ encode_record(j, r).kind = "record"
             /\ encode_record(j, r).job = j
             /\ encode_success(j, r) \in Message /\ encode_success(j, r).kind = "success"
             /\ encode_success(j, r).job = j
  <2>1. 1 + r \in Nat /\ COMPLETE_HEAD_BYTES + r \in Nat /\ TRUE \in BOOLEAN
    BY <1>0
  <2> QED BY <1>1, <1>2, <2>1, Zenon DEF encode_record, encode_success
<1>4. ASSUME NEW e \in Errors
      PROVE  /\ encode_failure(j, e) \in Message /\ encode_failure(j, e).kind = "failure"
             /\ encode_failure(j, e).job = j /\ encode_failure(j, e).body <= MAX_FRAME_BYTES
  <2>1. e.chars \in Nat /\ e.width \in Nat
    BY LinkConstants
  <2> DEFINE rendered == e.chars * e.width
  <2>2. rendered \in Nat
    BY <2>1
  <2> HIDE DEF rendered
  <2>3. CASE rendered > MAX_ERROR_BYTES
    <3> DEFINE b == COMPLETE_HEAD_BYTES + MAX_ERROR_BYTES + TrailerBytes
               t == MAX_ERROR_BYTES % e.width = 0
    <3>1. b \in Nat /\ b <= MAX_FRAME_BYTES /\ t \in BOOLEAN
      BY <1>0
    <3>2. encode_failure(j, e) = Body("failure", j, b, t)
      BY <2>3, Zenon DEF encode_failure, rendered
    <3> HIDE DEF b, t
    <3> QED BY <1>1, <1>2, <3>1, <3>2
  <2>4. CASE ~(rendered > MAX_ERROR_BYTES)
    <3> DEFINE b == COMPLETE_HEAD_BYTES + rendered
               t == TRUE
    <3>1. b \in Nat /\ b <= MAX_FRAME_BYTES /\ t \in BOOLEAN
      BY <1>0, <2>2, <2>4
    <3>2. encode_failure(j, e) = Body("failure", j, b, t)
      BY <2>4, Zenon DEF encode_failure, rendered
    <3> HIDE DEF b, t
    <3> QED BY <1>1, <1>2, <3>1, <3>2
  <2> QED BY <2>3, <2>4, Zenon
<1> QED BY <1>3, <1>4, Zenon

\* A task of the child records a step or reports its end.
LEMMA ByChild ==
  ASSUME LinkInv, [Next]_vars, NEW j \in Jobs, Step(j) \/ Finish(j)
  PROVE  LinkInv'
<1> DEFINE F == frames["up"]
<1>1. /\ UNCHANGED <<put, taken, base, pos, start, got, col, child>>
      /\ UNCHANGED <<dsp, sending, acks, leased, refused>>
      /\ \E f : /\ frames' = [frames EXCEPT !["up"] = Place(F, f)] /\ f \in Message
                /\ f.kind \in {"record", "success", "failure"} /\ f.job \in Jobs
                /\ f.kind = "failure" => f.body <= MAX_FRAME_BYTES
  <2>1. CASE Step(j)
    <3>1. PICK r \in Results : frames' = [frames EXCEPT !["up"] = Place(F, encode_record(j, r))]
      BY <2>1, Zenon DEF Step, Write
    <3>2. /\ UNCHANGED <<put, taken, base, pos, start, got, col, child>>
          /\ UNCHANGED <<dsp, sending, acks, leased, refused>>
      BY <2>1, Zenon DEF Step, supervisor
    <3> DEFINE f == encode_record(j, r)
    <3>3. /\ f \in Message /\ f.kind \in {"record", "success", "failure"} /\ f.job \in Jobs
          /\ f.kind = "failure" => f.body <= MAX_FRAME_BYTES
      <4>1. f \in Message /\ f.kind = "record" /\ f.job = j
        BY Reported, Zenon
      <4> HIDE DEF f
      <4> QED BY <4>1, Zenon
    <3> QED BY <3>1, <3>2, <3>3, Zenon
  <2>2. ASSUME NEW f, Report(j, f)
        PROVE  /\ UNCHANGED <<put, taken, base, pos, start, got, col, child>>
               /\ UNCHANGED <<dsp, sending, acks, leased, refused>>
               /\ frames' = [frames EXCEPT !["up"] = Place(F, f)]
    BY <2>2, Zenon DEF Report, supervisor, Write
  <2>3. CASE Succeed(j)
    <3>1. PICK r \in Results : Report(j, encode_success(j, r))
      BY <2>3, Zenon DEF Succeed
    <3> DEFINE f == encode_success(j, r)
    <3>2. f \in Message /\ f.kind = "success" /\ f.job = j
      BY Reported, Zenon
    <3>3. Report(j, f)
      BY <3>1, Zenon
    <3> HIDE DEF f
    <3>4. "success" # "failure"
      OBVIOUS
    <3> QED BY <2>2, <3>2, <3>3, <3>4, Zenon
  <2>4. CASE Fail(j)
    <3>1. PICK e \in Errors : Report(j, encode_failure(j, e))
      BY <2>4, Zenon DEF Fail
    <3> DEFINE f == encode_failure(j, e)
    <3>2. f \in Message /\ f.kind = "failure" /\ f.job = j /\ f.body <= MAX_FRAME_BYTES
      BY Reported, Zenon
    <3>3. Report(j, f)
      BY <3>1, Zenon
    <3> HIDE DEF f
    <3> QED BY <2>2, <3>2, <3>3, Zenon
  <2> QED BY <2>1, <2>3, <2>4, Zenon DEF Finish
<1>2. PICK f : /\ frames' = [frames EXCEPT !["up"] = Place(F, f)] /\ f \in Message
               /\ f.kind \in {"record", "success", "failure"} /\ f.job \in Jobs
               /\ f.kind = "failure" => f.body <= MAX_FRAME_BYTES
  BY <1>1, Zenon
<1>3. Laid(F) /\ Reports(F) /\ Len(F) \in Nat /\ Streams
  <2>1. Laid(F) /\ Reports(F) /\ Streams
    BY Zenon DEF LinkInv, Streams, Stream
  <2> HIDE DEF F
  <2>2. Len(F) \in Nat
    BY <2>1 DEF Laid
  <2> QED BY <2>1, <2>2, Zenon
<1> DEFINE H == Place(F, f)
<1>4. /\ Laid(H) /\ Extends(F, H) /\ Len(H) = Len(F) + 1
      /\ H[Len(F) + 1] = [kind |-> f.kind, job |-> f.job, body |-> f.body, text |-> f.text, at |-> After(F)]
  <2> HIDE DEF F
  <2> QED BY <1>2, <1>3, Placing, Zenon
<1>5. Reports(H)
  <2>1. H[Len(F) + 1].kind = f.kind /\ H[Len(F) + 1].job = f.job /\ H[Len(F) + 1].body = f.body
    BY <1>4
  <2> HIDE DEF H, F
  <2>2. ASSUME NEW i \in 1 .. Len(H), i # Len(F) + 1 PROVE i \in 1 .. Len(F) /\ H[i] = F[i]
    BY <1>3, <1>4, <2>2 DEF Extends
  <2> QED BY <1>2, <1>3, <2>1, <2>2, Zenon DEF Reports
<1>6. Streams'
  <2> HIDE DEF H
  <2>1. frames' = [frames EXCEPT !["up"] = H]
    BY <1>2, Zenon DEF H
  <2> QED BY <1>1, <1>3, <1>4, <1>5, <2>1, StreamsWrite, Ways, Zenon
<1>7. Grows
  <2>1. frames'["up"] = H /\ frames'["down"] = frames["down"]
    BY <1>2, <1>3, Ways, Zenon DEF Streams
  <2>2. Extends(frames["down"], frames["down"])
    BY <1>3, Numbers, Ways DEF Extends, Laid
  <2> QED BY <1>4, <2>1, <2>2, Ways, Zenon DEF Grows
<1>8. Control'
  <2>1. task' \in [Jobs -> {"none", "run", "wait", "fail", "done"}]
    BY Zenon DEF Step, Finish, Succeed, Fail, Report, LinkInv, Control
  <2> QED BY <1>1, <2>1, Zenon DEF LinkInv, Control
<1> QED BY <1>1, <1>6, <1>7, <1>8, Assembles, Zenon

\* The collector returns at an unreadable frame or at the end of the stream.
LEMMA ByStopping ==
  ASSUME LinkInv, [Next]_vars, Unreadable \/ CollectEOF
  PROVE  LinkInv'
<1>1. UNCHANGED still /\ col' = "gone" /\ UNCHANGED <<dsp, sending, acks, leased, refused, child, task>>
  BY Zenon DEF Unreadable, CollectEOF, still, wire, python
<1>2. Streams' /\ Grows
  BY <1>1, StreamsStill, Same, Zenon DEF LinkInv, still
<1>3. Control'
  <2>1. sending = NoJob
    BY Zenon DEF Unreadable, CollectEOF, LinkInv, Control
  <2> QED BY <1>1, <2>1, Zenon DEF LinkInv, Control
<1>4. Stopped'
  <2>1. CASE CollectEOF
    <3>1. Closed'
      BY <2>1, ClosedStays, Zenon DEF CollectEOF, LinkInv
    <3> QED BY <3>1, Zenon DEF Stopped
  <2>2. CASE Unreadable
    <3>1. ~NeedsMore /\ \A f \in Announced : ~Readable(f)
      BY <2>2, Zenon DEF Unreadable
    <3>2. base + pos < After(frames["up"])
      <4>1. base \in Nat /\ pos \in Nat
        BY Zenon DEF LinkInv, Streams
      <4>2. ~(taken["up"] - (base + pos) < HEADER_BYTES)
        BY <3>1, Zenon DEF NeedsMore, Buffered
      <4> QED BY <4>1, <4>2, Numbers, Ways, Sizes DEF LinkInv
    <3>3. ASSUME NEW f \in StartsAt("up", base + pos), f.kind = "failure" PROVE ~f.text
      <4>1. ~(f.body <= MAX_FRAME_BYTES /\ f.text)
        BY <3>1, <3>3, Zenon DEF Announced, Readable
      <4>2. PICK i \in 1 .. Len(frames["up"]) : f = frames["up"][i]
        <5>1. f \in Range(frames["up"])
          BY <3>3, Zenon DEF StartsAt
        <5>2. Laid(frames["up"])
          BY Numbers, Ways, Zenon DEF LinkInv
        <5>3. DOMAIN frames["up"] = 1 .. Len(frames["up"])
          BY <5>2 DEF Laid
        <5> QED BY <5>1, <5>3, Zenon DEF Range
      <4>3. f.body <= MAX_FRAME_BYTES
        BY <3>3, <4>2, Zenon DEF LinkInv, Streams, Reports
      <4> QED BY <4>1, <4>3, Zenon
    <3> QED BY <1>1, <3>2, <3>3, Zenon DEF Stopped, StartsAt, still
  <2> QED BY <2>1, <2>2, Zenon
<1>5. UNCHANGED <<taken, base, pos, start>>
  BY <1>1, Zenon DEF still
<1>6. col' = "read" => col = "read" \/ NeedsMore
  BY <1>1, Zenon
<1> QED BY <1>1, <1>2, <1>3, <1>4, <1>5, <1>6, Assembles, Zenon

\* The collector reads a chunk.
LEMMA ByReading ==
  ASSUME LinkInv, [Next]_vars, Collect
  PROVE  LinkInv'
<1>1. /\ Streams /\ Chunk("up") > 0 /\ taken' = [taken EXCEPT !["up"] = taken["up"] + Chunk("up")]
      /\ col' = "decode" /\ col = "read"
      /\ UNCHANGED <<frames, put, base, pos, start, got, dsp, sending, acks, leased, refused, child, task>>
  BY Zenon DEF Collect, LinkInv, python
<1>2. taken'["up"] = taken["up"] + Chunk("up") /\ taken'["down"] = taken["down"] /\ DOMAIN taken' = Dirs
  BY <1>1, Ways, Zenon DEF Streams
<1>3. Stream(frames["up"], got["up"], base + pos, taken["up"] + Chunk("up"), put["up"])
  BY <1>1, ChunkFits, StreamTaken, Ways, Zenon DEF Streams
<1>4. Streams'
  BY <1>1, <1>2, <1>3, Zenon DEF Streams
<1>5. Control'
  BY <1>1, Zenon DEF LinkInv, Control
<1>6. Complete(taken["down"])' = Complete(taken["down"])
  BY <1>1, <1>2, Zenon DEF Complete
<1>7. NothingStranded' /\ Stopped'
  BY <1>1, <1>6, Zenon DEF LinkInv, NothingStranded, Stopped
<1> QED BY <1>4, <1>5, <1>7, Zenon DEF LinkInv

\* The collector decodes one message.
LEMMA ByDecoding ==
  ASSUME LinkInv, [Next]_vars, NextMessage
  PROVE  LinkInv'
<1>1. PICK f \in Announced :
        /\ Readable(f) /\ Advance(f)
        /\ got' = [got EXCEPT !["up"] = Append(got["up"], f)]
        /\ \/ UNCHANGED <<col, sending>>
           \/ f.kind = "record" /\ col' = "send" /\ sending' = f.job
  BY Zenon DEF NextMessage
<1>2. /\ Streams /\ col = "decode" /\ ~NeedsMore
      /\ UNCHANGED <<frames, put, taken, start, dsp, acks, leased, refused, child, task>>
  BY Zenon DEF NextMessage, LinkInv, wire, python
<1>3. PICK i \in 1 .. Len(frames["up"]) : f = frames["up"][i]
  <2>1. f \in Range(frames["up"])
    BY Zenon DEF Announced, StartsAt
  <2>2. DOMAIN frames["up"] = 1 .. Len(frames["up"])
    BY <1>2, Numbers, Ways DEF Laid
  <2> QED BY <2>1, <2>2, Zenon DEF Range
<1>4. f \in Range(frames["up"]) /\ f.at = base + pos /\ f.body \in Nat /\ base \in Nat /\ pos \in Nat
  <2>1. f \in Frame
    BY <1>2, <1>3, Ends, Numbers, Ways, Zenon
  <2> QED BY <1>1, <1>2, <2>1, Zenon DEF Announced, StartsAt, Streams, Frame
<1>5. EndOf(f) <= taken["up"]
  <2>1. ~(taken["up"] - (base + pos) - HEADER_BYTES < f.body)
    BY <1>1, <1>2, Zenon DEF NeedsMore, Buffered, Readable
  <2>2. taken["up"] \in Nat
    BY <1>2, Numbers, Ways, Zenon
  <2> QED BY <1>4, <2>1, <2>2, Sizes DEF EndOf
<1>6. base' + pos' = EndOf(f) /\ base' \in Nat /\ pos' \in Nat
  BY <1>1, <1>4, Sizes DEF Advance, EndOf
<1>7. Stream(frames["up"], Append(got["up"], f), EndOf(f), taken["up"], put["up"])
  BY <1>2, <1>4, <1>5, StreamDecodes, Zenon DEF Streams
<1>8. Streams'
  <2>1. got'["up"] = Append(got["up"], f) /\ got'["down"] = got["down"] /\ DOMAIN got' = Dirs
    BY <1>1, <1>2, Ways, Zenon DEF Streams
  <2> QED BY <1>2, <1>6, <1>7, <2>1, Zenon DEF Streams
<1>9. Control'
  <2>1. CASE UNCHANGED <<col, sending>>
    BY <1>2, <2>1, Zenon DEF LinkInv, Control
  <2>2. CASE f.kind = "record" /\ col' = "send" /\ sending' = f.job
    <3>1. f.job \in Jobs
      BY <1>2, <1>3, <2>2, Zenon DEF Streams, Reports
    <3>2. f.job # NoJob
      BY <3>1 DEF Jobs, NoJob
    <3> QED BY <1>2, <2>2, <3>1, <3>2, Zenon DEF LinkInv, Control
  <2> QED BY <1>1, <2>1, <2>2, Zenon
<1>10. Complete(taken["down"])' = Complete(taken["down"])
  BY <1>2, Zenon DEF Complete
<1>11. col' \in {"decode", "send"}
  BY <1>1, <1>2, Zenon
<1>12. NothingStranded' /\ Stopped'
  BY <1>2, <1>10, <1>11, Zenon DEF LinkInv, NothingStranded, Stopped
<1> QED BY <1>8, <1>9, <1>12, Zenon DEF LinkInv

\* The child reads a chunk and decodes every complete frame in it.
LEMMA ByServing ==
  ASSUME LinkInv, [Next]_vars, Serve
  PROVE  LinkInv'
<1> DEFINE F == frames["down"]
           limit == taken["down"] + Chunk("down")
           out == Complete(limit)
<1>1. /\ Streams /\ child = "reading" /\ Chunk("down") > 0
      /\ taken' = [taken EXCEPT !["down"] = limit]
      /\ UNCHANGED <<frames, put, base, pos, dsp, col, sending, acks, leased, refused, over>>
  BY Zenon DEF Serve, LinkInv, supervisor
<1>2. limit \in Nat /\ taken["down"] <= limit /\ limit <= put["down"]
  BY <1>1, ChunkFits, Numbers, Ways
<1> HIDE DEF limit
<1>3. ~Rejects(limit)
  <2>1. SUFFICES ASSUME NEW f \in Range(F), f.body > MAX_FRAME_BYTES PROVE FALSE
    BY LinkConstants, Zenon DEF Rejects
  <2>2. PICK i \in 1 .. Len(F) : f = F[i]
    BY <1>1, Numbers, Ways DEF Range, Laid
  <2>3. F[i] \in Frame /\ F[i].body <= MAX_FRAME_BYTES
    BY <1>1, <2>2, Ends, Numbers, Ways, Zenon DEF Streams, Fits
  <2> QED BY <2>1, <2>2, <2>3, Sizes DEF Frame
<1>4. /\ start' = Max({start} \cup {EndOf(f) : f \in out})
      /\ got' = [got EXCEPT !["down"] = got["down"] \o InOrder(F, out)]
      /\ task' \in [Jobs -> {"none", "run", "wait", "fail", "done"}]
      /\ UNCHANGED child
  <2>1. /\ start' = Max({start} \cup {EndOf(f) : f \in out})
        /\ got' = [got EXCEPT !["down"] = got["down"] \o InOrder(F, out)]
        /\ UNCHANGED child
    BY <1>3, Zenon DEF Serve, limit
  <2>2. \A j \in Jobs : task[j] \in {"none", "run", "wait", "fail", "done"}
    BY Zenon DEF LinkInv, Control
  <2>3. task' \in [Jobs -> {"none", "run", "wait", "fail", "done"}]
    BY <1>3, <2>2, Zenon DEF Serve, limit
  <2> QED BY <2>1, <2>3, Zenon
<1>5. out = {f \in Range(F) : f.at >= start /\ EndOf(f) <= limit}
  BY Zenon DEF Complete
<1> HIDE DEF out
<1>6. Stream(F, got["down"], start, taken["down"], put["down"])
  BY <1>1, Zenon DEF Streams
<1>7. /\ Stream(F, got["down"] \o InOrder(F, out), start', limit, put["down"])
      /\ start' >= start /\ \A f \in out : EndOf(f) <= start'
  <2>1. start' = LastEnd(start, out) /\ out = Whole(F, start, limit)
    BY <1>4, <1>5, Zenon DEF LastEnd, Whole
  <2> HIDE DEF F
  <2> QED BY <1>2, <1>6, <2>1, StreamDrains, Zenon
<1>8. taken'["down"] = limit /\ taken'["up"] = taken["up"] /\ DOMAIN taken' = Dirs
  BY <1>1, Ways, Zenon DEF Streams
<1>9. /\ got'["down"] = got["down"] \o InOrder(F, out) /\ got'["up"] = got["up"]
      /\ DOMAIN got' = Dirs
  BY <1>1, <1>4, Ways, Zenon DEF Streams
<1>10. Streams'
  BY <1>1, <1>7, <1>8, <1>9, Zenon DEF Streams
<1>11. Control'
  BY <1>1, <1>4, Zenon DEF LinkInv, Control
<1>12. Complete(taken["down"])' = {}
  <2>1. SUFFICES ASSUME NEW f \in Range(F), f.at >= start', EndOf(f) <= limit PROVE FALSE
    BY <1>1, <1>8, Zenon DEF Complete
  <2>2. PICK i \in 1 .. Len(F) : f = F[i]
    BY <1>1, Numbers, Ways DEF Range, Laid
  <2>3. f.at \in Nat /\ EndOf(f) \in Nat /\ f.at < EndOf(f)
    BY <1>1, <2>2, Ends, Numbers, Ways, Zenon
  <2>4. start \in Nat /\ start' \in Nat
    BY <1>6, <1>7, Zenon DEF Stream
  <2>5. f \in out
    BY <1>5, <1>7, <2>1, <2>3, <2>4
  <2> QED BY <1>7, <2>1, <2>3, <2>4, <2>5
<1>13. NothingStranded'
  <2>1. NeedsMore' = NeedsMore
    BY <1>1, <1>8, Zenon DEF NeedsMore, Buffered, Announced, StartsAt
  <2> QED BY <1>1, <1>12, <2>1, Zenon DEF LinkInv, NothingStranded
<1>14. Stopped'
  <2>1. Grows
    BY <1>1, Same, Zenon
  <2>2. UNCHANGED <<base, pos>>
    BY <1>1, Zenon
  <2> QED BY <1>1, <1>10, <2>1, <2>2, StoppedStays, Zenon DEF Stopped
<1> QED BY <1>10, <1>11, <1>13, <1>14, Zenon DEF LinkInv

-----------------------------------------------------------------------------
\* A session begins with the registration alone on its way up.
LEMMA AtStart == Init => LinkInv
<1> SUFFICES ASSUME Init PROVE LinkInv
  BY Zenon
<1> DEFINE F == Place(<<>>, encode_register)
<1>1. Laid(<<>>) /\ Len(<<>>) = 0 /\ After(<<>>) = 0
  BY DEF Laid, After
<1>2. encode_register \in Message /\ encode_register.kind = "register"
  BY Zenon DEF encode_register, Body, Message, Kinds, NoJob
<1>3. Laid(F) /\ Extends(<<>>, F) /\ Len(F) = 1
  <2>1. Laid(F) /\ Extends(<<>>, F) /\ Len(F) = Len(<<>>) + 1
    BY <1>1, <1>2, Placing, Zenon
  <2> HIDE DEF F
  <2> QED BY <1>1, <2>1
<1>4. F[1].kind = "register"
  <2>1. F[Len(<<>>) + 1] = [kind |-> encode_register.kind, job |-> encode_register.job,
                            body |-> encode_register.body, text |-> encode_register.text,
                            at |-> After(<<>>)]
    BY <1>1, <1>2, Placing, Zenon
  <2> QED BY <1>1, <1>2, <2>1
<1>5. frames["up"] = F /\ frames["down"] = <<>> /\ DOMAIN frames = Dirs
  BY Zenon DEF Init, Dirs
<1>6. /\ \A d \in Dirs : put[d] = 0 /\ taken[d] = 0 /\ got[d] = <<>>
      /\ DOMAIN put = Dirs /\ DOMAIN taken = Dirs /\ DOMAIN got = Dirs
      /\ base = 0 /\ pos = 0 /\ start = 0
  BY Zenon DEF Init
<1> HIDE DEF F
<1>7. Streams
  <2>1. After(F) \in Nat
    BY <1>3, AfterLast, Zenon
  <2>2. Stream(F, <<>>, 0, 0, 0) /\ Stream(<<>>, <<>>, 0, 0, 0)
    BY <1>1, <1>3, <2>1, Sizes DEF Stream, Extends
  <2>3. Fits(<<>>) /\ Reports(F)
    BY <1>1, <1>3, <1>4 DEF Fits, Reports
  <2>4. base + pos = 0 /\ base \in Nat /\ pos \in Nat
    BY <1>6
  <2> QED BY <1>5, <1>6, <2>2, <2>3, <2>4, Ways, Zenon DEF Streams
<1>8. Control
  BY LinkConstants DEF Init, Control, Jobs, NoJob
<1>9. NothingStranded
  <2>1. Buffered < HEADER_BYTES
    BY <1>6, Ways, Sizes DEF Buffered
  <2>2. Range(frames["down"]) = {}
    BY <1>5 DEF Range
  <2> QED BY <2>1, <2>2, Zenon DEF NothingStranded, NeedsMore, Complete
<1>10. Stopped
  BY Zenon DEF Init, Stopped
<1> QED BY <1>7, <1>8, <1>9, <1>10, Zenon DEF LinkInv

\* Every step keeps LinkInv.
LEMMA EveryStep == LinkInv /\ [Next]_vars => LinkInv'
<1> SUFFICES ASSUME LinkInv, [Next]_vars PROVE LinkInv'
  BY Zenon
<1>1. CASE UNCHANGED vars
  <2>1. UNCHANGED <<frames, put, taken, base, pos, start, got, dsp, col, sending, acks, leased,
                    refused, over, child, task>>
    BY <1>1, Zenon DEF vars, wire, supervisor, python
  <2> QED BY <2>1, Zenon DEF LinkInv, Streams, Control, NothingStranded, NeedsMore, Buffered,
             Announced, StartsAt, Complete, Stopped, Closed
<1>2. CASE PipeUp \/ WriteAll
  BY <1>2, ByKernel, Zenon
<1>3. CASE \/ WaitForSlot \/ SlotFreed \/ Poll \/ Shutdown \/ StopDispatch
           \/ Drained \/ DrainTimeout \/ Linger \/ NextChunk \/ SendAck \/ ServeEOF
           \/ \E j \in Jobs : StepTimeout(j)
  BY <1>3, ByWaiting, Zenon
<1>4. CASE ForwardAck
  BY <1>4, ByAck, Zenon
<1>5. CASE \E n \in 0 .. MaxJobs : Fetch(n)
  BY <1>5, ByFetch, Zenon
<1>6. CASE Unreadable \/ CollectEOF
  BY <1>6, ByStopping, Zenon
<1>7. CASE Collect
  BY <1>7, ByReading, Zenon
<1>8. CASE NextMessage
  BY <1>8, ByDecoding, Zenon
<1>9. CASE Serve
  BY <1>9, ByServing, Zenon
<1>10. CASE \E j \in Jobs : Step(j) \/ Finish(j)
  BY <1>10, ByChild, Zenon
<1> QED BY <1>1, <1>2, <1>3, <1>4, <1>5, <1>6, <1>7, <1>8, <1>9, <1>10, Zenon
           DEF Next, Dispatching, Collecting, Serving

\* LinkInv holds throughout a session.
LEMMA Always == Spec => []LinkInv
BY AtStart, EveryStep, PTL DEF Spec

\* However the sockets cut the streams, no loop reads bytes that were not
\* written, the kernel buffers and the acknowledgement channel of session keep
\* to their bounds, for all sizes and any number of jobs.
THEOREM LinkTyped == Spec => []LinkTypeOK
<1>1. LinkInv => LinkTypeOK
  <2> SUFFICES ASSUME LinkInv PROVE LinkTypeOK
    BY Zenon
  <2>1. \A d \in Dirs : 0 <= taken[d] /\ taken[d] <= put[d]
                        /\ put[d] <= After(frames[d]) /\ Room(d) >= 0
    <3> TAKE d \in Dirs
    <3>1. Streams BY Zenon DEF LinkInv
    <3>2. put[d] - taken[d] <= PipeBytes
      BY <3>1, Ways, Zenon DEF Streams, Stream
    <3>3. taken[d] <= put[d] /\ put[d] <= After(frames[d])
      BY <3>1, Ways, Zenon DEF Streams, Stream
    <3> QED BY <3>1, <3>2, <3>3, Numbers, Sizes DEF Room
  <2>3. (sending # NoJob) = (col = "send")
    BY Zenon DEF LinkInv, Control
  <2> QED BY <2>1, <2>3, Zenon DEF LinkInv, Control, LinkTypeOK
<1> QED BY <1>1, Always, PTL

\* The two Decoders, over any chunking, yield exactly the frames
\* written, in order, across compaction, for all sizes of buffer and frame.
THEOREM LinkInSync == Spec => []InSync
<1>1. LinkInv => InSync
  <2> SUFFICES ASSUME LinkInv PROVE InSync
    BY Zenon
  <2>1. Streams
    BY Zenon DEF LinkInv
  <2>2. \A d \in Dirs : Laid(frames[d]) /\ Laid(got[d]) /\ Extends(got[d], frames[d])
    BY <2>1, Ways, Zenon DEF Streams, Stream
  <2>3. base + pos = After(got["up"]) /\ start = After(got["down"])
    BY <2>1, Zenon DEF Streams, Stream
  <2> QED BY <2>2, <2>3, Prefix, Zenon DEF InSync
<1> QED BY <1>1, Always, PTL

\* A collector or child waiting for bytes has no complete frame in its buffer:
\* next_message and drain loop until they need more.
THEOREM LinkStrandsNothing == Spec => []NothingStranded
<1>1. LinkInv => NothingStranded
  BY Zenon DEF LinkInv
<1> QED BY <1>1, Always, PTL

\* The supervisor never writes a frame the child's decoder raises on, and a job
\* whose arguments are within payload_limit is discarded at dispatch only when
\* its task name is longer than a dispatch frame can count.
THEOREM LinkDispatches == Spec => []EnqueuedIsDispatchable
<1>1. LinkInv => EnqueuedIsDispatchable
  BY Zenon DEF LinkInv, Control, EnqueuedIsDispatchable
<1> QED BY <1>1, Always, PTL

\* encode_failure's trimming is enough: the collector never abandons a session
\* for the size of a failure report.
THEOREM LinkFailureFits == Spec => []FailureFits
<1>1. LinkInv => FailureFits
  BY Zenon DEF LinkInv, Stopped, FailureFits
<1> QED BY <1>1, Always, PTL

-----------------------------------------------------------------------------
\* The reader of direction d still has a frame of these kinds of job j before it.
Coming(d, kinds, j) == Holds(frames[d], Len(got[d]), kinds, j)

\* dispatch writes until the kernel has everything and stops only between
\* writes; the child ends when everything written has been decoded; only leased
\* jobs are dispatched and run.
Flow ==
  /\ dsp = "writing" <=> put["down"] < After(frames["down"])
  /\ child = "ended" => dsp = "gone" /\ Len(got["down"]) = Len(frames["down"])
  /\ inflight \subseteq Jobs
  /\ \A i \in 1 .. Len(frames["down"]) :
        frames["down"][i].kind = "dispatch" => frames["down"][i].job <= leased
  /\ \A j \in Jobs : task[j] # "none" => j <= leased

\* Where a job in the machinery's hands is: its dispatch, its record or its
\* acknowledgement, or its report, is in one of the buffers of the cycle.
Placed(j) ==
  /\ task[j] = "none" /\ j \in inflight => Coming("down", {"dispatch"}, j)
  /\ task[j] = "wait" /\ j \notin unstored /\ dsp # "gone" =>
       \/ Coming("up", {"record"}, j) \/ sending = j
       \/ j \in Range(acks) \/ Coming("down", {"stored"}, j)
  /\ task[j] = "done" /\ j \in inflight =>
       Coming("up", {"success"}, j) \/ Coming("up", {"failure"}, j) \/ j \in pending
Whereabouts == \A j \in Jobs : Placed(j)

\* What both directions are, one at a time.
LEMMA Both ==
  ASSUME Streams, NEW d \in Dirs
  PROVE  /\ Laid(frames[d]) /\ Laid(got[d]) /\ Extends(got[d], frames[d])
         /\ Len(got[d]) \in Nat /\ Len(frames[d]) \in Nat /\ Len(got[d]) <= Len(frames[d])
<1>1. Laid(frames[d]) /\ Laid(got[d]) /\ Extends(got[d], frames[d])
  BY Ways, Zenon DEF Streams, Stream
<1> QED BY <1>1 DEF Laid, Extends

\* A child with every byte written to it in hand has decoded every frame.
LEMMA ChildHasAll ==
  ASSUME LinkInv, child = "reading", put["down"] = After(frames["down"]), put["down"] = taken["down"]
  PROVE  Len(got["down"]) = Len(frames["down"])
<1> DEFINE F == frames["down"]
           n == Len(got["down"])
<1>1. /\ Laid(F) /\ Laid(got["down"]) /\ Extends(got["down"], F) /\ n \in Nat /\ Len(F) \in Nat
      /\ n <= Len(F) /\ start = After(got["down"]) /\ start \in Nat
  BY Both, Ways, Zenon DEF LinkInv, Streams, Stream
<1>2. SUFFICES ASSUME n < Len(F) PROVE FALSE
  BY <1>1
<1>3. n + 1 \in 1 .. Len(F)
  BY <1>1, <1>2
<1>4. F[n + 1].at = start
  BY <1>1, <1>2, Undecoded, Zenon
<1>5. EndOf(F[n + 1]) <= taken["down"]
  BY <1>1, <1>3, AfterLast, Zenon
<1>6. F[n + 1] \in Range(F) /\ F[n + 1].at >= start
  <2>1. DOMAIN F = 1 .. Len(F)
    BY <1>1 DEF Laid
  <2>2. F[n + 1].at >= start
    BY <1>1, <1>4
  <2> QED BY <1>3, <2>1, <2>2, Zenon DEF Range
<1>7. F[n + 1] \in Complete(taken["down"])
  BY <1>5, <1>6, Zenon DEF Complete
<1> QED BY <1>7, Zenon DEF LinkInv, NothingStranded

\* A collector that waits with every byte of the child in hand has decoded
\* every frame.
LEMMA CollectorHasAll ==
  ASSUME LinkInv, col = "read", taken["up"] = After(frames["up"])
  PROVE  Len(got["up"]) = Len(frames["up"])
<1> DEFINE F == frames["up"]
           n == Len(got["up"])
<1>1. /\ Laid(F) /\ Laid(got["up"]) /\ Extends(got["up"], F) /\ n \in Nat /\ Len(F) \in Nat
      /\ n <= Len(F) /\ base + pos = After(got["up"]) /\ base + pos \in Nat
  BY Both, Ways, Zenon DEF LinkInv, Streams, Stream
<1>2. SUFFICES ASSUME n < Len(F) PROVE FALSE
  BY <1>1
<1> DEFINE f == F[n + 1]
<1>3. n + 1 \in 1 .. Len(F)
  BY <1>1, <1>2
<1>4. f.at = base + pos /\ f.body \in Nat
  <2>1. f \in Frame
    BY <1>1, <1>3, Ends, Zenon
  <2> QED BY <1>1, <1>2, <2>1, Undecoded, Zenon DEF Frame
<1>5. EndOf(f) <= taken["up"]
  BY <1>1, <1>3, AfterLast, Zenon
<1>6. taken["up"] - (base + pos) >= HEADER_BYTES + f.body
  <2>1. taken["up"] \in Nat
    BY Numbers, Ways, Zenon DEF LinkInv
  <2> HIDE DEF f
  <2> QED BY <1>1, <1>4, <1>5, <2>1, Sizes DEF EndOf
<1>7. \A g \in Announced : g = f
  <2>1. \A i \in 1 .. Len(F) : F[i].at = base + pos => i = n + 1
    BY <1>1, Undecoded, Zenon
  <2>2. DOMAIN F = 1 .. Len(F)
    BY <1>1 DEF Laid
  <2> QED BY <2>1, <2>2, Zenon DEF Announced, StartsAt, Range
<1>8. ~(Buffered < HEADER_BYTES) /\ ~(Buffered - HEADER_BYTES < f.body)
  <2>1. taken["up"] \in Nat
    BY Numbers, Ways, Zenon DEF LinkInv
  <2> HIDE DEF f
  <2> QED BY <1>1, <1>4, <1>6, <2>1, Sizes DEF Buffered
<1>9. ~NeedsMore
  BY <1>7, <1>8, Zenon DEF NeedsMore
<1> QED BY <1>9, Zenon DEF LinkInv, NothingStranded

\* A read returns something as soon as the kernel holds something.
LEMMA ChunkOfSome ==
  ASSUME Streams, NEW d \in Dirs, ~(Chunk(d) > 0)
  PROVE  put[d] = taken[d]
<1>1. ReadBytes \in Nat \ {0} /\ put[d] \in Nat /\ taken[d] \in Nat /\ taken[d] <= put[d]
  BY Numbers, Sizes, Zenon
<1>2. Chunk(d) \in {ReadBytes, put[d] - taken[d]}
  <2>1. ReadBytes \in Int /\ put[d] - taken[d] \in Int
    BY <1>1
  <2> QED BY <2>1, MinOfTwo, Zenon DEF Chunk
<1> QED BY <1>1, <1>2

\* An empty socket takes what is left to write.
LEMMA EmptyAccepts ==
  ASSUME Streams, ~over, NEW d \in Dirs, put[d] = taken[d], ~Accepts(d)
  PROVE  put[d] = After(frames[d])
<1>1. ~(Room(d) > 0 /\ put[d] < After(frames[d]))
  BY Zenon DEF Accepts
<1> QED BY <1>1, Numbers, Sizes DEF Room

\* The argument of session's comment.  When nothing moves, the collector waits
\* for bytes or for the acknowledgement channel.  If the channel is full the
\* dispatcher is writing into a full socket, which the child reads, because
\* its loop never waits for its own writes; otherwise every buffer is empty
\* and the job is in none of them.
LEMMA NoJam ==
  ASSUME LinkInv, Flow, Whereabouts
  PROVE  NeverJams
<1> SUFFICES ASSUME NEW j \in inflight, ~(task[j] \in {"run", "fail"}), col # "gone", ~over,
                    ~(task[j] = "wait" /\ (j \in unstored \/ dsp = "gone")), ~Moving
             PROVE  FALSE
  BY Zenon DEF NeverJams
<1>1. Streams /\ Control /\ NothingStranded /\ j \in Jobs
  BY Zenon DEF LinkInv, Flow
<1>2. /\ ~Accepts("up") /\ ~(Accepts("down") /\ dsp = "writing")
      /\ ~(acks # <<>> /\ dsp \in {"top", "full", "idle"})
      /\ col = "read" => ~(Chunk("up") > 0) /\ pending = {}
      /\ ~(col = "send" /\ (dsp = "gone" \/ Len(acks) < ACK_CAPACITY))
      /\ child = "reading" => ~(Chunk("down") > 0)
  BY Zenon DEF Moving
<1>3. col # "decode"
  <2>1. SUFFICES ASSUME col = "decode" PROVE FALSE
    BY Zenon
  <2>2. PICK f \in Announced : Readable(f) /\ f.kind \notin {"register", "record", "success", "failure"}
    BY <2>1, Zenon DEF Moving
  <2>3. DOMAIN frames["up"] = 1 .. Len(frames["up"])
    BY <1>1, Numbers, Ways DEF Laid
  <2>4. PICK i \in 1 .. Len(frames["up"]) : f = frames["up"][i]
    BY <2>3, Zenon DEF Announced, StartsAt, Range
  <2> QED BY <1>1, <2>2, <2>4, Zenon DEF Streams, Reports
<1>4. child = "reading" \/ (child = "ended" /\ dsp = "gone")
  BY <1>1, Zenon DEF Control, Flow
<1>5. child = "reading" => put["down"] = taken["down"]
  BY <1>1, <1>2, ChunkOfSome, Ways, Zenon
<1>6. dsp # "writing"
  <2>1. SUFFICES ASSUME dsp = "writing" PROVE FALSE
    BY Zenon
  <2>2. put["down"] = taken["down"] /\ ~Accepts("down")
    BY <1>2, <1>4, <1>5, <2>1, Zenon
  <2>3. put["down"] = After(frames["down"])
    BY <1>1, <2>2, EmptyAccepts, Ways, Zenon
  <2> QED BY <1>1, <2>1, <2>3, Numbers, Ways DEF Flow
<1>7. acks = <<>> \/ dsp = "gone"
  BY <1>1, <1>2, <1>6, Zenon DEF Control
<1>8. col = "read"
  <2>1. SUFFICES ASSUME col = "send" PROVE FALSE
    BY <1>1, <1>3, Zenon DEF Control
  <2>2. acks = <<>> /\ ~(Len(acks) < ACK_CAPACITY)
    BY <1>2, <1>7, <2>1, Zenon
  <2>3. ACK_CAPACITY \in Nat \ {0}
    BY LinkConstants, Zenon
  <2> QED BY <2>2, <2>3
<1>9. Len(got["up"]) = Len(frames["up"]) /\ pending = {} /\ sending = NoJob
  <2>1. put["up"] = taken["up"]
    BY <1>1, <1>2, <1>8, ChunkOfSome, Ways, Zenon
  <2>2. put["up"] = After(frames["up"])
    BY <1>1, <1>2, <2>1, EmptyAccepts, Ways, Zenon
  <2>3. taken["up"] = After(frames["up"])
    BY <2>1, <2>2, Zenon
  <2> QED BY <1>1, <1>2, <1>8, <2>3, CollectorHasAll, Zenon DEF Control
<1>10. Len(got["down"]) = Len(frames["down"])
  <2>1. CASE child = "reading"
    <3>1. put["down"] = After(frames["down"])
      BY <1>1, <1>6, Numbers, Ways DEF Flow
    <3> QED BY <1>5, <2>1, <3>1, ChildHasAll, Zenon
  <2> QED BY <1>4, <2>1, Zenon DEF Flow
<1>11. \A d \in Dirs : \A kinds : ~Coming(d, kinds, j)
  <2>1. \A d \in Dirs : Len(got[d]) + 1 .. Len(frames[d]) = {}
    BY <1>1, <1>9, <1>10, Both, Ways
  <2> QED BY <2>1, Zenon DEF Coming, Holds
<1>12. task[j] = "none" \/ task[j] = "wait" \/ task[j] = "done"
  BY <1>1, Zenon DEF Control
<1>13. CASE task[j] = "none"
  BY <1>1, <1>11, <1>13, Ways, Zenon DEF Whereabouts, Placed
<1>14. CASE task[j] = "done"
  <2>1. j \notin pending
    BY <1>9
  <2> QED BY <1>1, <1>11, <1>14, <2>1, Ways, Zenon DEF Whereabouts, Placed
<1>15. CASE task[j] = "wait"
  <2>1. acks = <<>> /\ sending # j
    BY <1>1, <1>7, <1>9, <1>15 DEF Jobs, NoJob
  <2>2. j \notin Range(acks)
    BY <2>1 DEF Range
  <2> QED BY <1>1, <1>11, <1>15, <2>1, <2>2, Ways, Zenon DEF Whereabouts, Placed
<1> QED BY <1>12, <1>13, <1>14, <1>15, Zenon

-----------------------------------------------------------------------------
\* What dispatch and the child write: where it lands, and that nothing else
\* changes in the streams.
LEMMA AckWritten ==
  ASSUME LinkInv, ForwardAck
  PROVE  /\ Laid(frames'["down"]) /\ Extends(frames["down"], frames'["down"])
         /\ frames'["up"] = frames["up"] /\ Head(acks) \in Jobs
         /\ Holds(frames'["down"], Len(got["down"]), {"stored"}, Head(acks))
         /\ After(frames["down"]) < After(frames'["down"])
         /\ \A i \in 1 .. Len(frames'["down"]) :
               \/ i \in 1 .. Len(frames["down"]) /\ frames'["down"][i] = frames["down"][i]
               \/ frames'["down"][i].kind = "stored"
<1> DEFINE F == frames["down"]
           f == encode_stored(Head(acks))
           n == Len(got["down"])
<1>1. /\ acks \in Seq(Jobs) /\ acks # <<>>
      /\ frames' = [frames EXCEPT !["down"] = Place(F, f)] /\ DOMAIN frames = Dirs
  BY Zenon DEF ForwardAck, LinkInv, Control, Write, Streams
<1>2. Head(acks) \in Jobs
  BY <1>1
<1>3. f \in Message /\ f.kind = "stored" /\ f.job = Head(acks)
  <2>1. f.kind = "stored" /\ f.job = Head(acks)
    BY DEF encode_stored, Body
  <2> QED BY <1>2, <2>1, Encoded, Zenon
<1>4. frames'["down"] = Place(F, f) /\ frames'["up"] = frames["up"]
  BY <1>1, Ways, Zenon
<1>5. Laid(F) /\ n \in Nat /\ n <= Len(F) /\ Len(F) \in Nat /\ Len(F) <= Len(F)
  BY Both, Ways DEF LinkInv
<1> HIDE DEF f, F, n
<1>6. Laid(Place(F, f)) /\ Extends(F, Place(F, f))
  BY <1>3, <1>5, Placing, Zenon
<1>7. Holds(Place(F, f), n, {f.kind}, f.job) /\ Holds(Place(F, f), Len(F), {f.kind}, f.job)
  BY <1>3, <1>5, JustWritten, Zenon
<1>8. After(F) < After(Place(F, f))
  BY <1>5, <1>6, <1>7, HoldsMore, Zenon
<1>9. \A i \in 1 .. Len(Place(F, f)) :
         (i \in 1 .. Len(F) /\ Place(F, f)[i] = F[i]) \/ Place(F, f)[i].kind = "stored"
  BY <1>3, <1>5, JustWritten, Zenon
<1> QED BY <1>2, <1>3, <1>4, <1>6, <1>7, <1>8, <1>9, Zenon DEF F, n

\* The dispatches of one fetch.
LEMMA BatchSent ==
  ASSUME LinkInv, NEW n \in 0 .. MaxJobs, Fetch(n), dsp' = "writing"
  PROVE  /\ Laid(frames'["down"]) /\ Extends(frames["down"], frames'["down"])
         /\ frames'["up"] = frames["up"] /\ After(frames["down"]) < After(frames'["down"])
         /\ \A i \in 1 .. Len(frames'["down"]) :
               \/ i \in 1 .. Len(frames["down"]) /\ frames'["down"][i] = frames["down"][i]
               \/ frames'["down"][i].job \in leased + 1 .. leased + n
         /\ \A j \in inflight' \ inflight : Holds(frames'["down"], Len(got["down"]), {"dispatch"}, j)
<1> DEFINE F == frames["down"]
           H == AddJobs(F, leased, n)
           batch == leased + 1 .. leased + n
           sent == {j \in batch : Encodes(encode_dispatch(j))}
           m == Len(got["down"])
<1>1. /\ batch \subseteq Jobs /\ leased \in Nat /\ sent # {}
      /\ frames' = [frames EXCEPT !["down"] = H] /\ inflight' = inflight \cup sent
      /\ DOMAIN frames = Dirs
  BY Zenon DEF Fetch, LinkInv, Control, Streams
<1>2. n \in Nat
  OBVIOUS
<1>3. Laid(F) /\ Fits(F) /\ m \in Nat /\ m <= Len(F) /\ Len(F) \in Nat
  BY Both, Ways, Zenon DEF LinkInv, Streams
<1>4. Built(F, leased, n, H)
  <2> HIDE DEF F
  <2> QED BY <1>1, <1>2, <1>3, BatchWritten, Zenon
<1>5. frames'["down"] = H /\ frames'["up"] = frames["up"]
  BY <1>1, Ways, Zenon
<1> HIDE DEF F, H, m
<1>6. ASSUME NEW j \in sent PROVE Holds(H, Len(F), {"dispatch"}, j) /\ Holds(H, m, {"dispatch"}, j)
  <2>1. Holds(H, Len(F), {"dispatch"}, j)
    BY <1>4, <1>6, Zenon DEF Built
  <2>2. PICK i \in Len(F) + 1 .. Len(H) : H[i].kind \in {"dispatch"} /\ H[i].job = j
    BY <2>1, Zenon DEF Holds
  <2>3. i \in m + 1 .. Len(H)
    BY <1>3, <2>2
  <2> QED BY <2>1, <2>2, <2>3, Zenon DEF Holds
<1>7. After(F) < After(H)
  <2>1. PICK j : j \in sent
    BY <1>1, Zenon
  <2> QED BY <1>3, <1>4, <1>6, <2>1, HoldsMore, Zenon DEF Built
<1>8. \A j \in inflight' \ inflight : Holds(H, m, {"dispatch"}, j)
  BY <1>1, <1>6, Zenon
<1> QED BY <1>1, <1>4, <1>5, <1>7, <1>8, Zenon DEF Built, F, m

\* A record or a report of the child.
LEMMA ReportWritten ==
  ASSUME LinkInv, NEW j \in Jobs, Step(j) \/ Finish(j)
  PROVE  /\ Laid(frames'["up"]) /\ Extends(frames["up"], frames'["up"])
         /\ frames'["down"] = frames["down"]
         /\ \/ /\ task' = [task EXCEPT ![j] = "wait"]
               /\ Holds(frames'["up"], Len(got["up"]), {"record"}, j)
            \/ /\ task' = [task EXCEPT ![j] = "done"]
               /\ \/ Holds(frames'["up"], Len(got["up"]), {"success"}, j)
                  \/ Holds(frames'["up"], Len(got["up"]), {"failure"}, j)
<1> DEFINE F == frames["up"]
           n == Len(got["up"])
<1>1. Laid(F) /\ n \in Nat /\ n <= Len(F) /\ DOMAIN frames = Dirs
  BY Both, Ways, Zenon DEF LinkInv, Streams
<1>2. ASSUME NEW f \in Message, f.job = j, frames' = [frames EXCEPT !["up"] = Place(F, f)]
      PROVE  /\ Laid(frames'["up"]) /\ Extends(frames["up"], frames'["up"])
             /\ frames'["down"] = frames["down"]
             /\ Holds(frames'["up"], Len(got["up"]), {f.kind}, j)
  <2>1. frames'["up"] = Place(F, f) /\ frames'["down"] = frames["down"]
    BY <1>1, <1>2, Ways, Zenon
  <2> HIDE DEF F, n
  <2>2. Laid(Place(F, f)) /\ Extends(F, Place(F, f)) /\ Holds(Place(F, f), n, {f.kind}, f.job)
    BY <1>1, <1>2, Placing, JustWritten, Zenon
  <2> QED BY <1>2, <2>1, <2>2, Zenon DEF F, n
<1>3. CASE Step(j)
  <2>1. PICK r \in Results : frames' = [frames EXCEPT !["up"] = Place(F, encode_record(j, r))]
    BY <1>3, Zenon DEF Step, Write
  <2>2. /\ encode_record(j, r) \in Message /\ encode_record(j, r).job = j
        /\ encode_record(j, r).kind = "record"
    BY Reported, Zenon
  <2>3. task' = [task EXCEPT ![j] = "wait"]
    BY <1>3, Zenon DEF Step
  <2>4. /\ Laid(frames'["up"]) /\ Extends(frames["up"], frames'["up"])
        /\ frames'["down"] = frames["down"]
        /\ Holds(frames'["up"], Len(got["up"]), {encode_record(j, r).kind}, j)
    BY <1>2, <2>1, <2>2, Zenon
  <2> QED BY <2>2, <2>3, <2>4, Zenon
<1>4. CASE Succeed(j)
  <2>1. PICK r \in Results : Report(j, encode_success(j, r))
    BY <1>4, Zenon DEF Succeed
  <2>2. /\ encode_success(j, r) \in Message /\ encode_success(j, r).job = j
        /\ encode_success(j, r).kind = "success"
    BY Reported, Zenon
  <2>3. /\ task' = [task EXCEPT ![j] = "done"]
        /\ frames' = [frames EXCEPT !["up"] = Place(F, encode_success(j, r))]
    BY <2>1, Zenon DEF Report, Write
  <2>4. /\ Laid(frames'["up"]) /\ Extends(frames["up"], frames'["up"])
        /\ frames'["down"] = frames["down"]
        /\ Holds(frames'["up"], Len(got["up"]), {encode_success(j, r).kind}, j)
    BY <1>2, <2>2, <2>3, Zenon
  <2> QED BY <2>2, <2>3, <2>4, Zenon
<1>5. CASE Fail(j)
  <2>1. PICK e \in Errors : Report(j, encode_failure(j, e))
    BY <1>5, Zenon DEF Fail
  <2>2. /\ encode_failure(j, e) \in Message /\ encode_failure(j, e).job = j
        /\ encode_failure(j, e).kind = "failure"
    BY Reported, Zenon
  <2>3. /\ task' = [task EXCEPT ![j] = "done"]
        /\ frames' = [frames EXCEPT !["up"] = Place(F, encode_failure(j, e))]
    BY <2>1, Zenon DEF Report, Write
  <2>4. /\ Laid(frames'["up"]) /\ Extends(frames["up"], frames'["up"])
        /\ frames'["down"] = frames["down"]
        /\ Holds(frames'["up"], Len(got["up"]), {encode_failure(j, e).kind}, j)
    BY <1>2, <2>2, <2>3, Zenon
  <2> QED BY <2>2, <2>3, <2>4, Zenon
<1> QED BY <1>3, <1>4, <1>5, Zenon DEF Finish

\* Most steps leave what goes down to the child, and who runs, as it is.
LEMMA FlowStill ==
  ASSUME Flow, frames'["down"] = frames["down"], put'["down"] = put["down"],
         got'["down"] = got["down"], UNCHANGED <<child, leased>>,
         dsp' = "writing" <=> dsp = "writing", dsp = "gone" => dsp' = "gone",
         inflight' \subseteq inflight, \A j \in Jobs : task'[j] # "none" => task[j] # "none"
  PROVE  Flow'
BY Zenon DEF Flow

\* Flow is kept by the steps of the machinery that write nothing to the child.
LEMMA FlowWaits ==
  ASSUME LinkInv, Flow,
         \/ PipeUp \/ WaitForSlot \/ SlotFreed \/ Poll \/ Shutdown \/ StopDispatch
         \/ Drained \/ DrainTimeout \/ Collecting \/ UNCHANGED vars
  PROVE  Flow'
<1>0. DOMAIN put = Dirs /\ DOMAIN got = Dirs
  BY Zenon DEF LinkInv, Streams
<1>1. /\ UNCHANGED <<frames, child, leased, task>>
      /\ dsp' = "writing" <=> dsp = "writing"
      /\ dsp = "gone" => dsp' = "gone"
  <2>1. CASE PipeUp \/ UNCHANGED vars
    BY <2>1, Zenon DEF PipeUp, vars, wire, supervisor, python
  <2>2. CASE WaitForSlot \/ SlotFreed \/ Poll
    BY <2>2, Zenon DEF WaitForSlot, SlotFreed, Poll, wire, python
  <2>3. CASE Shutdown \/ StopDispatch \/ Drained \/ DrainTimeout
    BY <2>3, Zenon DEF Shutdown, StopDispatch, Drained, DrainTimeout, Kill, wire, python
  <2>4. CASE Collecting
    BY <2>4, Zenon DEF Collecting, Collect, Linger, NextChunk, Unreadable, NextMessage, SendAck,
       CollectEOF, wire, python
  <2> QED BY <2>1, <2>2, <2>3, <2>4, Zenon
<1>2. put'["down"] = put["down"]
  <2>1. CASE PipeUp
    BY <1>0, <2>1, Ways, Zenon DEF PipeUp, Accept
  <2>2. CASE ~PipeUp
    BY <2>2, Zenon DEF vars, WaitForSlot, SlotFreed, Poll, Shutdown, StopDispatch, Drained,
       DrainTimeout, Kill, Collecting, Collect, Linger, NextChunk, Unreadable, NextMessage, SendAck,
       CollectEOF, wire
  <2> QED BY <2>1, <2>2, Zenon
<1>3. got'["down"] = got["down"]
  <2>1. CASE NextMessage
    BY <1>0, <2>1, Ways, Zenon DEF NextMessage
  <2>2. CASE ~NextMessage
    BY <2>2, Zenon DEF PipeUp, vars, WaitForSlot, SlotFreed, Poll, Shutdown, StopDispatch, Drained,
       DrainTimeout, Kill, Collecting, Collect, Linger, NextChunk, Unreadable, SendAck, CollectEOF
  <2> QED BY <2>1, <2>2, Zenon
<1>4. inflight' \subseteq inflight
  <2>1. CASE Collecting
    BY <2>1, Zenon DEF Collecting, Collect, Linger, NextChunk, Unreadable, NextMessage, SendAck,
       CollectEOF, Flush, Hold
  <2>2. CASE ~Collecting
    BY <2>2, Zenon DEF PipeUp, vars, WaitForSlot, SlotFreed, Poll, Shutdown, StopDispatch, Drained,
       DrainTimeout, Kill, supervisor
  <2> QED BY <2>1, <2>2, Zenon
<1> QED BY <1>1, <1>2, <1>3, <1>4, FlowStill, Zenon

\* And by the child's tasks.
LEMMA FlowTasks ==
  ASSUME LinkInv, Flow, NEW j \in Jobs, Step(j) \/ StepTimeout(j) \/ Finish(j)
  PROVE  Flow'
<1>1. UNCHANGED <<put, got, child, leased, dsp, inflight>>
  BY Zenon DEF Step, StepTimeout, Finish, Succeed, Fail, Report, supervisor, wire
<1>2. frames'["down"] = frames["down"]
  <2>1. CASE StepTimeout(j)
    BY <2>1, Zenon DEF StepTimeout, wire
  <2> QED BY <2>1, ReportWritten, Zenon
<1>3. \A i \in Jobs : task'[i] # "none" => task[i] # "none"
  <2>1. task[j] # "none" /\ \E s : task' = [task EXCEPT ![j] = s]
    BY Zenon DEF Step, StepTimeout, Finish, Succeed, Fail, Report
  <2> QED BY <2>1, Zenon DEF LinkInv, Control
<1> QED BY <1>1, <1>2, <1>3, FlowStill, Zenon

\* write_all returns when the kernel has everything.
LEMMA FlowWrites ==
  ASSUME LinkInv, LinkInv', Flow, WriteAll
  PROVE  Flow'
<1>1. /\ UNCHANGED <<frames, got, child, leased, inflight, task>> /\ dsp = "writing"
      /\ dsp' = IF put'["down"] = After(frames["down"]) THEN "top" ELSE "writing"
  BY Zenon DEF WriteAll, python
<1>2. Stream(frames["down"], got'["down"], start', taken'["down"], put'["down"])
  BY <1>1, Zenon DEF LinkInv, Streams
<1>3. put'["down"] \in Nat /\ put'["down"] <= After(frames["down"]) /\ After(frames["down"]) \in Nat
  BY <1>2, AfterLast, Zenon DEF Stream
<1>4. dsp' = "writing" <=> put'["down"] < After(frames["down"])
  BY <1>1, <1>3
<1>5. child # "ended"
  BY <1>1, Zenon DEF Flow
<1> QED BY <1>1, <1>4, <1>5, Zenon DEF Flow

\* A forwarded acknowledgement.
LEMMA FlowAcks ==
  ASSUME LinkInv, Flow, ForwardAck
  PROVE  Flow'
<1>1. /\ UNCHANGED <<put, got, child, leased, inflight, task>> /\ dsp' = "writing"
      /\ dsp \in {"top", "full", "idle"}
  BY Zenon DEF ForwardAck, python
<1>2. put["down"] < After(frames'["down"])
  <2>1. After(frames["down"]) < After(frames'["down"]) /\ After(frames'["down"]) \in Nat
    BY AckWritten, AfterLast, Zenon
  <2> QED BY <2>1, Numbers, Ways DEF LinkInv
<1>3. child # "ended"
  BY <1>1, Zenon DEF Flow
<1>4. \A i \in 1 .. Len(frames'["down"]) :
         frames'["down"][i].kind = "dispatch" => frames'["down"][i].job <= leased
  BY AckWritten, Zenon DEF Flow
<1> QED BY <1>1, <1>2, <1>3, <1>4, Zenon DEF Flow

\* A fetch.
LEMMA FlowFetches ==
  ASSUME LinkInv, LinkInv', Flow, NEW n \in 0 .. MaxJobs, Fetch(n)
  PROVE  Flow'
<1>1. /\ UNCHANGED <<put, got, child, task>> /\ dsp = "top" /\ leased' = leased + n /\ leased \in Nat
      /\ leased + 1 .. leased + n \subseteq Jobs
      /\ inflight' \subseteq inflight \cup (leased + 1 .. leased + n)
  BY Zenon DEF Fetch, python, LinkInv, Control
<1>2. child # "ended" /\ inflight' \subseteq Jobs
  BY <1>1, Zenon DEF Flow
<1>3. n \in Nat /\ Jobs \subseteq Nat
  BY DEF Jobs
<1>4. \A j \in Jobs : task[j] # "none" => j <= leased'
  BY <1>1, <1>3 DEF Flow
<1>5. CASE dsp' # "writing"
  <2>1. frames' = frames
    BY <1>5, Zenon DEF Fetch
  <2>2. ~(put["down"] < After(frames["down"]))
    BY <1>1, Zenon DEF Flow
  <2>3. \A i \in 1 .. Len(frames["down"]) :
           frames["down"][i].kind = "dispatch" => frames["down"][i].job <= leased'
    <3>1. \A i \in 1 .. Len(frames["down"]) : frames["down"][i].job \in Nat
      <4>1. \A i \in 1 .. Len(frames["down"]) : frames["down"][i] \in Frame
        BY Both, Ends, Ways, Zenon DEF LinkInv
      <4> QED BY <4>1, Zenon DEF Frame
    <3> QED BY <1>1, <1>3, <3>1 DEF Flow
  <2> QED BY <1>1, <1>2, <1>4, <1>5, <2>1, <2>2, <2>3, Zenon DEF Flow
<1>6. CASE dsp' = "writing"
  <2>1. put["down"] < After(frames'["down"])
    <3>1. After(frames["down"]) < After(frames'["down"]) /\ After(frames'["down"]) \in Nat
      BY <1>6, BatchSent, AfterLast, Zenon
    <3> QED BY <3>1, Numbers, Ways DEF LinkInv
  <2>2. ASSUME NEW i \in 1 .. Len(frames'["down"]), frames'["down"][i].kind = "dispatch"
        PROVE  frames'["down"][i].job <= leased'
    <3>1. frames'["down"][i].job \in Nat
      <4>1. Laid(frames'["down"])
        BY <1>6, BatchSent, Zenon
      <4>2. frames'["down"][i] \in Frame
        BY <4>1, Ends, Zenon
      <4> QED BY <4>2, Zenon DEF Frame
    <3>2. CASE i \in 1 .. Len(frames["down"]) /\ frames'["down"][i] = frames["down"][i]
      <4>1. frames'["down"][i].job <= leased
        BY <2>2, <3>2, Zenon DEF Flow
      <4> QED BY <1>1, <1>3, <3>1, <4>1
    <3>3. CASE frames'["down"][i].job \in leased + 1 .. leased + n
      BY <1>1, <1>3, <3>3
    <3> QED BY <1>6, <3>2, <3>3, BatchSent, Zenon
  <2> QED BY <1>1, <1>2, <1>4, <1>6, <2>1, <2>2, Zenon DEF Flow
<1> QED BY <1>5, <1>6, Zenon

\* The child reads, or meets the end of its stream.
LEMMA FlowServes ==
  ASSUME LinkInv, LinkInv', Flow, Serve \/ ServeEOF
  PROVE  Flow'
<1>1. UNCHANGED <<frames, put, leased, dsp, inflight>>
  BY Zenon DEF Serve, ServeEOF, supervisor, wire
<1>2. CASE Serve
  <2>1. child = "reading" /\ child' = "reading"
    BY <1>2, Zenon DEF Serve, LinkInv, Control
  <2>2. ASSUME NEW j \in Jobs, task'[j] # "none" PROVE j <= leased
    <3> DEFINE out == Complete(taken["down"] + Chunk("down"))
    <3>1. task' = [i \in Jobs |->
                    IF \/ i \in {f.job : f \in {g \in out : g.kind = "dispatch"}}
                       \/ i \in {f.job : f \in {g \in out : g.kind = "stored"}} /\ task[i] = "wait"
                    THEN "run" ELSE task[i]]
      BY <1>2, <2>1, Zenon DEF Serve
    <3>2. \/ j \in {f.job : f \in {g \in out : g.kind = "dispatch"}}
          \/ task[j] # "none"
      BY <2>2, <3>1, Zenon
    <3>3. ASSUME NEW f \in out, f.kind = "dispatch", j = f.job PROVE j <= leased
      <4>1. DOMAIN frames["down"] = 1 .. Len(frames["down"])
        BY Numbers, Ways DEF LinkInv, Laid
      <4>2. PICK i \in 1 .. Len(frames["down"]) : f = frames["down"][i]
        BY <4>1, Zenon DEF Complete, Range
      <4> QED BY <3>3, <4>2, Zenon DEF Flow
    <3> QED BY <3>2, <3>3, Zenon DEF Flow
  <2> QED BY <1>1, <2>1, <2>2, Zenon DEF Flow
<1>3. CASE ServeEOF
  <2>1. /\ child = "reading" /\ dsp = "gone" /\ put["down"] = taken["down"] /\ UNCHANGED got
        /\ task' = [j \in Jobs |-> IF task[j] = "wait" THEN "fail" ELSE task[j]]
    BY <1>3, Zenon DEF ServeEOF
  <2>2. put["down"] = After(frames["down"])
    BY <2>1, Numbers, Ways DEF LinkInv, Flow
  <2>3. Len(got["down"]) = Len(frames["down"])
    BY <2>1, <2>2, ChildHasAll, Zenon
  <2>4. \A j \in Jobs : task'[j] # "none" => task[j] # "none"
    BY <2>1
  <2> QED BY <1>1, <2>1, <2>3, <2>4, Zenon DEF Flow
<1> QED BY <1>2, <1>3, Zenon

\* A job stays where it is when nothing is decoded, and what is taken from the
\* channel or given up is accounted for.
LEMMA Stays ==
  ASSUME LinkInv, Whereabouts, got' = got,
         \A d \in Dirs : Laid(frames'[d]) /\ Extends(frames[d], frames'[d]),
         unstored \subseteq unstored', dsp = "gone" => dsp' = "gone",
         NEW j \in Jobs,
         \/ task'[j] = task[j] \/ task'[j] \in {"run", "fail"}
         \/ task'[j] = "wait" /\ Coming("up", {"record"}, j)'
         \/ task'[j] = "done" /\ (Coming("up", {"success"}, j)' \/ Coming("up", {"failure"}, j)'),
         sending = j \/ j \in Range(acks) =>
           sending' = j \/ j \in Range(acks') \/ Coming("down", {"stored"}, j)' \/ dsp' = "gone",
         j \in inflight' => \/ j \in inflight
                            \/ task[j] # "done" /\ Coming("down", {"dispatch"}, j)',
         j \in inflight' /\ j \in pending => j \in pending'
  PROVE  Placed(j)'
<1>1. ASSUME NEW d \in Dirs, NEW kinds, Coming(d, kinds, j) PROVE Coming(d, kinds, j)'
  <2>1. Laid(frames[d]) /\ Len(got[d]) \in Nat
    BY Both, Zenon DEF LinkInv
  <2>2. Holds(frames'[d], Len(got[d]), kinds, j)
    BY <1>1, <2>1, StillHolds, Zenon DEF Coming
  <2> QED BY <2>2, Zenon DEF Coming
<1>2. ASSUME task'[j] = "none", j \in inflight' PROVE Coming("down", {"dispatch"}, j)'
  <2>1. task[j] = "none"
    BY <1>2, Zenon
  <2> QED BY <1>1, <1>2, <2>1, Ways, Zenon DEF Whereabouts, Placed
<1>3. ASSUME task'[j] = "wait", j \notin unstored', dsp' # "gone"
      PROVE  \/ Coming("up", {"record"}, j)' \/ sending' = j
             \/ j \in Range(acks') \/ Coming("down", {"stored"}, j)'
  <2>1. task[j] = "wait" \/ Coming("up", {"record"}, j)'
    BY <1>3, Zenon
  <2>2. j \notin unstored /\ dsp # "gone"
    BY <1>3, Zenon
  <2> QED BY <1>1, <1>3, <2>1, <2>2, Ways, Zenon DEF Whereabouts, Placed
<1>4. ASSUME task'[j] = "done", j \in inflight'
      PROVE  \/ Coming("up", {"success"}, j)' \/ Coming("up", {"failure"}, j)'
             \/ j \in pending'
  <2>1. \/ task[j] = "done" \/ Coming("up", {"success"}, j)' \/ Coming("up", {"failure"}, j)'
    BY <1>4, Zenon
  <2> QED BY <1>1, <1>4, <2>1, Ways, Zenon DEF Whereabouts, Placed
<1> QED BY <1>2, <1>3, <1>4, Zenon DEF Placed

\* Streams that are not written to stay as they are.
LEMMA Unwritten ==
  ASSUME LinkInv, UNCHANGED frames
  PROVE  \A d \in Dirs : Laid(frames'[d]) /\ Extends(frames[d], frames'[d])
BY Both DEF LinkInv, Extends

\* The steps that move no frame: what the collector flushes leaves both sets.
LEMMA WhereWaits ==
  ASSUME LinkInv, Flow, Whereabouts,
         \/ PipeUp \/ WriteAll \/ WaitForSlot \/ SlotFreed \/ Poll \/ Shutdown \/ StopDispatch
         \/ Drained \/ DrainTimeout \/ Collect \/ Linger \/ NextChunk \/ Unreadable \/ CollectEOF
         \/ UNCHANGED vars
  PROVE  Whereabouts'
<1> DEFINE Still == UNCHANGED <<frames, got, task, unstored, sending>>
           Flushed == inflight' \subseteq inflight /\ \A j \in inflight' \cap pending : j \in pending'
           Channel == (UNCHANGED acks /\ (dsp = "gone" => dsp' = "gone")) \/ dsp' = "gone"
<1>1. Still /\ Flushed /\ Channel
  <2>1. CASE PipeUp \/ UNCHANGED vars
    BY <2>1, Zenon DEF PipeUp, vars, wire, supervisor, python
  <2>2. CASE WriteAll \/ WaitForSlot \/ SlotFreed \/ Poll
    BY <2>2, Zenon DEF WriteAll, WaitForSlot, SlotFreed, Poll, wire, python
  <2>3. CASE Shutdown \/ StopDispatch \/ Drained \/ DrainTimeout
    BY <2>3, Zenon DEF Shutdown, StopDispatch, Drained, DrainTimeout, Kill, wire, python
  <2>4. CASE Collect \/ Linger \/ NextChunk \/ Unreadable \/ CollectEOF
    BY <2>4, Zenon DEF Collect, Linger, NextChunk, Unreadable, CollectEOF, Flush, Hold, wire, python
  <2> QED BY <2>1, <2>2, <2>3, <2>4, Zenon
<1>2. \A d \in Dirs : Laid(frames'[d]) /\ Extends(frames[d], frames'[d])
  BY <1>1, Unwritten, Zenon
<1>3. ASSUME NEW j \in Jobs
      PROVE  Placed(j)'
  <2>1. got' = got /\ unstored \subseteq unstored' /\ task'[j] = task[j]
    BY <1>1, Zenon
  <2>2. dsp = "gone" => dsp' = "gone"
    BY <1>1, Zenon
  <2>3. sending = j \/ j \in Range(acks) => sending' = j \/ j \in Range(acks') \/ dsp' = "gone"
    BY <1>1, Zenon
  <2>4. j \in inflight' => j \in inflight
    BY <1>1, Zenon
  <2>5. j \in inflight' /\ j \in pending => j \in pending'
    BY <1>1, Zenon
  <2> QED BY <1>2, <2>1, <2>2, <2>3, <2>4, <2>5, Stays, Zenon
<1> QED BY <1>3, Zenon DEF Whereabouts

\* The channel of acknowledgements: what is in the collector's hand goes in, and
\* its head becomes a frame.
LEMMA InChannel ==
  ASSUME NEW s \in Seq(Jobs), NEW j
  PROVE  /\ \A x \in Jobs : j \in Range(s) \/ j = x => j \in Range(Append(s, x))
         /\ s # <<>> => (j \in Range(s) => j = Head(s) \/ j \in Range(Tail(s)))
<1>1. ASSUME NEW x \in Jobs, j \in Range(s) \/ j = x PROVE j \in Range(Append(s, x))
  <2>1. /\ DOMAIN Append(s, x) = 1 .. Len(s) + 1 /\ Append(s, x)[Len(s) + 1] = x /\ Len(s) \in Nat
        /\ \A i \in 1 .. Len(s) : i \in 1 .. Len(s) + 1 /\ Append(s, x)[i] = s[i]
        /\ DOMAIN s = 1 .. Len(s)
    OBVIOUS
  <2>2. Len(s) + 1 \in 1 .. Len(s) + 1
    BY <2>1
  <2> QED BY <1>1, <2>1, <2>2, Zenon DEF Range
<1>2. ASSUME s # <<>>, j \in Range(s), j # Head(s) PROVE j \in Range(Tail(s))
  <2>1. DOMAIN s = 1 .. Len(s) /\ Len(s) \in Nat
    OBVIOUS
  <2>2. PICK i \in 1 .. Len(s) : j = s[i]
    BY <1>2, <2>1, Zenon DEF Range
  <2>3. i # 1
    BY <1>2, <2>2
  <2>4. i - 1 \in DOMAIN Tail(s) /\ Tail(s)[i - 1] = s[i]
    BY <1>2, <2>2, <2>3
  <2> QED BY <2>2, <2>4, Zenon DEF Range
<1> QED BY <1>1, <1>2, Zenon

\* The collector sends an acknowledgement, and dispatch forwards one.
LEMMA WhereAcks ==
  ASSUME LinkInv, Flow, Whereabouts, SendAck \/ ForwardAck
  PROVE  Whereabouts'
<1>1. acks \in Seq(Jobs) /\ UNCHANGED <<got, task, unstored, inflight, pending>>
      /\ (dsp = "gone" => dsp' = "gone")
  BY Zenon DEF LinkInv, Control, SendAck, ForwardAck, wire, python
<1>2. \A d \in Dirs : Laid(frames'[d]) /\ Extends(frames[d], frames'[d])
  <2>1. CASE SendAck
    BY <2>1, Unwritten, Zenon DEF SendAck, wire
  <2>2. CASE ForwardAck
    <3>1. Laid(frames["up"]) /\ Extends(frames["up"], frames["up"])
      BY Both, Ways DEF LinkInv, Extends
    <3> QED BY <2>2, <3>1, AckWritten, Ways, Zenon
  <2> QED BY <2>1, <2>2, Zenon
<1>3. ASSUME NEW j \in Jobs, sending = j \/ j \in Range(acks)
      PROVE  sending' = j \/ j \in Range(acks') \/ Coming("down", {"stored"}, j)' \/ dsp' = "gone"
  <2>1. CASE SendAck
    <3>1. sending \in Jobs /\ (dsp' = "gone" \/ acks' = Append(acks, sending))
      BY <2>1, Zenon DEF SendAck, LinkInv, Control
    <3> QED BY <1>1, <1>3, <3>1, InChannel, Zenon
  <2>2. CASE ForwardAck
    <3>1. acks # <<>> /\ acks' = Tail(acks) /\ sending' = sending
      BY <2>2, Zenon DEF ForwardAck
    <3>2. ASSUME j = Head(acks) PROVE Coming("down", {"stored"}, j)'
      <4>1. Holds(frames'["down"], Len(got'["down"]), {"stored"}, j)
        BY <1>1, <2>2, <3>2, AckWritten, Zenon
      <4> QED BY <4>1, Zenon DEF Coming
    <3> QED BY <1>1, <1>3, <3>1, <3>2, InChannel, Zenon
  <2> QED BY <2>1, <2>2, Zenon
<1>4. ASSUME NEW j \in Jobs
      PROVE  Placed(j)'
  <2>1. got' = got /\ unstored \subseteq unstored' /\ task'[j] = task[j]
    BY <1>1, Zenon
  <2> QED BY <1>1, <1>2, <1>3, <2>1, Stays, Zenon
<1> QED BY <1>4, Zenon DEF Whereabouts

\* A fetch: each job it puts in flight has its dispatch on the way.
LEMMA WhereFetches ==
  ASSUME LinkInv, Flow, Whereabouts, NEW n \in 0 .. MaxJobs, Fetch(n)
  PROVE  Whereabouts'
<1>1. /\ UNCHANGED <<got, task, unstored, sending, acks, pending>> /\ dsp = "top"
      /\ leased \in Nat /\ inflight' \subseteq inflight \cup (leased + 1 .. leased + n)
  BY Zenon DEF Fetch, python, LinkInv, Control
<1>2. \A d \in Dirs : Laid(frames'[d]) /\ Extends(frames[d], frames'[d])
  <2>1. CASE dsp' # "writing"
    BY <2>1, Unwritten, Zenon DEF Fetch
  <2>2. CASE dsp' = "writing"
    <3>1. Laid(frames["up"]) /\ Extends(frames["up"], frames["up"])
      BY Both, Ways DEF LinkInv, Extends
    <3> QED BY <2>2, <3>1, BatchSent, Ways, Zenon
  <2> QED BY <2>1, <2>2, Zenon
<1>3. ASSUME NEW j \in Jobs, j \in inflight', j \notin inflight
      PROVE  task[j] # "done" /\ Coming("down", {"dispatch"}, j)'
  <2>1. ~(j <= leased)
    BY <1>1, <1>3
  <2>2. task[j] # "done"
    BY <2>1, Zenon DEF Flow
  <2>3. dsp' = "writing"
    BY <1>3, Zenon DEF Fetch
  <2>4. Holds(frames'["down"], Len(got'["down"]), {"dispatch"}, j)
    BY <1>1, <1>3, <2>3, BatchSent, Zenon
  <2> QED BY <2>2, <2>4, Zenon DEF Coming
<1>4. ASSUME NEW j \in Jobs
      PROVE  Placed(j)'
  <2>1. got' = got /\ unstored \subseteq unstored' /\ task'[j] = task[j] /\ (dsp = "gone" => dsp' = "gone")
    BY <1>1, Zenon
  <2>2. sending = j \/ j \in Range(acks) => sending' = j \/ j \in Range(acks')
    BY <1>1, Zenon
  <2>3. j \in inflight' /\ j \in pending => j \in pending'
    BY <1>1, Zenon
  <2> QED BY <1>2, <1>3, <2>1, <2>2, <2>3, Stays, Zenon
<1> QED BY <1>4, Zenon DEF Whereabouts

\* The child's tasks and the end of its stream: a task that begins to wait, or
\* is done, has written why.
LEMMA WhereTasks ==
  ASSUME LinkInv, Flow, Whereabouts,
         ServeEOF \/ \E i \in Jobs : Step(i) \/ StepTimeout(i) \/ Finish(i)
  PROVE  Whereabouts'
<1>1. UNCHANGED <<got, unstored, sending, acks, pending, inflight, dsp>>
  BY Zenon DEF ServeEOF, Step, StepTimeout, Finish, Succeed, Fail, Report, supervisor
<1>2. CASE ServeEOF \/ \E i \in Jobs : StepTimeout(i)
  <2>1. UNCHANGED frames /\ \A j \in Jobs : task'[j] = task[j] \/ task'[j] \in {"run", "fail"}
    BY <1>2, Zenon DEF ServeEOF, StepTimeout, wire, LinkInv, Control
  <2>2. \A d \in Dirs : Laid(frames'[d]) /\ Extends(frames[d], frames'[d])
    BY <2>1, Unwritten, Zenon
  <2>3. ASSUME NEW j \in Jobs
        PROVE  Placed(j)'
    BY <1>1, <2>1, <2>2, Stays, Zenon
  <2> QED BY <2>3, Zenon DEF Whereabouts
<1>3. ASSUME NEW i \in Jobs, Step(i) \/ Finish(i) PROVE Whereabouts'
  <2>1. \A d \in Dirs : Laid(frames'[d]) /\ Extends(frames[d], frames'[d])
    <3>1. Laid(frames["down"]) /\ Extends(frames["down"], frames["down"])
      BY Both, Ways DEF LinkInv, Extends
    <3> QED BY <1>3, <3>1, ReportWritten, Ways, Zenon
  <2>2. ASSUME NEW j \in Jobs
        PROVE  \/ task'[j] = task[j]
               \/ task'[j] = "wait" /\ Coming("up", {"record"}, j)'
               \/ task'[j] = "done" /\ (Coming("up", {"success"}, j)' \/ Coming("up", {"failure"}, j)')
    <3>1. CASE j # i
      BY <1>3, <3>1, ReportWritten, Zenon DEF LinkInv, Control
    <3>2. CASE j = i
      BY <1>1, <1>3, <3>2, ReportWritten, Zenon DEF LinkInv, Control, Coming
    <3> QED BY <3>1, <3>2, Zenon
  <2>3. ASSUME NEW j \in Jobs
        PROVE  Placed(j)'
    BY <1>1, <2>1, <2>2, Stays, Zenon
  <2> QED BY <2>3, Zenon DEF Whereabouts
<1> QED BY <1>2, <1>3, Zenon

\* The collector decodes a message: a record is acknowledged or could not be
\* stored, a report is pending.
LEMMA WhereDecodes ==
  ASSUME LinkInv, LinkInv', Whereabouts, NextMessage
  PROVE  Whereabouts'
<1>1. PICK f \in Announced :
        /\ got' = [got EXCEPT !["up"] = Append(got["up"], f)]
        /\ \/ f.kind \in {"success", "failure"} /\ Hold(pending \cup {f.job})
              /\ UNCHANGED <<sending, unstored>>
           \/ f.kind = "register" /\ UNCHANGED <<sending, unstored, pending, inflight>>
           \/ f.kind = "record" /\ sending' = f.job /\ UNCHANGED <<unstored, pending, inflight>>
           \/ f.kind = "record" /\ unstored' = unstored \cup {f.job}
              /\ UNCHANGED <<sending, pending, inflight>>
  BY Zenon DEF NextMessage
<1>2. /\ Streams /\ col = "decode" /\ UNCHANGED <<frames, dsp, acks, task>>
      /\ sending = NoJob
  BY Zenon DEF NextMessage, LinkInv, Control, wire, python
<1> DEFINE F == frames["up"]
           n == Len(got["up"])
<1>3. /\ Laid(F) /\ Laid(got["up"]) /\ Extends(got["up"], F) /\ n \in Nat /\ Len(F) \in Nat
      /\ base + pos = After(got["up"]) /\ DOMAIN got = Dirs
  BY <1>2, Both, Ways, Zenon DEF Streams, Stream
<1>4. f = F[n + 1]
  <2>1. DOMAIN F = 1 .. Len(F)
    BY <1>3 DEF Laid
  <2>2. PICK i \in 1 .. Len(F) : f = F[i] /\ F[i].at = base + pos
    BY <2>1, Zenon DEF Announced, StartsAt, Range
  <2>3. i = n + 1
    BY <1>3, <2>2, Undecoded, Zenon
  <2> QED BY <2>2, <2>3, Zenon
<1>5. Len(got'["up"]) = n + 1 /\ got'["down"] = got["down"]
  <2>1. got'["up"] = Append(got["up"], f) /\ got'["down"] = got["down"]
    BY <1>1, <1>3, Ways, Zenon
  <2>2. got["up"] \in Seq(Frame)
    BY <1>3, Zenon DEF Laid
  <2>3. Len(Append(got["up"], f)) = n + 1
    BY <2>2
  <2> QED BY <2>1, <2>3, Zenon
<1>6. ASSUME NEW j \in Jobs, NEW kinds, Coming("up", kinds, j)
      PROVE  Coming("up", kinds, j)' \/ (f.kind \in kinds /\ f.job = j)
  <2>1. PICK i \in n + 1 .. Len(F) : F[i].kind \in kinds /\ F[i].job = j
    BY <1>6, Zenon DEF Coming, Holds
  <2>2. i \in (n + 1) + 1 .. Len(F) \/ i = n + 1
    BY <1>3
  <2> QED BY <1>2, <1>4, <1>5, <2>1, <2>2, Zenon DEF Coming, Holds
<1>7. \A j, kinds : Coming("down", kinds, j) => Coming("down", kinds, j)'
  BY <1>2, <1>5, Zenon DEF Coming
<1>8. unstored \subseteq unstored' /\ pending \subseteq pending' /\ UNCHANGED inflight
  BY <1>1, Zenon DEF Hold
<1>9. ASSUME NEW j \in Jobs PROVE Placed(j)'
  <2>0. Placed(j) /\ sending # j
    BY <1>2 DEF Whereabouts, Jobs, NoJob
  <2>1. ASSUME task'[j] = "none", j \in inflight' PROVE Coming("down", {"dispatch"}, j)'
    BY <1>2, <1>7, <1>8, <2>0, <2>1, Zenon DEF Placed
  <2>2. ASSUME task'[j] = "wait", j \notin unstored', dsp' # "gone"
        PROVE  \/ Coming("up", {"record"}, j)' \/ sending' = j
               \/ j \in Range(acks') \/ Coming("down", {"stored"}, j)'
    <3>1. \/ Coming("up", {"record"}, j) \/ j \in Range(acks') \/ Coming("down", {"stored"}, j)'
      BY <1>2, <1>7, <1>8, <2>0, <2>2, Zenon DEF Placed
    <3>2. ASSUME f.kind \in {"record"}, f.job = j PROVE sending' = j
      BY <1>1, <2>2, <3>2, Zenon
    <3> QED BY <1>6, <3>1, <3>2, Zenon
  <2>3. ASSUME task'[j] = "done", j \in inflight'
        PROVE  Coming("up", {"success"}, j)' \/ Coming("up", {"failure"}, j)' \/ j \in pending'
    <3>1. Coming("up", {"success"}, j) \/ Coming("up", {"failure"}, j) \/ j \in pending'
      BY <1>2, <1>8, <2>0, <2>3, Zenon DEF Placed
    <3>2. ASSUME f.kind \in {"success"} \/ f.kind \in {"failure"}, f.job = j PROVE j \in pending'
      BY <1>1, <3>2, Zenon DEF Hold
    <3> QED BY <1>6, <3>1, <3>2, Zenon
  <2> QED BY <2>1, <2>2, <2>3, Zenon DEF Placed
<1> QED BY <1>9, Zenon DEF Whereabouts

\* The child reads a chunk: each dispatch in it starts a task and each
\* acknowledgement wakes the one that waits for it.
LEMMA WhereServes ==
  ASSUME LinkInv, LinkInv', Whereabouts, Serve
  PROVE  Whereabouts'
<1> DEFINE F == frames["down"]
           limit == taken["down"] + Chunk("down")
           out == Complete(limit)
           arrived(kind) == {f.job : f \in {g \in out : g.kind = kind}}
           n == Len(got["down"])
           m == Len(got'["down"])
<1>1. /\ UNCHANGED <<frames, dsp, sending, acks, inflight, pending, unstored>>
      /\ taken'["down"] = limit /\ child' # "dead"
  BY Ways, Zenon DEF Serve, supervisor, LinkInv, Control, Streams
<1>2. task' = [j \in Jobs |->
                 IF j \in arrived("dispatch") \/ (j \in arrived("stored") /\ task[j] = "wait")
                 THEN "run" ELSE task[j]]
      /\ got' = [got EXCEPT !["down"] = got["down"] \o InOrder(F, out)]
  BY <1>1, Zenon DEF Serve
<1>3. got'["up"] = got["up"]
  BY <1>2, Ways, Zenon DEF LinkInv, Streams
<1>4. /\ Laid(F) /\ Laid(got["down"]) /\ Extends(got["down"], F) /\ n \in Nat /\ Len(F) \in Nat
      /\ start = After(got["down"])
  BY Both, Ways, Zenon DEF LinkInv, Streams, Stream
<1>5. Stream(F, got'["down"], start', limit, put'["down"])
  BY <1>1, Zenon DEF LinkInv, Streams
<1>6. m \in Nat /\ Laid(got'["down"]) /\ Extends(got'["down"], F) /\ start' = After(got'["down"])
      /\ start' <= limit /\ start' \in Nat /\ limit \in Nat
  BY <1>5 DEF Stream, Laid
<1> HIDE DEF limit
<1>7. ASSUME NEW i \in n + 1 .. m, i \in 1 .. Len(F) PROVE F[i] \in out
  <2>1. F[i].at >= start
    <3>1. i > n
      BY <1>4
    <3> HIDE DEF F, n
    <3> QED BY <1>4, <1>7, <3>1, Undecoded, Zenon DEF n
  <2>2. i \in 1 .. m /\ F[i] = got'["down"][i]
    BY <1>4, <1>6 DEF Extends
  <2>3. EndOf(F[i]) <= start' /\ EndOf(F[i]) \in Nat
    BY <1>4, <1>6, <2>2, AfterLast, Ends, Zenon
  <2>4. EndOf(F[i]) <= limit
    BY <1>6, <2>3
  <2>5. DOMAIN F = 1 .. Len(F)
    BY <1>4 DEF Laid
  <2> QED BY <1>7, <2>1, <2>4, <2>5, Zenon DEF Complete, Range
<1>8. ASSUME NEW j \in Jobs, NEW kind, Coming("down", {kind}, j)
      PROVE  Coming("down", {kind}, j)' \/ j \in arrived(kind)
  <2>1. PICK i \in n + 1 .. Len(F) : F[i].kind = kind /\ F[i].job = j
    BY <1>8, Zenon DEF Coming, Holds
  <2>2. i \in m + 1 .. Len(F) \/ (i \in n + 1 .. m /\ i \in 1 .. Len(F))
    BY <1>4, <1>6
  <2>3. CASE i \in m + 1 .. Len(F)
    BY <1>1, <2>1, <2>3, Zenon DEF Coming, Holds
  <2>4. CASE i \in n + 1 .. m /\ i \in 1 .. Len(F)
    <3>1. F[i] \in out
      BY <1>7, <2>4, Zenon
    <3> HIDE DEF out
    <3> QED BY <2>1, <3>1, Zenon
  <2> QED BY <2>2, <2>3, <2>4, Zenon
<1>9. \A j, kinds : Coming("up", kinds, j) => Coming("up", kinds, j)'
  BY <1>1, <1>3, Zenon DEF Coming
<1> HIDE DEF arrived
<1>10. ASSUME NEW j \in Jobs PROVE Placed(j)'
  <2>0. /\ Placed(j)
        /\ task'[j] = IF j \in arrived("dispatch") \/ (j \in arrived("stored") /\ task[j] = "wait")
                      THEN "run" ELSE task[j]
    BY <1>2, Zenon DEF Whereabouts
  <2>1. ASSUME task'[j] = "none", j \in inflight' PROVE Coming("down", {"dispatch"}, j)'
    <3>1. task[j] = "none" /\ j \notin arrived("dispatch")
      BY <2>0, <2>1, Zenon
    <3> QED BY <1>1, <1>8, <2>0, <2>1, <3>1, Zenon DEF Placed
  <2>2. ASSUME task'[j] = "wait", j \notin unstored', dsp' # "gone"
        PROVE  \/ Coming("up", {"record"}, j)' \/ sending' = j
               \/ j \in Range(acks') \/ Coming("down", {"stored"}, j)'
    <3>1. task[j] = "wait" /\ j \notin arrived("stored")
      BY <2>0, <2>2, Zenon
    <3> QED BY <1>1, <1>8, <1>9, <2>0, <2>2, <3>1, Zenon DEF Placed
  <2>3. ASSUME task'[j] = "done", j \in inflight'
        PROVE  Coming("up", {"success"}, j)' \/ Coming("up", {"failure"}, j)' \/ j \in pending'
    <3>1. task[j] = "done"
      BY <2>0, <2>3, Zenon
    <3> QED BY <1>1, <1>9, <2>0, <2>3, <3>1, Zenon DEF Placed
  <2> QED BY <2>1, <2>2, <2>3, Zenon DEF Placed
<1> QED BY <1>10, Zenon DEF Whereabouts

-----------------------------------------------------------------------------
\* At first nothing is in flight and nothing has been written to the child.
LEMMA JobsStart == Init => Flow /\ Whereabouts
<1> SUFFICES ASSUME Init PROVE Flow /\ Whereabouts
  BY Zenon
<1>1. /\ frames["down"] = <<>> /\ put["down"] = 0 /\ After(<<>>) = 0 /\ dsp = "top" /\ child = "reading"
      /\ inflight = {} /\ \A j \in Jobs : task[j] = "none"
  BY Zenon DEF Init, Dirs, After
<1>2. Flow
  BY <1>1 DEF Flow
<1>3. Whereabouts
  BY <1>1, Zenon DEF Whereabouts, Placed
<1> QED BY <1>2, <1>3, Zenon

\* Every step keeps account of every job.
LEMMA JobsStep == LinkInv /\ LinkInv' /\ Flow /\ Whereabouts /\ [Next]_vars => Flow' /\ Whereabouts'
<1> SUFFICES ASSUME LinkInv, LinkInv', Flow, Whereabouts, [Next]_vars PROVE Flow' /\ Whereabouts'
  BY Zenon
<1>1. CASE \/ PipeUp \/ WaitForSlot \/ SlotFreed \/ Poll \/ Shutdown \/ StopDispatch
           \/ Drained \/ DrainTimeout \/ UNCHANGED vars
  BY <1>1, FlowWaits, WhereWaits, Zenon
<1>2. CASE WriteAll
  BY <1>2, FlowWrites, WhereWaits, Zenon
<1>3. CASE ForwardAck
  BY <1>3, FlowAcks, WhereAcks, Zenon
<1>4. CASE \E n \in 0 .. MaxJobs : Fetch(n)
  BY <1>4, FlowFetches, WhereFetches, Zenon
<1>5. CASE Collecting
  <2>1. Flow'
    BY <1>5, FlowWaits, Zenon
  <2>2. Whereabouts'
    BY <1>5, WhereWaits, WhereAcks, WhereDecodes, Zenon DEF Collecting
  <2> QED BY <2>1, <2>2, Zenon
<1>6. CASE Serve
  BY <1>6, FlowServes, WhereServes, Zenon
<1>7. CASE ServeEOF
  BY <1>7, FlowServes, WhereTasks, Zenon
<1>8. CASE \E j \in Jobs : Step(j) \/ StepTimeout(j) \/ Finish(j)
  BY <1>8, FlowTasks, WhereTasks, Zenon
<1> QED BY <1>1, <1>2, <1>3, <1>4, <1>5, <1>6, <1>7, <1>8, Zenon DEF Next, Dispatching, Serving

\* "The cycle cannot deadlock": whatever the sizes of the socket buffers, the
\* channel, the reads and the frames, and however many jobs are in flight, a
\* loop of session or of the child can move as long as a job is in their hands.
THEOREM LinkNeverJams == Spec => []NeverJams
<1>1. LinkInv /\ Flow /\ Whereabouts => NeverJams
  BY NoJam, Zenon
<1>2. Spec => [](Flow /\ Whereabouts)
  BY JobsStart, JobsStep, Always, PTL DEF Spec
<1> QED BY <1>1, <1>2, Always, PTL
=============================================================================
