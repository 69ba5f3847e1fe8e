------------------------- MODULE FileTransferProofs -------------------------
(***************************************************************************)
(* The safety properties of FileTransfer, for any number of files, blocks, *)
(* versions, jobs and faults, with the invariants of FileTransferInv.      *)
(*                                                                         *)
(* Each action is first shown to be a step of one of a few shapes (Tick,   *)
(* Sending, Confirming, Thinned, Asking, Answering, Wrote, Opening,        *)
(* Cancelling, Quiet), which tell place by place what becomes of the       *)
(* messages, the jobs and the directory; then each shape is shown to keep  *)
(* each group of Inv, and Alive.                                           *)
(***************************************************************************)
EXTENDS FileTransferInv, SequenceTheorems, WellFoundedInduction, NaturalsInduction, TLAPS

-----------------------------------------------------------------------------
(***************************************************************************)
(* Sequences.                                                              *)
(***************************************************************************)

\* A set of numbers has a least element.
LEMMA LeastOf ==
    ASSUME NEW S, S \subseteq Nat, S # {}
    PROVE  \E x \in S : \A y \in S : x <= y
<1> DEFINE Less == {ss \in Nat \X Nat : ss[1] < ss[2]}
<1>1. IsWellFoundedOn(Less, Nat)
  BY NatLessThanWellFounded DEF OpToRel
<1> HIDE DEF Less
<1>2. PICK x \in S : \A y \in S : ~(<<y, x>> \in Less)
  BY <1>1, WFMin
<1>3. \A y \in S : <<y, x>> \in Less <=> y < x
  BY DEF Less
<1>4. \A y \in S : ~(y < x) /\ x \in Nat /\ y \in Nat
  BY <1>2, <1>3
<1> QED BY <1>4

\* Tail, place by place.
LEMMA TailAt ==
    ASSUME NEW T, NEW s \in Seq(T), s # <<>>
    PROVE  /\ Tail(s) \in Seq(T) /\ Head(s) \in T /\ Head(s) = s[1] /\ 1 \in DOMAIN s
           /\ Len(s) \in Nat /\ Len(Tail(s)) = Len(s) - 1
           /\ \A p \in DOMAIN Tail(s) : p \in Nat /\ p + 1 \in DOMAIN s /\ Tail(s)[p] = s[p + 1]
           /\ \A p \in DOMAIN s : p \in Nat /\ p >= 1 /\ (p > 1 => p - 1 \in DOMAIN Tail(s))
<1>1. Len(s) \in Nat /\ Len(s) >= 1 /\ DOMAIN s = 1 .. Len(s)
  BY EmptySeq, LenProperties
<1>2. Tail(s) \in Seq(T) /\ Head(s) \in T /\ Len(Tail(s)) = Len(s) - 1
  BY HeadTailProperties
<1>3. DOMAIN Tail(s) = 1 .. Len(s) - 1
  BY <1>2, LenProperties
<1> QED BY <1>1, <1>2, <1>3

\* Append, place by place.
LEMMA AppendAt ==
    ASSUME NEW T, NEW s \in Seq(T), NEW x \in T
    PROVE  /\ Append(s, x) \in Seq(T) /\ Append(s, x) # <<>>
           /\ Len(s) \in Nat /\ Len(Append(s, x)) = Len(s) + 1
           /\ Len(s) + 1 \in DOMAIN Append(s, x) /\ Append(s, x)[Len(s) + 1] = x
           /\ \A p \in DOMAIN s : p \in DOMAIN Append(s, x) /\ Append(s, x)[p] = s[p]
                /\ p \in Nat /\ p >= 1 /\ p <= Len(s)
           /\ \A p \in DOMAIN Append(s, x) : p \in DOMAIN s \/ p = Len(s) + 1
OBVIOUS

\* c holds the elements of the parts of s, in order; g tells where they are.
Flattened(M, s, c) ==
    /\ c \in Seq(M)
    /\ \E g \in [DOMAIN c -> DOMAIN s] :
        /\ \A k, l \in DOMAIN c : k < l => g[k] < g[l]
        /\ \A k \in DOMAIN c : s[g[k]] # <<>> /\ c[k] = s[g[k]][1]
        /\ \A i \in DOMAIN s : s[i] # <<>> => \E k \in DOMAIN c : g[k] = i

\* FlattenSeq of sequences of at most one element: the elements in order.
LEMMA FlattenAt ==
    ASSUME NEW M, NEW s \in Seq(Seq(M)),
           \A i \in DOMAIN s : Len(s[i]) <= 1
    PROVE  Flattened(M, s, FlattenSeq(s))
<1> DEFINE n == Len(s)
           Eqn(m, f) == /\ f \in [1 .. m -> Seq(M)]
                        /\ \A i \in 1 .. m : f[i] = IF i = 1 THEN s[i] ELSE f[i-1] \o s[i]
           Bad == {m \in 0 .. n : ~ \E f : Eqn(m, f)}
           F == CHOOSE flatten : flatten =
                    [i \in 1 .. Len(s) |-> IF i = 1 THEN s[i] ELSE flatten[i-1] \o s[i]]
<1>n. n \in Nat /\ DOMAIN s = 1 .. n /\ \A i \in 1 .. n : s[i] \in Seq(M)
  BY LenProperties, ElementOfSeq
<1>1. Bad = {}
  <2> SUFFICES ASSUME Bad # {} PROVE FALSE
    OBVIOUS
  <2>1. PICK m \in Bad : \A y \in Bad : m <= y
    <3>1. Bad \subseteq Nat
      BY <1>n
    <3> HIDE DEF Bad
    <3> QED BY <3>1, LeastOf
  <2>2. m \in 0 .. n /\ ~ \E f : Eqn(m, f)
    OBVIOUS
  <2>3. CASE m = 0
    <3>1. Eqn(0, [i \in 1 .. 0 |-> <<>>])
      OBVIOUS
    <3> QED BY <3>1, <2>2, <2>3
  <2>4. CASE m # 0
    <3>0. m - 1 \in 0 .. n /\ ~(m <= m - 1)
      BY <2>2, <2>4, <1>n
    <3>1. m - 1 \in 0 .. n /\ m - 1 \notin Bad
      <4> HIDE DEF Bad
      <4> QED BY <2>1, <3>0
    <3>2. PICK f : Eqn(m - 1, f)
      BY <3>1
    <3> DEFINE h == [i \in 1 .. m |-> IF i < m THEN f[i]
                                     ELSE IF m = 1 THEN s[1] ELSE f[m - 1] \o s[m]]
    <3>3. m \in 1 .. n /\ s[m] \in Seq(M) /\ s[1] \in Seq(M)
      BY <2>2, <2>4, <1>n
    <3>4. \A i \in 1 .. m - 1 : f[i] \in Seq(M)
      BY <3>2
    <3>5. h \in [1 .. m -> Seq(M)]
      <4>1. ASSUME NEW i \in 1 .. m PROVE (IF i < m THEN f[i]
                                     ELSE IF m = 1 THEN s[1] ELSE f[m - 1] \o s[m]) \in Seq(M)
        <5>1. CASE i < m
          BY <5>1, <3>4, <3>3
        <5>2. CASE i = m /\ m = 1
          BY <5>2, <3>3
        <5>3. CASE i = m /\ m # 1
          BY <5>3, <3>4, <3>3, ConcatProperties
        <5> QED BY <5>1, <5>2, <5>3, <3>3
      <4> QED BY <4>1
    <3>6. ASSUME NEW i \in 1 .. m PROVE h[i] = IF i = 1 THEN s[i] ELSE h[i-1] \o s[i]
      <4>1. CASE i = m
        BY <4>1, <3>3
      <4>2. CASE i < m
        <5>1. i \in 1 .. m - 1 /\ (i # 1 => i - 1 \in 1 .. m - 1) /\ i \in 1 .. m
                /\ (i # 1 => i - 1 \in 1 .. m)
          BY <4>2, <3>3
        <5>2. f[i] = IF i = 1 THEN s[i] ELSE f[i-1] \o s[i]
          BY <5>1, <3>2
        <5>3. h[i] = f[i] /\ (i # 1 => h[i - 1] = f[i - 1])
          BY <5>1, <4>2, <3>3
        <5> QED BY <5>2, <5>3
      <4> QED BY <4>1, <4>2, <3>3
    <3>7. Eqn(m, h)
      BY <3>5, <3>6
    <3> QED BY <3>7, <2>2
  <2> QED BY <2>3, <2>4
<1>2. CASE n = 0
  <2>1. FlattenSeq(s) = s /\ DOMAIN s = {} /\ s = <<>>
    BY <1>2, <1>n, EmptySeq DEF FlattenSeq
  <2>2. s \in [DOMAIN s -> DOMAIN s] /\ s \in Seq(M)
    BY <2>1
  <2>3. Flattened(M, s, s)
    BY <2>1, <2>2 DEF Flattened
  <2> QED BY <2>1, <2>3
<1>3. CASE n # 0
  <2>1. PICK f : Eqn(n, f)
    <3>0. n \in 0 .. n
      BY <1>n
    <3>1. n \in 0 .. n /\ n \notin Bad
      <4> HIDE DEF Bad
      <4> QED BY <1>1, <3>0
    <3> QED BY <3>1
  <2>2. f = [i \in 1 .. Len(s) |-> IF i = 1 THEN s[i] ELSE f[i-1] \o s[i]]
    BY <2>1
  <2>3. F = [i \in 1 .. Len(s) |-> IF i = 1 THEN s[i] ELSE F[i-1] \o s[i]]
    BY <2>2
  <2>4. FlattenSeq(s) = F[n]
    BY <1>3 DEF FlattenSeq
  <2> HIDE DEF F
  <2> DEFINE P(i, g) ==
        /\ g \in [DOMAIN F[i] -> 1 .. i]
        /\ \A k, l \in DOMAIN F[i] : k < l => g[k] < g[l]
        /\ \A k \in DOMAIN F[i] : s[g[k]] # <<>> /\ F[i][k] = s[g[k]][1]
        /\ \A x \in 1 .. i : s[x] # <<>> => \E k \in DOMAIN F[i] : g[k] = x
             Wrong == {i \in 1 .. n : ~(F[i] \in Seq(M) /\ \E g : P(i, g))}
  <2>5. ASSUME Wrong # {} PROVE FALSE
    <3>1. PICK m \in Wrong : \A y \in Wrong : m <= y
      <4>1. Wrong \subseteq Nat
        BY <1>n
      <4> HIDE DEF Wrong
      <4> QED BY <4>1, <2>5, LeastOf
    <3>2. m \in 1 .. n /\ ~(F[m] \in Seq(M) /\ \E g : P(m, g))
      OBVIOUS
    <3>3. s[m] \in Seq(M) /\ Len(s[m]) <= 1 /\ Len(s[m]) \in Nat
      BY <3>2, <1>n, LenProperties
    <3>4. s[m] = <<>> \/ (\E x \in M : s[m] = <<x>>)
      <4>1. CASE Len(s[m]) = 0
        BY <4>1, <3>3, EmptySeq
      <4>2. CASE Len(s[m]) = 1
        BY <4>2, <3>3
      <4> QED BY <4>1, <4>2, <3>3
    <3>5. CASE m = 1
      <4>1. F[1] = s[1]
        BY <2>3, <3>2, <3>5
      <4>2. P(1, [k \in DOMAIN F[1] |-> 1])
        <5>1. CASE s[1] = <<>>
          BY <5>1, <4>1
        <5>2. CASE \E x \in M : s[1] = <<x>>
          <6>1. PICK x \in M : s[1] = <<x>>
            BY <5>2
          <6>2. DOMAIN F[1] = {1} /\ s[1] # <<>>
            BY <6>1, <4>1
          <6> QED BY <6>2, <4>1
        <5> QED BY <5>1, <5>2, <3>4, <3>5
      <4> HIDE DEF P
      <4> QED BY <4>1, <4>2, <3>2, <3>3, <3>5
    <3>6. CASE m # 1
      <4>0. m - 1 \in 1 .. n /\ ~(m <= m - 1)
        BY <3>2, <3>6, <1>n
      <4>1. m - 1 \in 1 .. n /\ m - 1 \notin Wrong
        <5> HIDE DEF Wrong
        <5> QED BY <3>1, <4>0
      <4>2. F[m - 1] \in Seq(M) /\ \E g : P(m - 1, g)
        <5> HIDE DEF P
        <5> QED BY <4>1
      <4>3. PICK g : P(m - 1, g)
        <5> HIDE DEF P
        <5> QED BY <4>2
      <4>4. F[m] = F[m - 1] \o s[m]
        BY <2>3, <3>2, <3>6
      <4>5. m \in Nat /\ m > 1
        BY <3>2, <3>6, <1>n
      <4> DEFINE L == Len(F[m - 1])
      <4>6. L \in Nat /\ DOMAIN F[m - 1] = 1 .. L
        BY <4>2, LenProperties
      <4>7. CASE s[m] = <<>>
        <5>1. F[m] = F[m - 1]
          BY <4>2, <4>4, <4>7
        <5>2. P(m, g)
          <6>1. g \in [DOMAIN F[m] -> 1 .. m]
            BY <5>1, <4>3, <4>5
          <6>2. \A x \in 1 .. m : s[x] # <<>> => x \in 1 .. m - 1
            BY <4>7, <4>5
          <6> QED BY <6>1, <6>2, <5>1, <4>3
        <5> HIDE DEF P
        <5> QED BY <5>1, <5>2, <4>2, <3>2
      <4>8. CASE \E x \in M : s[m] = <<x>>
        <5>1. PICK x \in M : s[m] = <<x>>
          BY <4>8
        <5>2. /\ F[m] \in Seq(M) /\ DOMAIN F[m] = 1 .. L + 1
              /\ \A k \in 1 .. L : F[m][k] = F[m - 1][k]
              /\ F[m][L + 1] = x
          BY <5>1, <4>2, <4>4, <4>6
        <5> DEFINE h == [k \in 1 .. L + 1 |-> IF k <= L THEN g[k] ELSE m]
        <5>3. g \in [1 .. L -> 1 .. m - 1]
          BY <4>3, <4>6
        <5>4. \A k \in 1 .. L : h[k] = g[k] /\ g[k] \in 1 .. m - 1
          <6> TAKE k \in 1 .. L
          <6>1. k \in 1 .. L + 1 /\ k <= L
            BY <4>6
          <6> QED BY <6>1, <5>3
        <5>5. h[L + 1] = m
          BY <4>6
        <5>6. h \in [DOMAIN F[m] -> 1 .. m]
          <6>1. ASSUME NEW k \in 1 .. L + 1
                PROVE  (IF k <= L THEN g[k] ELSE m) \in 1 .. m
            <7>1. CASE k <= L
              <8>0. k \in 1 .. L
                BY <7>1, <4>6
              <8>1. g[k] \in 1 .. m - 1
                BY <8>0, <5>3
              <8> QED BY <7>1, <8>1, <4>5
            <7>2. CASE ~(k <= L)
              BY <7>2, <4>5
            <7> QED BY <7>1, <7>2
          <6> QED BY <6>1, <5>2
        <5>7. \A k \in 1 .. L + 1 : k \in 1 .. L \/ k = L + 1
          <6>1. L \in Nat
            BY <4>6
          <6> HIDE DEF L
          <6> QED BY <6>1
        <5> HIDE DEF h
        <5>8. \A k, l \in 1 .. L + 1 : k < l => h[k] < h[l]
          <6> TAKE k, l \in 1 .. L + 1
          <6> HAVE k < l
          <6>1. k \in 1 .. L
            BY <4>6
          <6>2. CASE l \in 1 .. L
            BY <6>1, <6>2, <5>4, <4>3, <4>6
          <6>3. CASE l = L + 1
            <7>1. h[k] \in 1 .. m - 1
              BY <6>1, <5>4
            <7>2. h[l] = m
              BY <6>3, <5>5
            <7> QED BY <7>1, <7>2, <4>5
          <6> QED BY <6>2, <6>3, <5>7
        <5>9. \A k \in 1 .. L + 1 : s[h[k]] # <<>> /\ F[m][k] = s[h[k]][1]
          <6> TAKE k \in 1 .. L + 1
          <6>2. CASE k \in 1 .. L
            BY <6>2, <5>2, <5>4, <4>3, <4>6
          <6>3. CASE k = L + 1
            <7>1. s[h[k]] = <<x>> /\ F[m][k] = x
              BY <6>3, <5>1, <5>2, <5>5
            <7> QED BY <7>1
          <6> QED BY <6>2, <6>3, <5>7
        <5>10. \A y \in 1 .. m : s[y] # <<>> => \E k \in 1 .. L + 1 : h[k] = y
          <6> TAKE y \in 1 .. m
          <6> HAVE s[y] # <<>>
          <6>1. CASE y = m
            BY <6>1, <5>5, <4>6
          <6>2. CASE y \in 1 .. m - 1
            <7>1. PICK k \in 1 .. L : g[k] = y
              BY <6>2, <4>3, <4>6
            <7>2. h[k] = y /\ k \in 1 .. L + 1
              BY <7>1, <5>4, <4>6
            <7> QED BY <7>2
          <6> QED BY <6>1, <6>2, <4>5
        <5>11. P(m, h)
          BY <5>2, <5>6, <5>8, <5>9, <5>10
        <5> HIDE DEF P
        <5> QED BY <5>2, <5>11, <3>2
      <4> QED BY <4>7, <4>8, <3>4
    <3> QED BY <3>5, <3>6
  <2>6. n \in 1 .. n /\ n \notin Wrong
    <3>1. n \in 1 .. n
      BY <1>3, <1>n
    <3> HIDE DEF Wrong
    <3> QED BY <2>5, <3>1
  <2>7. F[n] \in Seq(M) /\ \E g : P(n, g)
    <3> HIDE DEF P
    <3> QED BY <2>6
  <2>8. PICK g : P(n, g)
    <3> HIDE DEF P
    <3> QED BY <2>7
  <2>9. /\ g \in [DOMAIN F[n] -> DOMAIN s]
        /\ \A k, l \in DOMAIN F[n] : k < l => g[k] < g[l]
        /\ \A k \in DOMAIN F[n] : s[g[k]] # <<>> /\ F[n][k] = s[g[k]][1]
        /\ \A i \in DOMAIN s : s[i] # <<>> => \E k \in DOMAIN F[n] : g[k] = i
    BY <2>8, <1>n
  <2>10. Flattened(M, s, F[n])
    <3> HIDE DEF P
    <3> QED BY <2>7, <2>9 DEF Flattened
  <2> QED BY <2>4, <2>10
<1> QED BY <1>2, <1>3

-----------------------------------------------------------------------------
(***************************************************************************)
(* The file timer.                                                         *)
(***************************************************************************)

\* The fields of a response.
LEMMA ResponseFields ==
    ASSUME NEW m \in Response
    PROVE  /\ m.kind \in {"dir", "done", "error", "digest", "block"} /\ m.id \in Nat
           /\ m.kind \in {"digest", "block"} => m.num \in Nat /\ m.ver \in Nat
           /\ m.kind = "block" => m.idx \in Nat
BY DEF Response

\* The fields of an action.
LEMMA FileActionFields ==
    ASSUME NEW m \in FileAction
    PROVE  /\ m.kind \in {"cancel", "send", "confirm"} /\ m.id \in Nat
           /\ m.kind \in {"send", "confirm"} => m.num \in Nat
           /\ m.kind = "confirm" => m.skip \in BOOLEAN /\ m.offset \in Nat
BY DEF FileAction

\* The block that read returns.
BlockOf(j) ==
    [kind |-> "block", id |-> j.id, num |-> j.num, ver |-> src[j.num],
     idx |-> IF j.stream < Blocks[j.num] THEN j.stream + 1 ELSE 0]

\* The digest that a job sends of its file.
DigestOf(j) == [kind |-> "digest", id |-> j.id, num |-> j.num, ver |-> src[j.num]]

\* Question, as far as it is about one reading job alone.
JobOK(j) ==
    /\ j \in TransferJob
    /\ j.stream # None <=> j.waiting
    /\ j.waiting => j.num < N
    /\ j.confirmed => j.waiting
    /\ j.waiting /\ ~j.confirmed => j.stream = 0

\* Where the job is does not change.
Same(j, k) ==
    /\ k.num = j.num /\ k.stream = j.stream
    /\ k.confirmed <=> j.confirmed
    /\ k.waiting <=> j.waiting

\* The job opens its file and asks.
Asks(j, k) == k.num = j.num /\ k.stream = 0 /\ k.waiting /\ ~k.confirmed

\* The job goes on with the next file.
Moved(j, k) == k.num = j.num + 1 /\ k.stream = None /\ ~k.waiting /\ ~k.confirmed

\* The files are the numbers below N.
LEMMA FilesAre ==
    /\ \A f : f \in Files <=> f \in Nat /\ f < N
    /\ N \in Nat /\ N >= 1
BY NAssumption DEF Files, FC!Files

\* What init_data_stream may do.
Inited(j, o) ==
    /\ o.job \in TransferJob /\ o.job.id = j.id
    /\ o.out \in Seq(Response) /\ Len(o.out) <= 1
    /\ \/ /\ o.out = <<>> /\ Same(j, o.job)
          /\ j.waiting \/ (j.num >= N /\ ~j.confirmed)
       \/ /\ o.out = <<DigestOf(j)>> /\ Asks(j, o.job)
          /\ ~j.waiting /\ ~j.confirmed /\ j.num < N
       \/ /\ o.out = <<Error(j)>> /\ (Moved(j, o.job) \/ Same(j, o.job))
          /\ ~j.waiting /\ ~j.confirmed /\ j.num < N

\* What read may do.
WasRead(j, r) ==
    /\ r.job \in TransferJob /\ r.job.id = j.id /\ r.over \in BOOLEAN
    /\ r.over => ~j.waiting /\ ~j.confirmed
    /\ \/ r.out = <<>> /\ j.waiting /\ ~j.confirmed /\ r.job = j
       \/ /\ \E m \in Response : r.out = <<m>> /\ m.kind \in {"done", "error"} /\ m.id = j.id
          /\ ~j.waiting /\ ~j.confirmed /\ r.over
       \/ r.out = <<Error(j)>> /\ Error(j) \in Response /\ j.confirmed /\ Moved(j, r.job)
       \/ /\ r.out = <<BlockOf(j)>> /\ BlockOf(j) \in Response /\ j.confirmed
          /\ j.stream < Blocks[j.num]
          /\ r.job.num = j.num /\ r.job.stream = j.stream + 1
          /\ r.job.confirmed /\ r.job.waiting
       \/ /\ r.out = <<BlockOf(j)>> /\ BlockOf(j) \in Response /\ j.confirmed
          /\ ~(j.stream < Blocks[j.num]) /\ Moved(j, r.job)

\* Advance goes on with the next file.
LEMMA AdvanceMoves ==
    ASSUME NEW j \in TransferJob
    PROVE  Advance(j) \in TransferJob /\ Advance(j).id = j.id /\ Moved(j, Advance(j))
<1>1. j.num \in Nat
  BY DEF TransferJob
<1>2. Advance(j) \in TransferJob
  <2>1. j.num + 1 \in Nat
    BY <1>1
  <2> DEFINE n == j.num + 1
  <2>2. Advance(j) = [j EXCEPT !.num = n, !.stream = None,
                              !.confirmed = FALSE, !.waiting = FALSE]
    BY DEF Advance
  <2> HIDE DEF n
  <2>3. n \in Nat
    BY <2>1 DEF n
  <2> QED BY <2>2, <2>3 DEF TransferJob
<1>3. Advance(j).id = j.id /\ Advance(j).num = j.num + 1 /\ Advance(j).stream = None
        /\ Advance(j).confirmed = FALSE /\ Advance(j).waiting = FALSE
  BY DEF TransferJob, Advance
<1> QED BY <1>2, <1>3 DEF Moved

\* InitDataStream does one of what Inited lists.
LEMMA InitResult ==
    ASSUME src \in [Files -> 1 .. MaxVersion],
           NEW j, JobOK(j), NEW ok \in BOOLEAN, NEW stays \in BOOLEAN,
           NEW o, o = InitDataStream(j, ok, stays)
    PROVE  Inited(j, o)
<1>1. /\ j \in TransferJob /\ j.num \in Nat /\ j.id \in Nat /\ j.stream \in Nat \cup {None}
      /\ j.confirmed \in BOOLEAN /\ j.waiting \in BOOLEAN
  BY DEF JobOK, TransferJob
<1>2. CASE j.num >= N
  <2>1. j.stream = None /\ ~j.waiting /\ ~j.confirmed
    BY <1>1, <1>2, FilesAre DEF JobOK
  <2>2. o = [job |-> [j EXCEPT !.stream = None], out |-> <<>>]
    BY <1>2 DEF InitDataStream
  <2>3. o.job \in TransferJob /\ o.job.id = j.id /\ Same(j, o.job)
    BY <2>1, <2>2, <1>1 DEF TransferJob, Same
  <2>4. o.out = <<>> /\ o.out \in Seq(Response) /\ Len(o.out) <= 1
    BY <2>2
  <2> QED BY <2>1, <2>3, <2>4, <1>2 DEF Inited
<1>3. CASE ~(j.num >= N) /\ j.stream = None /\ ~ok
  <2>1. ~j.waiting /\ ~j.confirmed /\ j.num < N
    BY <1>1, <1>3, FilesAre DEF JobOK
  <2>2. o = [job |-> IF stays THEN j ELSE Advance(j), out |-> <<Error(j)>>]
    BY <1>3 DEF InitDataStream
  <2>3. o.job \in TransferJob /\ o.job.id = j.id /\ (Moved(j, o.job) \/ Same(j, o.job))
    <3>1. o.job = j \/ o.job = Advance(j)
      BY <2>2
    <3> QED BY <3>1, <1>1, AdvanceMoves DEF Same
  <2>4. Error(j) \in Response
    BY <1>1 DEF Error, Response
  <2>5. o.out = <<Error(j)>> /\ o.out \in Seq(Response) /\ Len(o.out) <= 1
    BY <2>2, <2>4
  <2> QED BY <2>1, <2>3, <2>5, <1>3 DEF Inited
<1>4. CASE ~(j.num >= N) /\ j.stream = None /\ ok
  <2>1. ~j.waiting /\ ~j.confirmed /\ j.num < N
    BY <1>1, <1>4, FilesAre DEF JobOK
  <2> DEFINE k == [j EXCEPT !.stream = 0, !.confirmed = FALSE, !.waiting = FALSE]
  <2>k. k \in TransferJob /\ k.id = j.id /\ k.num = j.num /\ k.stream = 0
            /\ ~k.confirmed /\ ~k.waiting
    BY <1>1 DEF TransferJob
  <2>2. o = [job |-> [k EXCEPT !.waiting = TRUE], out |-> <<DigestOf(j)>>]
    BY <1>4, <2>k DEF InitDataStream, DigestOf
  <2> HIDE DEF k
  <2>3. o.job \in TransferJob /\ o.job.id = j.id /\ Asks(j, o.job)
    <3>1. o.job = [k EXCEPT !.waiting = TRUE]
      BY <2>2
    <3>2. /\ [k EXCEPT !.waiting = TRUE] \in TransferJob
          /\ [k EXCEPT !.waiting = TRUE].id = k.id
          /\ [k EXCEPT !.waiting = TRUE].num = k.num
          /\ [k EXCEPT !.waiting = TRUE].stream = k.stream
          /\ [k EXCEPT !.waiting = TRUE].confirmed = k.confirmed
          /\ [k EXCEPT !.waiting = TRUE].waiting = TRUE
      BY <2>k DEF TransferJob
    <3> QED BY <3>1, <3>2, <2>k DEF Asks
  <2>4. DigestOf(j) \in Response
    <3>1. src[j.num] \in Nat
      BY <1>1, <2>1, FilesAre, BoundsAssumption
    <3> QED BY <1>1, <3>1 DEF DigestOf, Response
  <2>5. o.out = <<DigestOf(j)>> /\ o.out \in Seq(Response) /\ Len(o.out) <= 1
    BY <2>2, <2>4
  <2> QED BY <2>1, <2>3, <2>5, <1>4 DEF Inited
<1>5. CASE ~(j.num >= N) /\ j.stream # None
  <2>1. j.waiting
    BY <1>5 DEF JobOK
  <2>2. o = [job |-> j, out |-> <<>>]
    BY <1>5, <2>1 DEF InitDataStream
  <2>3. o.job \in TransferJob /\ o.job.id = j.id /\ Same(j, o.job)
    BY <2>2, <1>1 DEF Same
  <2>4. o.out = <<>> /\ o.out \in Seq(Response) /\ Len(o.out) <= 1
    BY <2>2
  <2> QED BY <2>1, <2>3, <2>4 DEF Inited
<1> QED BY <1>2, <1>3, <1>4, <1>5

\* ReadBlock does one of what WasRead lists.
LEMMA ReadResult ==
    ASSUME src \in [Files -> 1 .. MaxVersion],
           NEW j, j \in TransferJob, j.confirmed => j.waiting /\ j.stream \in Nat /\ j.num < N,
           NEW ok \in BOOLEAN, NEW r, r = ReadBlock(j, ok)
    PROVE  WasRead(j, r)
<1>1. /\ j.num \in Nat /\ j.id \in Nat
      /\ j.confirmed \in BOOLEAN /\ j.waiting \in BOOLEAN
  BY DEF TransferJob
<1>2. Error(j) \in Response /\ Done(j) \in Response /\ Error(j).kind = "error"
        /\ Done(j).kind = "done" /\ Error(j).id = j.id /\ Done(j).id = j.id
  BY <1>1 DEF Error, Done, Response
<1>3. CASE ~j.confirmed
  <2>1. r = [job |-> j, over |-> ~j.waiting,
             out |-> IF j.waiting THEN <<>>
                     ELSE IF j.skipped /\ N = 1 THEN <<Error(j)>> ELSE <<Done(j)>>]
    BY <1>3 DEF ReadBlock
  <2>a. r.job = j /\ r.over = (~j.waiting)
    <3> DEFINE b == ~j.waiting
               out == IF j.waiting THEN <<>>
                     ELSE IF j.skipped /\ N = 1 THEN <<Error(j)>> ELSE <<Done(j)>>
    <3>1. r = [job |-> j, over |-> b, out |-> out]
      BY <2>1
    <3> HIDE DEF b, out
    <3>2. r.job = j /\ r.over = b
      BY <3>1
    <3> QED BY <3>2 DEF b
  <2>2. r.job = j /\ (r.over <=> ~j.waiting) /\ r.over \in BOOLEAN
    BY <2>a, <1>1
  <2>3. r.out = IF j.waiting THEN <<>>
                     ELSE IF j.skipped /\ N = 1 THEN <<Error(j)>> ELSE <<Done(j)>>
    BY <2>1
  <2>4. CASE j.waiting
    BY <2>2, <2>3, <2>4, <1>3 DEF WasRead
  <2>5. CASE ~j.waiting
    <3>1. \E m \in Response : r.out = <<m>> /\ m.kind \in {"done", "error"} /\ m.id = j.id
      BY <2>3, <2>5, <1>2
    <3> QED BY <3>1, <2>2, <2>5, <1>3 DEF WasRead
  <2> QED BY <2>4, <2>5
<1>4. CASE j.confirmed /\ ~ok
  <2>1. r = [job |-> Advance(j), over |-> FALSE, out |-> <<Error(j)>>]
    BY <1>4 DEF ReadBlock
  <2>2. r.job \in TransferJob /\ r.job.id = j.id /\ Moved(j, r.job)
    BY <2>1, AdvanceMoves
  <2>3. r.over = FALSE /\ r.out = <<Error(j)>>
    BY <2>1
  <2> QED BY <2>2, <2>3, <1>2, <1>4 DEF WasRead
<1>5. ASSUME j.confirmed PROVE BlockOf(j) \in Response
  <2>1. j.num \in Files /\ j.stream \in Nat
    BY <1>1, <1>5, FilesAre
  <2>2. src[j.num] \in Nat /\ Blocks[j.num] \in Nat
    BY <2>1, BoundsAssumption, BlocksAssumption DEF Files, FC!Files
  <2>3. (IF j.stream < Blocks[j.num] THEN j.stream + 1 ELSE 0) \in Nat
    BY <2>1, <2>2
  <2> QED BY <2>2, <2>3, <1>1 DEF BlockOf, Response
<1>6. CASE j.confirmed /\ ok /\ j.stream < Blocks[j.num]
  <2>1. r = [job |-> [j EXCEPT !.stream = @ + 1], over |-> FALSE, out |-> <<BlockOf(j)>>]
    BY <1>6 DEF ReadBlock, BlockOf
  <2>2. r.job \in TransferJob /\ r.job.id = j.id /\ r.job.num = j.num
            /\ r.job.stream = j.stream + 1 /\ r.job.confirmed /\ r.job.waiting
    BY <2>1, <1>1, <1>6 DEF TransferJob
  <2>3. r.over = FALSE /\ r.out = <<BlockOf(j)>>
    BY <2>1
  <2> QED BY <2>2, <2>3, <1>5, <1>6 DEF WasRead
<1>7. CASE j.confirmed /\ ok /\ ~(j.stream < Blocks[j.num])
  <2>1. r = [job |-> Advance(j), over |-> FALSE, out |-> <<BlockOf(j)>>]
    BY <1>7 DEF ReadBlock, BlockOf
  <2>2. r.job \in TransferJob /\ r.job.id = j.id /\ Moved(j, r.job)
    BY <2>1, AdvanceMoves
  <2>3. r.over = FALSE /\ r.out = <<BlockOf(j)>>
    BY <2>1
  <2> QED BY <2>2, <2>3, <1>5, <1>7 DEF WasRead
<1> QED BY <1>3, <1>4, <1>6, <1>7

\* The step sends m.
Sent(m) == \E p \in DOMAIN toReceiver' : p > Len(toReceiver) /\ toReceiver'[p] = m

\* The step sends nothing about job id.
Silent(id) == \A p \in DOMAIN toReceiver' : p > Len(toReceiver) => toReceiver'[p].id # id

\* What the file timer may do to a job that goes on.
Ticked(j, k) ==
    /\ k.id = j.id
    /\ \/ /\ j.waiting \/ j.num >= N \/ Sent(Error(j))
          /\ Same(j, k) /\ (j.confirmed => Silent(j.id))
       \/ ~j.waiting /\ j.num < N /\ Asks(j, k)
       \/ (j.waiting => j.confirmed) /\ j.num < N /\ Moved(j, k) /\ Sent(Error(j))
       \/ /\ j.confirmed /\ j.stream < Blocks[j.num] /\ Sent(BlockOf(j))
          /\ k.num = j.num /\ k.stream = j.stream + 1 /\ k.confirmed /\ k.waiting
       \/ /\ j.confirmed /\ ~(j.stream < Blocks[j.num]) /\ Sent(BlockOf(j))
          /\ Moved(j, k)

\* What the file timer may send about a job.
TickedMsg(j, m) ==
    /\ m.id = j.id
    /\ \/ m.kind = "digest" /\ ~j.waiting /\ j.num < N /\ m = DigestOf(j)
       \/ m.kind = "error" /\ (j.waiting => j.confirmed)
       \/ m.kind = "done" /\ ~j.waiting
       \/ m.kind = "block" /\ j.confirmed /\ m = BlockOf(j)

\* A step of the file timer, job by job and message by message.
Tick ==
    /\ toReceiver' \in Seq(Response)
    /\ read_jobs' \in Seq(TransferJob)
    /\ \E x \in {0, 1} : \A i \in DOMAIN read_jobs' :
        i + x \in DOMAIN read_jobs /\ Ticked(read_jobs[i + x], read_jobs'[i])
    /\ \A p \in DOMAIN toReceiver : p \in DOMAIN toReceiver' /\ toReceiver'[p] = toReceiver[p]
    /\ \A p \in DOMAIN toReceiver' : p > Len(toReceiver) =>
        \E i \in DOMAIN read_jobs :
            /\ TickedMsg(read_jobs[i], toReceiver'[p])
            /\ toReceiver'[p].kind = "done" => read_jobs[i].num >= N \/
                \E q \in DOMAIN toReceiver' : q > Len(toReceiver) /\ q < p
                    /\ toReceiver'[q].kind = "error" /\ toReceiver'[q].id = read_jobs[i].id
    /\ \A p, q \in DOMAIN toReceiver' :
        p > Len(toReceiver) /\ p < q /\ toReceiver'[p].id = toReceiver'[q].id =>
            toReceiver'[p].kind = "error" /\ toReceiver'[q].kind \in {"done", "error"}

\* What a step of the file timer tells the peer, so that nobody waits for it:
\* a job that begins to wait has asked, a job that ends says so, and a job
\* that goes on after an error is in failed.
TickEnds ==
    /\ \A i \in DOMAIN read_jobs, k \in DOMAIN read_jobs' :
        read_jobs'[k].id = read_jobs[i].id /\ ~read_jobs[i].waiting /\ read_jobs'[k].waiting
            => Sent(DigestOf(read_jobs[i]))
    /\ \A i \in DOMAIN read_jobs :
        \/ \E k \in DOMAIN read_jobs' : read_jobs'[k].id = read_jobs[i].id
        \/ \E p \in DOMAIN toReceiver' :
            toReceiver'[p].kind \in {"done", "error"} /\ toReceiver'[p].id = read_jobs[i].id
    /\ \A k \in DOMAIN read_jobs' : read_jobs'[k].id \in failed => read_jobs'[k].id \in failed'
    /\ \A p \in DOMAIN toReceiver', k \in DOMAIN read_jobs' :
        p > Len(toReceiver) /\ toReceiver'[p].kind \in {"done", "error"}
            /\ toReceiver'[p].id = read_jobs'[k].id
        => toReceiver'[p].kind = "error" /\ read_jobs'[k].id \in failed'

\* What is sent is at most one message.
LEMMA OutIs ==
    ASSUME NEW m, NEW o, o = <<m>>
    PROVE  o # <<>> /\ o[1] = m /\ Len(o) = 1
OBVIOUS

\* Every reading job is in a state that Question allows.
LEMMA JobsOK ==
    ASSUME TypeOK, Question, NEW i \in DOMAIN read_jobs
    PROVE  JobOK(read_jobs[i]) /\ i \in Nat /\ i >= 1
<1>1. read_jobs[i] \in TransferJob /\ i \in Nat /\ i >= 1
  BY ElementOfSeq, LenProperties DEF TypeOK
<1> QED BY <1>1 DEF Question, JobOK

\* One message for a job: what the opening of its file sends.
LEMMA InitedMsg ==
    ASSUME NEW j, NEW o, Inited(j, o), o.out # <<>>
    PROVE  /\ TickedMsg(j, o.out[1]) /\ o.out[1].kind \in {"digest", "error"}
           /\ o.out[1].kind = "digest" => Asks(j, o.job)
           /\ o.out[1].kind = "error" => o.out[1] = Error(j)
<1>1. CASE o.out = <<DigestOf(j)>> /\ Asks(j, o.job) /\ ~j.waiting /\ ~j.confirmed /\ j.num < N
  <2>1. DigestOf(j).kind = "digest" /\ DigestOf(j).id = j.id
    BY DEF DigestOf
  <2> QED BY <1>1, <2>1, OutIs DEF TickedMsg
<1>2. CASE o.out = <<Error(j)>> /\ ~j.waiting /\ ~j.confirmed /\ j.num < N
  <2>1. Error(j).kind = "error" /\ Error(j).id = j.id
    BY DEF Error
  <2> QED BY <1>2, <2>1, OutIs DEF TickedMsg
<1> QED BY <1>1, <1>2 DEF Inited

\* The message of the job that is read, given what opening it did.
LEMMA ReadMsg ==
    ASSUME NEW j, JobOK(j), NEW o, Inited(j, o), NEW r, WasRead(o.job, r), r.out # <<>>
    PROVE  /\ TickedMsg(j, r.out[1]) /\ r.out[1] \in Response /\ Len(r.out) = 1
           /\ o.out # <<>> => o.out[1].kind = "error" /\ r.out[1].kind \in {"done", "error"}
           /\ r.out[1].kind = "done" /\ o.out = <<>> => j.num >= N
<1> DEFINE k == o.job
<1>1. /\ k.id = j.id /\ k \in TransferJob /\ j \in TransferJob
      /\ j.confirmed \in BOOLEAN /\ j.waiting \in BOOLEAN
  BY DEF Inited, JobOK, TransferJob
<1>2. CASE o.out = <<>> /\ Same(j, k) /\ (j.waiting \/ (j.num >= N /\ ~j.confirmed))
  <2>1. CASE (\E m \in Response : r.out = <<m>> /\ m.kind \in {"done", "error"} /\ m.id = k.id)
             /\ ~k.waiting /\ ~k.confirmed /\ r.over
    <3>1. PICK m \in Response : r.out = <<m>> /\ m.kind \in {"done", "error"} /\ m.id = k.id
      BY <2>1
    <3>2. ~j.waiting /\ j.num >= N
      BY <1>2, <2>1 DEF Same
    <3>3. r.out[1] = m /\ Len(r.out) = 1
      BY <3>1, OutIs
    <3> QED BY <3>1, <3>2, <3>3, <1>1, <1>2 DEF TickedMsg
  <2>2. CASE r.out = <<Error(k)>> /\ Error(k) \in Response /\ k.confirmed
    <3>1. Error(k).kind = "error" /\ Error(k).id = k.id
      BY DEF Error
    <3>2. r.out[1] = Error(k) /\ Len(r.out) = 1
      BY <2>2, OutIs
    <3> QED BY <3>1, <3>2, <2>2, <1>1, <1>2 DEF TickedMsg, Same
  <2>3. CASE r.out = <<BlockOf(k)>> /\ BlockOf(k) \in Response /\ k.confirmed
    <3>1. BlockOf(k) = BlockOf(j)
      BY <1>1, <1>2 DEF BlockOf, Same
    <3>2. BlockOf(j).kind = "block" /\ BlockOf(j).id = j.id
      BY DEF BlockOf
    <3>3. r.out[1] = BlockOf(j) /\ Len(r.out) = 1 /\ BlockOf(j) \in Response
      BY <2>3, <3>1, OutIs
    <3> QED BY <3>2, <3>3, <2>3, <1>1, <1>2 DEF TickedMsg, Same
  <2> QED BY <2>1, <2>2, <2>3 DEF WasRead
<1>3. CASE o.out = <<DigestOf(j)>> /\ Asks(j, k)
  BY <1>3 DEF WasRead, Asks
<1>4. CASE o.out = <<Error(j)>> /\ (Moved(j, k) \/ Same(j, k)) /\ ~j.waiting /\ ~j.confirmed
  <2>1. PICK m \in Response : r.out = <<m>> /\ m.kind \in {"done", "error"} /\ m.id = k.id
    BY <1>4 DEF WasRead, Moved, Same
  <2>2. r.out[1] = m /\ Len(r.out) = 1
    BY <2>1, OutIs
  <2>3. o.out[1].kind = "error" /\ o.out # <<>>
    BY <1>4, OutIs DEF Error
  <2> QED BY <2>1, <2>2, <2>3, <1>1, <1>4 DEF TickedMsg
<1> QED BY <1>2, <1>3, <1>4 DEF Inited

\* Where the elements of three joined sequences are, the last of length 0 or 1.
Joined(T, s, t, u, c) ==
    /\ c \in Seq(T)
    /\ \A p \in DOMAIN s : p \in DOMAIN c /\ c[p] = s[p]
    /\ \A k \in DOMAIN t :
        /\ k + Len(s) \in DOMAIN c /\ k + Len(s) > Len(s) /\ k + Len(s) <= Len(s) + Len(t)
        /\ c[k + Len(s)] = t[k]
    /\ Len(u) = 1 =>
        /\ Len(s) + Len(t) + 1 \in DOMAIN c /\ Len(s) + Len(t) + 1 > Len(s)
        /\ c[Len(s) + Len(t) + 1] = u[1]
    /\ \A p \in DOMAIN c : p > Len(s) =>
        \/ p - Len(s) \in DOMAIN t /\ c[p] = t[p - Len(s)] /\ p <= Len(s) + Len(t)
        \/ p = Len(s) + Len(t) + 1 /\ Len(u) = 1 /\ c[p] = u[1]
    /\ \A p \in DOMAIN c : p \in Nat

\* Concatenation, place by place.
LEMMA JoinedAt ==
    ASSUME NEW T, NEW s \in Seq(T), NEW t \in Seq(T), NEW u \in Seq(T),
           Len(u) \in {0, 1}, NEW c, c = (s \o t) \o u
    PROVE  Joined(T, s, t, u, c)
<1> DEFINE d == s \o t
           L == Len(s)
           M == Len(t)
<1>1. L \in Nat /\ M \in Nat /\ DOMAIN s = 1 .. L /\ DOMAIN t = 1 .. M
  BY LenProperties
<1>2. d \in Seq(T) /\ Len(d) = L + M
        /\ \A p \in 1 .. L + M : d[p] = IF p <= L THEN s[p] ELSE t[p - L]
  BY ConcatProperties
<1>3. c = d \o u
  OBVIOUS
<1> HIDE DEF d
<1>u. Len(u) \in Nat /\ u \in Seq(T)
  OBVIOUS
<1>a. d \o u \in Seq(T) /\ Len(d \o u) = Len(d) + Len(u)
        /\ \A p \in 1 .. Len(d) + Len(u) : (d \o u)[p] = IF p <= Len(d) THEN d[p] ELSE u[p - Len(d)]
  <2>1. d \in Seq(T)
    BY <1>2
  <2> QED BY <2>1, <1>u, ConcatProperties
<1>4. c \in Seq(T) /\ Len(c) = Len(d) + Len(u)
        /\ \A p \in 1 .. Len(d) + Len(u) : c[p] = IF p <= Len(d) THEN d[p] ELSE u[p - Len(d)]
  BY <1>3, <1>a
<1>5. DOMAIN c = 1 .. L + M + Len(u)
  BY <1>1, <1>2, <1>4, LenProperties
<1>6. \A p \in 1 .. L : p \in 1 .. L + M + Len(u) /\ c[p] = s[p]
  <2> TAKE p \in 1 .. L
  <2>1. p \in 1 .. L + M /\ p \in 1 .. L + M + Len(u) /\ p <= L /\ p <= L + M
    BY <1>1, <1>u
  <2> QED BY <2>1, <1>2, <1>4
<1>7. \A p \in L + 1 .. L + M : p \in 1 .. L + M + Len(u) /\ c[p] = t[p - L]
  BY <1>1, <1>2, <1>4
<1>8. Len(u) = 1 => L + M + 1 \in 1 .. L + M + Len(u) /\ c[L + M + 1] = u[1]
  <2>1. (L + M + 1) - (L + M) = 1
    BY <1>1
  <2> QED BY <2>1, <1>1, <1>2, <1>4
<1>9. \A k \in 1 .. M : k + L \in L + 1 .. L + M /\ (k + L) - L = k
  BY <1>1
<1>10. \A p \in 1 .. L + M + Len(u) : p > L =>
        \/ p \in L + 1 .. L + M /\ p - L \in 1 .. M
        \/ p = L + M + 1 /\ Len(u) = 1
  <2>1. CASE Len(u) = 0
    BY <2>1, <1>1
  <2>2. CASE Len(u) = 1
    BY <2>2, <1>1
  <2> QED BY <2>1, <2>2
<1>11. \A k \in DOMAIN t : k + L \in DOMAIN c /\ k + L > L /\ k + L <= L + M /\ c[k + L] = t[k]
  BY <1>1, <1>5, <1>7, <1>9
<1>12. \A p \in DOMAIN c : p > L =>
                \/ p - L \in DOMAIN t /\ c[p] = t[p - L] /\ p <= L + M
                \/ p = L + M + 1 /\ Len(u) = 1 /\ c[p] = u[1]
  BY <1>1, <1>5, <1>7, <1>8, <1>10
<1>13. Len(u) = 1 => L + M + 1 \in DOMAIN c /\ c[L + M + 1] = u[1] /\ L + M + 1 > L
  BY <1>1, <1>5, <1>8
<1>14. \A p \in DOMAIN c : p \in Nat
  BY <1>1, <1>5
<1>15. \A p \in DOMAIN s : p \in DOMAIN c /\ c[p] = s[p]
  BY <1>1, <1>5, <1>6
<1> QED BY <1>4, <1>11, <1>12, <1>13, <1>14, <1>15 DEF Joined

\* FileTimer is a Tick.
LEMMA TimerStep ==
    ASSUME TypeOK, Ids, Question, FileTimer
    PROVE  Tick /\ TickEnds /\ failed' \in SUBSET (1 .. MaxJobs) /\ faults' \in 0 .. MaxFaults
<1>1. PICK bad \in {None} \cup IF faults = MaxFaults THEN {}
                  ELSE {i \in DOMAIN read_jobs : /\ read_jobs[i].stream = None
                                                 /\ read_jobs[i].num < N}
                       \cup IF read_jobs[1].confirmed THEN {0} ELSE {}, stays \in BOOLEAN :
        LET inited == [i \in DOMAIN read_jobs |->
                        InitDataStream(read_jobs[i], bad # i, stays)]
            r == ReadBlock(inited[1].job, bad # 0)
            left == [i \in DOMAIN read_jobs |-> IF i = 1 THEN r.job ELSE inited[i].job]
        IN  /\ read_jobs' = IF r.over THEN Tail(left) ELSE left
            /\ toReceiver' = toReceiver
                    \o FlattenSeq([i \in DOMAIN read_jobs |-> inited[i].out]) \o r.out
            /\ faults' = IF bad = None THEN faults ELSE faults + 1
            /\ failed' = (failed \cup (IF bad = None THEN {}
                                       ELSE {read_jobs[IF bad = 0 THEN 1 ELSE bad].id}))
                         \ (IF r.over THEN {read_jobs[1].id} ELSE {})
  BY DEF FileTimer
<1> DEFINE inited == [i \in DOMAIN read_jobs |->
                        InitDataStream(read_jobs[i], bad # i, stays)]
           r == ReadBlock(inited[1].job, bad # 0)
           left == [i \in DOMAIN read_jobs |-> IF i = 1 THEN r.job ELSE inited[i].job]
           outs == [i \in DOMAIN read_jobs |-> inited[i].out]
           Flat == FlattenSeq(outs)
           L == Len(toReceiver)
           M == Len(Flat)
<1>2. /\ read_jobs' = IF r.over THEN Tail(left) ELSE left
      /\ toReceiver' = (toReceiver \o Flat) \o r.out
      /\ faults' = IF bad = None THEN faults ELSE faults + 1
      /\ failed' = (failed \cup (IF bad = None THEN {}
                                 ELSE {read_jobs[IF bad = 0 THEN 1 ELSE bad].id}))
                   \ (IF r.over THEN {read_jobs[1].id} ELSE {})
  BY <1>1, Zenon
<1>3. /\ src \in [Files -> 1 .. MaxVersion] /\ read_jobs \in Seq(TransferJob)
      /\ toReceiver \in Seq(Response) /\ read_jobs # <<>>
      /\ \A i \in DOMAIN read_jobs : JobOK(read_jobs[i]) /\ i \in Nat /\ i >= 1
  BY JobsOK DEF TypeOK, FileTimer
<1>4. DOMAIN read_jobs = 1 .. Len(read_jobs) /\ Len(read_jobs) \in Nat /\ 1 \in DOMAIN read_jobs
  BY <1>3, EmptySeq, LenProperties
<1>5. ASSUME NEW i \in DOMAIN read_jobs PROVE Inited(read_jobs[i], inited[i])
  <2>1. inited[i] = InitDataStream(read_jobs[i], bad # i, stays) /\ (bad # i) \in BOOLEAN
    OBVIOUS
  <2>2. JobOK(read_jobs[i])
    BY <1>3
  <2> HIDE DEF inited
  <2> QED BY <2>1, <2>2, <1>3, InitResult
<1>6. WasRead(inited[1].job, r)
  <2>1. r = ReadBlock(inited[1].job, bad # 0) /\ (bad # 0) \in BOOLEAN
    OBVIOUS
  <2>2. Inited(read_jobs[1], inited[1]) /\ JobOK(read_jobs[1])
    BY <1>5, <1>4, <1>3
  <2> HIDE DEF inited, r
  <2>3. inited[1].job \in TransferJob
    BY <2>2 DEF Inited
  <2>4. inited[1].job.confirmed => inited[1].job.waiting /\ inited[1].job.stream \in Nat
                  /\ inited[1].job.num < N
    <3>1. inited[1].job.stream \in Nat \cup {None} /\ inited[1].job.confirmed \in BOOLEAN
      BY <2>3 DEF TransferJob
    <3> QED BY <2>2, <3>1 DEF Inited, JobOK, Same, Asks, Moved
  <2> QED BY <2>1, <2>3, <2>4, <1>3, ReadResult
<1>7. outs \in Seq(Seq(Response)) /\ DOMAIN outs = DOMAIN read_jobs
        /\ \A i \in DOMAIN outs : outs[i] = inited[i].out /\ Len(outs[i]) <= 1
  <2>1. \A i \in DOMAIN read_jobs : inited[i].out \in Seq(Response) /\ Len(inited[i].out) <= 1
    BY <1>5 DEF Inited
  <2> HIDE DEF inited
  <2>2. DOMAIN outs = 1 .. Len(read_jobs) /\ \A i \in 1 .. Len(read_jobs) : outs[i] = inited[i].out
    BY <1>4
  <2>3. outs \in [1 .. Len(read_jobs) -> Seq(Response)]
    BY <2>1, <1>4
  <2>4. outs \in Seq(Seq(Response))
    BY <2>3, <1>4, IsASeq
  <2> QED BY <2>1, <2>2, <2>4, <1>4
<1> HIDE DEF inited, r, left, outs
<1>f. Flattened(Response, outs, Flat)
  BY <1>7, FlattenAt
<1> HIDE DEF Flat
<1>8. Flat \in Seq(Response)
  BY <1>f DEF Flattened
<1>9. PICK g \in [DOMAIN Flat -> DOMAIN outs] :
        /\ \A k, l \in DOMAIN Flat : k < l => g[k] < g[l]
        /\ \A k \in DOMAIN Flat : outs[g[k]] # <<>> /\ Flat[k] = outs[g[k]][1]
        /\ \A i \in DOMAIN outs : outs[i] # <<>> => \E k \in DOMAIN Flat : g[k] = i
  BY <1>f DEF Flattened
<1>10. L \in Nat /\ M \in Nat /\ DOMAIN toReceiver = 1 .. L /\ DOMAIN Flat = 1 .. M
  BY <1>3, <1>8, LenProperties
<1>o. Len(r.out) \in {0, 1} /\ r.out \in Seq(Response) /\ (r.out # <<>> => Len(r.out) = 1)
        /\ (Len(r.out) = 0 => r.out = <<>>) /\ (r.out = <<>> => Len(r.out) = 0)
  <2>1. CASE r.out = <<>>
    BY <2>1
  <2>2. CASE r.out # <<>>
    <3>1. Len(r.out) = 1 /\ r.out[1] \in Response
      BY <2>2, <1>6, <1>5, <1>4, <1>3, ReadMsg
    <3>2. \E m \in Response : r.out = <<m>>
      BY <2>2, <1>6 DEF WasRead
    <3> QED BY <3>1, <3>2, <2>2
  <2> QED BY <2>1, <2>2
<1>11. /\ toReceiver' \in Seq(Response)
       /\ \A p \in DOMAIN toReceiver : p \in DOMAIN toReceiver' /\ toReceiver'[p] = toReceiver[p]
       /\ \A k \in DOMAIN Flat : /\ k + L \in DOMAIN toReceiver' /\ k + L > L /\ k + L <= L + M
                                /\ toReceiver'[k + L] = Flat[k]
       /\ Len(r.out) = 1 => /\ L + M + 1 \in DOMAIN toReceiver' /\ L + M + 1 > L
                            /\ toReceiver'[L + M + 1] = r.out[1]
       /\ \A p \in DOMAIN toReceiver' : p > L =>
            \/ p - L \in DOMAIN Flat /\ toReceiver'[p] = Flat[p - L] /\ p <= L + M
            \/ p = L + M + 1 /\ Len(r.out) = 1 /\ toReceiver'[p] = r.out[1]
       /\ \A p \in DOMAIN toReceiver' : p \in Nat
  <2>1. Joined(Response, toReceiver, Flat, r.out, toReceiver')
    BY <1>2, <1>3, <1>8, <1>o, JoinedAt
  <2> QED BY <2>1 DEF Joined
\* What the new messages are.
<1>12. ASSUME NEW p \in DOMAIN toReceiver', p > L
       PROVE  \/ p - L \in DOMAIN Flat /\ toReceiver'[p] = Flat[p - L] /\ p <= L + M
              \/ p = L + M + 1 /\ r.out # <<>> /\ toReceiver'[p] = r.out[1]
  BY <1>12, <1>11, <1>o
<1>13. ASSUME NEW k \in DOMAIN Flat
       PROVE  /\ g[k] \in DOMAIN read_jobs /\ inited[g[k]].out # <<>>
              /\ Flat[k] = inited[g[k]].out[1]
              /\ TickedMsg(read_jobs[g[k]], Flat[k]) /\ Flat[k].kind \in {"digest", "error"}
              /\ Flat[k].id = read_jobs[g[k]].id
  <2>1. g[k] \in DOMAIN read_jobs /\ inited[g[k]].out # <<>> /\ Flat[k] = inited[g[k]].out[1]
    BY <1>9, <1>7
  <2>2. TickedMsg(read_jobs[g[k]], inited[g[k]].out[1])
            /\ inited[g[k]].out[1].kind \in {"digest", "error"}
    BY <2>1, <1>5, InitedMsg
  <2> QED BY <2>1, <2>2 DEF TickedMsg
<1>14. ASSUME r.out # <<>>
       PROVE  /\ TickedMsg(read_jobs[1], r.out[1])
              /\ inited[1].out # <<>> => inited[1].out[1].kind = "error"
                                         /\ r.out[1].kind \in {"done", "error"}
              /\ r.out[1].kind = "done" /\ inited[1].out = <<>> => read_jobs[1].num >= N
  BY <1>14, <1>3, <1>4, <1>5, <1>6, ReadMsg
<1>15. ASSUME NEW i \in DOMAIN read_jobs, inited[i].out # <<>>
       PROVE  \E k \in DOMAIN Flat : g[k] = i /\ k + L \in DOMAIN toReceiver'
                    /\ k + L > L /\ toReceiver'[k + L] = inited[i].out[1] /\ k + L <= L + M
  <2>1. PICK k \in DOMAIN Flat : g[k] = i
    BY <1>15, <1>9, <1>7
  <2> QED BY <2>1, <1>11, <1>13
<1>16. \A p \in DOMAIN toReceiver : p \in DOMAIN toReceiver' /\ toReceiver'[p] = toReceiver[p]
  BY <1>11
<1>17. \A p \in DOMAIN toReceiver' : p > L =>
        \E i \in DOMAIN read_jobs :
            /\ TickedMsg(read_jobs[i], toReceiver'[p])
            /\ toReceiver'[p].kind = "done" => read_jobs[i].num >= N \/
                \E q \in DOMAIN toReceiver' : q > L /\ q < p
                    /\ toReceiver'[q].kind = "error" /\ toReceiver'[q].id = read_jobs[i].id
  <2> TAKE p \in DOMAIN toReceiver'
  <2> HAVE p > L
  <2>1. CASE p - L \in DOMAIN Flat /\ toReceiver'[p] = Flat[p - L]
    <3>1. g[p - L] \in DOMAIN read_jobs /\ TickedMsg(read_jobs[g[p - L]], toReceiver'[p])
            /\ toReceiver'[p].kind # "done"
      BY <2>1, <1>13
    <3> QED BY <3>1
  <2>2. CASE p = L + M + 1 /\ r.out # <<>> /\ toReceiver'[p] = r.out[1]
    <3>1. TickedMsg(read_jobs[1], toReceiver'[p]) /\ 1 \in DOMAIN read_jobs
      BY <2>2, <1>14, <1>4
    <3>2. ASSUME toReceiver'[p].kind = "done", ~(read_jobs[1].num >= N)
          PROVE \E q \in DOMAIN toReceiver' : q > L /\ q < p
                    /\ toReceiver'[q].kind = "error" /\ toReceiver'[q].id = read_jobs[1].id
      <4>1. inited[1].out # <<>> /\ inited[1].out[1].kind = "error"
        BY <2>2, <3>2, <1>14
      <4>2. PICK k \in DOMAIN Flat : g[k] = 1 /\ k + L \in DOMAIN toReceiver'
                    /\ k + L > L /\ toReceiver'[k + L] = inited[1].out[1] /\ k + L <= L + M
        BY <4>1, <3>1, <1>15
      <4>3. inited[1].out[1].id = read_jobs[1].id
        BY <4>1, <1>5, <3>1, InitedMsg DEF TickedMsg
      <4>4. k + L < p
        BY <4>2, <2>2, <1>10
      <4> QED BY <4>1, <4>2, <4>3, <4>4
    <3> QED BY <3>1, <3>2
  <2> QED BY <2>1, <2>2, <1>12
<1>18. \A p, q \in DOMAIN toReceiver' :
        p > L /\ p < q /\ toReceiver'[p].id = toReceiver'[q].id =>
            toReceiver'[p].kind = "error" /\ toReceiver'[q].kind \in {"done", "error"}
  <2> TAKE p, q \in DOMAIN toReceiver'
  <2> HAVE p > L /\ p < q /\ toReceiver'[p].id = toReceiver'[q].id
  <2>0. p \in Nat /\ q \in Nat /\ q > L
    BY <1>10, <1>11
  <2>a. q <= L + M + 1
    BY <2>0, <1>12, <1>10
  <2>1. p - L \in DOMAIN Flat /\ toReceiver'[p] = Flat[p - L]
    <3>1. ~(p = L + M + 1)
      BY <2>0, <2>a, <1>10
    <3> QED BY <3>1, <1>12
  <2>2. CASE q - L \in DOMAIN Flat /\ toReceiver'[q] = Flat[q - L]
    <3>1. g[p - L] < g[q - L] /\ g[p - L] \in DOMAIN read_jobs /\ g[q - L] \in DOMAIN read_jobs
      BY <2>0, <2>1, <2>2, <1>9, <1>10, <1>13
    <3>2. read_jobs[g[p - L]].id = read_jobs[g[q - L]].id
      BY <2>1, <2>2, <1>13
    <3>3. g[p - L] = g[q - L]
      BY <3>1, <3>2 DEF Ids
    <3> QED BY <3>1, <3>3, <1>4
  <2>3. CASE q = L + M + 1 /\ r.out # <<>> /\ toReceiver'[q] = r.out[1]
    <3>1. read_jobs[g[p - L]].id = read_jobs[1].id /\ g[p - L] \in DOMAIN read_jobs
      BY <2>1, <2>3, <1>13, <1>14 DEF TickedMsg
    <3>2. g[p - L] = 1
      BY <3>1, <1>4 DEF Ids
    <3>3. inited[1].out # <<>> /\ Flat[p - L] = inited[1].out[1]
      BY <3>2, <2>1, <1>13
    <3> QED BY <3>3, <2>1, <2>3, <1>14
  <2> QED BY <2>2, <2>3, <2>0, <1>12
\* What becomes of the jobs.
<1>19. ASSUME NEW i \in DOMAIN read_jobs, i = 1 => ~r.over
       PROVE  Ticked(read_jobs[i], left[i]) /\ left[i] \in TransferJob
  <2>1. Inited(read_jobs[i], inited[i]) /\ JobOK(read_jobs[i])
    BY <1>5, <1>3
  <2>2. ASSUME inited[i].out # <<>>, inited[i].out[1] = Error(read_jobs[i])
        PROVE  Sent(Error(read_jobs[i]))
    BY <2>2, <1>15, <1>10 DEF Sent
  <2>3. CASE i # 1
    <3>1. left[i] = inited[i].job
      BY <2>3 DEF left
    <3>2. CASE inited[i].out = <<Error(read_jobs[i])>>
      <4>1. Sent(Error(read_jobs[i]))
        BY <3>2, <2>2, OutIs
      <4> QED BY <3>1, <3>2, <4>1, <2>1 DEF Inited, Ticked
    <3>3. CASE inited[i].out = <<>>
      <4>1. ASSUME NEW p \in DOMAIN toReceiver', p > L, toReceiver'[p].id = read_jobs[i].id
            PROVE  FALSE
        <5>1. CASE p - L \in DOMAIN Flat /\ toReceiver'[p] = Flat[p - L]
          <6>1. g[p - L] \in DOMAIN read_jobs /\ read_jobs[g[p - L]].id = read_jobs[i].id
                  /\ inited[g[p - L]].out # <<>>
            BY <4>1, <5>1, <1>13
          <6>2. g[p - L] = i
            BY <6>1 DEF Ids
          <6> QED BY <6>1, <6>2, <3>3
        <5>2. CASE r.out # <<>> /\ toReceiver'[p] = r.out[1]
          <6>1. read_jobs[1].id = read_jobs[i].id
            BY <4>1, <5>2, <1>14 DEF TickedMsg
          <6> QED BY <6>1, <2>3, <1>4 DEF Ids
        <5> QED BY <5>1, <5>2, <4>1, <1>12
      <4>2. Silent(read_jobs[i].id)
        BY <4>1 DEF Silent
      <4>3. Same(read_jobs[i], left[i]) /\ left[i].id = read_jobs[i].id /\ left[i] \in TransferJob
              /\ (read_jobs[i].waiting \/ read_jobs[i].num >= N)
        <5>1. \A m : <<m>> # <<>>
          OBVIOUS
        <5> QED BY <5>1, <3>1, <3>3, <2>1 DEF Inited
      <4> QED BY <4>2, <4>3 DEF Ticked
    <3>4. CASE inited[i].out # <<Error(read_jobs[i])>> /\ inited[i].out # <<>>
      BY <3>1, <3>4, <2>1 DEF Inited, Ticked
    <3> QED BY <3>2, <3>3, <3>4
  <2>4. CASE i = 1
    <3>1. left[1] = r.job
      BY <1>4 DEF left
    <3> DEFINE j == read_jobs[1]
               k == inited[1].job
    <3>j. /\ j \in TransferJob /\ k \in TransferJob /\ r.job \in TransferJob
          /\ j.num \in Nat /\ N \in Nat /\ j.stream \in Nat \cup {None}
          /\ j.waiting \in BOOLEAN /\ j.confirmed \in BOOLEAN /\ k.id = j.id /\ r.job.id = j.id
      BY <2>1, <2>4, <1>6, NAssumption DEF Inited, WasRead, JobOK, TransferJob
    <3>2. CASE r.out = <<>> /\ k.waiting /\ ~k.confirmed /\ r.job = k
      <4>1. ~Moved(j, k) /\ (Same(j, k) => j.waiting /\ ~j.confirmed)
        BY <3>2 DEF Moved, Same
      <4>2. (Same(j, k) /\ j.waiting /\ ~j.confirmed) \/ (~j.waiting /\ j.num < N /\ Asks(j, k))
        BY <4>1, <2>1, <2>4 DEF Inited
      <4> QED BY <4>2, <3>2, <3>1, <3>j, <2>4 DEF Ticked
    <3>3. CASE k.confirmed
      <4>1. Same(j, k) /\ j.waiting /\ j.confirmed /\ j.num < N
        BY <3>3, <2>1, <2>4 DEF Inited, Same, Asks, Moved, JobOK
      <4>2. BlockOf(k) = BlockOf(j) /\ Error(k) = Error(j)
        BY <4>1, <3>j DEF Same, BlockOf, Error
      <4>3. ASSUME NEW m, r.out = <<m>> PROVE Sent(m)
        <5>1. r.out # <<>> /\ r.out[1] = m
          BY <4>3, OutIs
        <5>2. L + M + 1 \in DOMAIN toReceiver' /\ L + M + 1 > L
          BY <5>1, <1>11, <1>o
        <5> QED BY <5>1, <5>2, <1>11, <1>o DEF Sent
      <4>4. CASE r.out = <<Error(k)>> /\ Moved(k, r.job)
        <5>1. Sent(Error(j)) /\ Moved(j, r.job)
          BY <4>1, <4>2, <4>3, <4>4 DEF Moved, Same
        <5> QED BY <5>1, <4>1, <3>1, <3>j, <2>4 DEF Ticked
      <4>5. CASE /\ r.out = <<BlockOf(k)>> /\ k.stream < Blocks[k.num]
                 /\ r.job.num = k.num /\ r.job.stream = k.stream + 1
                 /\ r.job.confirmed /\ r.job.waiting
        <5>1. Sent(BlockOf(j)) /\ j.stream < Blocks[j.num] /\ r.job.num = j.num
                /\ r.job.stream = j.stream + 1
          BY <4>1, <4>2, <4>3, <4>5 DEF Same
        <5> QED BY <5>1, <4>1, <4>5, <3>1, <3>j, <2>4 DEF Ticked
      <4>6. CASE r.out = <<BlockOf(k)>> /\ ~(k.stream < Blocks[k.num]) /\ Moved(k, r.job)
        <5>1. Sent(BlockOf(j)) /\ ~(j.stream < Blocks[j.num]) /\ Moved(j, r.job)
          BY <4>1, <4>2, <4>3, <4>6 DEF Moved, Same
        <5> QED BY <5>1, <4>1, <3>1, <3>j, <2>4 DEF Ticked
      <4> QED BY <4>4, <4>5, <4>6, <3>3, <1>6 DEF WasRead
    <3> QED BY <3>2, <3>3, <2>4, <1>19, <1>6 DEF WasRead
  <2> QED BY <2>3, <2>4
<1>20. left \in [1 .. Len(read_jobs) -> TransferJob]
  <2>1. \A i \in DOMAIN read_jobs : inited[i].job \in TransferJob
    BY <1>5 DEF Inited
  <2>2. r.job \in TransferJob
    BY <1>6 DEF WasRead
  <2> QED BY <2>1, <2>2, <1>4 DEF left
<1>21. left \in Seq(TransferJob) /\ DOMAIN left = DOMAIN read_jobs /\ left # <<>>
  <2>1. left \in Seq(TransferJob)
    BY <1>20, <1>4, IsASeq
  <2> QED BY <2>1, <1>20, <1>4, EmptySeq
<1>t. ASSUME r.over
      PROVE  /\ read_jobs' \in Seq(TransferJob)
             /\ \A p \in DOMAIN read_jobs' : p + 1 \in DOMAIN read_jobs /\ p + 1 # 1
                        /\ read_jobs'[p] = left[p + 1]
             /\ \A i \in DOMAIN read_jobs : i # 1 =>
                    \E k \in DOMAIN read_jobs' : read_jobs'[k] = left[i]
  <2>1. read_jobs' = Tail(left)
    BY <1>t, <1>2
  <2>2. /\ Tail(left) \in Seq(TransferJob)
        /\ \A p \in DOMAIN Tail(left) : p \in Nat /\ p + 1 \in DOMAIN left
                        /\ Tail(left)[p] = left[p + 1]
        /\ \A p \in DOMAIN left : p \in Nat /\ p >= 1 /\ (p > 1 => p - 1 \in DOMAIN Tail(left))
    BY <1>21, TailAt
  <2>3. \A p \in DOMAIN Tail(left) : p >= 1
    BY <2>2, LenProperties
  <2>4. \A i \in DOMAIN left : i # 1 => i > 1 /\ (i - 1) + 1 = i
    BY <2>2
  <2>5. \A i \in DOMAIN left : i # 1 => i - 1 \in DOMAIN Tail(left) /\ Tail(left)[i - 1] = left[i]
    BY <2>2, <2>4
  <2> QED BY <2>1, <2>2, <2>3, <2>5, <1>21
<1>22. /\ read_jobs' \in Seq(TransferJob)
       /\ \E x \in {0, 1} : \A i \in DOMAIN read_jobs' :
            i + x \in DOMAIN read_jobs /\ Ticked(read_jobs[i + x], read_jobs'[i])
  <2>1. CASE r.over
    BY <2>1, <1>t, <1>19
  <2>2. CASE ~r.over
    <3>1. read_jobs' = left
      BY <2>2, <1>2
    <3>2. \A i \in DOMAIN left : i + 0 = i
      BY <1>21, <1>4
    <3>3. \A i \in DOMAIN left : i + 0 \in DOMAIN read_jobs /\ Ticked(read_jobs[i + 0], left[i])
      BY <3>2, <1>19, <1>21, <2>2
    <3> QED BY <3>1, <3>3, <1>21
  <2> QED BY <2>1, <2>2
<1>23. Tick
  BY <1>11, <1>16, <1>17, <1>18, <1>22 DEF Tick
<1>24. faults' \in 0 .. MaxFaults
  <2>1. bad # None => faults # MaxFaults
    BY <1>1
  <2> QED BY <2>1, <1>2, BoundsAssumption DEF TypeOK
<1>25. failed' \in SUBSET (1 .. MaxJobs)
  <2>1. bad # None => (IF bad = 0 THEN 1 ELSE bad) \in DOMAIN read_jobs
    BY <1>1, <1>4
  <2>2. \A i \in DOMAIN read_jobs : read_jobs[i].id \in 1 .. MaxJobs
    BY BoundsAssumption DEF Ids, TypeOK
  <2>3. bad # None => read_jobs[IF bad = 0 THEN 1 ELSE bad].id \in 1 .. MaxJobs
    BY <2>1, <2>2
  <2>4. failed \in SUBSET (1 .. MaxJobs)
    BY DEF TypeOK
  <2> QED BY <2>3, <2>4, <1>2
\* What the peer is told.
<1>26. ASSUME NEW i \in DOMAIN read_jobs, NEW k \in DOMAIN read_jobs',
              read_jobs'[k].id = read_jobs[i].id
       PROVE  (i = 1 => ~r.over) /\ read_jobs'[k] = left[i]
  <2>1. CASE r.over
    <3>1. k + 1 \in DOMAIN read_jobs /\ k + 1 # 1 /\ read_jobs'[k] = left[k + 1]
      BY <2>1, <1>t
    <3>2. left[k + 1].id = read_jobs[k + 1].id
      BY <3>1, <1>19 DEF Ticked
    <3>3. k + 1 = i
      BY <3>1, <3>2, <1>26 DEF Ids
    <3> QED BY <3>1, <3>3
  <2>2. CASE ~r.over
    <3>1. k \in DOMAIN read_jobs /\ read_jobs'[k] = left[k]
      BY <2>2, <1>2, <1>21
    <3>2. left[k].id = read_jobs[k].id
      BY <3>1, <2>2, <1>19 DEF Ticked
    <3>3. k = i
      BY <3>1, <3>2, <1>26 DEF Ids
    <3> QED BY <3>1, <3>3, <2>2
  <2> QED BY <2>1, <2>2
<1>27. ASSUME NEW i \in DOMAIN read_jobs, NEW k \in DOMAIN read_jobs',
              read_jobs'[k].id = read_jobs[i].id, ~read_jobs[i].waiting, read_jobs'[k].waiting
       PROVE  Sent(DigestOf(read_jobs[i]))
  <2>1. (i = 1 => ~r.over) /\ left[i].waiting
    BY <1>27, <1>26
  <2>2. Inited(read_jobs[i], inited[i])
    BY <1>5
  <2>3. inited[i].job.waiting
    <3>1. CASE i # 1
      BY <3>1, <2>1 DEF left
    <3>2. CASE i = 1
      <4>1. r.job.waiting /\ ~r.over
        BY <3>2, <2>1, <1>4 DEF left
      <4>2. ~inited[1].job.confirmed
        <5>1. JobOK(read_jobs[1])
          BY <1>3, <1>4
        <5> QED BY <5>1, <2>2, <3>2, <1>27 DEF Inited, JobOK, Same, Asks, Moved
      <4> QED BY <4>1, <4>2, <3>2, <1>6 DEF WasRead
    <3> QED BY <3>1, <3>2
  <2>4. inited[i].out = <<DigestOf(read_jobs[i])>>
    BY <2>2, <2>3, <1>27 DEF Inited, Same, Moved
  <2>5. inited[i].out # <<>> /\ inited[i].out[1] = DigestOf(read_jobs[i])
    BY <2>4, OutIs
  <2> QED BY <2>5, <1>15 DEF Sent
<1>28. ASSUME NEW i \in DOMAIN read_jobs,
              ~ \E k \in DOMAIN read_jobs' : read_jobs'[k].id = read_jobs[i].id
       PROVE  \E p \in DOMAIN toReceiver' :
                toReceiver'[p].kind \in {"done", "error"} /\ toReceiver'[p].id = read_jobs[i].id
  <2>1. r.over /\ i = 1
    <3>1. CASE ~r.over
      <4>1. i \in DOMAIN read_jobs' /\ read_jobs'[i] = left[i]
        BY <3>1, <1>2, <1>21
      <4>2. left[i].id = read_jobs[i].id
        BY <3>1, <1>19 DEF Ticked
      <4> QED BY <4>1, <4>2, <1>28
    <3>2. CASE i # 1 /\ r.over
      <4>1. left[i].id = read_jobs[i].id
        BY <3>2, <1>19 DEF Ticked
      <4> QED BY <4>1, <3>2, <1>t, <1>28
    <3> QED BY <3>1, <3>2
  <2>2. PICK m \in Response : r.out = <<m>> /\ m.kind \in {"done", "error"}
                                /\ m.id = inited[1].job.id
    BY <2>1, <1>6 DEF WasRead
  <2>3. inited[1].job.id = read_jobs[1].id
    BY <1>4, <1>5 DEF Inited
  <2>4. r.out # <<>> /\ r.out[1] = m
    BY <2>2, OutIs
  <2>5. L + M + 1 \in DOMAIN toReceiver' /\ toReceiver'[L + M + 1] = m
    BY <2>4, <1>11, <1>o
  <2> QED BY <2>1, <2>2, <2>3, <2>5
<1>29. ASSUME NEW k \in DOMAIN read_jobs'
       PROVE  \E i \in DOMAIN read_jobs : read_jobs'[k].id = read_jobs[i].id /\ (i = 1 => ~r.over)
  <2>1. \E i \in DOMAIN read_jobs : read_jobs'[k].id = read_jobs[i].id
    BY <1>22 DEF Ticked
  <2> QED BY <2>1, <1>26
<1>30. ASSUME NEW k \in DOMAIN read_jobs'
       PROVE  /\ read_jobs'[k].id \in failed => read_jobs'[k].id \in failed'
              /\ \A i \in DOMAIN read_jobs : read_jobs'[k].id = read_jobs[i].id
                    /\ (bad = i \/ (bad = 0 /\ i = 1)) => read_jobs'[k].id \in failed'
  <2>1. PICK i \in DOMAIN read_jobs : read_jobs'[k].id = read_jobs[i].id /\ (i = 1 => ~r.over)
    BY <1>29
  <2>2. r.over => read_jobs[i].id # read_jobs[1].id
    BY <2>1, <1>4 DEF Ids
  <2>3. \A h \in DOMAIN read_jobs : read_jobs'[k].id = read_jobs[h].id => h = i
    BY <2>1 DEF Ids
  <2>4. i # None /\ 0 # None /\ i # 0
    BY <1>3, NoneAssumption
  <2>5. read_jobs'[k].id \notin (IF r.over THEN {read_jobs[1].id} ELSE {})
    BY <2>1, <2>2
  <2>6. read_jobs'[k].id \in failed => read_jobs'[k].id \in failed'
    BY <2>5, <1>2
  <2>7. ASSUME bad = i \/ (bad = 0 /\ i = 1)
        PROVE  read_jobs'[k].id \in failed'
    <3>1. bad # None /\ (IF bad = 0 THEN 1 ELSE bad) = i
      BY <2>4, <2>7
    <3> QED BY <3>1, <2>1, <2>5, <1>2
  <2> QED BY <2>3, <2>6, <2>7
<1>31. ASSUME NEW i \in DOMAIN read_jobs, inited[i].out # <<>>, inited[i].out[1].kind = "error"
       PROVE  bad = i
  <2> SUFFICES ASSUME bad # i PROVE FALSE
    OBVIOUS
  <2>1. inited[i] = InitDataStream(read_jobs[i], TRUE, stays)
    BY DEF inited
  <2>2. inited[i].out = <<>> \/ inited[i].out = <<DigestOf(read_jobs[i])>>
    BY <2>1 DEF InitDataStream, DigestOf
  <2>3. inited[i].out[1] = DigestOf(read_jobs[i])
    BY <2>2, <1>31, OutIs
  <2> QED BY <2>3, <1>31 DEF DigestOf
<1>32. ASSUME r.out # <<>>, r.out[1].kind \in {"done", "error"}, ~r.over
       PROVE  bad = 0 /\ r.out[1].kind = "error"
  <2> DEFINE j == inited[1].job
  <2>1. CASE \E m \in Response : r.out = <<m>> /\ m.kind \in {"done", "error"} /\ r.over
    BY <2>1, <1>32
  <2>2. CASE r.out = <<BlockOf(j)>>
    <3>1. r.out[1] = BlockOf(j)
      BY <2>2, OutIs
    <3> QED BY <3>1, <1>32 DEF BlockOf
  <2>3. CASE r.out = <<Error(j)>> /\ j.confirmed
    <3>1. r.out[1] = Error(j)
      BY <2>3, OutIs
    <3>2. ASSUME bad # 0 PROVE FALSE
      <4>1. r = ReadBlock(j, TRUE)
        BY <3>2 DEF r
      <4>2. r.out = <<BlockOf(j)>>
        BY <4>1, <2>3 DEF ReadBlock, BlockOf
      <4>3. r.out[1] = BlockOf(j)
        BY <4>2, OutIs
      <4> QED BY <4>3, <3>1 DEF BlockOf, Error
    <3> QED BY <3>1, <3>2 DEF Error
  <2> QED BY <2>1, <2>2, <2>3, <1>32, <1>6 DEF WasRead
<1>33. ASSUME NEW p \in DOMAIN toReceiver', NEW k \in DOMAIN read_jobs', p > L,
              toReceiver'[p].kind \in {"done", "error"}, toReceiver'[p].id = read_jobs'[k].id
       PROVE  toReceiver'[p].kind = "error" /\ read_jobs'[k].id \in failed'
  <2>1. CASE p - L \in DOMAIN Flat /\ toReceiver'[p] = Flat[p - L]
    <3> DEFINE i == g[p - L]
    <3>1. /\ i \in DOMAIN read_jobs /\ inited[i].out # <<>> /\ toReceiver'[p] = inited[i].out[1]
          /\ toReceiver'[p].kind \in {"digest", "error"} /\ toReceiver'[p].id = read_jobs[i].id
      BY <2>1, <1>13
    <3> HIDE DEF i
    <3>2. toReceiver'[p].kind = "error"
      BY <3>1, <1>33
    <3>3. bad = i
      BY <3>1, <3>2, <1>31
    <3> QED BY <3>1, <3>2, <3>3, <1>30, <1>33
  <2>2. CASE r.out # <<>> /\ toReceiver'[p] = r.out[1]
    <3>1. read_jobs'[k].id = read_jobs[1].id
      BY <2>2, <1>14, <1>33 DEF TickedMsg
    <3>2. ~r.over
      BY <3>1, <1>4, <1>26
    <3>3. bad = 0 /\ r.out[1].kind = "error"
      BY <2>2, <3>2, <1>32, <1>33
    <3> QED BY <3>1, <3>3, <2>2, <1>4, <1>30
  <2> QED BY <2>1, <2>2, <1>12, <1>33
<1>34. TickEnds
  BY <1>27, <1>28, <1>30, <1>33 DEF TickEnds
<1> QED BY <1>23, <1>24, <1>25, <1>34

-----------------------------------------------------------------------------
(***************************************************************************)
(* The directory.                                                          *)
(***************************************************************************)

\* What is found under a name.
ContentOrNone == FC!Content \cup {None}

\* The client's directory.
DiskType == [final : [Files -> ContentOrNone],
             download : [Files -> ContentOrNone],
             digest : [Files -> Nat \cup {None}]]

\* What is in f.digest: a version, or nothing.
Digest == Nat \cup {None}

\* Contents are not None, and the empty file is one.
LEMMA ContentIs ==
    /\ FC!Empty \in FC!Content /\ None \notin FC!Content
    /\ FC!Empty.len = 0 /\ FC!Empty.ok /\ FC!Empty.ver = 0
    /\ \A c \in ContentOrNone : c # None => c \in FC!Content
    /\ \A c \in FC!Content : c.ver \in Nat /\ c.len \in Nat /\ c.ok \in BOOLEAN
BY NoneAssumption DEF FC!Empty, FC!Content, ContentOrNone

\* write_all appends a block, and nothing for the mark of the end.
LEMMA WriteAllIs ==
    ASSUME NEW c \in FC!Content, NEW m, m.idx \in Nat, m.ver \in Nat
    PROVE  /\ WriteAll(c, m) \in FC!Content /\ WriteAll(c, m) # None
           /\ m.idx = 0 => WriteAll(c, m) = c
           /\ m.idx # 0 => /\ WriteAll(c, m).ver = m.ver
                           /\ WriteAll(c, m).len = c.len + 1
                           /\ WriteAll(c, m).ok <=>
                                c.ok /\ m.idx = c.len + 1 /\ (c.len = 0 \/ c.ver = m.ver)
<1>1. c.ver \in Nat /\ c.len \in Nat /\ c.ok \in BOOLEAN
  BY DEF FC!Content
<1>2. CASE m.idx = 0
  BY <1>2, ContentIs DEF WriteAll
<1>3. CASE m.idx # 0
  <2> DEFINE b == c.ok /\ m.idx = c.len + 1 /\ (c.len = 0 \/ c.ver = m.ver)
             l == c.len + 1
  <2>1. WriteAll(c, m) = [ver |-> m.ver, len |-> l, ok |-> b]
    BY <1>3 DEF WriteAll
  <2>2. l \in Nat /\ b \in BOOLEAN
    BY <1>1
  <2> HIDE DEF b, l
  <2>3. WriteAll(c, m) \in FC!Content
    BY <2>1, <2>2 DEF FC!Content
  <2>4. WriteAll(c, m).ver = m.ver /\ WriteAll(c, m).len = l /\ WriteAll(c, m).ok = b
    BY <2>1
  <2>5. WriteAll(c, m) # None
    BY <2>3, ContentIs
  <2> QED BY <2>3, <2>4, <2>5, <1>3 DEF b, l
<1> QED BY <1>2, <1>3

\* modify_time on file j.num, and nothing else.
Renamed(d, j, e) ==
    /\ e \in DiskType
    /\ \A f \in Files :
        IF j.listed /\ f = j.num
        THEN /\ e.digest[f] = None /\ e.download[f] = None
             /\ e.final[f] = IF d.download[f] = None THEN d.final[f] ELSE d.download[f]
        ELSE /\ e.digest[f] = d.digest[f] /\ e.download[f] = d.download[f]
             /\ e.final[f] = d.final[f]

\* ModifyTime does what Renamed says.
LEMMA ModifyTimeIs ==
    ASSUME NEW d \in DiskType, NEW j \in TransferJob
    PROVE  Renamed(d, j, ModifyTime(d, j))
<1>1. j.num \in Nat /\ N \in Nat /\ j.listed \in BOOLEAN
  BY FilesAre DEF TransferJob
<1>2. CASE ~j.listed \/ j.num >= N
  <2>1. ModifyTime(d, j) = d
    BY <1>2 DEF ModifyTime
  <2>2. \A f \in Files : ~(j.listed /\ f = j.num)
    BY <1>1, <1>2, FilesAre
  <2> QED BY <2>1, <2>2 DEF Renamed
<1>3. CASE j.listed /\ ~(j.num >= N)
  <2>1. j.num \in Files
    BY <1>1, <1>3, FilesAre
  <2>2. CASE d.download[j.num] = None
    <3>1. ModifyTime(d, j) = [d EXCEPT !.digest[j.num] = None]
      BY <1>3, <2>2 DEF ModifyTime
    <3>2. ModifyTime(d, j) \in DiskType
      BY <3>1, <2>1 DEF DiskType
    <3>3. /\ ModifyTime(d, j).final = d.final /\ ModifyTime(d, j).download = d.download
          /\ ModifyTime(d, j).digest = [d.digest EXCEPT ![j.num] = None]
      BY <3>1 DEF DiskType
    <3> QED BY <3>2, <3>3, <2>1, <2>2, <1>3 DEF Renamed, DiskType
  <2>3. CASE d.download[j.num] # None
    <3>1. ModifyTime(d, j) = [final |-> [d.final EXCEPT ![j.num] = d.download[j.num]],
                              download |-> [d.download EXCEPT ![j.num] = None],
                              digest |-> [d.digest EXCEPT ![j.num] = None]]
      BY <1>3, <2>3 DEF ModifyTime
    <3>2. /\ d.final \in [Files -> ContentOrNone] /\ d.download \in [Files -> ContentOrNone]
          /\ d.digest \in [Files -> Nat \cup {None}] /\ None \in ContentOrNone
      BY DEF DiskType, ContentOrNone
    <3>3. ModifyTime(d, j) \in DiskType
      BY <3>1, <3>2, <2>1 DEF DiskType
    <3>4. /\ ModifyTime(d, j).final = [d.final EXCEPT ![j.num] = d.download[j.num]]
          /\ ModifyTime(d, j).download = [d.download EXCEPT ![j.num] = None]
          /\ ModifyTime(d, j).digest = [d.digest EXCEPT ![j.num] = None]
      BY <3>1
    <3> QED BY <3>2, <3>3, <3>4, <2>1, <2>3, <1>3 DEF Renamed
  <2> QED BY <2>2, <2>3
<1> QED BY <1>1, <1>2, <1>3

\* Changes to the directory that concern one file.
WithDownload(d, f, c) == [d EXCEPT !.download[f] = c]
WithFinal(d, f, c) == [d EXCEPT !.final[f] = c]
WithDigest(d, f, v) == [d EXCEPT !.digest[f] = v]

\* A change of f.download is one of the directory.
LEMMA PutDownload ==
    ASSUME NEW d \in DiskType, NEW f \in Files, NEW c \in ContentOrNone
    PROVE  /\ WithDownload(d, f, c) \in DiskType
           /\ WithDownload(d, f, c).final = d.final
           /\ WithDownload(d, f, c).digest = d.digest
           /\ WithDownload(d, f, c).download = [d.download EXCEPT ![f] = c]
BY DEF DiskType, WithDownload

\* A change of f is one of the directory.
LEMMA PutFinal ==
    ASSUME NEW d \in DiskType, NEW f \in Files, NEW c \in ContentOrNone
    PROVE  /\ WithFinal(d, f, c) \in DiskType
           /\ WithFinal(d, f, c).download = d.download
           /\ WithFinal(d, f, c).digest = d.digest
           /\ WithFinal(d, f, c).final = [d.final EXCEPT ![f] = c]
BY DEF DiskType, WithFinal

\* A change of f.digest is one of the directory.
LEMMA PutDigest ==
    ASSUME NEW d \in DiskType, NEW f \in Files, NEW v \in Digest
    PROVE  /\ WithDigest(d, f, v) \in DiskType
           /\ WithDigest(d, f, v).download = d.download
           /\ WithDigest(d, f, v).final = d.final
           /\ WithDigest(d, f, v).digest = [d.digest EXCEPT ![f] = v]
BY DEF DiskType, WithDigest, Digest

\* RemoveDownloadFile, file by file.
LEMMA RemoveDownloadFileIs ==
    ASSUME NEW d \in DiskType, NEW j \in TransferJob
    PROVE  /\ RemoveDownloadFile(d, j) \in DiskType
           /\ RemoveDownloadFile(d, j).final = d.final
           /\ \A f \in Files :
                \/ RemoveDownloadFile(d, j).download[f] = None
                \/ /\ RemoveDownloadFile(d, j).download[f] = d.download[f]
                   /\ RemoveDownloadFile(d, j).digest[f] = d.digest[f]
<1>1. j.num \in Nat /\ N \in Nat
  BY FilesAre DEF TransferJob
<1>2. CASE ~j.listed \/ j.num >= N
  BY <1>2 DEF RemoveDownloadFile
<1>3. CASE ~(~j.listed \/ j.num >= N)
  <2>1. j.num \in Files
    BY <1>1, <1>3, FilesAre
  <2> DEFINE e == WithDownload(d, j.num, None)
  <2>2. RemoveDownloadFile(d, j) = WithDigest(e, j.num, None)
    <3>1. RemoveDownloadFile(d, j) = [d EXCEPT !.download[j.num] = None, !.digest[j.num] = None]
      BY <1>3 DEF RemoveDownloadFile
    <3> QED BY <3>1 DEF DiskType, WithDigest, WithDownload
  <2>a. None \in ContentOrNone
    BY DEF ContentOrNone
  <2>3. /\ e \in DiskType /\ e.final = d.final /\ e.digest = d.digest
        /\ e.download = [d.download EXCEPT ![j.num] = None]
    BY <2>1, <2>a, PutDownload
  <2> HIDE DEF e
  <2>4. /\ RemoveDownloadFile(d, j) \in DiskType
        /\ RemoveDownloadFile(d, j).final = d.final
        /\ RemoveDownloadFile(d, j).download = [d.download EXCEPT ![j.num] = None]
        /\ RemoveDownloadFile(d, j).digest = [d.digest EXCEPT ![j.num] = None]
    <3>1. /\ WithDigest(e, j.num, None) \in DiskType
          /\ WithDigest(e, j.num, None).download = e.download
          /\ WithDigest(e, j.num, None).final = e.final
          /\ WithDigest(e, j.num, None).digest = [e.digest EXCEPT ![j.num] = None]
      <4>1. e \in DiskType /\ None \in Digest
        BY <2>3 DEF Digest
      <4> QED BY <4>1, <2>1, PutDigest
    <3> QED BY <3>1, <2>2, <2>3
  <2> QED BY <2>4, <2>1 DEF DiskType
<1> QED BY <1>2, <1>3

\* What TypeOK says of the elements of the sequences.
LEMMA TypeFacts ==
    ASSUME TypeOK
    PROVE  /\ disk \in DiskType
           /\ write_job # None => /\ write_job \in TransferJob /\ write_job.num \in Nat
                                  /\ write_job.id \in Nat /\ write_job.stream \in Nat \cup {None}
                                  /\ write_job.listed \in BOOLEAN /\ write_job.last \in BOOLEAN
           /\ \A i \in DOMAIN read_jobs :
                /\ read_jobs[i] \in TransferJob /\ i \in Nat /\ i >= 1
                /\ read_jobs[i].num \in Nat /\ read_jobs[i].id \in Nat
                /\ read_jobs[i].stream \in Nat \cup {None}
           /\ \A p \in DOMAIN toReceiver :
                toReceiver[p] \in Response /\ p \in Nat /\ p >= 1 /\ p <= Len(toReceiver)
           /\ \A q \in DOMAIN toSender :
                toSender[q] \in FileAction /\ q \in Nat /\ q >= 1 /\ q <= Len(toSender)
           /\ Len(toReceiver) \in Nat /\ Len(toSender) \in Nat
           /\ toReceiver \in Seq(Response) /\ toSender \in Seq(FileAction)
           /\ \A f \in Files : disk.download[f] \in ContentOrNone /\ disk.final[f] \in ContentOrNone
                                /\ disk.digest[f] \in Nat \cup {None} /\ src[f] \in Nat
                                                /\ src[f] >= 1
<1>1. disk \in DiskType
  BY DEF TypeOK, DiskType, ContentOrNone
<1>2. write_job # None => write_job \in TransferJob
  BY DEF TypeOK
<1>3. \A j \in TransferJob : j.num \in Nat /\ j.id \in Nat /\ j.stream \in Nat \cup {None}
                /\ j.listed \in BOOLEAN /\ j.last \in BOOLEAN
  BY DEF TransferJob
<1>4. \A i \in DOMAIN read_jobs : read_jobs[i] \in TransferJob /\ i \in Nat /\ i >= 1
  BY DEF TypeOK
<1>5. \A p \in DOMAIN toReceiver :
                toReceiver[p] \in Response /\ p \in Nat /\ p >= 1 /\ p <= Len(toReceiver)
  BY DEF TypeOK
<1>6. \A q \in DOMAIN toSender :
                toSender[q] \in FileAction /\ q \in Nat /\ q >= 1 /\ q <= Len(toSender)
  BY DEF TypeOK
<1>7. Len(toReceiver) \in Nat /\ Len(toSender) \in Nat
           /\ toReceiver \in Seq(Response) /\ toSender \in Seq(FileAction)
  BY LenProperties DEF TypeOK
<1>8. \A f \in Files : disk.download[f] \in ContentOrNone /\ disk.final[f] \in ContentOrNone
                                /\ disk.digest[f] \in Nat \cup {None}
  BY <1>1 DEF DiskType
<1>9. \A f \in Files : src[f] \in Nat /\ src[f] >= 1
  BY BoundsAssumption DEF TypeOK
<1> QED BY <1>1, <1>2, <1>3, <1>4, <1>5, <1>6, <1>7, <1>8, <1>9

-----------------------------------------------------------------------------
(***************************************************************************)
(* The shapes of the other steps.                                          *)
(***************************************************************************)

\* The response at the head is taken.
TakenR ==
    /\ toReceiver' \in Seq(Response) /\ 1 \in DOMAIN toReceiver
    /\ \A p \in DOMAIN toReceiver' :
        p \in Nat /\ p >= 1 /\ p + 1 \in DOMAIN toReceiver /\ toReceiver'[p] = toReceiver[p + 1]
    /\ \A p \in DOMAIN toReceiver :
        p > 1 => p - 1 \in DOMAIN toReceiver' /\ toReceiver'[p - 1] = toReceiver[p]

\* The action at the head is taken.
TakenS ==
    /\ toSender' \in Seq(FileAction) /\ 1 \in DOMAIN toSender
    /\ \A q \in DOMAIN toSender' :
        q \in Nat /\ q >= 1 /\ q + 1 \in DOMAIN toSender /\ toSender'[q] = toSender[q + 1]

\* The action c is sent.
AddedS(c) ==
    /\ toSender' \in Seq(FileAction) /\ Len(toSender) + 1 \in DOMAIN toSender'
    /\ toSender'[Len(toSender) + 1] = c
    /\ \A q \in DOMAIN toSender : q \in DOMAIN toSender' /\ toSender'[q] = toSender[q]
    /\ \A q \in DOMAIN toSender' :
        \/ q \in DOMAIN toSender /\ toSender'[q] = toSender[q]
        \/ q = Len(toSender) + 1 /\ toSender'[q] = c

\* Tail of the responses takes the one at the head.
LEMMA TakenRIs ==
    ASSUME TypeOK, toReceiver # <<>>, toReceiver' = Tail(toReceiver)
    PROVE  TakenR /\ Head(toReceiver) = toReceiver[1]
<1>1. toReceiver \in Seq(Response)
  BY DEF TypeOK
<1>2. /\ toReceiver' \in Seq(Response) /\ 1 \in DOMAIN toReceiver
                /\ Head(toReceiver) = toReceiver[1]
      /\ \A p \in DOMAIN toReceiver' :
            p \in Nat /\ p + 1 \in DOMAIN toReceiver /\ toReceiver'[p] = toReceiver[p + 1]
      /\ \A p \in DOMAIN toReceiver : p \in Nat /\ p >= 1 /\ (p > 1 => p - 1 \in DOMAIN toReceiver')
  BY <1>1, TailAt
<1>3. \A p \in DOMAIN toReceiver' : p >= 1
  BY <1>2, LenProperties
<1>4. \A p \in DOMAIN toReceiver : p > 1 => (p - 1) + 1 = p
  BY <1>2
<1> QED BY <1>2, <1>3, <1>4 DEF TakenR

\* Tail of the actions takes the one at the head.
LEMMA TakenSIs ==
    ASSUME TypeOK, toSender # <<>>, toSender' = Tail(toSender)
    PROVE  TakenS /\ Head(toSender) = toSender[1]
<1>1. toSender \in Seq(FileAction)
  BY DEF TypeOK
<1>2. /\ toSender' \in Seq(FileAction) /\ 1 \in DOMAIN toSender /\ Head(toSender) = toSender[1]
      /\ \A p \in DOMAIN toSender' :
            p \in Nat /\ p + 1 \in DOMAIN toSender /\ toSender'[p] = toSender[p + 1]
  BY <1>1, TailAt
<1>3. \A p \in DOMAIN toSender' : p >= 1
  BY <1>2, LenProperties
<1> QED BY <1>2, <1>3 DEF TakenS

\* Append to the actions sends one.
LEMMA AddedSIs ==
    ASSUME TypeOK, NEW c \in FileAction, toSender' = Append(toSender, c)
    PROVE  AddedS(c)
<1>1. toSender \in Seq(FileAction)
  BY DEF TypeOK
<1> QED BY <1>1, AppendAt DEF AddedS

-----------------------------------------------------------------------------
\* A response taken that is no question.
Received ==
    /\ TakenR
    /\ connected
    /\ UNCHANGED <<connected, read_jobs, toSender, src, jobs>>
    /\ write_job' # None =>
        /\ write_job # None /\ write_job' \in TransferJob
        /\ write_job'.id = write_job.id
        /\ write_job'.last <=> write_job.last
        /\ ask' = ask
        /\ \/ write_job'.num = write_job.num /\ write_job'.stream = write_job.stream
           \/ toReceiver[1].id = write_job.id
    /\ write_job' = None => ask' = None
    /\ done' => done \/ write_job' = None

\* The handlers of responses other than digests.
Receipt ==
    HandleDir \/ HandleBlock \/ HandleBlockFails \/ HandleDone \/ HandleError \/ IgnoreResponse

\* A receipt does what Received says.
LEMMA ReceivedStep ==
    ASSUME TypeOK, Ids, Ended, Receipt
    PROVE  Received
<1>1. toReceiver # <<>> /\ toReceiver' = Tail(toReceiver)
        /\ UNCHANGED <<connected, read_jobs, toSender, src, jobs>>
  BY DEF Receipt, HandleDir, HandleBlock, HandleBlockFails, HandleDone, HandleError,
         IgnoreResponse, peers
<1>2. TakenR /\ Head(toReceiver) = toReceiver[1] /\ 1 \in DOMAIN toReceiver
  BY <1>1, TakenRIs DEF TakenR
<1>3. toReceiver[1] \in Response /\ (toReceiver[1].kind = "block" => toReceiver[1].num \in Nat)
  BY <1>2, TypeFacts, ResponseFields
<1>4. connected
  BY <1>1 DEF Ids
<1>5. write_job # None => write_job \in TransferJob
  BY DEF TypeOK
<1>6. CASE HandleDir
  <2>1. write_job # None /\ write_job' = [write_job EXCEPT !.listed = TRUE] /\ ask' = ask
                  /\ done' = done
    BY <1>6 DEF HandleDir, ForJob, history
  <2>2. /\ write_job' \in TransferJob
        /\ write_job'.id = write_job.id /\ write_job'.last = write_job.last
        /\ write_job'.num = write_job.num /\ write_job'.stream = write_job.stream
    BY <2>1, <1>5 DEF TransferJob
  <2>3. write_job' # None
    BY <2>2, NoneAssumption
  <2> QED BY <2>1, <2>2, <2>3, <1>1, <1>2, <1>4 DEF Received
<1>7. CASE HandleBlock \/ HandleBlockFails
  <2>1. toReceiver[1].kind = "block" /\ write_job # None /\ toReceiver[1].id = write_job.id
            /\ ask' = ask /\ done' = done
    BY <1>2, <1>7 DEF HandleBlock, HandleBlockFails, ForJob, history
  <2>2. \/ write_job' = write_job
        \/ write_job' = [write_job EXCEPT !.num = toReceiver[1].num, !.stream = toReceiver[1].num]
        \/ write_job' = [write_job EXCEPT !.num = toReceiver[1].num]
    <3>1. CASE HandleBlock
      <4>1. PICK d : write_job' = Prepared(write_job, toReceiver[1], d).job
        BY <3>1, <1>2 DEF HandleBlock, Write
      <4> QED BY <4>1 DEF Prepared
    <3>2. CASE HandleBlockFails
      <4>1. \/ write_job' = write_job
            \/ write_job' = [write_job EXCEPT !.num = toReceiver[1].num]
            \/ write_job' = Prepared(write_job, toReceiver[1], ModifyTime(disk, write_job)).job
        BY <3>2, <1>2 DEF HandleBlockFails
      <4> QED BY <4>1 DEF Prepared
    <3> QED BY <3>1, <3>2, <1>7
  <2>3. /\ write_job' \in TransferJob
        /\ write_job'.id = write_job.id /\ write_job'.last = write_job.last
    BY <2>1, <2>2, <1>3, <1>5 DEF TransferJob
  <2>4. write_job' # None
    BY <2>3, NoneAssumption
  <2> QED BY <2>1, <2>3, <2>4, <1>1, <1>2, <1>4 DEF Received
<1>8. CASE HandleDone
  <2>1. write_job' = None /\ ask' = ask
    BY <1>8 DEF HandleDone
  <2>2. toReceiver[1].kind = "done" /\ JobIs(toReceiver[1].id)
    BY <1>2, <1>8 DEF HandleDone, ForJob, JobIs
  <2>3. ask = None
    BY <2>2, <1>2 DEF Ended
  <2> QED BY <2>1, <2>3, <1>1, <1>2, <1>4 DEF Received
<1>9. CASE HandleError
  BY <1>9, <1>1, <1>2, <1>4 DEF Received, HandleError
<1>10. CASE IgnoreResponse
  <2>1. write_job' = write_job /\ ask' = ask /\ done' = done
    BY <1>10 DEF IgnoreResponse, peers, history
  <2>2. write_job = None => ask = None
    BY DEF Ids
  <2> QED BY <2>1, <2>2, <1>1, <1>2, <1>4, <1>5 DEF Received
<1> QED BY <1>6, <1>7, <1>8, <1>9, <1>10 DEF Receipt

-----------------------------------------------------------------------------
\* What is known when the writer deals with file f.
OnQuestion(f) ==
    /\ write_job \in TransferJob /\ write_job # None /\ f \in Files /\ f >= write_job.num
    /\ ~write_job.last /\ connected
    /\ \A i \in DOMAIN read_jobs : JobIs(read_jobs[i].id) => Asked(read_jobs[i], f)
    /\ \A q \in DOMAIN toSender : JobIs(toSender[q].id) => toSender[q].kind = "cancel"
    /\ \A g \in skips : g < f
    /\ write_job.stream = write_job.num => f > write_job.num
    /\ \A p \in DOMAIN toReceiver :
        JobIs(toReceiver[p].id) => toReceiver[p].kind \in {"dir", "digest"}
    /\ toReceiver' \in Seq(Response)
    /\ \A p \in DOMAIN toReceiver' : JobIs(toReceiver'[p].id) => toReceiver'[p].kind = "dir"
    /\ \E d \in {0, 1} : \A p \in DOMAIN toReceiver' :
        p \in Nat /\ p + d \in DOMAIN toReceiver /\ toReceiver'[p] = toReceiver[p + d]
    /\ failed \subseteq failed' /\ failed' \subseteq 1 .. MaxJobs
    /\ UNCHANGED <<connected, read_jobs, src, disk, saved, jobs, done>>

\* IsIdentical, of the present version.
CanContinue(f) ==
    /\ write_job.resume
    /\ disk.download[f] # None
    /\ disk.digest[f] = src[f]
    /\ disk.download[f].len > 0

\* The writer asks the user about a file, or nobody.
Asking ==
    \E f \in Files :
        /\ OnQuestion(f)
        /\ ask' = f \/ (ask' = None /\ write_job.id \in failed')
        /\ ~CanContinue(f)
        /\ write_job' = [write_job EXCEPT !.digest = src[f]]
        /\ faults' \in 0 .. MaxFaults
        /\ UNCHANGED <<toSender, skips, suspect>>

\* Where the writer's own confirm leaves it.
Placed(f, c) ==
    \/ c.skip /\ write_job.num = f /\ write_job'.num = f + 1 /\ write_job'.stream = None
    \/ /\ ~c.skip /\ write_job.num = f /\ c.offset > 0
       /\ write_job'.num = f /\ write_job'.stream = f
    \/ /\ write_job'.num = write_job.num /\ write_job'.stream = write_job.stream
       /\ write_job.num = f => ~c.skip /\ (c.offset = 0 \/ f \in suspect')

\* The writer answers c about file f.
AnswerTo(f, c) ==
    /\ OnQuestion(f)
    /\ c \in FileAction /\ c.kind = "confirm" /\ c.id = write_job.id /\ c.num = f
    /\ ask' = None /\ AddedS(c)
    /\ skips' = IF c.skip THEN skips \cup {f} ELSE skips \ {f}
    /\ write_job' \in TransferJob /\ write_job' # None
    /\ write_job'.id = write_job.id /\ ~write_job'.last /\ write_job'.digest = src[f]
    /\ write_job'.resume = write_job.resume /\ write_job'.listed = write_job.listed
    /\ c.offset > 0 => /\ ~c.skip /\ CanContinue(f) /\ write_job.listed
                       /\ c.offset = disk.download[f].len
    /\ c.offset = 0 => disk.download[f] = None \/ f \in suspect
    /\ suspect' = suspect \/ suspect' = suspect \cup {f}
    /\ faults' \in 0 .. MaxFaults
    /\ Placed(f, c)

\* The writer answers.
Answering == \E f \in Files : \E c \in FileAction : AnswerTo(f, c)

\* What the writer's own confirm does to its job.
ConfirmedAs(j, m, at, k) ==
    /\ k \in TransferJob /\ k.id = j.id /\ k.last = j.last /\ k.digest = j.digest
    /\ k.resume = j.resume /\ k.listed = j.listed
    /\ m.num # j.num => k = j
    /\ m.num = j.num /\ m.skip => Moved(j, k)
    /\ m.num = j.num /\ ~m.skip =>
        /\ k.num = j.num /\ k.confirmed = TRUE /\ k.waiting = j.waiting
        /\ k.stream = IF m.offset > 0 THEN at ELSE j.stream

\* Confirm does what ConfirmedAs says.
LEMMA ConfirmIs ==
    ASSUME NEW j \in TransferJob, NEW m, NEW at \in Nat \cup {None}
    PROVE  ConfirmedAs(j, m, at, Confirm(j, m, at))
<1> DEFINE k == Confirm(j, m, at)
<1>1. j.num \in Nat /\ j.stream \in Nat \cup {None}
  BY DEF TransferJob
<1>2. CASE m.num # j.num
  BY <1>2 DEF Confirm, ConfirmedAs
<1>3. CASE m.num = j.num /\ m.skip
  <2> DEFINE n == j.num + 1
  <2>1. k = [j EXCEPT !.stream = None, !.confirmed = FALSE, !.waiting = FALSE,
                     !.skipped = TRUE, !.num = n]
    BY <1>3 DEF Confirm
  <2>2. n \in Nat
    BY <1>1
  <2> HIDE DEF n
  <2>3. /\ k \in TransferJob /\ k.id = j.id /\ k.last = j.last /\ k.digest = j.digest
        /\ k.resume = j.resume /\ k.listed = j.listed
        /\ k.num = n /\ k.stream = None /\ k.confirmed = FALSE /\ k.waiting = FALSE
    BY <2>1, <2>2 DEF TransferJob
  <2> QED BY <2>3, <1>3 DEF Moved, n, ConfirmedAs
<1>4. CASE m.num = j.num /\ ~m.skip
  <2> DEFINE t == IF m.offset > 0 THEN at ELSE j.stream
  <2>1. k = [j EXCEPT !.confirmed = TRUE, !.skipped = FALSE, !.stream = t]
    BY <1>4 DEF Confirm
  <2>2. t \in Nat \cup {None}
    BY <1>1
  <2> HIDE DEF t
  <2>3. /\ k \in TransferJob /\ k.id = j.id /\ k.last = j.last /\ k.digest = j.digest
        /\ k.resume = j.resume /\ k.listed = j.listed
        /\ k.num = j.num /\ k.stream = t /\ k.confirmed = TRUE /\ k.waiting = j.waiting
    BY <2>1, <2>2 DEF TransferJob
  <2> QED BY <2>3, <1>4 DEF t, ConfirmedAs
<1> QED BY <1>2, <1>3, <1>4

\* The head of the queue is a question to the writer's job.
LEMMA DigestAtHead ==
    ASSUME Inv, HandleDigest \/ HandleDigestFails
    PROVE  /\ OnQuestion(toReceiver[1].num) /\ toReceiver[1].ver = src[toReceiver[1].num]
           /\ ask = None /\ toReceiver[1].num \in Files /\ toReceiver[1].num \in Nat
           /\ Head(toReceiver) = toReceiver[1]
<1> DEFINE m == toReceiver[1]
           f == m.num
<1>0. TypeOK /\ Ids /\ Fresh /\ Question /\ OneQuestion /\ Wire /\ Ended /\ Progress /\ Behind
                /\ Stream
  BY DEF Inv, Protocol, Writer, Disk
<1>1. toReceiver # <<>> /\ toReceiver' = Tail(toReceiver)
        /\ UNCHANGED <<connected, read_jobs, src, disk, saved, jobs, done>>
        /\ failed' \in {failed, failed \cup {Head(toReceiver).id}}
  <2>1. CASE HandleDigest
    BY <2>1 DEF HandleDigest
  <2>2. CASE HandleDigestFails
    BY <2>2 DEF HandleDigestFails
  <2> QED BY <2>1, <2>2
<1>2. TakenR /\ Head(toReceiver) = m /\ 1 \in DOMAIN toReceiver
  BY <1>0, <1>1, TakenRIs DEF TakenR
<1>3. m \in Response /\ m.kind = "digest" /\ JobIs(m.id) /\ write_job # None /\ m.id = write_job.id
        /\ write_job.listed
  <2>1. m.kind = "digest" /\ ForJob(m)
    BY <1>2 DEF HandleDigest, HandleDigestFails
  <2>2. write_job \in TransferJob
    BY <2>1, <1>0 DEF TypeOK, ForJob
  <2>3. [write_job EXCEPT !.digest = m.ver].listed
    BY <1>2 DEF HandleDigest, HandleDigestFails
  <2>4. [write_job EXCEPT !.digest = m.ver].listed = write_job.listed
    BY <2>2 DEF TransferJob
  <2> QED BY <2>1, <2>3, <2>4, <1>0, <1>2, TypeFacts DEF ForJob, JobIs
<1>4. m.num \in Nat /\ m.ver \in Nat /\ f < N /\ m.ver = src[f] /\ f \in Files
  BY <1>0, <1>2, <1>3, ResponseFields, FilesAre DEF Wire
<1>5. write_job \in TransferJob /\ connected
  BY <1>0, <1>3 DEF TypeOK, Ids
<1>6. f >= write_job.num
  BY <1>0, <1>2, <1>3 DEF Progress
<1>7. ~write_job.last
  BY <1>0, <1>2, <1>3 DEF Fresh
<1>8. \A i \in DOMAIN read_jobs : JobIs(read_jobs[i].id) => Asked(read_jobs[i], f)
  BY <1>0, <1>2, <1>3 DEF Question, JobIs
<1>9. \A q \in DOMAIN toSender : JobIs(toSender[q].id) => toSender[q].kind = "cancel"
  <2> TAKE q \in DOMAIN toSender
  <2> HAVE JobIs(toSender[q].id)
  <2>1. toSender[q].kind \in {"cancel", "send", "confirm"} /\ toSender[q].id = m.id
    BY <1>0, <1>3, TypeFacts, FileActionFields DEF JobIs
  <2>2. toSender[q].kind # "send"
    BY <2>1, <1>0, <1>2 DEF Fresh
  <2>3. toSender[q].kind # "confirm"
    BY <2>1, <1>0, <1>2, <1>3 DEF OneQuestion
  <2> QED BY <2>1, <2>2, <2>3
<1>10. \A g \in skips : g < f
  BY <1>0, <1>2, <1>3 DEF Behind
<1>11. write_job.stream = write_job.num => f > write_job.num
  <2>1. ASSUME write_job.stream = write_job.num PROVE f > write_job.num
    <3>1. write_job.stream # None
      BY <2>1, <1>5, NoneAssumption DEF TransferJob
    <3>2. Open(write_job.stream)
      BY <3>1, <1>0, <1>3 DEF Stream
    <3> QED BY <3>2, <2>1, <1>2, <1>3 DEF Open
  <2> QED BY <2>1
<1>12. \A p \in DOMAIN toReceiver' : ~JobIs(toReceiver'[p].id)
  <2> TAKE p \in DOMAIN toReceiver'
  <2>1. p \in Nat /\ p >= 1 /\ p + 1 \in DOMAIN toReceiver
                  /\ toReceiver'[p] = toReceiver[p + 1] /\ 1 < p + 1
    BY <1>2 DEF TakenR
  <2>2. toReceiver[p + 1].id # m.id
    BY <2>1, <1>0, <1>2, <1>3 DEF OneQuestion
  <2> QED BY <2>1, <2>2, <1>3 DEF JobIs
<1>13. \E d \in {0, 1} : \A p \in DOMAIN toReceiver' :
        p \in Nat /\ p + d \in DOMAIN toReceiver /\ toReceiver'[p] = toReceiver[p + d]
  BY <1>2 DEF TakenR
<1>14. ask = None
  BY <1>0, <1>2, <1>3 DEF OneQuestion
<1>a. \A p \in DOMAIN toReceiver :
        JobIs(toReceiver[p].id) => toReceiver[p].kind \in {"dir", "digest"}
  <2> TAKE p \in DOMAIN toReceiver
  <2>1. p = 1 \/ p > 1
    BY <1>0, TypeFacts
  <2> QED BY <2>1, <1>2, <1>3, <1>12 DEF TakenR
<1>b. failed \subseteq failed' /\ failed' \subseteq 1 .. MaxJobs
  <2>1. m.id \in 1 .. MaxJobs /\ failed \subseteq 1 .. MaxJobs
    BY <1>0, <1>2, BoundsAssumption DEF Ids, TypeOK
  <2> QED BY <2>1, <1>1, <1>2
<1>15. OnQuestion(f)
  BY <1>b, <1>1, <1>2, <1>3, <1>4, <1>5, <1>6, <1>7, <1>8, <1>9, <1>10, <1>11, <1>12, <1>13, <1>a
  DEF OnQuestion, TakenR
<1> QED BY <1>15, <1>4, <1>14, <1>2

\* What is known when the user is asked.
LEMMA AskOpen ==
    ASSUME Inv, SetConfirmOverrideFile
    PROVE  /\ OnQuestion(ask) /\ ask \in Files /\ write_job.digest = src[ask]
           /\ UNCHANGED toReceiver /\ ask # None
<1>0. TypeOK /\ Ids /\ Fresh /\ Question /\ OneQuestion /\ Wire /\ Ended /\ Agreed /\ Progress
                /\ Behind /\ Stream
  BY DEF Inv, Protocol, Writer, Disk
<1>1. ask # None /\ ask \in Files /\ write_job # None /\ write_job \in TransferJob /\ connected
  BY <1>0 DEF SetConfirmOverrideFile, TypeOK, Ids
<1>2. UNCHANGED <<connected, read_jobs, toReceiver, src, disk, saved, jobs, failed, done>>
  BY DEF SetConfirmOverrideFile
<1>3. ask >= write_job.num /\ write_job.digest = src[ask] /\ ~write_job.last
        /\ \A g \in skips : g < ask
  BY <1>0, <1>1 DEF Progress, Agreed, Fresh, Behind
<1>4. \A i \in DOMAIN read_jobs : JobIs(read_jobs[i].id) => Asked(read_jobs[i], ask)
  BY <1>0, <1>1 DEF Question
<1>5. \A q \in DOMAIN toSender : JobIs(toSender[q].id) => toSender[q].kind = "cancel"
  <2> TAKE q \in DOMAIN toSender
  <2> HAVE JobIs(toSender[q].id)
  <2>1. toSender[q].kind \in {"cancel", "send", "confirm"} /\ toSender[q].id = write_job.id
    BY <1>0, TypeFacts, FileActionFields DEF JobIs
  <2>2. toSender[q].kind # "send"
    BY <2>1, <1>0, <1>1 DEF Fresh, JobIs
  <2>3. toSender[q].kind # "confirm"
    BY <2>1, <1>0, <1>1 DEF OneQuestion
  <2> QED BY <2>1, <2>2, <2>3
<1>6. write_job.stream = write_job.num => ask > write_job.num
  <2>1. ASSUME write_job.stream = write_job.num PROVE ask > write_job.num
    <3>1. write_job.stream # None
      BY <2>1, <1>1, NoneAssumption DEF TransferJob
    <3>2. Open(write_job.stream)
      BY <3>1, <1>0, <1>1 DEF Stream
    <3> QED BY <3>2, <2>1, <1>1 DEF Open
  <2> QED BY <2>1
<1>7. \A p \in DOMAIN toReceiver : JobIs(toReceiver[p].id) => toReceiver[p].kind = "dir"
  <2> TAKE p \in DOMAIN toReceiver
  <2> HAVE JobIs(toReceiver[p].id)
  <2>1. toReceiver[p].kind \in {"dir", "done", "error", "digest", "block"}
                  /\ toReceiver[p].id = write_job.id
    BY <1>0, TypeFacts, ResponseFields DEF JobIs
  <2>2. toReceiver[p].kind # "digest"
    BY <2>1, <1>0, <1>1 DEF OneQuestion
  <2>3. toReceiver[p].kind # "block"
    BY <2>1, <1>0, <1>1 DEF Wire
  <2>4. toReceiver[p].kind \notin {"done", "error"}
    BY <2>1, <1>0, <1>1 DEF Ended
  <2> QED BY <2>1, <2>2, <2>3, <2>4
<1>8. \E d \in {0, 1} : \A p \in DOMAIN toReceiver :
        p \in Nat /\ p + d \in DOMAIN toReceiver /\ toReceiver[p] = toReceiver[p + d]
  <2>1. \A p \in DOMAIN toReceiver : p \in Nat /\ p + 0 = p
    BY <1>0, TypeFacts
  <2> QED BY <2>1
<1>9. toReceiver \in Seq(Response)
  BY <1>0 DEF TypeOK
<1>f. failed \subseteq failed' /\ failed' \subseteq 1 .. MaxJobs
  BY <1>0, <1>2 DEF TypeOK
<1>10. OnQuestion(ask)
  BY <1>f, <1>1, <1>2, <1>3, <1>4, <1>5, <1>6, <1>7, <1>8, <1>9 DEF OnQuestion
<1> QED BY <1>10, <1>1, <1>2, <1>3

\* A file that is not to be continued has no remains that are not suspect.
LEMMA NothingHeld ==
    ASSUME TypeOK, Parts, NEW f, OnQuestion(f), disk.download[f] # None,
           ~CanContinue(f) \/ ask = f
    PROVE  f \in suspect
<1>1. SUFFICES ASSUME f \notin suspect PROVE FALSE
  OBVIOUS
<1>2. f \in Files /\ write_job # None /\ ~write_job.last /\ f \in Nat
  BY FilesAre DEF OnQuestion
<1>3. f = write_job.num /\ (write_job.stream = f \/ Continuable(f))
  BY <1>1, <1>2 DEF Parts
<1>4. ~(write_job.stream = f)
  BY <1>2, <1>3 DEF OnQuestion
<1>5. ~Continuable(f)
  BY DEF Continuable, CanContinue
<1> QED BY <1>3, <1>4, <1>5

\* Decide answers a question.
LEMMA DecideStep ==
    ASSUME Inv, NEW j \in TransferJob, NEW f \in Files, NEW skip \in BOOLEAN, NEW offset \in Nat,
           OnQuestion(f), Decide(j, f, skip, offset), ask' = None,
           j.id = write_job.id, j.num = write_job.num, j.stream = write_job.stream,
           j.last = write_job.last, j.digest = src[f], j.resume = write_job.resume,
           j.listed = write_job.listed,
           offset > 0 => ~skip /\ CanContinue(f) /\ write_job.listed
                           /\ offset = disk.download[f].len,
           offset = 0 => disk.download[f] = None \/ f \in suspect
    PROVE  Answering
<1> DEFINE c == [kind |-> "confirm", id |-> j.id, num |-> f, skip |-> skip, offset |-> offset]
<1>1. c \in FileAction /\ c.kind = "confirm" /\ c.id = write_job.id /\ c.num = f
        /\ c.skip = skip /\ c.offset = offset /\ f \in Nat /\ c.num \in Nat
  <2>1. j.id \in Nat /\ f \in Nat
    BY FilesAre DEF TransferJob
  <2> QED BY <2>1 DEF FileAction
<1>2. toSender' = Append(toSender, c)
        /\ skips' = IF skip THEN skips \cup {f} ELSE skips \ {f}
  BY DEF Decide
<1>3. AddedS(c)
  BY <1>1, <1>2, AddedSIs DEF Inv, Protocol, Writer, Disk
<1>4. \/ write_job' = Confirm(j, c, f) /\ UNCHANGED <<faults, suspect>>
      \/ /\ offset > 0 /\ j.num = f /\ faults < MaxFaults
         /\ write_job' = Confirm(j, c, j.stream)
         /\ faults' = faults + 1 /\ suspect' = suspect \cup {f}
  BY DEF Decide
<1> HIDE DEF c
<1>5. PICK at \in Nat \cup {None} :
        /\ write_job' = Confirm(j, c, at)
        /\ at = f \/ (at = j.stream /\ f \in suspect')
  <2>1. f \in Nat \cup {None} /\ j.stream \in Nat \cup {None}
    BY <1>1 DEF TransferJob
  <2> QED BY <1>4, <2>1
<1>6. ConfirmedAs(j, c, at, write_job')
  BY <1>5, ConfirmIs
<1>7. write_job' # None
  BY <1>6, NoneAssumption DEF ConfirmedAs
<1>8. suspect' = suspect \/ suspect' = suspect \cup {f}
  BY <1>4
<1>9. faults' \in 0 .. MaxFaults
  BY <1>4, BoundsAssumption DEF Inv, Protocol, Writer, Disk, TypeOK
<1>10. Placed(f, c)
  <2>1. CASE f # j.num
    BY <2>1, <1>1, <1>6 DEF Placed, ConfirmedAs
  <2>2. CASE f = j.num /\ skip
    BY <2>2, <1>1, <1>6 DEF Placed, Moved, ConfirmedAs
  <2>3. CASE f = j.num /\ ~skip /\ offset > 0
    <3>1. CASE at = f
      BY <3>1, <2>3, <1>1, <1>6 DEF Placed, ConfirmedAs
    <3>2. CASE at = j.stream /\ f \in suspect'
      BY <3>2, <2>3, <1>1, <1>6 DEF Placed, ConfirmedAs
    <3> QED BY <3>1, <3>2, <1>5
  <2>4. CASE f = j.num /\ ~skip /\ ~(offset > 0)
    BY <2>4, <1>1, <1>6 DEF Placed, ConfirmedAs
  <2> QED BY <2>1, <2>2, <2>3, <2>4
<1>11. AnswerTo(f, c)
  <2>1. ~write_job'.last
    BY <1>6 DEF OnQuestion, ConfirmedAs
  <2> QED BY <2>1, <1>1, <1>2, <1>3, <1>6, <1>7, <1>8, <1>9, <1>10 DEF AnswerTo, ConfirmedAs
<1> QED BY <1>11, <1>1 DEF Answering

\* FileResponse::Digest: the writer asks the user or answers.
LEMMA DigestStep ==
    ASSUME Inv, HandleDigest
    PROVE  Asking \/ Answering
<1> DEFINE m == toReceiver[1]
           f == m.num
           j == [write_job EXCEPT !.digest = m.ver]
<1>1. /\ OnQuestion(f) /\ m.ver = src[f] /\ ask = None /\ f \in Files /\ f \in Nat
                /\ Head(toReceiver) = m
  BY DigestAtHead
<1>2. TypeOK /\ Parts
  BY DEF Inv, Protocol, Writer, Disk
<1>3. write_job \in TransferJob /\ m.ver \in Nat
  BY <1>1, <1>2, TypeFacts DEF OnQuestion
<1>4. /\ j \in TransferJob /\ j.id = write_job.id /\ j.num = write_job.num
      /\ j.stream = write_job.stream /\ j.last = write_job.last /\ j.digest = src[f]
      /\ j.resume = write_job.resume /\ j.listed = write_job.listed
                      /\ j.strategy = write_job.strategy
      /\ j.strategy \in BOOLEAN \cup {None}
  BY <1>1, <1>3 DEF TransferJob
<1>5. j.listed
        /\ \/ /\ IsIdentical(j, m)
              /\ Decide(j, f, FALSE, disk.download[f].len)
              /\ UNCHANGED ask
           \/ /\ ~IsIdentical(j, m)
              /\ Decide(j, f, FALSE, 0)
              /\ UNCHANGED ask
           \/ /\ ~IsIdentical(j, m)
              /\ j.strategy # None
              /\ Decide(j, f, ~j.strategy, 0)
              /\ UNCHANGED ask
           \/ /\ ~IsIdentical(j, m)
              /\ write_job' = j
              /\ ask' = f
              /\ UNCHANGED <<toSender, faults, skips, suspect>>
  BY <1>1, Zenon DEF HandleDigest
<1>6. write_job' = j => write_job' = [write_job EXCEPT !.digest = src[f]]
  BY <1>1
<1> HIDE DEF j
<1>7. IsIdentical(j, m) <=> CanContinue(f)
  BY <1>1, <1>4 DEF IsIdentical, CanContinue
<1>8. CASE IsIdentical(j, m) /\ Decide(j, f, FALSE, disk.download[f].len) /\ UNCHANGED ask
  <2>1. disk.download[f].len \in Nat /\ disk.download[f].len > 0
    BY <1>1, <1>2, <1>7, <1>8, TypeFacts, ContentIs DEF CanContinue
  <2>2. ask' = None
    BY <1>1, <1>8
  <2>3. \A k \in Nat : ~(k > 0 /\ k = 0)
    OBVIOUS
  <2> QED BY <2>1, <2>2, <2>3, <1>1, <1>4, <1>5, <1>7, <1>8, DecideStep
<1>9. ~IsIdentical(j, m) => disk.download[f] = None \/ f \in suspect
  BY <1>1, <1>2, <1>7, NothingHeld
<1>10. ASSUME NEW b \in BOOLEAN, ~IsIdentical(j, m), Decide(j, f, b, 0), UNCHANGED ask
       PROVE  Answering
  <2>1. ask' = None /\ 0 \in Nat /\ ~(0 > 0)
    BY <1>1, <1>10
  <2> QED BY <2>1, <1>1, <1>4, <1>9, <1>10, DecideStep
<1>11. CASE ~IsIdentical(j, m) /\ Decide(j, f, FALSE, 0) /\ UNCHANGED ask
  BY <1>10, <1>11
<1>12. CASE ~IsIdentical(j, m) /\ j.strategy # None /\ Decide(j, f, ~j.strategy, 0) /\ UNCHANGED ask
  <2>1. (~j.strategy) \in BOOLEAN
    BY <1>4, <1>12
  <2> QED BY <2>1, <1>10, <1>12
<1>13. CASE ~IsIdentical(j, m) /\ write_job' = j /\ ask' = f
              /\ UNCHANGED <<toSender, faults, skips, suspect>>
  BY <1>1, <1>2, <1>6, <1>7, <1>13 DEF Asking, TypeOK
<1> QED BY <1>5, <1>8, <1>11, <1>12, <1>13

\* FileResponse::Digest, when the writer asks nobody and answers nothing.
LEMMA DigestFailsStep ==
    ASSUME Inv, HandleDigestFails
    PROVE  Asking
<1> DEFINE m == toReceiver[1]
           f == m.num
           j == [write_job EXCEPT !.digest = m.ver]
<1>1. /\ OnQuestion(f) /\ m.ver = src[f] /\ ask = None /\ f \in Files /\ f \in Nat
                /\ Head(toReceiver) = m
  BY DigestAtHead
<1>2. /\ ~IsIdentical(j, m) /\ write_job' = j /\ ForJob(m) /\ failed' = failed \cup {m.id}
      /\ faults < MaxFaults /\ faults' = faults + 1 /\ UNCHANGED <<ask, toSender, skips, suspect>>
  BY <1>1 DEF HandleDigestFails
<1>3. write_job \in TransferJob /\ faults' \in 0 .. MaxFaults
  BY <1>1, <1>2, BoundsAssumption DEF OnQuestion, Inv, TypeOK
<1>4. j.resume = write_job.resume
  BY <1>3 DEF TransferJob
<1>5. ~CanContinue(f) /\ write_job.id \in failed'
  BY <1>1, <1>2, <1>4 DEF IsIdentical, CanContinue, ForJob
<1> QED BY <1>1, <1>2, <1>3, <1>5 DEF Asking

\* SetConfirmOverrideFile: the writer answers.
LEMMA AnswerStep ==
    ASSUME Inv, SetConfirmOverrideFile
    PROVE  Answering
<1>1. /\ OnQuestion(ask) /\ ask \in Files /\ write_job.digest = src[ask] /\ ask # None
  BY AskOpen
<1>2. write_job \in TransferJob
  BY <1>1 DEF OnQuestion
<1>3. ask' = None /\ \E need_override, remember \in BOOLEAN :
        Decide([write_job EXCEPT !.strategy = IF remember THEN need_override ELSE @],
               ask, ~need_override, 0)
  BY DEF SetConfirmOverrideFile
<1>4. PICK need_override \in BOOLEAN, remember \in BOOLEAN :
        Decide([write_job EXCEPT !.strategy = IF remember THEN need_override ELSE @],
               ask, ~need_override, 0)
  BY <1>3
<1> DEFINE s == IF remember THEN need_override ELSE write_job.strategy
           j == [write_job EXCEPT !.strategy = s]
<1>5. Decide(j, ask, ~need_override, 0)
  BY <1>4
<1>6. s \in BOOLEAN \cup {None}
  BY <1>2 DEF TransferJob
<1> HIDE DEF s
<1>7. /\ j \in TransferJob /\ j.id = write_job.id /\ j.num = write_job.num
      /\ j.stream = write_job.stream /\ j.last = write_job.last /\ j.digest = write_job.digest
      /\ j.resume = write_job.resume /\ j.listed = write_job.listed
  BY <1>2, <1>6 DEF TransferJob
<1> HIDE DEF j
<1>8. disk.download[ask] = None \/ ask \in suspect
  BY <1>1, NothingHeld DEF Inv, Protocol, Writer, Disk
<1>9. 0 \in Nat /\ ~(0 > 0) /\ (~need_override) \in BOOLEAN
  OBVIOUS
<1> QED BY <1>1, <1>3, <1>5, <1>7, <1>8, <1>9, DecideStep

\* The response c is sent.
AddedR(c) ==
    /\ toReceiver' \in Seq(Response) /\ Len(toReceiver) + 1 \in DOMAIN toReceiver'
    /\ Len(toReceiver') = Len(toReceiver) + 1
    /\ toReceiver'[Len(toReceiver) + 1] = c
    /\ \A q \in DOMAIN toReceiver : q \in DOMAIN toReceiver' /\ toReceiver'[q] = toReceiver[q]
    /\ \A q \in DOMAIN toReceiver' :
        \/ q \in DOMAIN toReceiver /\ toReceiver'[q] = toReceiver[q]
        \/ q = Len(toReceiver) + 1 /\ toReceiver'[q] = c

\* Append to the responses sends one.
LEMMA AddedRIs ==
    ASSUME TypeOK, NEW c \in Response, toReceiver' = Append(toReceiver, c)
    PROVE  AddedR(c)
<1>1. toReceiver \in Seq(Response)
  BY DEF TypeOK
<1> QED BY <1>1, AppendAt DEF AddedR

\* A job is created, or the peer is told that it could not be.
Sending ==
    LET m == toSender[1] IN
    /\ TakenS /\ m.kind = "send"
    /\ UNCHANGED <<connected, write_job, ask, src, disk, saved, jobs, history>>
    /\ read_jobs' \in Seq(TransferJob)
    /\ faults' \in 0 .. MaxFaults
    /\ \E x \in Response : x.id = m.id /\ x.kind \in {"dir", "error"} /\ AddedR(x)
    /\ \A i \in DOMAIN read_jobs' :
        \/ i \in DOMAIN read_jobs /\ read_jobs'[i] = read_jobs[i]
        \/ /\ i = Len(read_jobs) + 1 /\ read_jobs'[i].id = m.id /\ read_jobs'[i].num = m.num
           /\ read_jobs'[i].stream = None
           /\ ~read_jobs'[i].waiting /\ ~read_jobs'[i].confirmed

\* The fields of a new job.
LEMMA NewJobIs ==
    ASSUME NEW id \in Nat, NEW num \in Nat
    PROVE  /\ NewJob(id, num) \in TransferJob
           /\ NewJob(id, num).id = id /\ NewJob(id, num).num = num
           /\ NewJob(id, num).stream = None /\ NewJob(id, num).digest = None
           /\ ~NewJob(id, num).waiting /\ ~NewJob(id, num).confirmed
           /\ ~NewJob(id, num).last /\ ~NewJob(id, num).listed /\ ~NewJob(id, num).resume
BY DEF NewJob, TransferJob

\* FileAction::Send does what Sending says.
LEMMA SendStep ==
    ASSUME TypeOK, HandleSend
    PROVE  Sending
<1> DEFINE m == toSender[1]
<1>1. toSender # <<>> /\ toSender' = Tail(toSender)
        /\ UNCHANGED <<connected, write_job, ask, src, disk, saved, jobs, history>>
  BY DEF HandleSend
<1>2. TakenS /\ Head(toSender) = m /\ 1 \in DOMAIN toSender
  BY <1>1, TakenSIs DEF TakenS
<1>3. m \in FileAction /\ m.kind = "send" /\ m.id \in Nat /\ m.num \in Nat
  <2>1. m.kind = "send"
    BY <1>2 DEF HandleSend
  <2>2. m \in FileAction
    BY <1>2, TypeFacts
  <2> QED BY <2>1, <2>2, FileActionFields
<1>4. /\ NewJob(m.id, m.num) \in TransferJob
      /\ NewJob(m.id, m.num).id = m.id /\ NewJob(m.id, m.num).num = m.num
      /\ NewJob(m.id, m.num).stream = None
      /\ ~NewJob(m.id, m.num).waiting /\ ~NewJob(m.id, m.num).confirmed
  BY <1>3, NewJobIs
<1>5. \/ /\ read_jobs' = Append(read_jobs, NewJob(m.id, m.num))
         /\ toReceiver' = Append(toReceiver, [kind |-> "dir", id |-> m.id])
         /\ UNCHANGED faults
      \/ /\ faults < MaxFaults
         /\ toReceiver' = Append(toReceiver, Error(m))
         /\ faults' = faults + 1
         /\ UNCHANGED read_jobs
  BY <1>2 DEF HandleSend
<1>6. faults' \in 0 .. MaxFaults
  BY <1>5, BoundsAssumption DEF TypeOK
<1>7. \E x \in Response : x.id = m.id /\ x.kind \in {"dir", "error"} /\ AddedR(x)
  <2>1. /\ Error(m) \in Response /\ Error(m).id = m.id /\ Error(m).kind = "error"
        /\ [kind |-> "dir", id |-> m.id] \in Response
    BY <1>3 DEF Error, Response
  <2>2. ASSUME NEW x \in Response, toReceiver' = Append(toReceiver, x) PROVE AddedR(x)
    BY <2>2, AddedRIs
  <2>3. [kind |-> "dir", id |-> m.id].id = m.id /\ [kind |-> "dir", id |-> m.id].kind = "dir"
    OBVIOUS
  <2> QED BY <1>5, <2>1, <2>2, <2>3
<1>8. /\ read_jobs' \in Seq(TransferJob)
      /\ \A i \in DOMAIN read_jobs' :
            \/ i \in DOMAIN read_jobs /\ read_jobs'[i] = read_jobs[i]
            \/ i = Len(read_jobs) + 1 /\ read_jobs'[i] = NewJob(m.id, m.num)
  <2>1. read_jobs \in Seq(TransferJob)
    BY DEF TypeOK
  <2>2. CASE read_jobs' = Append(read_jobs, NewJob(m.id, m.num))
    BY <2>1, <2>2, <1>4, AppendAt
  <2>3. CASE UNCHANGED read_jobs
    BY <2>1, <2>3
  <2> QED BY <2>2, <2>3, <1>5
<1> QED BY <1>1, <1>2, <1>3, <1>4, <1>6, <1>7, <1>8 DEF Sending

\* A job is answered.
Answered(j, m, k) ==
    /\ k.id = j.id /\ Asked(j, m.num) /\ j.stream = 0
    /\ m.skip => Moved(j, k)
    /\ ~m.skip => /\ k.num = j.num /\ k.waiting /\ k.confirmed /\ k.stream \in Nat
                  /\ k.stream = m.offset \/ m.num \in suspect'

\* The reading side takes an answer.
Confirming ==
    LET m == toSender[1] IN
    /\ TakenS /\ m.kind = "confirm" /\ m.num \in Files
    /\ UNCHANGED <<connected, write_job, ask, toReceiver, src, disk, saved, jobs,
                   skips, failed, done>>
    /\ read_jobs' \in Seq(TransferJob)
    /\ faults' \in 0 .. MaxFaults
    /\ suspect' = suspect \/ suspect' = suspect \cup {m.num}
    /\ DOMAIN read_jobs' = DOMAIN read_jobs
    /\ \A i \in DOMAIN read_jobs :
        IF read_jobs[i].id = m.id THEN Answered(read_jobs[i], m, read_jobs'[i])
        ELSE read_jobs'[i] = read_jobs[i]

\* FileAction::SendConfirm does what Confirming says: the answer is about
\* the file at which the job waits.
LEMMA ConfirmStep ==
    ASSUME TypeOK, Question, Wire, HandleConfirm
    PROVE  Confirming
<1> DEFINE m == toSender[1]
<1>1. toSender # <<>> /\ toSender' = Tail(toSender)
        /\ UNCHANGED <<connected, write_job, ask, toReceiver, src, disk, saved, jobs,
                       skips, failed, done>>
  BY DEF HandleConfirm
<1>2. TakenS /\ Head(toSender) = m /\ 1 \in DOMAIN toSender
  BY <1>1, TakenSIs DEF TakenS
<1>3. m \in FileAction /\ m.kind = "confirm" /\ m.num \in Nat /\ m.offset \in Nat
                /\ m.skip \in BOOLEAN
  <2>1. m.kind = "confirm"
    BY <1>2 DEF HandleConfirm
  <2>2. m \in FileAction
    BY <1>2, TypeFacts
  <2> QED BY <2>1, <2>2, FileActionFields
<1>4. m.num \in Files
  BY <1>2, <1>3, FilesAre DEF Wire
<1>5. \A i \in DOMAIN read_jobs : read_jobs[i].id = m.id => Asked(read_jobs[i], m.num)
                /\ read_jobs[i].stream = 0
  BY <1>2, <1>3 DEF Question, Asked
<1>6. \E s \in {0, 1} :
        /\ read_jobs' = [i \in DOMAIN read_jobs |->
                IF read_jobs[i].id = m.id
                THEN Confirm(read_jobs[i], m, IF s = 0 THEN m.offset ELSE read_jobs[i].stream)
                ELSE read_jobs[i]]
        /\ s = 0 => UNCHANGED <<faults, suspect>>
        /\ s = 1 => faults < MaxFaults /\ faults' = faults + 1 /\ suspect' = suspect \cup {m.num}
  <2> DEFINE known == {i \in DOMAIN read_jobs : read_jobs[i].id = m.id}
  <2>1. \/ /\ read_jobs' = [i \in DOMAIN read_jobs |->
                        IF i \in known THEN Confirm(read_jobs[i], m, m.offset)
                        ELSE read_jobs[i]]
           /\ UNCHANGED <<faults, suspect>>
        \/ /\ faults < MaxFaults
           /\ read_jobs' = [i \in DOMAIN read_jobs |->
                        IF i \in known
                        THEN Confirm(read_jobs[i], m, read_jobs[i].stream)
                        ELSE read_jobs[i]]
           /\ faults' = faults + 1
           /\ suspect' = suspect \cup {m.num}
    BY <1>2, Zenon DEF HandleConfirm
  <2>2. \A i \in DOMAIN read_jobs : i \in known <=> read_jobs[i].id = m.id
    OBVIOUS
  <2> HIDE DEF known
  <2> QED BY <2>1, <2>2
<1>7. PICK s \in {0, 1} :
        /\ read_jobs' = [i \in DOMAIN read_jobs |->
                IF read_jobs[i].id = m.id
                THEN Confirm(read_jobs[i], m, IF s = 0 THEN m.offset ELSE read_jobs[i].stream)
                ELSE read_jobs[i]]
        /\ s = 0 => UNCHANGED <<faults, suspect>>
        /\ s = 1 => faults < MaxFaults /\ faults' = faults + 1 /\ suspect' = suspect \cup {m.num}
  BY <1>6
<1>8. faults' \in 0 .. MaxFaults /\ (suspect' = suspect \/ suspect' = suspect \cup {m.num})
  BY <1>7, BoundsAssumption DEF TypeOK
<1>9. read_jobs \in Seq(TransferJob) /\ DOMAIN read_jobs = 1 .. Len(read_jobs)
                /\ Len(read_jobs) \in Nat
  BY LenProperties DEF TypeOK
<1>10. ASSUME NEW i \in DOMAIN read_jobs
       PROVE  /\ read_jobs'[i] \in TransferJob
              /\ IF read_jobs[i].id = m.id THEN Answered(read_jobs[i], m, read_jobs'[i])
                 ELSE read_jobs'[i] = read_jobs[i]
  <2>1. read_jobs[i] \in TransferJob
    BY <1>9, ElementOfSeq
  <2>2. CASE read_jobs[i].id = m.id
    <3>1. Asked(read_jobs[i], m.num) /\ read_jobs[i].stream = 0
      BY <2>2, <1>5
    <3>2. PICK at \in Nat \cup {None} : /\ at \in Nat /\ (at = m.offset \/ m.num \in suspect')
                                        /\ read_jobs'[i] = Confirm(read_jobs[i], m, at)
      <4>1. CASE s = 0
        BY <4>1, <1>3, <1>7, <2>2
      <4>2. CASE s = 1
        BY <4>2, <1>3, <1>7, <2>2, <3>1
      <4> QED BY <4>1, <4>2
    <3>3. ConfirmedAs(read_jobs[i], m, at, read_jobs'[i])
      BY <3>2, <2>1, ConfirmIs
    <3>4. Answered(read_jobs[i], m, read_jobs'[i])
      <4>1. CASE m.skip
        BY <4>1, <3>1, <3>2, <3>3 DEF ConfirmedAs, Answered, Asked
      <4>2. CASE ~m.skip /\ m.offset > 0
        BY <4>2, <3>1, <3>2, <3>3 DEF ConfirmedAs, Answered, Asked
      <4>3. CASE ~m.skip /\ m.offset = 0
        <5>1. ~(m.offset > 0)
          BY <4>3
        <5>2. read_jobs'[i].stream = read_jobs[i].stream /\ read_jobs'[i].stream = m.offset
          BY <5>1, <4>3, <3>1, <3>3 DEF ConfirmedAs, Asked
        <5> QED BY <5>2, <4>3, <3>1, <3>3, <1>3 DEF ConfirmedAs, Answered, Asked
      <4> QED BY <4>1, <4>2, <4>3, <1>3
    <3> QED BY <3>3, <3>4, <2>2 DEF ConfirmedAs
  <2>3. CASE read_jobs[i].id # m.id
    BY <2>1, <2>3, <1>7
  <2> QED BY <2>2, <2>3
<1>11. DOMAIN read_jobs' = DOMAIN read_jobs
  BY <1>7
<1>12. read_jobs' \in Seq(TransferJob)
  <2>1. read_jobs' \in [1 .. Len(read_jobs) -> TransferJob]
    BY <1>7, <1>9, <1>10
  <2> QED BY <2>1, <1>9
<1> QED BY <1>1, <1>2, <1>3, <1>4, <1>8, <1>10, <1>11, <1>12 DEF Confirming

-----------------------------------------------------------------------------

\* t is s without at most one element.
LostOne(s, t) == \E x \in Nat : \A i \in DOMAIN t :
    /\ i \in Nat
    /\ i < x => i \in DOMAIN s /\ t[i] = s[i]
    /\ i >= x => i + 1 \in DOMAIN s /\ t[i] = s[i + 1]

\* Messages and reading jobs disappear; nothing else matters.
Thinned ==
    /\ toReceiver' \in Seq(Response) /\ toSender' \in Seq(FileAction)
    /\ read_jobs' \in Seq(TransferJob)
    /\ UNCHANGED <<connected, ask, src, disk, saved, jobs, faults, skips, suspect, done>>
    /\ write_job = None => write_job' = None
    /\ write_job # None =>
        /\ write_job' \in TransferJob /\ write_job' # None
        /\ write_job'.id = write_job.id /\ write_job'.num = write_job.num
        /\ write_job'.stream = write_job.stream /\ (write_job'.last <=> write_job.last)
        /\ write_job'.digest = write_job.digest /\ (write_job'.resume <=> write_job.resume)
        /\ write_job.listed => write_job'.listed
    /\ \E d \in {0, 1} :
        /\ \A p \in DOMAIN toReceiver' :
            p \in Nat /\ p + d \in DOMAIN toReceiver /\ toReceiver'[p] = toReceiver[p + d]
        /\ \A p \in DOMAIN toReceiver : p > d =>
            p - d \in DOMAIN toReceiver' /\ toReceiver'[p - d] = toReceiver[p]
        /\ \A p \in DOMAIN toReceiver : p <= d /\ JobIs(toReceiver[p].id)
                        => toReceiver[p].kind = "dir"
    /\ \E e \in {0, 1} : \A q \in DOMAIN toSender' :
        q \in Nat /\ q + e \in DOMAIN toSender /\ toSender'[q] = toSender[q + e]
    /\ LostOne(read_jobs, read_jobs')

\* remove_job: without the first job with that id.
Without(s, id) == RemoveFirstMatch(s, LAMBDA j : j.id = id)
FirstWith(s, id) == SelectInSeq(s, LAMBDA j : j.id = id)

\* remove_job removes at most one job, and the only one with that id.
LEMMA RemoveFirstIs ==
    ASSUME NEW T, NEW s \in Seq(T), NEW id, NEW t, t = Without(s, id)
    PROVE  /\ t \in Seq(T)
           /\ LostOne(s, t)
           /\ \A i \in DOMAIN s : s[i].id # id => \E k \in DOMAIN t : t[k] = s[i]
           /\ (\A i, k \in DOMAIN s : s[i].id = s[k].id => i = k)
                => \A k \in DOMAIN t : t[k].id # id
<1>1. Len(s) \in Nat /\ DOMAIN s = 1 .. Len(s)
  BY LenProperties
<1>2. CASE ~ \E i \in 1 .. Len(s) : s[i].id = id
  <2>1. t = s
    BY <1>2, Zenon DEF RemoveFirstMatch, Without
  <2>2. \A i \in DOMAIN t : i \in Nat /\ i < Len(s) + 1
    BY <2>1, <1>1
  <2>3. Len(s) + 1 \in Nat /\ \A i \in DOMAIN t : ~(i >= Len(s) + 1)
    BY <2>2, <1>1
  <2>4. LostOne(s, t)
    BY <2>1, <2>2, <2>3 DEF LostOne
  <2> QED BY <2>1, <2>4, <1>1, <1>2
<1>3. CASE \E i \in 1 .. Len(s) : s[i].id = id
  <2> DEFINE I == {i \in 1 .. Len(s) : s[i].id = id}
             x == FirstWith(s, id)
  <2>1. I # {} /\ I \subseteq Nat /\ I \subseteq 1 .. Len(s)
    BY <1>1, <1>3
  <2>2. x = Min(I)
    BY <2>1, Zenon DEF SelectInSeq, FirstWith
  <2>3. x \in I
    <3> HIDE DEF I
    <3>1. \E z \in I : \A y \in I : z <= y
      BY <2>1, LeastOf
    <3> QED BY <2>2, <3>1 DEF Min
  <2>4. x \in 1 .. Len(s)
    BY <2>1, <2>3
  <2>5. t = SubSeq(s, 1, x - 1) \o SubSeq(s, x + 1, Len(s))
    BY <1>3, Zenon DEF RemoveFirstMatch, RemoveAt, Without, FirstWith
  <2> HIDE DEF x
  <2> DEFINE a == SubSeq(s, 1, x - 1)
             b == SubSeq(s, x + 1, Len(s))
  <2>6. a \in Seq(T) /\ Len(a) = x - 1 /\ \A i \in 1 .. x - 1 : a[i] = s[i]
    BY <2>4, <1>1
  <2>7. b \in Seq(T) /\ Len(b) = Len(s) - x /\ \A i \in 1 .. Len(s) - x : b[i] = s[i + x]
    <3>1. x + 1 \in 1 .. Len(s) + 1 /\ Len(s) \in x .. Len(s)
      BY <2>4, <1>1
    <3>2. b \in Seq(T)
      BY <2>4, <1>1
    <3>3. Len(b) = Len(s) - x
      <4>1. x + 1 \in Int /\ Len(s) \in Int /\ \A i \in x + 1 .. Len(s) : s[i] \in T
        BY <2>4, <1>1, ElementOfSeq
      <4>2. Len(b) = IF x + 1 <= Len(s) THEN Len(s) - (x + 1) + 1 ELSE 0
        BY <4>1, SubSeqProperties
      <4> DEFINE L == Len(s)
                 K == Len(b)
      <4>3. L \in Nat /\ x \in 1 .. L /\ K = IF x + 1 <= L THEN L - (x + 1) + 1 ELSE 0
        BY <4>2, <2>4, <1>1
      <4> HIDE DEF L, K
      <4>4. K = L - x
        BY <4>3
      <4> QED BY <4>4 DEF K, L
    <3>4. ASSUME NEW i \in 1 .. Len(s) - x PROVE b[i] = s[i + x]
      <4>1. x + 1 + i - 1 = i + x
        BY <2>4, <1>1
      <4> QED BY <4>1, <2>4, <1>1
    <3> QED BY <3>2, <3>3, <3>4
  <2>8. t = a \o b
    BY <2>5
  <2> HIDE DEF a, b
  <2>9. t \in Seq(T) /\ Len(t) = Len(a) + Len(b)
        /\ \A i \in 1 .. Len(a) + Len(b) : t[i] = IF i <= Len(a) THEN a[i] ELSE b[i - Len(a)]
    <3>1. a \in Seq(T) /\ b \in Seq(T)
      BY <2>6, <2>7
    <3>2. a \o b \in Seq(T) /\ Len(a \o b) = Len(a) + Len(b)
        /\ \A i \in 1 .. Len(a) + Len(b) : (a \o b)[i] = IF i <= Len(a) THEN a[i] ELSE b[i - Len(a)]
      BY <3>1, ConcatProperties
    <3> QED BY <3>2, <2>8
  <2>10. DOMAIN t = 1 .. Len(s) - 1
    BY <2>4, <2>6, <2>7, <2>9, <1>1, LenProperties
  <2>11. \A i \in DOMAIN t : i < x => i \in DOMAIN s /\ t[i] = s[i]
    <3> TAKE i \in DOMAIN t
    <3> HAVE i < x
    <3>1. i \in 1 .. Len(a) + Len(b) /\ i <= Len(a) /\ i \in DOMAIN s /\ i \in 1 .. x - 1
      BY <2>4, <2>6, <2>7, <2>10, <1>1
    <3> QED BY <3>1, <2>6, <2>9
  <2>12. \A i \in DOMAIN t : i >= x => i + 1 \in DOMAIN s /\ t[i] = s[i + 1]
    <3> TAKE i \in DOMAIN t
    <3> HAVE i >= x
    <3>1. i \in 1 .. Len(a) + Len(b) /\ ~(i <= Len(a)) /\ i + 1 \in DOMAIN s
            /\ i - Len(a) \in 1 .. Len(s) - x /\ (i - Len(a)) + x = i + 1
      BY <2>4, <2>6, <2>7, <2>10, <1>1
    <3> QED BY <3>1, <2>7, <2>9
  <2>13. x \in Nat /\ \A i \in DOMAIN t : i \in Nat
    BY <2>4, <2>10, <1>1
  <2>14. x \in DOMAIN s /\ s[x].id = id
    BY <2>3, <1>1
  <2>15. ASSUME NEW i \in DOMAIN s, s[i].id # id
         PROVE  \E k \in DOMAIN t : t[k] = s[i]
    <3>1. i \in Nat /\ i >= 1 /\ i <= Len(s) /\ i # x
      BY <2>14, <2>15, <1>1
    <3>2. CASE i < x
      <4>1. i \in DOMAIN t
        BY <3>1, <3>2, <2>4, <2>10, <1>1
      <4> QED BY <4>1, <3>2, <2>11
    <3>3. CASE i > x
      <4>1. i - 1 \in DOMAIN t /\ i - 1 >= x /\ (i - 1) + 1 = i
        BY <3>1, <3>3, <2>4, <2>10, <1>1
      <4> QED BY <4>1, <2>12
    <3> QED BY <3>1, <3>2, <3>3, <2>13
  <2>16. ASSUME \A i, k \in DOMAIN s : s[i].id = s[k].id => i = k, NEW k \in DOMAIN t
         PROVE  t[k].id # id
    <3>1. CASE k < x
      <4>1. k \in DOMAIN s /\ t[k] = s[k] /\ k # x
        BY <3>1, <2>11, <2>13
      <4> QED BY <4>1, <2>14, <2>16
    <3>2. CASE k >= x
      <4>1. k + 1 \in DOMAIN s /\ t[k] = s[k + 1] /\ k + 1 # x
        BY <3>2, <2>12, <2>13
      <4> QED BY <4>1, <2>14, <2>16
    <3> QED BY <3>1, <3>2, <2>13
  <2>17. LostOne(s, t)
    BY <2>11, <2>12, <2>13 DEF LostOne
  <2> QED BY <2>9, <2>15, <2>16, <2>17
<1> QED BY <1>2, <1>3

\* Responses that stay.
LEMMA SameR ==
    ASSUME TypeOK
    PROVE  /\ \A p \in DOMAIN toReceiver :
                p \in Nat /\ p + 0 \in DOMAIN toReceiver /\ toReceiver[p] = toReceiver[p + 0]
           /\ \A p \in DOMAIN toReceiver : p > 0 =>
                p - 0 \in DOMAIN toReceiver /\ toReceiver[p - 0] = toReceiver[p]
           /\ \A p \in DOMAIN toReceiver : ~(p <= 0)
<1>1. \A p \in DOMAIN toReceiver : p \in Nat /\ p >= 1 /\ p + 0 = p /\ p - 0 = p
  BY TypeFacts
<1> QED BY <1>1

\* Actions that stay.
LEMMA SameS ==
    ASSUME TypeOK
    PROVE  \A q \in DOMAIN toSender :
                q \in Nat /\ q + 0 \in DOMAIN toSender /\ toSender[q] = toSender[q + 0]
<1>1. \A q \in DOMAIN toSender : q \in Nat /\ q + 0 = q
  BY TypeFacts
<1> QED BY <1>1

\* Reading jobs that stay.
LEMMA SameJ ==
    ASSUME TypeOK
    PROVE  LostOne(read_jobs, read_jobs)
<1>1. Len(read_jobs) \in Nat /\ DOMAIN read_jobs = 1 .. Len(read_jobs)
  BY LenProperties DEF TypeOK
<1>2. Len(read_jobs) + 1 \in Nat /\ \A i \in DOMAIN read_jobs : i \in Nat
                /\ ~(i >= Len(read_jobs) + 1)
  BY <1>1
<1> QED BY <1>2 DEF LostOne

\* FileAction::Cancel only removes a job.
LEMMA CancelStep ==
    ASSUME TypeOK, HandleCancel
    PROVE  Thinned /\ failed' \in SUBSET (1 .. MaxJobs)
<1>1. toSender # <<>> /\ toSender' = Tail(toSender)
        /\ UNCHANGED <<connected, write_job, ask, toReceiver, src, disk, saved, jobs,
                   faults, skips, suspect, done>>
        /\ failed' \subseteq failed
  BY DEF HandleCancel
<1>2. TakenS
  BY <1>1, TakenSIs
<1>3. /\ read_jobs' \in Seq(TransferJob)
      /\ LostOne(read_jobs, read_jobs')
  <2>1. read_jobs' = Without(read_jobs, Head(toSender).id)
    BY Zenon DEF HandleCancel, Without
  <2>2. read_jobs \in Seq(TransferJob)
    BY DEF TypeOK
  <2> QED BY <2>1, <2>2, RemoveFirstIs
<1>4. failed' \in SUBSET (1 .. MaxJobs)
  BY <1>1 DEF TypeOK
<1>5. write_job # None => write_job \in TransferJob
  BY DEF TypeOK
<1>6. toReceiver \in Seq(Response)
  BY DEF TypeOK
<1>7. \E e \in {0, 1} : \A q \in DOMAIN toSender' :
        q \in Nat /\ q + e \in DOMAIN toSender /\ toSender'[q] = toSender[q + e]
  BY <1>2 DEF TakenS
<1>8. \E d \in {0, 1} :
        /\ \A p \in DOMAIN toReceiver' :
            p \in Nat /\ p + d \in DOMAIN toReceiver /\ toReceiver'[p] = toReceiver[p + d]
        /\ \A p \in DOMAIN toReceiver : p > d =>
            p - d \in DOMAIN toReceiver' /\ toReceiver'[p - d] = toReceiver[p]
        /\ \A p \in DOMAIN toReceiver : p <= d /\ JobIs(toReceiver[p].id)
                        => toReceiver[p].kind = "dir"
  BY <1>1, SameR
<1> QED BY <1>1, <1>2, <1>3, <1>4, <1>5, <1>6, <1>7, <1>8 DEF Thinned, TakenS

\* FileResponse::Dir, or a response for a job that is gone, is only taken.
LEMMA DirStep ==
    ASSUME TypeOK, HandleDir \/ IgnoreResponse
    PROVE  Thinned /\ failed' \in SUBSET (1 .. MaxJobs)
<1>1. toReceiver # <<>> /\ toReceiver' = Tail(toReceiver)
        /\ UNCHANGED <<connected, read_jobs, ask, toSender, src, disk, saved, jobs,
                   faults, skips, suspect, failed, done>>
  BY DEF HandleDir, IgnoreResponse, history, peers
<1>2. TakenR /\ Head(toReceiver) = toReceiver[1]
  BY <1>1, TakenRIs
<1>3. failed' \in SUBSET (1 .. MaxJobs)
  BY <1>1 DEF TypeOK
<1>4. write_job # None => write_job \in TransferJob
  BY DEF TypeOK
<1>5. JobIs(toReceiver[1].id) => toReceiver[1].kind = "dir"
  BY <1>2 DEF HandleDir, IgnoreResponse, JobIs, ForJob
<1>6. \E d \in {0, 1} :
        /\ \A p \in DOMAIN toReceiver' :
            p \in Nat /\ p + d \in DOMAIN toReceiver /\ toReceiver'[p] = toReceiver[p + d]
        /\ \A p \in DOMAIN toReceiver : p > d =>
            p - d \in DOMAIN toReceiver' /\ toReceiver'[p - d] = toReceiver[p]
        /\ \A p \in DOMAIN toReceiver : p <= d /\ JobIs(toReceiver[p].id)
                        => toReceiver[p].kind = "dir"
  <2>1. \A p \in DOMAIN toReceiver : p <= 1 => p = 1
    BY TypeFacts
  <2> QED BY <1>2, <1>5, <2>1 DEF TakenR
<1>7. \/ write_job' = write_job
      \/ write_job # None /\ write_job' = [write_job EXCEPT !.listed = TRUE]
  BY DEF HandleDir, IgnoreResponse, ForJob, peers
<1>8. /\ write_job = None => write_job' = None
      /\ write_job # None =>
        /\ write_job' \in TransferJob /\ write_job' # None
        /\ write_job'.id = write_job.id /\ write_job'.num = write_job.num
        /\ write_job'.stream = write_job.stream /\ (write_job'.last <=> write_job.last)
        /\ write_job'.digest = write_job.digest /\ (write_job'.resume <=> write_job.resume)
        /\ write_job.listed => write_job'.listed
  <2>1. CASE write_job' = write_job
    BY <2>1, <1>4
  <2>2. CASE write_job # None /\ write_job' = [write_job EXCEPT !.listed = TRUE]
    <3>1. /\ write_job' \in TransferJob
          /\ write_job'.id = write_job.id /\ write_job'.num = write_job.num
          /\ write_job'.stream = write_job.stream /\ write_job'.last = write_job.last
          /\ write_job'.digest = write_job.digest /\ write_job'.resume = write_job.resume
          /\ write_job'.listed
      BY <2>2, <1>4 DEF TransferJob
    <3> QED BY <3>1, <2>2, NoneAssumption
  <2> QED BY <2>1, <2>2, <1>7
<1>9. \E e \in {0, 1} : \A q \in DOMAIN toSender' :
        q \in Nat /\ q + e \in DOMAIN toSender /\ toSender'[q] = toSender[q + e]
  BY <1>1, SameS
<1>10. LostOne(read_jobs, read_jobs')
  BY <1>1, SameJ
<1> QED BY <1>1, <1>2, <1>3, <1>6, <1>8, <1>9, <1>10 DEF Thinned, TakenR, TypeOK

\* A stuttering step removes nothing.
LEMMA StutterStep ==
    ASSUME TypeOK, UNCHANGED vars
    PROVE  Thinned /\ failed' \in SUBSET (1 .. MaxJobs)
<1>1. UNCHANGED <<connected, read_jobs, write_job, ask, toReceiver, toSender, src, disk, saved,
                jobs,
                   faults, skips, suspect, failed, done>>
  BY DEF vars, peers, wires, history
<1>2. \E d \in {0, 1} :
        /\ \A p \in DOMAIN toReceiver' :
            p \in Nat /\ p + d \in DOMAIN toReceiver /\ toReceiver'[p] = toReceiver[p + d]
        /\ \A p \in DOMAIN toReceiver : p > d =>
            p - d \in DOMAIN toReceiver' /\ toReceiver'[p - d] = toReceiver[p]
        /\ \A p \in DOMAIN toReceiver : p <= d /\ JobIs(toReceiver[p].id)
                        => toReceiver[p].kind = "dir"
  BY <1>1, SameR
<1>3. \E e \in {0, 1} : \A q \in DOMAIN toSender' :
        q \in Nat /\ q + e \in DOMAIN toSender /\ toSender'[q] = toSender[q + e]
  BY <1>1, SameS
<1>4. LostOne(read_jobs, read_jobs')
  BY <1>1, SameJ
<1> QED BY <1>1, <1>2, <1>3, <1>4 DEF Thinned, TypeOK

\* Nothing is under way for that job.
Unknown(id) ==
    /\ \A i \in DOMAIN read_jobs : read_jobs[i].id # id
    /\ \A p \in DOMAIN toReceiver : toReceiver[p].id # id
    /\ \A q \in DOMAIN toSender : toSender[q].id # id

\* The writer asks for a job.
OpenedWith(c) ==
    /\ c \in FileAction /\ c.kind = "send" /\ AddedS(c)
    /\ connected /\ ask = None
    /\ write_job' \in TransferJob /\ write_job' # None
    /\ ~write_job'.last /\ write_job'.stream = None
    /\ write_job'.id = jobs' /\ c.id = jobs' /\ c.num = write_job'.num
    /\ Unknown(jobs') /\ jobs' \in 1 .. MaxJobs
    /\ suspect \subseteq suspect' /\ suspect' \subseteq Files
    /\ \A f \in Files : f \notin suspect' /\ disk.download[f] # None =>
        /\ f = write_job'.num /\ write_job'.resume
        /\ disk.digest[f] = src[f] /\ disk.download[f].len > 0
    /\ done' = FALSE
    /\ \/ write_job = None /\ jobs' = jobs + 1 /\ skips' = {} /\ write_job'.num = 0
       \/ /\ write_job # None /\ write_job.last /\ jobs' = jobs /\ skips' = skips
          /\ write_job'.num = write_job.num
    /\ UNCHANGED <<connected, read_jobs, ask, toReceiver, src, disk, saved, faults, failed>>

\* The writer asks for a job.
Opening == \E c \in FileAction : OpenedWith(c)

\* A file without remains is continued by the job.
LEMMA RemainsIs ==
    ASSUME TypeOK, NEW num, NEW resume,
           NEW f \in Files, f \notin Remains(num, resume), disk.download[f] # None
    PROVE  resume /\ f = num /\ disk.digest[f] = src[f] /\ disk.download[f].len > 0
BY DEF Remains

\* Data::SendFiles asks for a job.
LEMMA StartStep ==
    ASSUME TypeOK, Ids, StartJob
    PROVE  Opening
<1> DEFINE id == jobs'
           c == [kind |-> "send", id |-> id, num |-> 0]
<1>1. /\ connected /\ write_job = None /\ jobs < MaxJobs /\ jobs' = jobs + 1
      /\ write_job' = NewJob(id, 0) /\ toSender' = Append(toSender, c)
      /\ skips' = {} /\ suspect' = suspect \cup Remains(0, FALSE) /\ done' = FALSE
      /\ UNCHANGED <<connected, read_jobs, ask, toReceiver, src, disk, saved, faults, failed>>
  BY DEF StartJob
<1>2. jobs \in 0 .. MaxJobs /\ MaxJobs \in Nat
  BY BoundsAssumption DEF TypeOK
<1>3. id \in Nat /\ id \in 1 .. MaxJobs /\ ~(id \in 1 .. jobs)
  BY <1>1, <1>2
<1>4. c \in FileAction /\ c.kind = "send" /\ c.id = id /\ c.num = 0
  BY <1>3 DEF FileAction
<1>5. Unknown(id)
  BY <1>3 DEF Unknown, Ids
<1> HIDE DEF id, c
<1>6. AddedS(c)
  BY <1>1, <1>4, AddedSIs
<1>7. /\ write_job' \in TransferJob /\ write_job'.id = id /\ write_job'.num = 0
      /\ write_job'.stream = None /\ ~write_job'.last
  <2>1. 0 \in Nat
    OBVIOUS
  <2> QED BY <2>1, <1>1, <1>3, NewJobIs
<1>8. write_job' # None
  BY <1>7, NoneAssumption
<1>9. ask = None
  BY <1>1 DEF Ids
<1>10. suspect \subseteq suspect' /\ suspect' \subseteq Files
  BY <1>1 DEF TypeOK, Remains
<1>11. \A f \in Files : f \notin suspect' => disk.download[f] = None
  <2> TAKE f \in Files
  <2> HAVE f \notin suspect'
  <2>1. f \notin Remains(0, FALSE)
    BY <1>1
  <2> QED BY <2>1, RemainsIs
<1>12. OpenedWith(c)
  BY <1>1, <1>3, <1>4, <1>5, <1>6, <1>7, <1>8, <1>9, <1>10, <1>11 DEF OpenedWith, id
<1> QED BY <1>4, <1>12 DEF Opening

\* Data::ResumeJob asks for a job.
LEMMA ResumeStep ==
    ASSUME TypeOK, Ids, Fresh, ResumeJob
    PROVE  Opening
<1> DEFINE w == write_job
           c == [kind |-> "send", id |-> w.id, num |-> w.num]
<1>1. /\ connected /\ write_job # None /\ write_job.last
      /\ write_job' = [write_job EXCEPT !.last = FALSE, !.resume = TRUE]
      /\ toSender' = Append(toSender, c)
      /\ suspect' = suspect \cup Remains(write_job.num, TRUE) /\ done' = FALSE
      /\ UNCHANGED <<connected, read_jobs, ask, toReceiver, src, disk, saved, jobs,
                     faults, skips, failed>>
  BY DEF ResumeJob
<1>2. w \in TransferJob /\ w.id \in Nat /\ w.num \in Nat
  BY <1>1, TypeFacts
<1>3. w.id = jobs /\ jobs \in 1 .. MaxJobs
  BY <1>1, BoundsAssumption DEF Ids, TypeOK
<1>4. c \in FileAction /\ c.kind = "send" /\ c.id = w.id /\ c.num = w.num
  BY <1>2 DEF FileAction
<1>5. Unknown(w.id) /\ ask = None /\ w.stream = None
  BY <1>1 DEF Unknown, Fresh
<1> HIDE DEF c
<1>6. AddedS(c)
  BY <1>1, <1>4, AddedSIs
<1>7. /\ write_job' \in TransferJob /\ write_job'.id = w.id /\ write_job'.num = w.num
      /\ write_job'.stream = w.stream /\ ~write_job'.last /\ write_job'.resume
  BY <1>1, <1>2 DEF TransferJob
<1>8. write_job' # None
  BY <1>7, NoneAssumption
<1>10. suspect \subseteq suspect' /\ suspect' \subseteq Files
  BY <1>1 DEF TypeOK, Remains
<1>11. \A f \in Files : f \notin suspect' /\ disk.download[f] # None =>
          f = w.num /\ disk.digest[f] = src[f] /\ disk.download[f].len > 0
  <2> TAKE f \in Files
  <2> HAVE f \notin suspect' /\ disk.download[f] # None
  <2>1. f \notin Remains(w.num, TRUE)
    BY <1>1
  <2> QED BY <2>1, RemainsIs
<1>12. OpenedWith(c)
  BY <1>1, <1>3, <1>4, <1>5, <1>6, <1>7, <1>8, <1>10, <1>11 DEF OpenedWith
<1> QED BY <1>4, <1>12 DEF Opening

\* The writer gives its job up.
Cancelling ==
    /\ \E c \in FileAction : c.kind = "cancel" /\ c.id = jobs /\ AddedS(c)
    /\ jobs \in 1 .. MaxJobs
    /\ write_job' = None /\ ask' = None
    /\ disk' = RemoveDownloadFile(disk, write_job) /\ write_job \in TransferJob
    /\ connected /\ done = FALSE
    /\ UNCHANGED <<connected, read_jobs, toReceiver, src, saved, jobs, faults, history>>

\* Data::CancelJob does what Cancelling says.
LEMMA CancelJobStep ==
    ASSUME TypeOK, Ids, CancelJob
    PROVE  Cancelling
<1> DEFINE c == [kind |-> "cancel", id |-> write_job.id]
<1>1. /\ connected /\ write_job # None /\ toSender' = Append(toSender, c)
      /\ disk' = RemoveDownloadFile(disk, write_job) /\ write_job' = None /\ ask' = None
      /\ UNCHANGED <<connected, read_jobs, toReceiver, src, saved, jobs, faults, history>>
  BY DEF CancelJob
<1>2. write_job \in TransferJob /\ write_job.id \in Nat
  BY <1>1, TypeFacts
<1>3. write_job.id = jobs /\ jobs \in 1 .. MaxJobs /\ done = FALSE
  BY <1>1, BoundsAssumption DEF Ids, TypeOK
<1>4. c \in FileAction /\ c.kind = "cancel" /\ c.id = write_job.id
  BY <1>2 DEF FileAction
<1> HIDE DEF c
<1>5. AddedS(c)
  BY <1>1, <1>4, AddedSIs
<1> QED BY <1>1, <1>2, <1>3, <1>4, <1>5 DEF Cancelling

\* Nothing is under way.
Quiet ==
    /\ read_jobs' = <<>> /\ toReceiver' = <<>> /\ toSender' = <<>> /\ ask' = None
    /\ done' = FALSE /\ failed' \in SUBSET (1 .. MaxJobs)
    /\ connected' \in BOOLEAN
    /\ jobs' \in 0 .. MaxJobs /\ UNCHANGED <<faults, suspect>>
    /\ \/ write_job' = None /\ skips' = skips
       \/ /\ write_job' \in TransferJob /\ write_job' # None
          /\ write_job'.last /\ write_job'.stream = None
          /\ write_job'.id = jobs' /\ jobs' >= 1 /\ connected'
          /\ saved # None /\ write_job'.num = saved.num /\ skips' = saved.skips
          /\ UNCHANGED <<disk, saved, src>>

\* When the connection breaks everything is quiet.
LEMMA CutStep ==
    ASSUME TypeOK, Cut
    PROVE  Quiet /\ UNCHANGED src /\ connected
<1>1. /\ connected /\ connected' = FALSE /\ read_jobs' = <<>> /\ write_job' = None /\ ask' = None
      /\ toReceiver' = <<>> /\ toSender' = <<>> /\ failed' = {} /\ done' = FALSE
      /\ UNCHANGED <<src, jobs, faults, skips, suspect>>
  BY DEF Cut
<1> QED BY <1>1 DEF Quiet, TypeOK

\* Nothing is under way at the login, or while nobody is connected.
LEMMA ConnectStep ==
    ASSUME TypeOK, Ids, Connect \/ ChangeSource
    PROVE  Quiet
<1>1. ~connected /\ read_jobs = <<>> /\ toReceiver = <<>> /\ toSender = <<>> /\ write_job = None
        /\ ask = None /\ done = FALSE
  BY DEF Connect, ChangeSource, Ids, TypeOK
<1>2. UNCHANGED <<read_jobs, toReceiver, toSender, ask, disk, saved, faults, suspect, failed, done>>
        /\ connected' \in BOOLEAN
  BY DEF Connect, ChangeSource, peers, wires, history, TypeOK
<1>3. CASE ChangeSource
  <2>1. UNCHANGED <<write_job, jobs, skips>>
    BY <1>3 DEF ChangeSource, peers, history
  <2> QED BY <2>1, <1>1, <1>2 DEF Quiet, TypeOK
<1>4. CASE Connect /\ UNCHANGED <<write_job, jobs, skips>>
  BY <1>4, <1>1, <1>2 DEF Quiet, TypeOK
<1>5. CASE Connect /\ ~UNCHANGED <<write_job, jobs, skips>>
  <2>1. /\ saved # None /\ jobs < MaxJobs /\ jobs' = jobs + 1 /\ connected' = TRUE
        /\ write_job' = [NewJob(jobs', saved.num) EXCEPT !.last = TRUE]
        /\ skips' = saved.skips /\ UNCHANGED src
    BY <1>5 DEF Connect
  <2>2. jobs' \in 0 .. MaxJobs /\ jobs' \in Nat /\ jobs' >= 1
    BY <2>1, BoundsAssumption DEF TypeOK
  <2>3. saved.num \in Nat
    BY <2>1 DEF TypeOK
  <2> DEFINE id == jobs'
             j == NewJob(id, saved.num)
  <2>4. /\ j \in TransferJob /\ j.id = id /\ j.num = saved.num /\ j.stream = None
    BY <2>2, <2>3, NewJobIs
  <2>5. write_job' = [j EXCEPT !.last = TRUE]
    BY <2>1
  <2> HIDE DEF j, id
  <2>6. /\ write_job' \in TransferJob /\ write_job'.id = id /\ write_job'.num = saved.num
        /\ write_job'.stream = None /\ write_job'.last
    BY <2>4, <2>5 DEF TransferJob
  <2>7. write_job' # None
    BY <2>6, NoneAssumption
  <2>8. write_job'.id = jobs'
    BY <2>6 DEF id
  <2> QED BY <2>1, <2>2, <2>6, <2>7, <2>8, <1>1, <1>2 DEF Quiet, TypeOK
<1> QED BY <1>3, <1>4, <1>5

-----------------------------------------------------------------------------
(***************************************************************************)
(* Protocol is kept.                                                       *)
(***************************************************************************)

\* An empty sequence has no places.
LEMMA NoIndex ==
    ASSUME NEW T, NEW s \in Seq(T), \A p \in DOMAIN s : FALSE
    PROVE  s = <<>>
<1>1. Len(s) \in Nat /\ DOMAIN s = 1 .. Len(s)
  BY LenProperties
<1>2. ~(1 \in 1 .. Len(s))
  BY <1>1
<1>3. Len(s) = 0
  BY <1>1, <1>2
<1> QED BY <1>3, EmptySeq

\* Protocol, when messages and jobs only disappear.
LEMMA ThinnedProtocol ==
    ASSUME TypeOK, Protocol, Thinned
    PROVE  Protocol'
<1>0. Ids /\ Fresh /\ Question /\ OneQuestion /\ Wire /\ Ended
  BY DEF Protocol
<1>1. UNCHANGED <<connected, ask, src, jobs, done>>
  BY DEF Thinned
<1>2. /\ write_job = None => write_job' = None
      /\ write_job # None =>
        /\ write_job' # None /\ write_job'.id = write_job.id /\ write_job'.num = write_job.num
        /\ write_job'.stream = write_job.stream /\ (write_job'.last <=> write_job.last)
  BY DEF Thinned
<1>3. \A id : JobIs(id)' <=> JobIs(id)
  BY <1>2 DEF JobIs
<1>4. PICK d \in {0, 1} : \A p \in DOMAIN toReceiver' :
            p \in Nat /\ p + d \in DOMAIN toReceiver /\ toReceiver'[p] = toReceiver[p + d]
  BY DEF Thinned
<1>5. PICK e \in {0, 1} : \A q \in DOMAIN toSender' :
        q \in Nat /\ q + e \in DOMAIN toSender /\ toSender'[q] = toSender[q + e]
  BY DEF Thinned
<1>6. \A i \in DOMAIN read_jobs' : \E k \in DOMAIN read_jobs : read_jobs'[i] = read_jobs[k]
  <2>1. PICK x \in Nat : \A i \in DOMAIN read_jobs' :
          /\ i \in Nat
          /\ i < x => i \in DOMAIN read_jobs /\ read_jobs'[i] = read_jobs[i]
          /\ i >= x => i + 1 \in DOMAIN read_jobs /\ read_jobs'[i] = read_jobs[i + 1]
    BY DEF Thinned, LostOne
  <2>2. \A i \in Nat : i < x \/ i >= x
    BY <2>1
  <2> QED BY <2>1, <2>2
<1>7. \A i, k \in DOMAIN read_jobs' : read_jobs'[i].id = read_jobs'[k].id => i = k
  <2>1. PICK x \in Nat : \A i \in DOMAIN read_jobs' :
          /\ i \in Nat
          /\ i < x => i \in DOMAIN read_jobs /\ read_jobs'[i] = read_jobs[i]
          /\ i >= x => i + 1 \in DOMAIN read_jobs /\ read_jobs'[i] = read_jobs[i + 1]
    BY DEF Thinned, LostOne
  <2>2. \A i, k \in DOMAIN read_jobs : read_jobs[i].id = read_jobs[k].id => i = k
    BY <1>0 DEF Ids
  <2> QED BY <2>1, <2>2
<1>8. Ids'
  <2>1. ~connected => read_jobs' = <<>> /\ toReceiver' = <<>> /\ toSender' = <<>>
    <3>1. toReceiver' \in Seq(Response) /\ toSender' \in Seq(FileAction)
                    /\ read_jobs' \in Seq(TransferJob)
      BY DEF Thinned
    <3>2. \A p \in DOMAIN <<>> : FALSE
      OBVIOUS
    <3>3. ~connected => (\A i \in DOMAIN read_jobs' : FALSE)
                    /\ (\A i \in DOMAIN toReceiver' : FALSE)
                /\ (\A i \in DOMAIN toSender' : FALSE)
      BY <1>0, <1>4, <1>5, <1>6, <3>2 DEF Ids
    <3> QED BY <3>1, <3>3, NoIndex
  <2> QED BY <2>1, <1>0, <1>1, <1>2, <1>4, <1>5, <1>6, <1>7 DEF Ids
<1>9. Fresh'
  BY <1>0, <1>1, <1>2, <1>3, <1>4, <1>5, <1>6 DEF Fresh
<1>10. Question'
  BY <1>0, <1>1, <1>3, <1>4, <1>5, <1>6 DEF Question
<1>11. OneQuestion'
  BY <1>0, <1>1, <1>2, <1>4, <1>5 DEF OneQuestion
<1>12. Wire'
  BY <1>0, <1>1, <1>3, <1>4, <1>5, <1>6 DEF Wire
<1>13. Ended'
  BY <1>0, <1>1, <1>3, <1>4, <1>5, <1>6 DEF Ended
<1> QED BY <1>8, <1>9, <1>10, <1>11, <1>12, <1>13 DEF Protocol

\* Protocol, when a response other than a digest is taken.
LEMMA ReceivedProtocol ==
    ASSUME TypeOK, Protocol, Received
    PROVE  Protocol'
<1>0. Ids /\ Fresh /\ Question /\ OneQuestion /\ Wire /\ Ended
  BY DEF Protocol
<1>1. connected /\ UNCHANGED <<connected, read_jobs, toSender, src, jobs>>
  BY DEF Received
<1>2. /\ write_job' # None =>
        /\ write_job # None /\ write_job'.id = write_job.id /\ (write_job'.last <=> write_job.last)
        /\ ask' = ask
        /\ \/ write_job'.num = write_job.num /\ write_job'.stream = write_job.stream
           \/ toReceiver[1].id = write_job.id
      /\ write_job' = None => ask' = None
      /\ done' => done \/ write_job' = None
  BY DEF Received
<1>3. \A id : JobIs(id)' => JobIs(id) /\ ask' = ask /\ write_job' # None
  BY <1>2 DEF JobIs
<1>4. 1 \in DOMAIN toReceiver /\ \A p \in DOMAIN toReceiver' :
            p \in Nat /\ p + 1 \in DOMAIN toReceiver /\ toReceiver'[p] = toReceiver[p + 1]
  BY DEF Received, TakenR
<1>5. ask' # None => ask # None /\ write_job' # None
  BY <1>2
<1>8. Ids'
  BY <1>0, <1>1, <1>2, <1>4 DEF Ids
<1>9. Fresh'
  BY <1>0, <1>1, <1>2, <1>3, <1>4 DEF Fresh, JobIs
<1>10. Question'
  BY <1>0, <1>1, <1>3, <1>4, <1>5 DEF Question
<1>11. OneQuestion'
  BY <1>0, <1>1, <1>2, <1>4, <1>5 DEF OneQuestion
<1>12. Wire'
  BY <1>0, <1>1, <1>3, <1>4, <1>5 DEF Wire
<1>13. Ended'
  BY <1>0, <1>1, <1>3, <1>4, <1>5 DEF Ended
<1> QED BY <1>8, <1>9, <1>10, <1>11, <1>12, <1>13 DEF Protocol

\* Protocol, when nothing is under way.
LEMMA QuietProtocol ==
    ASSUME TypeOK, Protocol, Quiet
    PROVE  Protocol'
<1>1. /\ \A i \in DOMAIN read_jobs' : FALSE
      /\ \A p \in DOMAIN toReceiver' : FALSE
      /\ \A q \in DOMAIN toSender' : FALSE
      /\ ask' = None /\ done' = FALSE
  BY DEF Quiet
<1>2. /\ read_jobs' = <<>> /\ toReceiver' = <<>> /\ toSender' = <<>>
      /\ write_job' # None => /\ connected' /\ write_job'.id = jobs' /\ jobs' >= 1
                              /\ write_job'.stream = None
  BY DEF Quiet
<1>8. Ids'
  BY <1>1, <1>2 DEF Ids
<1>9. Fresh'
  BY <1>1, <1>2 DEF Fresh
<1>10. Question'
  BY <1>1, <1>2 DEF Question
<1>11. OneQuestion'
  BY <1>1, <1>2 DEF OneQuestion
<1>12. Wire'
  BY <1>1, <1>2 DEF Wire
<1>13. Ended'
  BY <1>1, <1>2 DEF Ended
<1> QED BY <1>8, <1>9, <1>10, <1>11, <1>12, <1>13 DEF Protocol

\* Protocol, when the user cancels.
LEMMA CancellingProtocol ==
    ASSUME TypeOK, Protocol, Cancelling
    PROVE  Protocol'
<1>0. Ids /\ Fresh /\ Question /\ OneQuestion /\ Wire /\ Ended
  BY DEF Protocol
<1>1. /\ connected /\ done = FALSE /\ jobs \in 1 .. MaxJobs /\ jobs \in 1 .. jobs
      /\ UNCHANGED <<connected, read_jobs, toReceiver, src, jobs, done>>
      /\ write_job' = None /\ ask' = None
  BY DEF Cancelling, history
<1>2. PICK c \in FileAction : c.kind = "cancel" /\ c.id = jobs /\ AddedS(c)
  BY DEF Cancelling
<1>3. \A id : ~JobIs(id)'
  BY <1>1 DEF JobIs
<1>4. \A q \in DOMAIN toSender' :
        \/ q \in DOMAIN toSender /\ toSender'[q] = toSender[q]
        \/ toSender'[q].kind = "cancel" /\ toSender'[q].id = jobs
  BY <1>2 DEF AddedS
<1>8. Ids'
  BY <1>0, <1>1, <1>4 DEF Ids
<1>9. Fresh'
  BY <1>0, <1>1, <1>3, <1>4 DEF Fresh
<1>10. Question'
  BY <1>0, <1>1, <1>3, <1>4 DEF Question
<1>11. OneQuestion'
  BY <1>0, <1>1, <1>4 DEF OneQuestion
<1>12. Wire'
  BY <1>0, <1>1, <1>3, <1>4 DEF Wire
<1>13. Ended'
  BY <1>0, <1>1, <1>3, <1>4 DEF Ended
<1> QED BY <1>8, <1>9, <1>10, <1>11, <1>12, <1>13 DEF Protocol

\* Protocol, when the writer asks for a job.
LEMMA OpeningProtocol ==
    ASSUME TypeOK, Protocol, Opening
    PROVE  Protocol'
<1>0. Ids /\ Fresh /\ Question /\ OneQuestion /\ Wire /\ Ended
  BY DEF Protocol
<1>1. PICK c \in FileAction : OpenedWith(c)
  BY DEF Opening
<1>2. /\ c.kind = "send" /\ c.id = jobs' /\ c.num = write_job'.num
      /\ connected /\ ask = None /\ done' = FALSE
      /\ UNCHANGED <<connected, read_jobs, ask, toReceiver, src>>
      /\ write_job' # None /\ ~write_job'.last /\ write_job'.stream = None /\ write_job'.id = jobs'
      /\ jobs' \in 1 .. jobs' /\ jobs' >= 1 /\ \A k \in 1 .. jobs : k \in 1 .. jobs'
  <2>1. jobs \in 0 .. MaxJobs /\ jobs' \in 1 .. MaxJobs /\ (jobs' = jobs \/ jobs' = jobs + 1)
    BY <1>1 DEF OpenedWith, TypeOK
  <2>2. jobs' \in 1 .. jobs' /\ jobs' >= 1 /\ \A k \in 1 .. jobs : k \in 1 .. jobs'
    BY <2>1
  <2> QED BY <1>1, <2>2 DEF OpenedWith
<1>3. /\ \A i \in DOMAIN read_jobs : read_jobs[i].id # jobs'
      /\ \A p \in DOMAIN toReceiver : toReceiver[p].id # jobs'
      /\ \A q \in DOMAIN toSender : toSender[q].id # jobs'
  BY <1>1 DEF OpenedWith, Unknown
<1>4. \A q \in DOMAIN toSender' :
        \/ q \in DOMAIN toSender /\ toSender'[q] = toSender[q]
        \/ q = Len(toSender) + 1 /\ toSender'[q] = c
  BY <1>1 DEF OpenedWith, AddedS
<1>5. \A id : JobIs(id)' <=> id = jobs'
  BY <1>2 DEF JobIs
<1>8. Ids'
  BY <1>0, <1>2, <1>4 DEF Ids
<1>9. Fresh'
  BY <1>0, <1>2, <1>3, <1>4, <1>5 DEF Fresh
<1>10. Question'
  BY <1>0, <1>2, <1>3, <1>4, <1>5 DEF Question
<1>11. OneQuestion'
  BY <1>0, <1>2, <1>4 DEF OneQuestion
<1>12. Wire'
  BY <1>0, <1>2, <1>4 DEF Wire
<1>13. Ended'
  BY <1>0, <1>2, <1>4 DEF Ended
<1> QED BY <1>8, <1>9, <1>10, <1>11, <1>12, <1>13 DEF Protocol

\* Protocol, when the reader starts a job.
LEMMA SendingProtocol ==
    ASSUME TypeOK, Protocol, Sending
    PROVE  Protocol'
<1> DEFINE m == toSender[1]
<1>0. Ids /\ Fresh /\ Question /\ OneQuestion /\ Wire /\ Ended
  BY DEF Protocol
<1>1. /\ TakenS /\ m.kind = "send"
      /\ UNCHANGED <<connected, write_job, ask, src, jobs, done>>
  BY DEF Sending, history
<1>2. \A id : JobIs(id)' <=> JobIs(id)
  BY <1>1 DEF JobIs
<1>3. PICK x \in Response : x.id = m.id /\ x.kind \in {"dir", "error"} /\ AddedR(x)
  BY DEF Sending
<1>4. \A p \in DOMAIN toReceiver' :
        \/ p \in DOMAIN toReceiver /\ toReceiver'[p] = toReceiver[p] /\ p < Len(toReceiver) + 1
        \/ p = Len(toReceiver) + 1 /\ toReceiver'[p] = x
  BY <1>3, TypeFacts DEF AddedR
<1>5. 1 \in DOMAIN toSender /\ \A q \in DOMAIN toSender' :
        q \in Nat /\ q >= 1 /\ q + 1 \in DOMAIN toSender /\ toSender'[q] = toSender[q + 1]
                        /\ q + 1 # 1
  BY <1>1 DEF TakenS
<1>6. \A i \in DOMAIN read_jobs' :
        \/ i \in DOMAIN read_jobs /\ read_jobs'[i] = read_jobs[i]
        \/ /\ i = Len(read_jobs) + 1 /\ read_jobs'[i].id = m.id /\ read_jobs'[i].num = m.num
           /\ read_jobs'[i].stream = None
           /\ ~read_jobs'[i].waiting /\ ~read_jobs'[i].confirmed
  BY DEF Sending
<1>7. /\ \A i \in DOMAIN read_jobs : read_jobs[i].id # m.id
      /\ \A p \in DOMAIN toReceiver : toReceiver[p].id # m.id
      /\ \A k \in DOMAIN toSender : k # 1 /\ toSender[k].id = m.id => toSender[k].kind = "cancel"
      /\ JobIs(m.id) => ~write_job.last /\ ask = None
      /\ write_job # None /\ write_job.last => write_job.id # m.id
      /\ m.id \in 1 .. jobs
  BY <1>0, <1>1, <1>5 DEF Fresh, Ids, JobIs
<1>8. Ids'
  <2>1. connected
    BY <1>0, <1>5 DEF Ids
  <2> QED BY <2>1, <1>0, <1>1, <1>3, <1>4, <1>5, <1>6, <1>7 DEF Ids
<1>9. Fresh'
  BY <1>0, <1>1, <1>2, <1>3, <1>4, <1>5, <1>6, <1>7 DEF Fresh
<1>10. Question'
  BY <1>0, <1>1, <1>2, <1>3, <1>4, <1>5, <1>6, <1>7 DEF Question
<1>11. OneQuestion'
  BY <1>0, <1>1, <1>3, <1>4, <1>5, <1>7 DEF OneQuestion
<1>12. Wire'
  BY <1>0, <1>1, <1>2, <1>3, <1>4, <1>5, <1>6, <1>7 DEF Wire
<1>13. Ended'
  BY <1>0, <1>1, <1>2, <1>3, <1>4, <1>5, <1>6, <1>7 DEF Ended
<1> QED BY <1>8, <1>9, <1>10, <1>11, <1>12, <1>13 DEF Protocol

\* Protocol, when the reader takes an answer.
LEMMA ConfirmingProtocol ==
    ASSUME TypeOK, Protocol, Confirming
    PROVE  Protocol'
<1> DEFINE m == toSender[1]
<1>0. Ids /\ Fresh /\ Question /\ OneQuestion /\ Wire /\ Ended
  BY DEF Protocol
<1>1. /\ TakenS /\ m.kind = "confirm" /\ m.num \in Files /\ m.num \in Nat /\ m.num < N
      /\ UNCHANGED <<connected, write_job, ask, toReceiver, src, jobs, done>>
      /\ DOMAIN read_jobs' = DOMAIN read_jobs
  BY FilesAre DEF Confirming
<1>2. \A id : JobIs(id)' <=> JobIs(id)
  BY <1>1 DEF JobIs
<1>5. 1 \in DOMAIN toSender /\ \A q \in DOMAIN toSender' :
        q \in Nat /\ q >= 1 /\ q + 1 \in DOMAIN toSender /\ toSender'[q] = toSender[q + 1]
                        /\ q + 1 # 1
  BY <1>1 DEF TakenS
<1>6. \A i \in DOMAIN read_jobs :
        /\ read_jobs'[i].id = read_jobs[i].id
        /\ read_jobs[i].id # m.id => read_jobs'[i] = read_jobs[i]
        /\ read_jobs[i].id = m.id => Answered(read_jobs[i], m, read_jobs'[i])
  BY DEF Confirming, Answered
<1>7. /\ \A p \in DOMAIN toReceiver : toReceiver[p].id = m.id => toReceiver[p].kind = "dir"
      /\ \A k \in DOMAIN toSender : k # 1 /\ toSender[k].id = m.id => toSender[k].kind # "confirm"
      /\ \A k \in DOMAIN toSender : toSender[k].id = m.id => toSender[k].kind # "send"
      /\ JobIs(m.id) => ask = None
  <2>1. \A p \in DOMAIN toReceiver : toReceiver[p].kind \in {"dir", "done", "error", "digest",
                  "block"}
    BY TypeFacts, ResponseFields
  <2>2. \A p \in DOMAIN toReceiver : toReceiver[p].id = m.id => toReceiver[p].kind # "block"
    BY <1>0, <1>1, <1>5 DEF Wire
  <2>3. \A p \in DOMAIN toReceiver : toReceiver[p].id = m.id
                  => toReceiver[p].kind \notin {"done", "error"}
    BY <1>0, <1>1, <1>5 DEF Ended
  <2>4. \A p \in DOMAIN toReceiver : toReceiver[p].id = m.id => toReceiver[p].kind # "digest"
    BY <1>0, <1>1, <1>5 DEF OneQuestion
  <2>5. \A k \in DOMAIN toSender : toSender[k].id = m.id => toSender[k].kind # "send"
    BY <1>0, <1>1, <1>5 DEF Fresh
  <2>6. /\ \A k \in DOMAIN toSender : k # 1 /\ toSender[k].id = m.id => toSender[k].kind # "confirm"
        /\ JobIs(m.id) => ask = None
    BY <1>0, <1>1, <1>5 DEF OneQuestion, JobIs
  <2> QED BY <2>1, <2>2, <2>3, <2>4, <2>5, <2>6
<1>8. Ids'
  <2>1. connected
    BY <1>0, <1>5 DEF Ids
  <2> QED BY <2>1, <1>0, <1>1, <1>5, <1>6 DEF Ids
<1>9. Fresh'
  BY <1>0, <1>1, <1>2, <1>5, <1>6 DEF Fresh
<1>10. Question'
  <2>1. ASSUME NEW i \in DOMAIN read_jobs', read_jobs[i].id = m.id
        PROVE  LET k == read_jobs'[i] IN
            /\ k.stream # None <=> k.waiting
            /\ k.waiting => k.num < N
            /\ k.confirmed => k.waiting
            /\ k.waiting /\ ~k.confirmed => k.stream = 0
    <3>1. Answered(read_jobs[i], m, read_jobs'[i])
      BY <2>1, <1>1, <1>6
    <3>2. m.skip \in BOOLEAN /\ None \notin Nat
      BY <1>1, <1>5, TypeFacts, FileActionFields, NoneAssumption
    <3> QED BY <3>1, <3>2, <1>1 DEF Answered, Moved, Asked
  <2> QED BY <2>1, <1>0, <1>1, <1>2, <1>5, <1>6, <1>7 DEF Question
<1>11. OneQuestion'
  BY <1>0, <1>1, <1>5 DEF OneQuestion
<1>12. Wire'
  BY <1>0, <1>1, <1>2, <1>5, <1>6, <1>7 DEF Wire
<1>13. Ended'
  BY <1>0, <1>1, <1>2, <1>5, <1>6, <1>7 DEF Ended
<1> QED BY <1>8, <1>9, <1>10, <1>11, <1>12, <1>13 DEF Protocol

\* Protocol, when the user is asked.
LEMMA AskingProtocol ==
    ASSUME TypeOK, Protocol, Asking
    PROVE  Protocol'
<1>0. Ids /\ Fresh /\ Question /\ OneQuestion /\ Wire /\ Ended
  BY DEF Protocol
<1>1. PICK f \in Files :
        /\ OnQuestion(f) /\ ask' \in {f, None}
        /\ write_job' = [write_job EXCEPT !.digest = src[f]] /\ UNCHANGED toSender
  BY DEF Asking
<1>2. /\ write_job' # None /\ write_job'.id = write_job.id /\ ~write_job'.last
      /\ write_job'.stream = write_job.stream /\ write_job'.num = write_job.num
      /\ f \in Nat /\ f < N /\ write_job # None /\ f # None
  <2>1. write_job \in TransferJob /\ src[f] \in Nat
    BY <1>1, TypeFacts DEF OnQuestion
  <2>2. write_job' \in TransferJob /\ write_job'.id = write_job.id
                  /\ write_job'.last = write_job.last
          /\ write_job'.stream = write_job.stream /\ write_job'.num = write_job.num
    BY <2>1, <1>1 DEF TransferJob
  <2> QED BY <2>2, <1>1, FilesAre, NoneAssumption DEF OnQuestion
<1>3. /\ connected /\ UNCHANGED <<connected, read_jobs, src, jobs, done>>
      /\ \A i \in DOMAIN read_jobs : JobIs(read_jobs[i].id) => Asked(read_jobs[i], f)
      /\ \A q \in DOMAIN toSender : JobIs(toSender[q].id) => toSender[q].kind = "cancel"
      /\ \A p \in DOMAIN toReceiver' : JobIs(toReceiver'[p].id) => toReceiver'[p].kind = "dir"
  BY <1>1 DEF OnQuestion
<1>4. PICK d \in {0, 1} : \A p \in DOMAIN toReceiver' :
        p \in Nat /\ p + d \in DOMAIN toReceiver /\ toReceiver'[p] = toReceiver[p + d]
  BY <1>1 DEF OnQuestion
<1>5. \A id : JobIs(id)' <=> JobIs(id)
  BY <1>2 DEF JobIs
<1>8. Ids'
  BY <1>0, <1>1, <1>2, <1>3, <1>4 DEF Ids
<1>9. Fresh'
  BY <1>0, <1>1, <1>2, <1>3, <1>4, <1>5 DEF Fresh
<1>10. Question'
  BY <1>0, <1>1, <1>2, <1>3, <1>4, <1>5 DEF Question
<1>11. OneQuestion'
  BY <1>0, <1>1, <1>2, <1>3, <1>4 DEF OneQuestion, JobIs
<1>12. Wire'
  BY <1>0, <1>1, <1>2, <1>3, <1>4, <1>5 DEF Wire
<1>13. Ended'
  BY <1>0, <1>1, <1>2, <1>3, <1>4, <1>5 DEF Ended
<1> QED BY <1>8, <1>9, <1>10, <1>11, <1>12, <1>13 DEF Protocol

\* Protocol, when the writer answers.
LEMMA AnsweringProtocol ==
    ASSUME TypeOK, Protocol, Answering
    PROVE  Protocol'
<1>0. Ids /\ Fresh /\ Question /\ OneQuestion /\ Wire /\ Ended
  BY DEF Protocol
<1>1. PICK f \in Files : \E c \in FileAction : AnswerTo(f, c)
  BY DEF Answering
<1>2. PICK c \in FileAction : AnswerTo(f, c)
  BY <1>1
<1>3. /\ connected /\ UNCHANGED <<connected, read_jobs, src, jobs, done>>
      /\ \A i \in DOMAIN read_jobs : JobIs(read_jobs[i].id) => Asked(read_jobs[i], f)
      /\ \A q \in DOMAIN toSender : JobIs(toSender[q].id) => toSender[q].kind = "cancel"
      /\ \A p \in DOMAIN toReceiver' : JobIs(toReceiver'[p].id) => toReceiver'[p].kind = "dir"
      /\ write_job # None /\ f \in Nat /\ f < N
  BY <1>2, FilesAre DEF AnswerTo, OnQuestion
<1>4. PICK d \in {0, 1} : \A p \in DOMAIN toReceiver' :
        p \in Nat /\ p + d \in DOMAIN toReceiver /\ toReceiver'[p] = toReceiver[p + d]
  BY <1>2 DEF AnswerTo, OnQuestion
<1>5. /\ write_job' # None /\ write_job'.id = write_job.id /\ ~write_job'.last
      /\ c.kind = "confirm" /\ c.id = write_job.id /\ c.num = f /\ ask' = None
  BY <1>2 DEF AnswerTo
<1>6. \A id : JobIs(id)' <=> JobIs(id)
  BY <1>3, <1>5 DEF JobIs
<1>7. \A q \in DOMAIN toSender' :
        \/ q \in DOMAIN toSender /\ toSender'[q] = toSender[q]
        \/ q = Len(toSender) + 1 /\ toSender'[q] = c
  BY <1>2 DEF AnswerTo, AddedS
<1>a. JobIs(c.id)
  BY <1>3, <1>5 DEF JobIs
<1>b. c.id \in 1 .. jobs
  BY <1>0, <1>3, <1>5, BoundsAssumption DEF Ids, TypeOK
<1>8. Ids'
  BY <1>b, <1>0, <1>3, <1>4, <1>5, <1>7 DEF Ids
<1>9. Fresh'
  <2>1. \A q \in DOMAIN toSender : toSender[q].kind = "send" => toSender[q].id # write_job.id
    BY <1>3 DEF JobIs
  <2> QED BY <2>1, <1>a, <1>0, <1>3, <1>4, <1>5, <1>6, <1>7 DEF Fresh, JobIs
<1>10. Question'
  BY <1>0, <1>3, <1>4, <1>5, <1>6, <1>7, <1>a DEF Question, JobIs
<1>11. OneQuestion'
  BY <1>0, <1>3, <1>4, <1>5, <1>7, <1>a DEF OneQuestion, JobIs
<1>12. Wire'
  BY <1>0, <1>3, <1>4, <1>5, <1>6, <1>7, <1>a DEF Wire, JobIs
<1>13. Ended'
  BY <1>0, <1>3, <1>4, <1>5, <1>6, <1>7, <1>a DEF Ended, JobIs
<1> QED BY <1>8, <1>9, <1>10, <1>11, <1>12, <1>13 DEF Protocol

\* A step of the file timer, with what it leaves alone.
Ticking == Tick /\ connected /\ UNCHANGED <<connected, write_job, ask, toSender, src, disk,
                saved, jobs,
                   skips, suspect, done>>

\* A job that waits for an answer sends nothing and stays as it is.
LEMMA WaitingIsStill ==
    ASSUME TypeOK, Protocol, Ticking, NEW i \in DOMAIN read_jobs,
           read_jobs[i].waiting, ~read_jobs[i].confirmed
    PROVE  /\ Silent(read_jobs[i].id)
           /\ \A k \in DOMAIN read_jobs' : read_jobs'[k].id = read_jobs[i].id
                           => Same(read_jobs[i], read_jobs'[k])
<1>1. \A j, k \in DOMAIN read_jobs : read_jobs[j].id = read_jobs[k].id => j = k
  BY DEF Protocol, Ids
<1>2. Silent(read_jobs[i].id)
  <2> SUFFICES ASSUME NEW p \in DOMAIN toReceiver', p > Len(toReceiver),
                  toReceiver'[p].id = read_jobs[i].id
               PROVE  FALSE
    BY DEF Silent
  <2>1. PICK k \in DOMAIN read_jobs : TickedMsg(read_jobs[k], toReceiver'[p])
    BY DEF Ticking, Tick
  <2>2. k = i
    BY <2>1, <1>1 DEF TickedMsg
  <2> QED BY <2>1, <2>2 DEF TickedMsg
<1>3. PICK x \in {0, 1} : \A k \in DOMAIN read_jobs' :
        k + x \in DOMAIN read_jobs /\ Ticked(read_jobs[k + x], read_jobs'[k])
  BY DEF Ticking, Tick
<1>4. ASSUME NEW k \in DOMAIN read_jobs', read_jobs'[k].id = read_jobs[i].id
      PROVE  Same(read_jobs[i], read_jobs'[k])
  <2>1. k + x \in DOMAIN read_jobs /\ Ticked(read_jobs[k + x], read_jobs'[k])
    BY <1>3
  <2>2. k + x = i
    BY <2>1, <1>1, <1>4 DEF Ticked
  <2> QED BY <2>1, <2>2 DEF Ticked
<1> QED BY <1>2, <1>4

\* Two messages of one tick for a job are two bad news.
LEMMA OneMessage ==
    ASSUME TypeOK, Ticking, NEW p \in DOMAIN toReceiver', NEW q \in DOMAIN toReceiver',
           p > Len(toReceiver), q > Len(toReceiver), toReceiver'[p].id = toReceiver'[q].id,
           toReceiver'[p].kind \in {"digest", "block"}
    PROVE  p = q
<1>1. p \in Nat /\ q \in Nat
  BY LenProperties DEF Ticking, Tick
<1>2. CASE p < q
  BY <1>2 DEF Ticking, Tick
<1>3. CASE q < p
  BY <1>3 DEF Ticking, Tick
<1> QED BY <1>1, <1>2, <1>3

\* The job a message of a tick is from, when it is still there.
LEMMA MessageOf ==
    ASSUME TypeOK, Protocol, Ticking, NEW p \in DOMAIN toReceiver', p > Len(toReceiver)
    PROVE  \E i \in DOMAIN read_jobs :
            /\ TickedMsg(read_jobs[i], toReceiver'[p]) /\ JobOK(read_jobs[i])
            /\ \A k \in DOMAIN read_jobs' : read_jobs'[k].id = toReceiver'[p].id =>
                Ticked(read_jobs[i], read_jobs'[k])
<1>1. PICK i \in DOMAIN read_jobs : TickedMsg(read_jobs[i], toReceiver'[p])
  BY DEF Ticking, Tick
<1>2. PICK x \in {0, 1} : \A k \in DOMAIN read_jobs' :
        k + x \in DOMAIN read_jobs /\ Ticked(read_jobs[k + x], read_jobs'[k])
  BY DEF Ticking, Tick
<1>3. ASSUME NEW k \in DOMAIN read_jobs', read_jobs'[k].id = toReceiver'[p].id
      PROVE  Ticked(read_jobs[i], read_jobs'[k])
  <2>1. k + x \in DOMAIN read_jobs /\ Ticked(read_jobs[k + x], read_jobs'[k])
    BY <1>2
  <2>2. k + x = i
    BY <2>1, <1>1, <1>3 DEF Ticked, TickedMsg, Protocol, Ids
  <2> QED BY <2>1, <2>2
<1> QED BY <1>1, <1>3, JobsOK DEF Protocol

\* Protocol, when the timer ticks.
LEMMA TickingProtocol ==
    ASSUME TypeOK, Protocol, Ticking
    PROVE  Protocol'
<1> DEFINE L == Len(toReceiver)
<1>0. Ids /\ Fresh /\ Question /\ OneQuestion /\ Wire /\ Ended
  BY DEF Protocol
<1>1. connected /\ UNCHANGED <<connected, write_job, ask, toSender, src, jobs, done>>
  BY DEF Ticking
<1>2. \A id : JobIs(id)' <=> JobIs(id)
  BY <1>1 DEF JobIs
<1>3. PICK x \in {0, 1} : \A k \in DOMAIN read_jobs' :
        k \in Nat /\ k + x \in DOMAIN read_jobs /\ Ticked(read_jobs[k + x], read_jobs'[k])
  BY LenProperties DEF Ticking, Tick
<1>4. \A p \in DOMAIN toReceiver' :
        \/ p \in DOMAIN toReceiver /\ toReceiver'[p] = toReceiver[p] /\ p <= L
        \/ p > L /\ \E i \in DOMAIN read_jobs : TickedMsg(read_jobs[i], toReceiver'[p])
  <2> TAKE p \in DOMAIN toReceiver'
  <2>1. p \in Nat /\ p >= 1 /\ L \in Nat /\ DOMAIN toReceiver = 1 .. L
    BY TypeFacts, LenProperties DEF Ticking, Tick
  <2>2. CASE p > L
    BY <2>2 DEF Ticking, Tick
  <2>3. CASE p \in 1 .. L
    BY <2>1, <2>3 DEF Ticking, Tick
  <2> QED BY <2>1, <2>2, <2>3
<1>5. \A k \in DOMAIN read_jobs' : read_jobs'[k].id = read_jobs[k + x].id
  BY <1>3 DEF Ticked
<1>6. \A p \in DOMAIN toReceiver' : p > L
                => \E i \in DOMAIN read_jobs : toReceiver'[p].id = read_jobs[i].id
  BY DEF Ticking, Tick, TickedMsg
<1>7. \A k \in DOMAIN read_jobs' : JobOK(read_jobs[k + x]) /\ k + x \in DOMAIN read_jobs
  BY <1>3, JobsOK, <1>0
<1>a. \A p \in DOMAIN toReceiver' : p \in DOMAIN toReceiver \/ p > L
  BY <1>4
<1>8. Ids'
  BY <1>0, <1>1, <1>3, <1>4, <1>5, <1>6 DEF Ids
<1>9. Fresh'
  BY <1>0, <1>1, <1>2, <1>3, <1>4, <1>5, <1>6 DEF Fresh
\* Who has been asked has sent nothing.
<1>b. ASSUME NEW i \in DOMAIN read_jobs, NEW num, Asked(read_jobs[i], num)
      PROVE  /\ \A p \in DOMAIN toReceiver' : p > L => toReceiver'[p].id # read_jobs[i].id
             /\ \A k \in DOMAIN read_jobs' : read_jobs'[k].id = read_jobs[i].id =>
                    Asked(read_jobs'[k], num)
  <2>1. read_jobs[i].waiting /\ ~read_jobs[i].confirmed /\ num = read_jobs[i].num
    BY <1>b DEF Asked
  <2>2. Silent(read_jobs[i].id) /\ \A k \in DOMAIN read_jobs' :
            read_jobs'[k].id = read_jobs[i].id => Same(read_jobs[i], read_jobs'[k])
    BY <2>1, WaitingIsStill
  <2> QED BY <2>1, <2>2 DEF Silent, Same, Asked
<1>c. ASSUME NEW q \in DOMAIN toSender, toSender[q].kind = "confirm",
             NEW p \in DOMAIN toReceiver', p > L
      PROVE  toReceiver'[p].id # toSender[q].id
  <2>1. PICK i \in DOMAIN read_jobs : toReceiver'[p].id = read_jobs[i].id
    BY <1>6, <1>c
  <2>2. toSender[q].id = read_jobs[i].id => Asked(read_jobs[i], toSender[q].num)
    BY <1>0, <1>c DEF Question
  <2> QED BY <2>1, <2>2, <1>b, <1>c
<1>d. ASSUME ask # None, NEW p \in DOMAIN toReceiver', p > L
      PROVE  ~JobIs(toReceiver'[p].id)
  <2>1. PICK i \in DOMAIN read_jobs : toReceiver'[p].id = read_jobs[i].id
    BY <1>6, <1>d
  <2>2. JobIs(read_jobs[i].id) => Asked(read_jobs[i], ask)
    BY <1>0, <1>d DEF Question
  <2> QED BY <2>1, <2>2, <1>b, <1>d
<1>e. ASSUME NEW p \in DOMAIN toReceiver, toReceiver[p].kind = "digest",
             NEW q \in DOMAIN toReceiver', q > L
      PROVE  toReceiver'[q].id # toReceiver[p].id
  <2>1. PICK i \in DOMAIN read_jobs : toReceiver'[q].id = read_jobs[i].id
    BY <1>6, <1>e
  <2>2. toReceiver[p].id = read_jobs[i].id => Asked(read_jobs[i], toReceiver[p].num)
    BY <1>0, <1>e DEF Question
  <2> QED BY <2>1, <2>2, <1>b, <1>e
<1>10. Question'
  <2> SUFFICES ASSUME NEW k \in DOMAIN read_jobs'
      PROVE /\ read_jobs'[k].stream # None <=> read_jobs'[k].waiting
            /\ read_jobs'[k].waiting => read_jobs'[k].num < N
            /\ read_jobs'[k].confirmed => read_jobs'[k].waiting
            /\ read_jobs'[k].waiting /\ ~read_jobs'[k].confirmed => read_jobs'[k].stream = 0
            /\ \A p \in DOMAIN toReceiver' :
                toReceiver'[p].kind = "digest" /\ toReceiver'[p].id = read_jobs'[k].id
                    => Asked(read_jobs'[k], toReceiver'[p].num)
            /\ \A q \in DOMAIN toSender :
                toSender[q].kind = "confirm" /\ toSender[q].id = read_jobs'[k].id
                    => Asked(read_jobs'[k], toSender[q].num)
            /\ ask # None /\ JobIs(read_jobs'[k].id) => Asked(read_jobs'[k], ask)
    BY <1>1, <1>2 DEF Question, Asked
  <2> DEFINE j == read_jobs[k + x]
  <2>1. Ticked(j, read_jobs'[k]) /\ JobOK(j) /\ k + x \in DOMAIN read_jobs
                  /\ read_jobs'[k].id = j.id
    BY <1>3, <1>7, <1>5
  <2>2. j.stream \in Nat \cup {None} /\ None \notin Nat /\ j.num \in Nat
    BY <2>1, NoneAssumption DEF JobOK, TransferJob
  <2>3. /\ read_jobs'[k].stream # None <=> read_jobs'[k].waiting
        /\ read_jobs'[k].waiting => read_jobs'[k].num < N
        /\ read_jobs'[k].confirmed => read_jobs'[k].waiting
        /\ read_jobs'[k].waiting /\ ~read_jobs'[k].confirmed => read_jobs'[k].stream = 0
    <3>1. CASE Same(j, read_jobs'[k])
      BY <3>1, <2>1 DEF JobOK, Same
    <3>2. CASE Asks(j, read_jobs'[k]) /\ j.num < N
      BY <3>2, <2>2 DEF Asks
    <3>3. CASE Moved(j, read_jobs'[k])
      BY <3>3 DEF Moved
    <3>4. CASE j.confirmed /\ read_jobs'[k].num = j.num /\ read_jobs'[k].stream = j.stream + 1
                /\ read_jobs'[k].confirmed /\ read_jobs'[k].waiting
      <4>1. j.stream \in Nat
        BY <3>4, <2>1, <2>2 DEF JobOK
      <4>2. j.stream + 1 \in Nat
        BY <4>1
      <4> QED BY <3>4, <4>2, <2>1, <2>2 DEF JobOK
    <3> QED BY <2>1, <3>1, <3>2, <3>3, <3>4 DEF Ticked
  <2>4. ASSUME NEW p \in DOMAIN toReceiver', toReceiver'[p].kind = "digest",
                  toReceiver'[p].id = read_jobs'[k].id
        PROVE  Asked(read_jobs'[k], toReceiver'[p].num)
    <3>1. CASE p \in DOMAIN toReceiver /\ toReceiver'[p] = toReceiver[p]
      <4>1. Asked(j, toReceiver[p].num)
        BY <3>1, <2>4, <2>1, <1>0 DEF Question
      <4> QED BY <4>1, <2>1, <1>b, <3>1
    <3>2. CASE p > L
      <4>1. PICK i \in DOMAIN read_jobs :
              /\ TickedMsg(read_jobs[i], toReceiver'[p]) /\ JobOK(read_jobs[i])
              /\ Ticked(read_jobs[i], read_jobs'[k])
        BY <3>2, <2>4, MessageOf
      <4>2. ~read_jobs[i].waiting /\ read_jobs[i].num < N /\ toReceiver'[p] = DigestOf(read_jobs[i])
              /\ ~read_jobs[i].confirmed
        BY <4>1, <2>4 DEF TickedMsg, JobOK
      <4>3. ~Sent(Error(read_jobs[i]))
        <5>1. SUFFICES ASSUME NEW q \in DOMAIN toReceiver', q > L,
                        toReceiver'[q] = Error(read_jobs[i])
                       PROVE FALSE
          BY DEF Sent
        <5>2. toReceiver'[q].id = toReceiver'[p].id /\ toReceiver'[q].kind = "error"
          BY <5>1, <4>1 DEF Error, TickedMsg
        <5>3. p = q
          BY <5>1, <5>2, <3>2, <2>4, OneMessage
        <5> QED BY <5>2, <5>3, <2>4
      <4>4. ~(read_jobs[i].num >= N)
        BY <4>1, <4>2, FilesAre DEF JobOK, TransferJob
      <4>5. Asks(read_jobs[i], read_jobs'[k])
        BY <4>1, <4>2, <4>3, <4>4 DEF Ticked
      <4> QED BY <4>2, <4>5 DEF Asks, Asked, DigestOf
    <3> QED BY <3>1, <3>2, <1>4
  <2>5. ASSUME NEW q \in DOMAIN toSender, toSender[q].kind = "confirm",
                  toSender[q].id = read_jobs'[k].id
        PROVE  Asked(read_jobs'[k], toSender[q].num)
    <3>1. Asked(j, toSender[q].num)
      BY <2>5, <2>1, <1>0 DEF Question
    <3> QED BY <3>1, <2>1, <1>b
  <2>6. ASSUME ask # None, JobIs(read_jobs'[k].id)
        PROVE  Asked(read_jobs'[k], ask)
    <3>1. Asked(j, ask)
      BY <2>6, <2>1, <1>0 DEF Question
    <3> QED BY <3>1, <2>1, <1>b
  <2> QED BY <2>3, <2>4, <2>5, <2>6
<1>11. OneQuestion'
  <2>1. ASSUME NEW p \in DOMAIN toReceiver', NEW q \in DOMAIN toReceiver',
               toReceiver'[p].kind = "digest", p < q
        PROVE  toReceiver'[p].id # toReceiver'[q].id
    <3>0. p \in Nat /\ q \in Nat /\ L \in Nat
      BY TypeFacts, LenProperties DEF Ticking, Tick
    <3>1. CASE p > L
      <4>1. q > L
        BY <3>0, <3>1, <2>1
      <4> QED BY <3>0, <3>1, <4>1, <2>1, OneMessage
    <3>2. CASE p \in DOMAIN toReceiver /\ toReceiver'[p] = toReceiver[p] /\ q > L
      BY <3>2, <2>1, <1>e
    <3>3. CASE p \in DOMAIN toReceiver /\ toReceiver'[p] = toReceiver[p]
                /\ q \in DOMAIN toReceiver /\ toReceiver'[q] = toReceiver[q]
      BY <3>3, <2>1, <1>0 DEF OneQuestion
    <3> QED BY <3>1, <3>2, <3>3, <1>4
  <2>2. ASSUME ask # None, NEW p \in DOMAIN toReceiver', toReceiver'[p].kind = "digest"
        PROVE  toReceiver'[p].id # write_job.id
    <3>1. write_job # None
      BY <2>2, <1>0 DEF Ids
    <3> QED BY <3>1, <2>2, <1>0, <1>4, <1>d DEF OneQuestion, JobIs
  <2>3. ASSUME NEW p \in DOMAIN toReceiver', NEW q \in DOMAIN toSender,
               toReceiver'[p].kind = "digest", toSender[q].kind = "confirm"
        PROVE  toReceiver'[p].id # toSender[q].id
    BY <2>3, <1>0, <1>4, <1>c DEF OneQuestion
  <2> QED BY <2>1, <2>2, <2>3, <1>0, <1>1 DEF OneQuestion
<1>12. Wire'
  <2>1. ASSUME NEW p \in DOMAIN toReceiver', toReceiver'[p].kind \in {"digest", "block"}
        PROVE  toReceiver'[p].num < N /\ toReceiver'[p].ver = src[toReceiver'[p].num]
    <3>1. CASE p \in DOMAIN toReceiver /\ toReceiver'[p] = toReceiver[p]
      BY <3>1, <2>1, <1>0 DEF Wire
    <3>2. CASE p > L
      <4>1. PICK i \in DOMAIN read_jobs : TickedMsg(read_jobs[i], toReceiver'[p])
                      /\ JobOK(read_jobs[i])
        BY <3>2, MessageOf
      <4>2. read_jobs[i].num < N
                /\ (toReceiver'[p] = DigestOf(read_jobs[i])
                                \/ toReceiver'[p] = BlockOf(read_jobs[i]))
        BY <4>1, <2>1 DEF TickedMsg, JobOK
      <4> QED BY <4>2 DEF DigestOf, BlockOf
    <3> QED BY <3>1, <3>2, <1>4
  <2>2. ASSUME NEW p \in DOMAIN toReceiver', toReceiver'[p].kind = "block"
        PROVE  /\ \A q \in DOMAIN toSender :
                    toSender[q].kind = "confirm" => toSender[q].id # toReceiver'[p].id
               /\ ask # None => ~JobIs(toReceiver'[p].id)
    BY <2>2, <1>0, <1>4, <1>c, <1>d DEF Wire
  <2>3. ASSUME NEW p \in DOMAIN toReceiver', toReceiver'[p].kind = "block", p > L
        PROVE \E i \in DOMAIN read_jobs :
            /\ TickedMsg(read_jobs[i], toReceiver'[p]) /\ JobOK(read_jobs[i])
            /\ read_jobs[i].confirmed /\ toReceiver'[p].id = read_jobs[i].id
            /\ toReceiver'[p].num = read_jobs[i].num
            /\ \A k \in DOMAIN read_jobs' : read_jobs'[k].id = toReceiver'[p].id =>
                Ticked(read_jobs[i], read_jobs'[k])
    <3>1. PICK i \in DOMAIN read_jobs :
            /\ TickedMsg(read_jobs[i], toReceiver'[p]) /\ JobOK(read_jobs[i])
            /\ \A k \in DOMAIN read_jobs' : read_jobs'[k].id = toReceiver'[p].id =>
                Ticked(read_jobs[i], read_jobs'[k])
      BY <2>3, MessageOf
    <3>2. read_jobs[i].confirmed /\ toReceiver'[p] = BlockOf(read_jobs[i])
      BY <3>1, <2>3 DEF TickedMsg
    <3> QED BY <3>1, <3>2 DEF BlockOf
  <2>4. ASSUME NEW p \in DOMAIN toReceiver', toReceiver'[p].kind = "block",
               NEW k \in DOMAIN read_jobs', read_jobs'[k].id = toReceiver'[p].id
        PROVE  IF read_jobs'[k].confirmed THEN toReceiver'[p].num = read_jobs'[k].num
               ELSE toReceiver'[p].num < read_jobs'[k].num
    <3> DEFINE n == toReceiver'[p].num
    <3>0. n \in Nat
      BY <2>4, ResponseFields DEF Ticking, Tick
    <3>1. PICK i \in DOMAIN read_jobs :
            /\ Ticked(read_jobs[i], read_jobs'[k]) /\ JobOK(read_jobs[i])
            /\ IF read_jobs[i].confirmed THEN n = read_jobs[i].num ELSE n < read_jobs[i].num
      <4>1. CASE p \in DOMAIN toReceiver /\ toReceiver'[p] = toReceiver[p]
        <5>1. Ticked(read_jobs[k + x], read_jobs'[k]) /\ JobOK(read_jobs[k + x])
                /\ k + x \in DOMAIN read_jobs /\ read_jobs[k + x].id = toReceiver[p].id
          BY <1>3, <1>5, <1>7, <2>4, <4>1
        <5> QED BY <5>1, <4>1, <2>4, <1>0 DEF Wire
      <4>2. CASE p > L
        BY <4>2, <2>3, <2>4
      <4> QED BY <4>1, <4>2, <1>4
    <3>2. read_jobs[i].num \in Nat
      BY <3>1 DEF JobOK, TransferJob
    <3> HIDE DEF n
    <3> QED BY <3>0, <3>1, <3>2 DEF Ticked, Same, Asks, Moved, JobOK, n
  <2>5. ASSUME NEW p \in DOMAIN toReceiver', toReceiver'[p].kind = "block",
               NEW q \in DOMAIN toReceiver', toReceiver'[q].kind = "block",
               toReceiver'[q].id = toReceiver'[p].id
        PROVE  toReceiver'[q].num = toReceiver'[p].num
    <3>1. ASSUME NEW a \in DOMAIN toReceiver', toReceiver'[a].kind = "block",
                 NEW b \in DOMAIN toReceiver', toReceiver'[b].kind = "block",
                 toReceiver'[b].id = toReceiver'[a].id, a \in DOMAIN toReceiver,
                 toReceiver'[a] = toReceiver[a], b > L
          PROVE toReceiver'[b].num = toReceiver'[a].num
      <4>1. PICK i \in DOMAIN read_jobs :
            /\ read_jobs[i].confirmed /\ toReceiver'[b].id = read_jobs[i].id
            /\ toReceiver'[b].num = read_jobs[i].num
        BY <2>3, <3>1
      <4>2. toReceiver[a].kind = "block" /\ read_jobs[i].id = toReceiver[a].id
        BY <4>1, <3>1
      <4>3. toReceiver[a].num = read_jobs[i].num
        BY <4>1, <4>2, <3>1, <1>0 DEF Wire
      <4> QED BY <4>1, <4>3, <3>1
    <3>2. CASE p > L /\ q > L
      <4>1. p = q
        BY <3>2, <2>5, OneMessage
      <4> QED BY <4>1
    <3>3. CASE p \in DOMAIN toReceiver /\ toReceiver'[p] = toReceiver[p]
                /\ q \in DOMAIN toReceiver /\ toReceiver'[q] = toReceiver[q]
      BY <3>3, <2>5, <1>0 DEF Wire
    <3> QED BY <3>1, <3>2, <3>3, <2>5, <1>4
  <2>6. ASSUME NEW p \in DOMAIN toReceiver', toReceiver'[p].kind = "block"
        PROVE  toReceiver'[p].idx <= Blocks[toReceiver'[p].num]
    <3>1. CASE p \in DOMAIN toReceiver /\ toReceiver'[p] = toReceiver[p]
      BY <3>1, <2>6, <1>0 DEF Wire
    <3>2. CASE p > L
      <4>1. PICK i \in DOMAIN read_jobs : TickedMsg(read_jobs[i], toReceiver'[p])
                      /\ JobOK(read_jobs[i])
        BY <3>2, MessageOf
      <4> DEFINE j == read_jobs[i]
                 B == Blocks[j.num]
                 s == j.stream
      <4>2. toReceiver'[p] = BlockOf(j) /\ j.confirmed /\ j.num \in Files
        BY <4>1, <2>6, FilesAre DEF TickedMsg, JobOK, TransferJob
      <4>3. B \in Nat /\ s \in Nat
        BY <4>1, <4>2, BlocksAssumption DEF JobOK, TransferJob, Files, FC!Files
      <4>4. BlockOf(j).num = j.num /\ BlockOf(j).idx = IF s < B THEN s + 1 ELSE 0
        BY DEF BlockOf
      <4> HIDE DEF j, B, s
      <4>5. BlockOf(j).idx <= B
        BY <4>3, <4>4
      <4> QED BY <4>2, <4>4, <4>5 DEF B
    <3> QED BY <3>1, <3>2, <1>4
  <2>7. ASSUME NEW p \in DOMAIN toReceiver', toReceiver'[p].kind = "block",
               NEW q \in DOMAIN toReceiver', toReceiver'[q].kind = "digest",
               toReceiver'[q].id = toReceiver'[p].id
        PROVE  toReceiver'[p].num < toReceiver'[q].num
    <3>1. CASE p \in DOMAIN toReceiver /\ toReceiver'[p] = toReceiver[p]
                /\ q \in DOMAIN toReceiver /\ toReceiver'[q] = toReceiver[q]
      BY <3>1, <2>7, <1>0 DEF Wire
    <3>2. CASE p > L /\ q \in DOMAIN toReceiver /\ toReceiver'[q] = toReceiver[q]
      BY <3>2, <2>7, <1>e
    <3>3. CASE p > L /\ q > L
      BY <3>3, <2>7, OneMessage
    <3>4. CASE q > L /\ p \in DOMAIN toReceiver /\ toReceiver'[p] = toReceiver[p]
      <4>1. PICK i \in DOMAIN read_jobs : TickedMsg(read_jobs[i], toReceiver'[q])
                      /\ JobOK(read_jobs[i])
        BY <3>4, MessageOf
      <4>2. toReceiver'[q] = DigestOf(read_jobs[i]) /\ ~read_jobs[i].confirmed
                      /\ toReceiver'[q].id = read_jobs[i].id
        BY <4>1, <2>7 DEF TickedMsg, JobOK
      <4>3. toReceiver'[q].num = read_jobs[i].num
        BY <4>2 DEF DigestOf
      <4>4. toReceiver[p].kind = "block" /\ read_jobs[i].id = toReceiver[p].id
        BY <4>2, <3>4, <2>7
      <4>5. toReceiver[p].num < read_jobs[i].num
        BY <4>2, <4>4, <3>4, <1>0 DEF Wire
      <4> QED BY <4>3, <4>5, <3>4
    <3> QED BY <3>1, <3>2, <3>3, <3>4, <1>4
  <2> QED BY <2>1, <2>2, <2>4, <2>5, <2>6, <2>7, <1>0, <1>1, <1>2 DEF Wire
<1>13. Ended'
  <2>1. ASSUME NEW p \in DOMAIN toReceiver', toReceiver'[p].kind \in {"done", "error"}
        PROVE  /\ \A q \in DOMAIN toSender :
                    toSender[q].kind = "confirm" => toSender[q].id # toReceiver'[p].id
               /\ ask # None => ~JobIs(toReceiver'[p].id)
    BY <2>1, <1>0, <1>4, <1>c, <1>d DEF Ended
  <2>2. ASSUME NEW p \in DOMAIN toReceiver', toReceiver'[p].kind \in {"done", "error"},
               NEW k \in DOMAIN read_jobs', read_jobs'[k].id = toReceiver'[p].id
        PROVE  ~read_jobs'[k].confirmed
    <3>1. CASE p \in DOMAIN toReceiver /\ toReceiver'[p] = toReceiver[p]
      <4>1. ~read_jobs[k + x].confirmed /\ Ticked(read_jobs[k + x], read_jobs'[k])
        BY <3>1, <2>2, <1>0, <1>3, <1>5 DEF Ended
      <4> QED BY <4>1 DEF Ticked, Same, Asks, Moved
    <3>2. CASE p > L
      <4>1. PICK i \in DOMAIN read_jobs :
              /\ TickedMsg(read_jobs[i], toReceiver'[p]) /\ JobOK(read_jobs[i])
              /\ Ticked(read_jobs[i], read_jobs'[k])
        BY <3>2, <2>2, MessageOf
      <4>2. toReceiver'[p].id = read_jobs[i].id
        BY <4>1 DEF TickedMsg
      <4>3. ~Silent(read_jobs[i].id)
        BY <4>2, <3>2 DEF Silent
      <4>4. ~Sent(BlockOf(read_jobs[i]))
        <5>1. SUFFICES ASSUME NEW q \in DOMAIN toReceiver', q > L,
                        toReceiver'[q] = BlockOf(read_jobs[i])
                       PROVE FALSE
          BY DEF Sent
        <5>2. toReceiver'[q].id = toReceiver'[p].id /\ toReceiver'[q].kind = "block"
          BY <5>1, <4>2 DEF BlockOf
        <5>3. p = q
          BY <5>1, <5>2, <3>2, OneMessage
        <5> QED BY <5>2, <5>3, <2>2
      <4> QED BY <4>1, <4>3, <4>4 DEF Ticked, Same, Asks, Moved
    <3> QED BY <3>1, <3>2, <1>4
  <2>3. ASSUME NEW p \in DOMAIN toReceiver', toReceiver'[p].kind \in {"done", "error"},
               NEW q \in DOMAIN toReceiver', q > p, toReceiver'[q].kind = "block"
        PROVE  toReceiver'[q].id # toReceiver'[p].id
    <3>0. p \in Nat /\ q \in Nat /\ L \in Nat
      BY TypeFacts, LenProperties DEF Ticking, Tick
    <3>1. CASE q > L /\ p > L
      BY <3>0, <3>1, <2>3, OneMessage
    <3>2. CASE q > L /\ p \in DOMAIN toReceiver /\ toReceiver'[p] = toReceiver[p]
      <4>1. PICK i \in DOMAIN read_jobs : TickedMsg(read_jobs[i], toReceiver'[q])
        BY <3>2, MessageOf
      <4>2. read_jobs[i].confirmed /\ toReceiver'[q].id = read_jobs[i].id
        BY <4>1, <2>3 DEF TickedMsg
      <4> QED BY <4>2, <3>2, <2>3, <1>0 DEF Ended
    <3>3. CASE q \in DOMAIN toReceiver /\ toReceiver'[q] = toReceiver[q]
                /\ p \in DOMAIN toReceiver /\ toReceiver'[p] = toReceiver[p]
      BY <3>3, <2>3, <1>0 DEF Ended
    <3>4. ~(p > L /\ q <= L)
      BY <3>0, <2>3
    <3> QED BY <3>1, <3>2, <3>3, <3>4, <1>4
  <2> QED BY <2>1, <2>2, <2>3, <1>1, <1>2 DEF Ended
<1> QED BY <1>8, <1>9, <1>10, <1>11, <1>12, <1>13 DEF Protocol

-----------------------------------------------------------------------------
(***************************************************************************)
(* Writer is kept.                                                         *)
(***************************************************************************)

\* Writer, when messages and jobs only disappear.
LEMMA ThinnedWriter ==
    ASSUME TypeOK, Protocol, Writer, Thinned
    PROVE  Writer'
<1>0. Agreed /\ Progress /\ Behind /\ Stream /\ Parts /\ InOrder /\ Top /\ Reached
  BY DEF Writer
<1>1. UNCHANGED <<connected, ask, src, disk, saved, jobs, skips, suspect, done>>
  BY DEF Thinned
<1>2. /\ write_job = None => write_job' = None
      /\ write_job # None =>
        /\ write_job' # None /\ write_job'.id = write_job.id /\ write_job'.num = write_job.num
        /\ write_job'.stream = write_job.stream /\ (write_job'.last <=> write_job.last)
        /\ write_job'.digest = write_job.digest /\ (write_job'.resume <=> write_job.resume)
        /\ write_job.listed => write_job'.listed
  BY DEF Thinned
<1>3. \A id : JobIs(id)' <=> JobIs(id)
  BY <1>2 DEF JobIs
<1>4. PICK d \in {0, 1} :
        /\ \A p \in DOMAIN toReceiver' :
            p \in Nat /\ p + d \in DOMAIN toReceiver /\ toReceiver'[p] = toReceiver[p + d]
        /\ \A p \in DOMAIN toReceiver : p > d =>
            p - d \in DOMAIN toReceiver' /\ toReceiver'[p - d] = toReceiver[p]
        /\ \A p \in DOMAIN toReceiver : p <= d /\ JobIs(toReceiver[p].id)
                        => toReceiver[p].kind = "dir"
  BY DEF Thinned
<1>5. \A q \in DOMAIN toSender' : \E k \in DOMAIN toSender : toSender'[q] = toSender[k]
  BY DEF Thinned
<1>6. \A i \in DOMAIN read_jobs' : \E k \in DOMAIN read_jobs : read_jobs'[i] = read_jobs[k]
  <2>1. PICK x \in Nat : \A i \in DOMAIN read_jobs' :
          /\ i \in Nat
          /\ i < x => i \in DOMAIN read_jobs /\ read_jobs'[i] = read_jobs[i]
          /\ i >= x => i + 1 \in DOMAIN read_jobs /\ read_jobs'[i] = read_jobs[i + 1]
    BY DEF Thinned, LostOne
  <2>2. \A i \in Nat : i < x \/ i >= x
    BY <2>1
  <2> QED BY <2>1, <2>2
<1>7. \A p \in DOMAIN toReceiver' : \E k \in DOMAIN toReceiver : toReceiver'[p] = toReceiver[k]
  BY <1>4
<1>8. Agreed'
  BY <1>0, <1>1, <1>2, <1>3, <1>5, <1>6, <1>7 DEF Agreed
<1>9. Progress'
  BY <1>0, <1>1, <1>2, <1>3, <1>5, <1>6, <1>7 DEF Progress
<1>10. Behind'
  BY <1>0, <1>1, <1>2, <1>3, <1>5, <1>6, <1>7 DEF Behind
<1>11. Stream'
  <2>1. ASSUME write_job # None, NEW s, Open(s) PROVE Open(s)'
    BY <2>1, <1>1, <1>2, <1>3, <1>5, <1>6, <1>7 DEF Open
  <2>2. ASSUME write_job' # None, write_job'.stream # None PROVE Open(write_job.stream)'
                  /\ write_job'.stream = write_job.stream
    BY <2>1, <2>2, <1>0, <1>2 DEF Stream
  <2> QED BY <2>2 DEF Stream, Open
<1>12. Parts'
  <2>1. ASSUME write_job # None, NEW f, Continuable(f) PROVE Continuable(f)'
    BY <2>1, <1>1, <1>2, <1>3, <1>5, <1>6, <1>7 DEF Continuable
  <2> QED BY <2>1, <1>0, <1>1, <1>2 DEF Parts
<1>h. write_job # None => \A f : Held(f)' = Held(f)
  BY <1>1, <1>2 DEF Held
<1>j. \A id : JobIs(id) => write_job # None
  BY DEF JobIs
\* Blocks for the writer are not lost.
<1>b. ASSUME NEW p \in DOMAIN toReceiver' PROVE BlockAt(p)' <=> BlockAt(p + d)
  BY <1>3, <1>4 DEF BlockAt
<1>c. ASSUME NEW p \in DOMAIN toReceiver, JobIs(toReceiver[p].id), toReceiver[p].kind # "dir"
      PROVE  /\ p - d \in DOMAIN toReceiver' /\ p = (p - d) + d
                      /\ toReceiver'[p - d] = toReceiver[p]
             /\ p \in Nat
  <2>1. p \in Nat /\ d \in Nat
    BY TypeFacts
  <2>2. p > d
    BY <1>c, <1>4, <2>1
  <2> QED BY <2>1, <2>2, <1>4
<1>13. InOrder'
  <2>1. ASSUME NEW p \in DOMAIN toReceiver', NEW q \in DOMAIN toReceiver',
               BlockAt(p)', BlockAt(q)', p < q, toReceiver'[p].num \notin suspect
        PROVE  Key(toReceiver'[p]) < Key(toReceiver'[q])
    <3>1. p + d \in DOMAIN toReceiver /\ q + d \in DOMAIN toReceiver /\ p + d < q + d
            /\ toReceiver'[p] = toReceiver[p + d] /\ toReceiver'[q] = toReceiver[q + d]
      BY <2>1, <1>4
    <3>2. BlockAt(p + d) /\ BlockAt(q + d)
      BY <2>1, <1>b
    <3> QED BY <3>1, <3>2, <2>1, <1>0 DEF InOrder
  <2>2. ASSUME NEW p \in DOMAIN toReceiver', BlockAt(p)', toReceiver'[p].num \notin suspect
        PROVE  /\ Key(toReceiver'[p]) > Held(toReceiver'[p].num)
               /\ \A k \in Held(toReceiver'[p].num) + 1 .. Key(toReceiver'[p]) :
                    \E q \in DOMAIN toReceiver' : q <= p /\ BlockAt(q)' /\ Key(toReceiver'[q]) = k
    <3>1. p + d \in DOMAIN toReceiver /\ toReceiver'[p] = toReceiver[p + d] /\ p \in Nat
      BY <2>2, <1>4
    <3>2. BlockAt(p + d)
      BY <2>2, <1>b
    <3>3. /\ Key(toReceiver'[p]) > Held(toReceiver'[p].num)
          /\ \A k \in Held(toReceiver'[p].num) + 1 .. Key(toReceiver'[p]) :
                \E q \in DOMAIN toReceiver : q <= p + d /\ BlockAt(q) /\ Key(toReceiver[q]) = k
      BY <3>1, <3>2, <2>2, <1>0 DEF InOrder
    <3>4. ASSUME NEW q \in DOMAIN toReceiver, q <= p + d, BlockAt(q)
          PROVE  q - d \in DOMAIN toReceiver' /\ q - d <= p /\ BlockAt(q - d)'
                 /\ toReceiver'[q - d] = toReceiver[q]
      <4>1. q - d \in DOMAIN toReceiver' /\ q = (q - d) + d
                      /\ toReceiver'[q - d] = toReceiver[q] /\ q \in Nat
        BY <3>4, <1>c DEF BlockAt
      <4> QED BY <4>1, <3>1, <3>4, <1>b
    <3> QED BY <3>3, <3>4
  <2>3. \A p \in DOMAIN toReceiver' : BlockAt(p)' => write_job # None
    BY <1>3 DEF BlockAt, JobIs
  <2> QED BY <2>1, <2>2, <2>3, <1>1, <1>h DEF InOrder, Key
<1>14. Top'
  <2>1. ASSUME NEW i \in DOMAIN read_jobs', JobIs(read_jobs'[i].id), read_jobs'[i].confirmed,
               read_jobs'[i].num \notin suspect
        PROVE  /\ read_jobs'[i].stream \in Held(read_jobs'[i].num) .. Blocks[read_jobs'[i].num]
               /\ \A p \in DOMAIN toReceiver' :
                    BlockAt(p)' => Key(toReceiver'[p]) <= read_jobs'[i].stream
               /\ \A k \in Held(read_jobs'[i].num) + 1 .. read_jobs'[i].stream :
                    \E q \in DOMAIN toReceiver' : BlockAt(q)' /\ Key(toReceiver'[q]) = k
    <3>1. /\ read_jobs'[i].stream \in Held(read_jobs'[i].num) .. Blocks[read_jobs'[i].num]
          /\ \A p \in DOMAIN toReceiver :
                BlockAt(p) => Key(toReceiver[p]) <= read_jobs'[i].stream
          /\ \A k \in Held(read_jobs'[i].num) + 1 .. read_jobs'[i].stream :
                \E q \in DOMAIN toReceiver : BlockAt(q) /\ Key(toReceiver[q]) = k
      BY <2>1, <1>0, <1>6 DEF Top
    <3>2. \A p \in DOMAIN toReceiver' :
                BlockAt(p)' => Key(toReceiver'[p]) <= read_jobs'[i].stream
      BY <3>1, <1>4, <1>b
    <3>3. ASSUME NEW q \in DOMAIN toReceiver, BlockAt(q)
          PROVE  q - d \in DOMAIN toReceiver' /\ BlockAt(q - d)'
                          /\ toReceiver'[q - d] = toReceiver[q]
      <4>1. q - d \in DOMAIN toReceiver' /\ q = (q - d) + d
                      /\ toReceiver'[q - d] = toReceiver[q] /\ q \in Nat
        BY <3>3, <1>c DEF BlockAt
      <4> QED BY <4>1, <3>3, <1>b
    <3> QED BY <3>1, <3>2, <3>3
  <2>2. ASSUME NEW q \in DOMAIN toSender', toSender'[q].kind = "confirm", JobIs(toSender'[q].id),
               ~toSender'[q].skip, toSender'[q].num \notin suspect
        PROVE  toSender'[q].offset = Held(toSender'[q].num)
    BY <2>2, <1>0, <1>5 DEF Top
  <2> QED BY <2>1, <2>2, <1>1, <1>3, <1>h, <1>j DEF Top, Key
<1>15. Reached'
  <2>1. ASSUME write_job # None, NEW h, Arriving(h) PROVE Arriving(h)'
    <3>1. CASE \E p \in DOMAIN toReceiver :
                    BlockAt(p) /\ toReceiver[p].num = h /\ toReceiver[p].idx = 0
      <4>1. PICK p \in DOMAIN toReceiver : BlockAt(p) /\ toReceiver[p].num = h
                      /\ toReceiver[p].idx = 0
        BY <3>1
      <4>2. p - d \in DOMAIN toReceiver' /\ p = (p - d) + d /\ toReceiver'[p - d] = toReceiver[p]
        BY <4>1, <1>c DEF BlockAt
      <4>3. BlockAt(p - d)'
        BY <4>1, <4>2, <1>b
      <4> QED BY <4>1, <4>2, <4>3 DEF Arriving
    <3>2. CASE /\ write_job.num = h /\ write_job.stream = h
               /\ disk.download[h] # None /\ disk.download[h].len = Blocks[h]
      BY <3>2, <2>1, <1>1, <1>2 DEF Arriving
    <3> QED BY <2>1, <3>1, <3>2 DEF Arriving
  <2>2. ASSUME write_job # None, NEW n, Clear(n) PROVE Clear(n)'
    BY <2>1, <2>2, <1>1, <1>2 DEF Clear
  <2>3. ASSUME NEW n \in Nat, ErrorBefore(n)
        PROVE  \E p \in DOMAIN toReceiver' :
                    p < n - d /\ toReceiver'[p].kind = "error" /\ JobIs(toReceiver'[p].id)
    <3>1. PICK p \in DOMAIN toReceiver :
            p < n /\ toReceiver[p].kind = "error" /\ JobIs(toReceiver[p].id)
      BY <2>3 DEF ErrorBefore
    <3>2. p - d \in DOMAIN toReceiver' /\ p = (p - d) + d /\ toReceiver'[p - d] = toReceiver[p]
                    /\ p \in Nat
      BY <3>1, <1>c
    <3>3. p - d < n - d
      BY <3>1, <3>2
    <3> QED BY <3>1, <3>2, <3>3
  <2>4. Len(toReceiver') \in Nat /\ Len(toReceiver) \in Nat
        /\ (Len(toReceiver) + 1) - d <= Len(toReceiver') + 1 /\ Len(toReceiver) + 1 \in Nat
    <3>1. Len(toReceiver') \in Nat /\ DOMAIN toReceiver' = 1 .. Len(toReceiver')
            /\ Len(toReceiver) \in Nat /\ DOMAIN toReceiver = 1 .. Len(toReceiver)
      BY LenProperties DEF Thinned, TypeOK
    <3>2. Len(toReceiver) > d => Len(toReceiver) - d \in 1 .. Len(toReceiver')
      <4>1. Len(toReceiver) > d => Len(toReceiver) \in 1 .. Len(toReceiver)
        BY <3>1
      <4> QED BY <4>1, <3>1, <1>4
    <3> QED BY <3>1, <3>2
  <2>5. ASSUME ErrorBefore(Len(toReceiver) + 1) PROVE ErrorBefore(Len(toReceiver) + 1)'
    <3>1. PICK p \in DOMAIN toReceiver' : p < (Len(toReceiver) + 1) - d
            /\ toReceiver'[p].kind = "error" /\ JobIs(toReceiver'[p].id)
      BY <2>3, <2>4, <2>5
    <3>2. p \in Nat /\ p < Len(toReceiver') + 1
      BY <3>1, <2>4, <1>4
    <3> QED BY <3>1, <3>2, <1>3 DEF ErrorBefore
  <2>6. ASSUME NEW p \in DOMAIN toReceiver', ErrorBefore(p + d) PROVE ErrorBefore(p)'
    <3>1. p + d \in Nat /\ p \in Nat /\ (p + d) - d = p
      BY <1>4
    <3>2. \E q \in DOMAIN toReceiver' :
                    q < p /\ toReceiver'[q].kind = "error" /\ JobIs(toReceiver'[q].id)
      BY <2>3, <2>6, <3>1
    <3> QED BY <3>2, <1>3 DEF ErrorBefore
  <2> QED BY <2>2, <2>5, <2>6, <1>0, <1>2, <1>3, <1>4, <1>6, <1>b DEF Reached
<1> QED BY <1>8, <1>9, <1>10, <1>11, <1>12, <1>13, <1>14, <1>15 DEF Writer

\* Without a writer there is nothing to say.
LEMMA NoWriter ==
    ASSUME write_job' = None
    PROVE  Writer'
<1>1. \A id : ~JobIs(id)'
  BY DEF JobIs
<1>2. \A p : ~BlockAt(p)'
  BY <1>1 DEF BlockAt
<1>3. Agreed' /\ Progress' /\ Behind' /\ Stream' /\ Parts' /\ Reached'
  BY DEF Agreed, Progress, Behind, Stream, Parts, Reached
<1>4. InOrder' /\ Top'
  BY <1>1, <1>2 DEF InOrder, Top
<1> QED BY <1>3, <1>4 DEF Writer

\* Nor is there when nothing is under way.
LEMMA QuietWriter ==
    ASSUME TypeOK, Keeps, Quiet
    PROVE  Writer'
<1>1. CASE write_job' = None
  BY <1>1, NoWriter
<1>2. CASE write_job' # None
  <2>1. /\ \A i \in DOMAIN read_jobs' : FALSE
        /\ \A p \in DOMAIN toReceiver' : FALSE
        /\ \A q \in DOMAIN toSender' : FALSE
        /\ ask' = None /\ write_job'.last /\ write_job'.stream = None
        /\ saved # None /\ write_job'.num = saved.num /\ skips' = saved.skips
    BY <1>2 DEF Quiet
  <2>2. saved.num <= N /\ saved.num \in Nat /\ \A g \in saved.skips : g < saved.num
    BY <2>1 DEF Keeps, TypeOK
  <2>3. Agreed'
    BY <2>1 DEF Agreed
  <2>4. Progress'
    BY <2>1, <2>2 DEF Progress
  <2>5. Behind'
    BY <2>1, <2>2 DEF Behind
  <2>6. Stream' /\ Parts'
    BY <2>1 DEF Stream, Parts
  <2>7. InOrder' /\ Top'
    BY <2>1 DEF InOrder, Top
  <2>8. Reached'
    BY <2>1 DEF Reached
  <2> QED BY <2>3, <2>4, <2>5, <2>6, <2>7, <2>8 DEF Writer
<1> QED BY <1>1, <1>2

\* Writer, when it asks for a job.
LEMMA OpeningWriter ==
    ASSUME TypeOK, Protocol, Progress, Behind, Opening
    PROVE  Writer'
<1>1. PICK c \in FileAction : OpenedWith(c)
  BY DEF Opening
<1>2. /\ c.kind = "send" /\ c.id = jobs' /\ c.num = write_job'.num
      /\ UNCHANGED <<read_jobs, ask, toReceiver, src, disk>> /\ ask' = None
      /\ write_job' # None /\ ~write_job'.last /\ write_job'.stream = None /\ write_job'.id = jobs'
      /\ \/ write_job = None /\ skips' = {} /\ write_job'.num = 0
         \/ write_job # None /\ write_job.last /\ skips' = skips /\ write_job'.num = write_job.num
  BY <1>1 DEF OpenedWith
<1>3. \A id : JobIs(id)' <=> id = jobs'
  BY <1>2 DEF JobIs
<1>4. /\ (\A i \in DOMAIN read_jobs : ~JobIs(read_jobs[i].id))'
      /\ (\A p \in DOMAIN toReceiver : ~JobIs(toReceiver[p].id))'
      /\ (\A q \in DOMAIN toSender : JobIs(toSender[q].id) => toSender[q] = c)'
  BY <1>1, <1>2, <1>3 DEF OpenedWith, Unknown, AddedS
<1>5. \A p \in DOMAIN toReceiver' : ~BlockAt(p)'
  BY <1>4 DEF BlockAt
<1>6. write_job'.num <= N /\ write_job'.num \notin skips' /\ \A g \in skips' : g < write_job'.num
  BY <1>2, FilesAre DEF Progress, Behind
<1>7. Agreed'
  BY <1>2, <1>4 DEF Agreed
<1>8. Progress'
  BY <1>2, <1>4, <1>6 DEF Progress
<1>9. Behind'
  BY <1>2, <1>4, <1>6 DEF Behind
<1>10. Stream'
  BY <1>2 DEF Stream
<1>11. Parts'
  <2> SUFFICES ASSUME NEW f \in Files, f \notin suspect', disk.download[f] # None
               PROVE  f = write_job'.num /\ Continuable(f)'
    BY <1>2 DEF Parts
  <2>1. /\ f = write_job'.num /\ write_job'.resume
        /\ disk.digest[f] = src[f] /\ disk.download[f].len > 0
    BY <1>1 DEF OpenedWith
  <2>2. ask' # f
    BY <1>2, FilesAre, NoneAssumption
  <2> QED BY <2>1, <2>2, <1>2, <1>4 DEF Continuable
<1>12. InOrder' /\ Top'
  BY <1>2, <1>4, <1>5 DEF InOrder, Top
<1>13. Reached'
  BY <1>4, <1>5 DEF Reached
<1> QED BY <1>7, <1>8, <1>9, <1>10, <1>11, <1>12, <1>13 DEF Writer

\* Writer, when the reader starts a job.
LEMMA SendingWriter ==
    ASSUME TypeOK, Protocol, Writer, Sending
    PROVE  Writer'
<1> DEFINE m == toSender[1]
<1>0. Agreed /\ Progress /\ Behind /\ Stream /\ Parts /\ InOrder /\ Top /\ Reached
  BY DEF Writer
<1>1. /\ TakenS /\ m.kind = "send"
      /\ UNCHANGED <<write_job, ask, src, disk, skips, suspect>>
  BY DEF Sending, history
<1>2. \A id : JobIs(id)' <=> JobIs(id)
  BY <1>1 DEF JobIs
<1>3. PICK x \in Response : x.id = m.id /\ x.kind \in {"dir", "error"} /\ AddedR(x)
  BY DEF Sending
<1>4. /\ \A p \in DOMAIN toReceiver' :
            \/ p \in DOMAIN toReceiver /\ toReceiver'[p] = toReceiver[p]
            \/ toReceiver'[p].kind \in {"dir", "error"}
      /\ \A p \in DOMAIN toReceiver : p \in DOMAIN toReceiver' /\ toReceiver'[p] = toReceiver[p]
      /\ Len(toReceiver') = Len(toReceiver) + 1
  BY <1>3 DEF AddedR
<1>5. 1 \in DOMAIN toSender
                /\ \A q \in DOMAIN toSender' : \E k \in DOMAIN toSender : toSender'[q] = toSender[k]
  BY <1>1 DEF TakenS
<1>6. \A i \in DOMAIN read_jobs' :
        \/ i \in DOMAIN read_jobs /\ read_jobs'[i] = read_jobs[i]
        \/ /\ read_jobs'[i].id = m.id /\ read_jobs'[i].num = m.num
           /\ ~read_jobs'[i].waiting /\ ~read_jobs'[i].confirmed
  BY DEF Sending
<1>7. JobIs(m.id) => /\ write_job # None /\ write_job.stream = None /\ m.num = write_job.num
                     /\ \A g \in skips : g < m.num
  BY <1>0, <1>1, <1>5 DEF Protocol, Fresh, JobIs, Behind
<1>t. write_job # None => write_job.num \in Nat
  BY TypeFacts
<1>8. Agreed'
  BY <1>0, <1>1, <1>2, <1>4, <1>5, <1>6 DEF Agreed
<1>9. Progress'
  BY <1>0, <1>1, <1>2, <1>4, <1>5, <1>6, <1>7, <1>t DEF Progress
<1>10. Behind'
  BY <1>0, <1>1, <1>2, <1>4, <1>5, <1>6, <1>7 DEF Behind
<1>11. Stream'
  <2>1. ASSUME write_job # None, write_job.stream # None PROVE Open(write_job.stream)'
    <3>1. ~JobIs(m.id) /\ Open(write_job.stream)
      BY <2>1, <1>0, <1>7 DEF Stream
    <3>2. \A i \in DOMAIN read_jobs' : JobIs(read_jobs[i].id)' =>
            i \in DOMAIN read_jobs /\ read_jobs'[i] = read_jobs[i] /\ JobIs(read_jobs[i].id)
      BY <3>1, <1>2, <1>6
    <3>3. \A p \in DOMAIN toReceiver' : toReceiver'[p].kind \in {"digest", "block"} =>
            p \in DOMAIN toReceiver /\ toReceiver'[p] = toReceiver[p]
      BY <1>4
    <3> QED BY <3>1, <3>2, <3>3, <1>1, <1>2, <1>5 DEF Open
  <2> QED BY <2>1, <1>1 DEF Stream
<1>12. Parts'
  <2>1. ASSUME NEW f, Continuable(f) PROVE Continuable(f)'
    BY <2>1, <1>1, <1>2, <1>4, <1>5, <1>6 DEF Continuable
  <2> QED BY <2>1, <1>0, <1>1 DEF Parts
<1>b. /\ \A p \in DOMAIN toReceiver : BlockAt(p)' <=> BlockAt(p)
      /\ \A p \in DOMAIN toReceiver' : BlockAt(p)' => p \in DOMAIN toReceiver
                      /\ toReceiver'[p] = toReceiver[p]
  BY <1>2, <1>4 DEF BlockAt
<1>h. \A f : Held(f)' = Held(f)
  BY <1>1 DEF Held
<1>13. InOrder'
  BY <1>0, <1>1, <1>4, <1>b, <1>h DEF InOrder, Key
<1>14. Top'
  BY <1>0, <1>1, <1>2, <1>4, <1>5, <1>6, <1>b, <1>h DEF Top, Key
<1>15. Reached'
  <2>1. ASSUME NEW h, Arriving(h) PROVE Arriving(h)'
    BY <2>1, <1>1, <1>4, <1>b DEF Arriving
  <2>2. ASSUME NEW n, Clear(n) PROVE Clear(n)'
    BY <2>1, <2>2, <1>1 DEF Clear
  <2>3. ASSUME NEW n, ErrorBefore(n) PROVE ErrorBefore(n)'
    BY <2>3, <1>2, <1>4 DEF ErrorBefore
  <2>4. ErrorBefore(Len(toReceiver) + 1) => ErrorBefore(Len(toReceiver) + 1)'
    <3>1. Len(toReceiver) \in Nat /\ \A p \in DOMAIN toReceiver : p \in Nat
      BY TypeFacts
    <3> QED BY <3>1, <1>2, <1>4 DEF ErrorBefore
  <2>5. write_job # None => Clear(write_job.num)'
    BY <1>1, <1>t, FilesAre DEF Clear
  <2> QED BY <2>2, <2>3, <2>4, <2>5, <1>0, <1>1, <1>2, <1>4, <1>6, <1>7, <1>b DEF Reached
<1> QED BY <1>8, <1>9, <1>10, <1>11, <1>12, <1>13, <1>14, <1>15 DEF Writer

\* Lengths are numbers.
LEMMA BlocksAre ==
    \A f \in Files : Blocks[f] \in Nat
BY BlocksAssumption DEF Files, FC!Files

\* The writer does not hold more than the file has.
LEMMA HeldIs ==
    ASSUME TypeOK, Sound, NEW f \in Files, f \notin suspect
    PROVE  Held(f) \in Nat /\ Held(f) <= Blocks[f] /\ Blocks[f] \in Nat
<1>1. Blocks[f] \in Nat
  BY BlocksAre
<1>2. CASE disk.download[f] = None
  BY <1>1, <1>2 DEF Held
<1>3. CASE disk.download[f] # None
  <2>1. disk.download[f].len \in Nat /\ disk.download[f].len <= Blocks[f]
    BY <1>3, TypeFacts, ContentIs DEF Sound
  <2> QED BY <2>1, <1>1 DEF Held
<1> QED BY <1>2, <1>3

\* Writer, when the reader takes an answer.
LEMMA ConfirmingWriter ==
    ASSUME TypeOK, Protocol, Writer, Sound, Confirming
    PROVE  Writer'
<1> DEFINE m == toSender[1]
<1>0. /\ Agreed /\ Progress /\ Behind /\ Stream /\ Parts /\ InOrder /\ Top /\ Reached
      /\ Ids /\ Fresh /\ Question /\ OneQuestion /\ Wire /\ Ended
  BY DEF Writer, Protocol
<1>1. /\ TakenS /\ m.kind = "confirm" /\ m.num \in Files /\ m.num \in Nat /\ m.num < N
      /\ UNCHANGED <<write_job, ask, toReceiver, src, disk, skips>>
      /\ DOMAIN read_jobs' = DOMAIN read_jobs
      /\ suspect' = suspect \/ suspect' = suspect \cup {m.num}
  BY FilesAre DEF Confirming
<1>s. suspect \subseteq suspect'
  BY <1>1
<1>2. \A id : JobIs(id)' <=> JobIs(id)
  BY <1>1 DEF JobIs
<1>5. 1 \in DOMAIN toSender
                /\ \A q \in DOMAIN toSender' : \E k \in DOMAIN toSender : toSender'[q] = toSender[k]
  BY <1>1 DEF TakenS
<1>6. \A i \in DOMAIN read_jobs' : i \in DOMAIN read_jobs /\
        \/ read_jobs'[i] = read_jobs[i]
        \/ /\ read_jobs[i].id = m.id /\ read_jobs'[i].id = m.id
           /\ Answered(read_jobs[i], m, read_jobs'[i])
  BY <1>1 DEF Confirming, Answered
<1>a. m.skip \in BOOLEAN /\ m.offset \in Nat
  BY <1>1, <1>5, TypeFacts, FileActionFields
<1>7. JobIs(m.id) => /\ write_job # None
                     /\ m.skip <=> m.num \in skips
                     /\ write_job.digest = src[m.num]
                     /\ IF m.skip THEN m.num + 1 >= write_job.num ELSE m.num >= write_job.num
                     /\ \A p \in DOMAIN toReceiver : ~BlockAt(p)
  BY <1>0, <1>1, <1>5 DEF Agreed, Progress, Wire, BlockAt, JobIs
\* The job that is answered.
<1>c. ASSUME NEW i \in DOMAIN read_jobs', read_jobs'[i] # read_jobs[i]
      PROVE  LET j == read_jobs[i]
                 k == read_jobs'[i]
             IN /\ i \in DOMAIN read_jobs /\ j.id = m.id /\ k.id = m.id
                /\ j.waiting /\ ~j.confirmed /\ j.num = m.num
                /\ \/ m.skip /\ k.num = m.num + 1 /\ ~k.waiting /\ ~k.confirmed
                   \/ /\ ~m.skip /\ k.num = m.num /\ k.waiting /\ k.confirmed
                      /\ k.stream \in Nat /\ (k.stream = m.offset \/ m.num \in suspect')
  BY <1>c, <1>6, <1>a DEF Answered, Asked, Moved
<1>t. write_job # None => write_job.num \in Nat
  BY TypeFacts
<1>8. Agreed'
  BY <1>0, <1>1, <1>2, <1>5, <1>6, <1>7, <1>c DEF Agreed
<1>9. Progress'
  BY <1>0, <1>1, <1>2, <1>5, <1>6, <1>7, <1>c, <1>t DEF Progress
<1>10. Behind'
  <2>0. \A g \in skips : g \in Nat
    BY FilesAre DEF TypeOK
  <2>1. ASSUME write_job # None, NEW g \in skips, NEW i \in DOMAIN read_jobs',
                  JobIs(read_jobs'[i].id)
        PROVE  g < read_jobs'[i].num \/
                (g = read_jobs'[i].num /\ read_jobs'[i].waiting /\ ~read_jobs'[i].confirmed)
    <3>1. CASE read_jobs'[i] = read_jobs[i]
      BY <3>1, <2>1, <1>0, <1>1 DEF Behind
    <3>2. CASE read_jobs'[i] # read_jobs[i]
      <4>1. g < read_jobs[i].num \/ g = read_jobs[i].num
        BY <3>2, <2>1, <1>0, <1>1, <1>c DEF Behind
      <4>2. g \in Nat
        BY <2>0
      <4> QED BY <4>1, <4>2, <3>2, <2>1, <1>1, <1>7, <1>c
    <3> QED BY <3>1, <3>2
  <2> QED BY <2>1, <1>0, <1>1, <1>2, <1>5 DEF Behind
<1>11. Stream'
  <2>1. ASSUME write_job # None, write_job.stream # None PROVE Open(write_job.stream)'
    <3> DEFINE s == write_job.stream
    <3>1. Open(s) /\ s \in Nat
      BY <2>1, <1>0, TypeFacts DEF Stream
    <3>2. ASSUME s = write_job.num, NEW i \in DOMAIN read_jobs', JobIs(read_jobs'[i].id)
          PROVE  /\ read_jobs'[i].num > s \/ (read_jobs'[i].num = s /\ read_jobs'[i].waiting)
                 /\ disk.download[s] = None => read_jobs'[i].num > s
      <4>1. CASE read_jobs'[i] = read_jobs[i]
        BY <4>1, <3>1, <3>2, <1>1 DEF Open
      <4>2. CASE read_jobs'[i] # read_jobs[i]
        <5>1. JobIs(read_jobs[i].id) /\ read_jobs[i].num = m.num
          BY <4>2, <3>2, <1>c
        <5>2. (m.num > s \/ m.num = s) /\ (disk.download[s] = None => m.num > s)
          BY <5>1, <3>1, <3>2, <1>1 DEF Open
        <5> QED BY <5>2, <4>2, <3>1, <1>1, <1>c
      <4> QED BY <4>1, <4>2
    <3>a. \A id : JobIs(id)' <=> JobIs(id)
      BY <1>2
    <3> QED BY <3>1, <3>2, <3>a, <1>1, <1>s, <1>5 DEF Open
  <2> QED BY <2>1, <1>1 DEF Stream
<1>12. Parts'
  <2>1. ASSUME NEW f, Continuable(f) PROVE Continuable(f)'
    <3>1. JobIs(m.id) => m.num # f
      BY <2>1, <1>1, <1>5 DEF Continuable
    <3> QED BY <3>1, <2>1, <1>1, <1>2, <1>5, <1>6, <1>c DEF Continuable
  <2> QED BY <2>1, <1>0, <1>1, <1>s DEF Parts
<1>b. \A p : BlockAt(p)' <=> BlockAt(p)
  BY <1>1, <1>2 DEF BlockAt
<1>h. \A f : Held(f)' = Held(f)
  BY <1>1 DEF Held
<1>13. InOrder'
  BY <1>0, <1>1, <1>s, <1>b, <1>h DEF InOrder, Key
<1>14. Top'
  <2>1. ASSUME NEW i \in DOMAIN read_jobs', JobIs(read_jobs'[i].id), read_jobs'[i].confirmed,
               read_jobs'[i].num \notin suspect'
        PROVE  /\ read_jobs'[i].stream \in Held(read_jobs'[i].num) .. Blocks[read_jobs'[i].num]
               /\ \A p \in DOMAIN toReceiver :
                    BlockAt(p) => Key(toReceiver[p]) <= read_jobs'[i].stream
               /\ \A k \in Held(read_jobs'[i].num) + 1 .. read_jobs'[i].stream :
                    \E q \in DOMAIN toReceiver : BlockAt(q) /\ Key(toReceiver[q]) = k
    <3>1. CASE read_jobs'[i] = read_jobs[i]
      BY <3>1, <2>1, <1>0, <1>1, <1>s DEF Top
    <3>2. CASE read_jobs'[i] # read_jobs[i]
      <4>1. /\ ~m.skip /\ read_jobs'[i].num = m.num /\ read_jobs'[i].stream = m.offset
            /\ m.num \notin suspect /\ JobIs(m.id)
        BY <3>2, <2>1, <1>c, <1>s
      <4>2. m.offset = Held(m.num)
        BY <4>1, <1>0, <1>1, <1>5 DEF Top
      <4>3. Held(m.num) \in Nat /\ Held(m.num) <= Blocks[m.num] /\ Blocks[m.num] \in Nat
        BY <4>1, <1>1, HeldIs
      <4>4. \A p \in DOMAIN toReceiver : ~BlockAt(p)
        BY <4>1, <1>7
      <4> QED BY <4>1, <4>2, <4>3, <4>4
    <3> QED BY <3>1, <3>2
  <2>2. ASSUME NEW q \in DOMAIN toSender', toSender'[q].kind = "confirm", JobIs(toSender'[q].id),
               ~toSender'[q].skip, toSender'[q].num \notin suspect'
        PROVE  toSender'[q].offset = Held(toSender'[q].num)
    BY <2>2, <1>0, <1>5, <1>s DEF Top
  <2> QED BY <2>1, <2>2, <1>1, <1>2, <1>b, <1>h DEF Top, Key
<1>15. Reached'
  <2>1. ASSUME NEW h, Arriving(h) PROVE Arriving(h)'
    BY <2>1, <1>1, <1>b DEF Arriving
  <2>2. ASSUME NEW n, Clear(n) PROVE Clear(n)'
    BY <2>1, <2>2, <1>1, <1>s DEF Clear
  <2>3. \A n : ErrorBefore(n) => ErrorBefore(n)'
    BY <1>1, <1>2 DEF ErrorBefore
  <2>4. ErrorBefore(Len(toReceiver) + 1) => ErrorBefore(Len(toReceiver) + 1)'
    BY <1>1, <1>2 DEF ErrorBefore
  <2>5. ASSUME write_job # None, NEW i \in DOMAIN read_jobs', JobIs(read_jobs'[i].id)
        PROVE  Clear(read_jobs'[i].num) \/ ErrorBefore(Len(toReceiver) + 1)
    <3>1. CASE read_jobs'[i] = read_jobs[i]
      BY <3>1, <2>5, <1>0, <1>1 DEF Reached
    <3>2. CASE read_jobs'[i] # read_jobs[i]
      <4>1. Clear(m.num) \/ ErrorBefore(Len(toReceiver) + 1)
        BY <3>2, <2>5, <1>0, <1>c DEF Reached
      <4>2. CASE m.skip /\ read_jobs'[i].num = m.num + 1
        <5>1. m.num \in skips
          BY <4>2, <3>2, <2>5, <1>7, <1>c
        <5>2. Clear(m.num) => Clear(m.num + 1)
          BY <5>1, <1>1, FilesAre DEF Clear
        <5> QED BY <5>2, <4>1, <4>2
      <4>3. CASE ~m.skip /\ read_jobs'[i].num = m.num
        BY <4>1, <4>3
      <4> QED BY <4>2, <4>3, <3>2, <1>c
    <3> QED BY <3>1, <3>2
  <2>6. ASSUME NEW n, n \in Nat, Clear(n) PROVE Clear(n)'
    BY <2>6, <2>2
  <2>7. ASSUME write_job # None, NEW i \in DOMAIN read_jobs', JobIs(read_jobs'[i].id)
        PROVE  (\A h \in Files : write_job.num <= h /\ h < read_jobs'[i].num =>
                    h \in suspect' \/ h \in skips \/ Arriving(h)')
                                    \/ ErrorBefore(Len(toReceiver) + 1)'
    BY <2>1, <2>4, <2>5, <2>7, <1>s DEF Clear
  <2>8. ASSUME write_job # None, NEW p \in DOMAIN toReceiver
        PROVE  /\ BlockAt(p) => Clear(toReceiver[p].num)'
               /\ toReceiver[p].kind = "done" /\ JobIs(toReceiver[p].id) => Clear(N)'
                               \/ ErrorBefore(p)'
    <3>1. BlockAt(p) => Clear(toReceiver[p].num)
      BY <2>8, <1>0 DEF Reached
    <3>2. BlockAt(p) => Clear(toReceiver[p].num)'
      BY <3>1, <2>1, <1>1, <1>s DEF Clear
    <3> QED BY <3>2, <2>2, <2>3, <2>8, <1>0 DEF Reached
  <2> QED BY <2>7, <2>8, <1>1, <1>2, <1>b DEF Reached, Clear
<1> QED BY <1>8, <1>9, <1>10, <1>11, <1>12, <1>13, <1>14, <1>15 DEF Writer

\* Writer, when the user is asked.
LEMMA AskingWriter ==
    ASSUME TypeOK, Protocol, Writer, Asking
    PROVE  Writer'
<1>0. Agreed /\ Progress /\ Behind /\ Stream /\ Parts /\ InOrder /\ Top /\ Reached
  BY DEF Writer
<1>1. PICK f \in Files :
        /\ OnQuestion(f) /\ ask' \in {f, None} /\ ~CanContinue(f)
        /\ write_job' = [write_job EXCEPT !.digest = src[f]]
        /\ UNCHANGED <<toSender, skips, suspect>>
  BY DEF Asking
<1>2. /\ UNCHANGED <<read_jobs, src, disk, skips, suspect, toSender>>
      /\ \A i \in DOMAIN read_jobs : JobIs(read_jobs[i].id) => Asked(read_jobs[i], f)
      /\ \A q \in DOMAIN toSender : JobIs(toSender[q].id) => toSender[q].kind = "cancel"
      /\ \A p \in DOMAIN toReceiver : JobIs(toReceiver[p].id) => toReceiver[p].kind \in {"dir",
                      "digest"}
      /\ \A p \in DOMAIN toReceiver' : JobIs(toReceiver'[p].id) => toReceiver'[p].kind = "dir"
      /\ \A g \in skips : g < f
      /\ write_job # None /\ write_job \in TransferJob /\ f \in Nat /\ f < N
      /\ f >= write_job.num /\ ~write_job.last
      /\ write_job.stream = write_job.num => f > write_job.num
  BY <1>1, FilesAre DEF OnQuestion
<1>3. /\ write_job' \in TransferJob /\ write_job'.id = write_job.id
      /\ write_job'.num = write_job.num /\ write_job'.stream = write_job.stream
      /\ write_job'.last = write_job.last /\ write_job'.resume = write_job.resume
      /\ write_job'.listed = write_job.listed /\ write_job'.digest = src[f]
  <2>1. src[f] \in Nat \cup {None}
    BY TypeFacts
  <2> QED BY <2>1, <1>1, <1>2 DEF TransferJob
<1>4. write_job' # None /\ write_job.num \in Nat
  BY <1>2, <1>3, NoneAssumption DEF TransferJob
<1>5. \A id : JobIs(id)' <=> JobIs(id)
  BY <1>2, <1>3, <1>4 DEF JobIs
<1>6. \A p \in DOMAIN toReceiver' : ~BlockAt(p)'
  BY <1>2, <1>5 DEF BlockAt
<1>7. \A i \in DOMAIN read_jobs : JobIs(read_jobs[i].id) =>
        read_jobs[i].num = f /\ read_jobs[i].waiting /\ ~read_jobs[i].confirmed
  BY <1>2 DEF Asked
<1>8. Agreed'
  BY <1>1, <1>2, <1>3, <1>5, <1>7 DEF Agreed
<1>9. Progress'
  BY <1>0, <1>1, <1>2, <1>3, <1>4, <1>5, <1>7 DEF Progress
<1>10. Behind'
  BY <1>0, <1>1, <1>2, <1>3, <1>4, <1>5, <1>7 DEF Behind
<1>11. Stream'
  <2>1. ASSUME write_job.stream # None PROVE Open(write_job.stream)'
    <3>1. Open(write_job.stream)
      BY <2>1, <1>0, <1>2 DEF Stream
    <3> QED BY <3>1, <1>1, <1>2, <1>3, <1>4, <1>5, <1>7 DEF Open
  <2> QED BY <2>1, <1>3 DEF Stream
<1>12. Parts'
  <2> SUFFICES ASSUME NEW g \in Files, g \notin suspect, disk.download[g] # None
               PROVE  g = write_job.num /\ (write_job.stream = g \/ Continuable(g)')
    BY <1>2, <1>3 DEF Parts
  <2>1. g = write_job.num /\ (write_job.stream = g \/ Continuable(g))
    BY <1>0, <1>2 DEF Parts
  <2>2. Continuable(g) => g # f
    BY <1>1 DEF Continuable, CanContinue
  <2>n. g # None
    BY FilesAre, NoneAssumption
  <2>3. Continuable(g) => Continuable(g)'
    BY <2>2, <2>n, <1>1, <1>2, <1>3, <1>5, <1>7 DEF Continuable
  <2> QED BY <2>1, <2>3
<1>13. InOrder' /\ Top'
  BY <1>2, <1>5, <1>6, <1>7 DEF InOrder, Top
<1>14. Reached'
  <2>1. ASSUME NEW i \in DOMAIN read_jobs, JobIs(read_jobs[i].id) PROVE Clear(read_jobs[i].num)'
    <3>1. ~ErrorBefore(Len(toReceiver) + 1)
      BY <1>2 DEF ErrorBefore
    <3>2. Clear(read_jobs[i].num)
      BY <3>1, <2>1, <1>0, <1>2 DEF Reached
    <3>3. ASSUME NEW h, Arriving(h) PROVE Arriving(h)'
      <4>1. \A p \in DOMAIN toReceiver : ~BlockAt(p)
        BY <1>2 DEF BlockAt
      <4> QED BY <4>1, <3>3, <1>2, <1>3 DEF Arriving
    <3> QED BY <3>2, <3>3, <1>2, <1>3 DEF Clear
  <2>2. \A p \in DOMAIN toReceiver' : JobIs(toReceiver'[p].id) => toReceiver'[p].kind # "done"
    BY <1>2
  <2> QED BY <2>1, <2>2, <1>2, <1>5, <1>6 DEF Reached
<1> QED BY <1>8, <1>9, <1>10, <1>11, <1>12, <1>13, <1>14 DEF Writer

\* Writer, when it answers.
LEMMA AnsweringWriter ==
    ASSUME TypeOK, Protocol, Writer, Answering
    PROVE  Writer'
<1>0. Agreed /\ Progress /\ Behind /\ Stream /\ Parts /\ InOrder /\ Top /\ Reached
  BY DEF Writer
<1>a. PICK f \in Files : \E c \in FileAction : AnswerTo(f, c)
  BY DEF Answering
<1>1. PICK c \in FileAction : AnswerTo(f, c)
  BY <1>a
<1>2. /\ UNCHANGED <<read_jobs, src, disk>>
      /\ \A i \in DOMAIN read_jobs : JobIs(read_jobs[i].id) => Asked(read_jobs[i], f)
      /\ \A q \in DOMAIN toSender : JobIs(toSender[q].id) => toSender[q].kind = "cancel"
      /\ \A p \in DOMAIN toReceiver : JobIs(toReceiver[p].id) => toReceiver[p].kind \in {"dir",
                      "digest"}
      /\ \A p \in DOMAIN toReceiver' : JobIs(toReceiver'[p].id) => toReceiver'[p].kind = "dir"
      /\ \A g \in skips : g < f
      /\ write_job # None /\ write_job \in TransferJob /\ f \in Nat /\ f < N /\ N \in Nat
      /\ f >= write_job.num /\ ~write_job.last
      /\ write_job.stream = write_job.num => f > write_job.num
  BY <1>1, FilesAre DEF AnswerTo, OnQuestion
<1>3. /\ write_job' # None /\ write_job' \in TransferJob /\ write_job'.id = write_job.id
      /\ ~write_job'.last /\ write_job'.resume = write_job.resume
      /\ write_job'.listed = write_job.listed /\ write_job'.digest = src[f]
      /\ c.kind = "confirm" /\ c.id = write_job.id /\ c.num = f /\ ask' = None
      /\ c.skip \in BOOLEAN /\ c.offset \in Nat
      /\ c.offset > 0 => /\ ~c.skip /\ CanContinue(f) /\ write_job.listed
                         /\ c.offset = disk.download[f].len
      /\ c.offset = 0 => disk.download[f] = None \/ f \in suspect
      /\ suspect \subseteq suspect'
      /\ Placed(f, c)
  BY <1>1, FileActionFields DEF AnswerTo
<1>4. write_job.num \in Nat /\ write_job'.num \in Nat /\ \A g \in skips : g \in Nat /\ g < f
  BY <1>2, <1>3, FilesAre DEF TransferJob, TypeOK
<1>5. \A id : JobIs(id)' <=> JobIs(id)
  BY <1>2, <1>3 DEF JobIs
<1>6. \A p \in DOMAIN toReceiver' : ~BlockAt(p)'
  BY <1>2, <1>5 DEF BlockAt
<1>7. \A i \in DOMAIN read_jobs : JobIs(read_jobs[i].id) =>
        read_jobs[i].num = f /\ read_jobs[i].waiting /\ ~read_jobs[i].confirmed
  BY <1>2 DEF Asked
<1>8. \A q \in DOMAIN toSender' : JobIs(toSender'[q].id) => toSender'[q].kind = "cancel"
                \/ toSender'[q] = c
  BY <1>1, <1>2 DEF AnswerTo, AddedS
<1>9. /\ c.skip => skips' = skips \cup {f}
      /\ ~c.skip => skips' = skips
  <2>1. skips \ {f} = skips
    BY <1>4
  <2> QED BY <2>1, <1>1, <1>3 DEF AnswerTo
\* Where the writer is now.
<1>10. \/ c.skip /\ write_job.num = f /\ write_job'.num = f + 1 /\ write_job'.stream = None
       \/ /\ ~c.skip /\ write_job.num = f /\ c.offset > 0
          /\ write_job'.num = f /\ write_job'.stream = f
       \/ /\ write_job'.num = write_job.num /\ write_job'.stream = write_job.stream
          /\ write_job.num = f => ~c.skip /\ (c.offset = 0 \/ f \in suspect')
  BY <1>3 DEF Placed
<1>11. Agreed'
  BY <1>2, <1>3, <1>5, <1>6, <1>7, <1>8, <1>9, <1>4 DEF Agreed
<1>12. Progress'
  BY <1>0, <1>2, <1>3, <1>4, <1>5, <1>7, <1>8, <1>10 DEF Progress
<1>13. Behind'
  <2>1. write_job'.num \notin skips'
    BY <1>0, <1>2, <1>4, <1>9, <1>10 DEF Behind
  <2>2. \A g \in skips' : g < f \/ g = f
    BY <1>2, <1>9
  <2> QED BY <2>1, <2>2, <1>2, <1>3, <1>5, <1>7, <1>8 DEF Behind
<1>14. Stream'
  <2>1. CASE write_job'.num = f /\ write_job'.stream = f /\ ~c.skip /\ c.offset > 0
    <3>1. CanContinue(f) /\ write_job.listed /\ f \notin skips'
      BY <2>1, <1>3, <1>4, <1>9
    <3>2. Open(write_job.stream)'
      BY <3>1, <2>1, <1>2, <1>3, <1>4, <1>5, <1>7, <1>8 DEF Open, CanContinue
    <3> QED BY <3>2 DEF Stream
  <2>2. CASE write_job'.num = write_job.num /\ write_job'.stream = write_job.stream
    <3>1. ASSUME write_job.stream # None PROVE Open(write_job.stream)'
      <4>1. Open(write_job.stream) /\ write_job.stream \in Nat
        BY <3>1, <1>0, <1>2 DEF Stream, TransferJob
      <4>2. write_job.stream \notin skips'
        BY <4>1, <1>2, <1>4, <1>9 DEF Open
      <4> QED BY <4>1, <4>2, <2>2, <1>2, <1>3, <1>5, <1>7, <1>8 DEF Open
    <3> QED BY <3>1, <2>2 DEF Stream
  <2>3. CASE write_job'.stream = None
    BY <2>3 DEF Stream
  <2> QED BY <2>1, <2>2, <2>3, <1>10
<1>p. ASSUME NEW g \in Files, g \notin suspect, disk.download[g] # None
      PROVE  g = write_job.num /\ (write_job.stream = g \/ Continuable(g))
  BY <1>p, <1>0, <1>2 DEF Parts
<1>15. Parts'
  <2> SUFFICES ASSUME NEW g \in Files, g \notin suspect', disk.download[g] # None
               PROVE  g = write_job'.num /\ (write_job'.stream = g \/ Continuable(g)')
    BY <1>2 DEF Parts
  <2>1. g = write_job.num /\ (write_job.stream = g \/ Continuable(g)) /\ g \notin suspect
    BY <1>p, <1>3
  <2>2. CASE f = write_job.num
    <3>1. c.offset > 0 /\ ~c.skip
      BY <2>1, <2>2, <1>3
    <3> QED BY <3>1, <2>1, <2>2, <1>10, <1>3
  <2>3. CASE f # write_job.num
    <3>1. write_job'.num = write_job.num /\ write_job'.stream = write_job.stream
      BY <2>3, <1>10
    <3>2. ask' # g
      BY <1>3, FilesAre, NoneAssumption
    <3>3. Continuable(g) => Continuable(g)'
      BY <3>1, <3>2, <2>1, <2>3, <1>2, <1>3, <1>5, <1>7, <1>8 DEF Continuable
    <3> QED BY <3>1, <3>3, <2>1
  <2> QED BY <2>2, <2>3
<1>16. InOrder'
  BY <1>6 DEF InOrder
<1>17. Top'
  <2>1. ASSUME ~c.skip, f \notin suspect' PROVE c.offset = Held(f)'
    <3>1. CASE write_job'.num = f /\ write_job'.stream = f /\ c.offset > 0
      <4>1. Held(f)' = disk.download[f].len
        BY <3>1, <1>2, <1>3 DEF Held, CanContinue
      <4> QED BY <4>1, <3>1, <1>3
    <3>2. CASE write_job'.num = write_job.num /\ write_job'.stream = write_job.stream
               /\ (write_job.num = f => c.offset = 0)
      <4>1. c.offset = 0
        BY <3>2, <2>1, <1>p, <1>3 DEF CanContinue
      <4>2. ~(write_job'.stream = f /\ write_job'.num = f)
        BY <3>2, <1>2, <1>4
      <4>3. Held(f)' = 0
        BY <4>2 DEF Held
      <4> QED BY <4>1, <4>3
    <3> QED BY <3>1, <3>2, <2>1, <1>10
  <2> QED BY <2>1, <1>2, <1>3, <1>5, <1>6, <1>7, <1>8 DEF Top
<1>18. Reached'
  <2>1. ASSUME NEW i \in DOMAIN read_jobs, JobIs(read_jobs[i].id) PROVE Clear(read_jobs[i].num)'
    <3>0. \A p \in DOMAIN toReceiver : ~BlockAt(p)
      BY <1>2 DEF BlockAt
    <3>1. ~ErrorBefore(Len(toReceiver) + 1)
      BY <1>2 DEF ErrorBefore
    <3>2. Clear(f)
      BY <3>1, <2>1, <1>0, <1>2, <1>7 DEF Reached
    <3>3. ASSUME NEW h \in Files, write_job'.num <= h, h < f
          PROVE  h \in suspect' \/ h \in skips' \/ Arriving(h)'
      <4>1. h \in Nat /\ write_job.num <= h
        BY <3>3, <1>2, <1>4, <1>10, FilesAre
      <4>2. h \in suspect \/ h \in skips \/ Arriving(h)
        BY <4>1, <3>2, <3>3 DEF Clear
      <4>3. Arriving(h) => Arriving(h)'
        <5>1. ASSUME Arriving(h)
              PROVE  /\ write_job.num = h /\ write_job.stream = h
                     /\ disk.download[h] # None /\ disk.download[h].len = Blocks[h]
          BY <5>1, <3>0 DEF Arriving
        <5>2. Arriving(h) => write_job'.num = write_job.num /\ write_job'.stream = write_job.stream
          BY <5>1, <4>1, <3>3, <1>2, <1>10
        <5> QED BY <5>1, <5>2, <1>2 DEF Arriving
      <4> QED BY <4>2, <4>3, <1>3, <1>9
    <3>4. Clear(f)'
      BY <3>3, <1>2 DEF Clear
    <3>5. read_jobs[i].num' = f
      BY <2>1, <1>2, <1>7
    <3> QED BY <3>4, <3>5 DEF Clear
  <2>2. \A p \in DOMAIN toReceiver' : JobIs(toReceiver'[p].id) => toReceiver'[p].kind # "done"
    BY <1>2
  <2> QED BY <2>1, <2>2, <1>2, <1>5, <1>6 DEF Reached
<1> QED BY <1>11, <1>12, <1>13, <1>14, <1>15, <1>16, <1>17, <1>18 DEF Writer

\* The key of the block a job sends is one more than where it is.
LEMMA NextKey ==
    ASSUME TypeOK, Protocol, Writer, NEW i \in DOMAIN read_jobs, JobIs(read_jobs[i].id),
           read_jobs[i].confirmed, read_jobs[i].num \notin suspect, Sound
    PROVE  /\ Key(BlockOf(read_jobs[i])) = read_jobs[i].stream + 1
           /\ read_jobs[i].stream \in Nat /\ Held(read_jobs[i].num) \in Nat
           /\ Held(read_jobs[i].num) <= read_jobs[i].stream
           /\ read_jobs[i].stream <= Blocks[read_jobs[i].num]
           /\ Blocks[read_jobs[i].num] \in Nat
<1> DEFINE j == read_jobs[i]
           b == BlockOf(j)
           s == j.stream
           B == Blocks[j.num]
<1>1. JobOK(j)
  BY JobsOK DEF Protocol
<1>2. j.num \in Files
  BY <1>1, FilesAre DEF JobOK, TransferJob
<1>3. Held(j.num) \in Nat /\ B \in Nat
  BY <1>2, HeldIs
<1>4. s \in Held(j.num) .. B
  BY DEF Writer, Top
<1>5. b.num = j.num /\ b.idx = IF s < B THEN s + 1 ELSE 0
  BY DEF BlockOf
<1>6. Key(b) = IF b.idx = 0 THEN Blocks[b.num] + 1 ELSE b.idx
  BY DEF Key
<1> HIDE DEF b
<1>7. Key(b) = IF b.idx = 0 THEN B + 1 ELSE b.idx
  BY <1>5, <1>6
<1> HIDE DEF B, s
<1>8. Key(b) = s + 1
  BY <1>3, <1>4, <1>5, <1>7
<1> QED BY <1>3, <1>4, <1>8 DEF b, B, s

\* Writer, when the timer ticks: a block sent continues the ones under way,
\* and a file left behind has its end under way.
LEMMA TickingWriter ==
    ASSUME TypeOK, Protocol, Writer, Sound, Ticking
    PROVE  Writer'
<1> DEFINE L == Len(toReceiver)
<1>0. /\ Agreed /\ Progress /\ Behind /\ Stream /\ Parts /\ InOrder /\ Top /\ Reached
      /\ Ids /\ Fresh /\ Question /\ OneQuestion /\ Wire /\ Ended
  BY DEF Writer, Protocol
<1>1. UNCHANGED <<write_job, ask, toSender, src, disk, skips, suspect>>
  BY DEF Ticking
<1>2. \A id : JobIs(id)' <=> JobIs(id)
  BY <1>1 DEF JobIs
<1>3. PICK x \in {0, 1} : \A k \in DOMAIN read_jobs' :
        k + x \in DOMAIN read_jobs /\ Ticked(read_jobs[k + x], read_jobs'[k])
  BY DEF Ticking, Tick
<1>4. ASSUME NEW k \in DOMAIN read_jobs'
      PROVE  \E i \in DOMAIN read_jobs : /\ Ticked(read_jobs[i], read_jobs'[k])
                      /\ JobOK(read_jobs[i])
                                         /\ read_jobs'[k].id = read_jobs[i].id
                                         /\ read_jobs[i].num \in Nat
  <2>1. k + x \in DOMAIN read_jobs /\ Ticked(read_jobs[k + x], read_jobs'[k])
    BY <1>3
  <2>2. JobOK(read_jobs[k + x]) /\ read_jobs[k + x].num \in Nat
    BY <2>1, JobsOK, <1>0 DEF JobOK, TransferJob
  <2> QED BY <2>1, <2>2 DEF Ticked
<1>5. /\ \A p \in DOMAIN toReceiver : p \in DOMAIN toReceiver'
                /\ toReceiver'[p] = toReceiver[p] /\ ~(p > L)
      /\ \A p \in DOMAIN toReceiver' : p \in Nat /\ p >= 1 /\ p <= Len(toReceiver')
            /\ (p > L \/ (p \in DOMAIN toReceiver /\ toReceiver'[p] = toReceiver[p]))
      /\ L \in Nat /\ Len(toReceiver') \in Nat /\ L <= Len(toReceiver')
  <2>1. L \in Nat /\ DOMAIN toReceiver = 1 .. L
    BY TypeFacts, LenProperties
  <2>2. Len(toReceiver') \in Nat /\ DOMAIN toReceiver' = 1 .. Len(toReceiver')
    BY LenProperties DEF Ticking, Tick
  <2>3. \A p \in DOMAIN toReceiver : p \in DOMAIN toReceiver' /\ toReceiver'[p] = toReceiver[p]
    BY DEF Ticking, Tick
  <2>4. L <= Len(toReceiver')
    <3>1. L = 0 \/ L \in DOMAIN toReceiver
      BY <2>1
    <3> QED BY <3>1, <2>2, <2>3, <2>1
  <2> HIDE DEF L
  <2> QED BY <2>1, <2>2, <2>3, <2>4
\* A new message comes from one job.
<1>6. ASSUME NEW p \in DOMAIN toReceiver', p > L
      PROVE  \E i \in DOMAIN read_jobs :
                /\ TickedMsg(read_jobs[i], toReceiver'[p]) /\ JobOK(read_jobs[i])
                /\ toReceiver'[p].id = read_jobs[i].id /\ read_jobs[i].num \in Nat
  <2>1. PICK i \in DOMAIN read_jobs : TickedMsg(read_jobs[i], toReceiver'[p]) /\ JobOK(read_jobs[i])
    BY <1>6, MessageOf
  <2> QED BY <2>1 DEF TickedMsg, JobOK, TransferJob
<1>7. ASSUME NEW p \in DOMAIN toReceiver', p > L, toReceiver'[p].kind = "block"
      PROVE  \E i \in DOMAIN read_jobs :
                /\ read_jobs[i].confirmed /\ toReceiver'[p] = BlockOf(read_jobs[i])
                /\ toReceiver'[p].id = read_jobs[i].id /\ toReceiver'[p].num = read_jobs[i].num
  <2>1. PICK i \in DOMAIN read_jobs : TickedMsg(read_jobs[i], toReceiver'[p])
    BY <1>6, <1>7
  <2>2. toReceiver'[p] = BlockOf(read_jobs[i]) /\ read_jobs[i].confirmed
    BY <2>1, <1>7 DEF TickedMsg
  <2> QED BY <2>2, <2>1 DEF BlockOf, TickedMsg
<1>8. ASSUME NEW p \in DOMAIN toReceiver', p > L, toReceiver'[p].kind = "digest"
      PROVE  \E i \in DOMAIN read_jobs :
                /\ ~read_jobs[i].waiting /\ ~read_jobs[i].confirmed
                /\ toReceiver'[p].id = read_jobs[i].id /\ toReceiver'[p].num = read_jobs[i].num
  <2>1. PICK i \in DOMAIN read_jobs : TickedMsg(read_jobs[i], toReceiver'[p]) /\ JobOK(read_jobs[i])
    BY <1>6, <1>8
  <2>2. toReceiver'[p] = DigestOf(read_jobs[i]) /\ ~read_jobs[i].waiting /\ ~read_jobs[i].confirmed
    BY <2>1, <1>8 DEF TickedMsg, JobOK
  <2> QED BY <2>2, <2>1 DEF DigestOf, TickedMsg
\* What has become of a job.
<1>9. ASSUME NEW k \in DOMAIN read_jobs'
      PROVE  \E i \in DOMAIN read_jobs :
                /\ read_jobs'[k].id = read_jobs[i].id /\ read_jobs[i].num \in Nat
                /\ \/ /\ read_jobs'[k].num = read_jobs[i].num
                      /\ read_jobs'[k].waiting <=> read_jobs[i].waiting
                      /\ read_jobs'[k].confirmed <=> read_jobs[i].confirmed
                   \/ /\ read_jobs'[k].num = read_jobs[i].num
                      /\ ~read_jobs[i].waiting /\ ~read_jobs'[k].confirmed
                   \/ read_jobs'[k].num = read_jobs[i].num + 1 /\ ~read_jobs'[k].confirmed
  <2>1. PICK i \in DOMAIN read_jobs : /\ Ticked(read_jobs[i], read_jobs'[k]) /\ JobOK(read_jobs[i])
                                      /\ read_jobs'[k].id = read_jobs[i].id
                                      /\ read_jobs[i].num \in Nat
    BY <1>4
  <2> QED BY <2>1 DEF Ticked, Same, Asks, Moved, JobOK
<1>t. write_job # None => write_job.num \in Nat /\ write_job.stream \in Nat \cup {None}
  BY TypeFacts
<1>10. Agreed'
  BY <1>0, <1>1, <1>2, <1>5, <1>7, <1>9 DEF Agreed
<1>11. Progress'
  <2>1. ASSUME write_job # None, NEW p \in DOMAIN toReceiver', toReceiver'[p].kind \in {"digest",
                  "block"},
               JobIs(toReceiver'[p].id)
        PROVE  toReceiver'[p].num >= write_job.num
    BY <2>1, <1>0, <1>5, <1>7, <1>8, <1>t DEF Progress
  <2>2. ASSUME write_job # None, NEW k \in DOMAIN read_jobs', JobIs(read_jobs'[k].id)
        PROVE  \/ read_jobs'[k].num >= write_job.num
               \/ read_jobs'[k].num + 1 = write_job.num /\ read_jobs'[k].waiting
                               /\ ~read_jobs'[k].confirmed
    <3>1. PICK i \in DOMAIN read_jobs :
                /\ read_jobs'[k].id = read_jobs[i].id /\ read_jobs[i].num \in Nat
                /\ \/ /\ read_jobs'[k].num = read_jobs[i].num
                      /\ read_jobs'[k].waiting <=> read_jobs[i].waiting
                      /\ read_jobs'[k].confirmed <=> read_jobs[i].confirmed
                   \/ /\ read_jobs'[k].num = read_jobs[i].num
                      /\ ~read_jobs[i].waiting /\ ~read_jobs'[k].confirmed
                   \/ read_jobs'[k].num = read_jobs[i].num + 1 /\ ~read_jobs'[k].confirmed
      BY <1>9
    <3>2. \/ read_jobs[i].num >= write_job.num
          \/ read_jobs[i].num + 1 = write_job.num /\ read_jobs[i].waiting /\ ~read_jobs[i].confirmed
      BY <3>1, <2>2, <1>0 DEF Progress
    <3> QED BY <3>1, <3>2, <2>2, <1>t
  <2> QED BY <2>1, <2>2, <1>0, <1>1, <1>2 DEF Progress
<1>12. Behind'
  <2>1. ASSUME write_job # None, NEW g \in skips, NEW p \in DOMAIN toReceiver',
                  toReceiver'[p].kind = "digest",
               JobIs(toReceiver'[p].id)
        PROVE  g < toReceiver'[p].num
    BY <2>1, <1>0, <1>5, <1>8 DEF Behind
  <2>2. ASSUME write_job # None, NEW g \in skips, NEW k \in DOMAIN read_jobs',
                  JobIs(read_jobs'[k].id)
        PROVE  \/ g < read_jobs'[k].num
               \/ g = read_jobs'[k].num /\ read_jobs'[k].waiting /\ ~read_jobs'[k].confirmed
    <3>0. g \in Nat
      BY FilesAre DEF TypeOK
    <3>1. PICK i \in DOMAIN read_jobs :
                /\ read_jobs'[k].id = read_jobs[i].id /\ read_jobs[i].num \in Nat
                /\ \/ /\ read_jobs'[k].num = read_jobs[i].num
                      /\ read_jobs'[k].waiting <=> read_jobs[i].waiting
                      /\ read_jobs'[k].confirmed <=> read_jobs[i].confirmed
                   \/ /\ read_jobs'[k].num = read_jobs[i].num
                      /\ ~read_jobs[i].waiting /\ ~read_jobs'[k].confirmed
                   \/ read_jobs'[k].num = read_jobs[i].num + 1 /\ ~read_jobs'[k].confirmed
      BY <1>9
    <3>2. \/ g < read_jobs[i].num
          \/ g = read_jobs[i].num /\ read_jobs[i].waiting /\ ~read_jobs[i].confirmed
      BY <3>1, <2>2, <1>0 DEF Behind
    <3> QED BY <3>0, <3>1, <3>2
  <2> QED BY <2>1, <2>2, <1>0, <1>1, <1>2 DEF Behind
<1>13. Stream'
  <2>1. ASSUME write_job # None, write_job.stream # None PROVE Open(write_job.stream)'
    <3>1. Open(write_job.stream) /\ write_job.stream \in Nat
      BY <2>1, <1>0, <1>t DEF Stream
    <3>2. ASSUME write_job.stream = write_job.num, NEW k \in DOMAIN read_jobs',
                    JobIs(read_jobs'[k].id)
          PROVE  /\ \/ read_jobs'[k].num > write_job.stream
                    \/ read_jobs'[k].num = write_job.stream /\ read_jobs'[k].waiting
                 /\ disk.download[write_job.stream] = None => read_jobs'[k].num > write_job.stream
      <4>1. PICK i \in DOMAIN read_jobs :
                /\ read_jobs'[k].id = read_jobs[i].id /\ read_jobs[i].num \in Nat
                /\ \/ /\ read_jobs'[k].num = read_jobs[i].num
                      /\ read_jobs'[k].waiting <=> read_jobs[i].waiting
                      /\ read_jobs'[k].confirmed <=> read_jobs[i].confirmed
                   \/ /\ read_jobs'[k].num = read_jobs[i].num
                      /\ ~read_jobs[i].waiting /\ ~read_jobs'[k].confirmed
                   \/ read_jobs'[k].num = read_jobs[i].num + 1 /\ ~read_jobs'[k].confirmed
        BY <1>9
      <4>2. /\ \/ read_jobs[i].num > write_job.stream
               \/ read_jobs[i].num = write_job.stream /\ read_jobs[i].waiting
            /\ disk.download[write_job.stream] = None => read_jobs[i].num > write_job.stream
        BY <4>1, <3>1, <3>2 DEF Open
      <4> QED BY <4>1, <4>2, <3>1
    <3>3. ASSUME write_job.stream = write_job.num, NEW p \in DOMAIN toReceiver',
                    JobIs(toReceiver'[p].id)
          PROVE  /\ toReceiver'[p].kind = "digest" => toReceiver'[p].num > write_job.stream
                 /\ disk.download[write_job.stream] = None /\ toReceiver'[p].kind = "block"
                        => toReceiver'[p].num > write_job.stream
      BY <3>1, <3>3, <1>5, <1>7, <1>8 DEF Open
    <3> QED BY <3>1, <3>2, <3>3, <1>1, <1>2 DEF Open
  <2> QED BY <2>1, <1>1 DEF Stream
<1>14. Parts'
  <2>1. ASSUME NEW f, Continuable(f) PROVE Continuable(f)'
    BY <2>1, <1>1, <1>2, <1>5, <1>7, <1>9 DEF Continuable
  <2> QED BY <2>1, <1>0, <1>1 DEF Parts
<1>h. \A f : Held(f)' = Held(f)
  BY <1>1 DEF Held
<1>b. /\ \A p \in DOMAIN toReceiver : BlockAt(p)' <=> BlockAt(p)
      /\ \A p \in DOMAIN toReceiver' : BlockAt(p)' <=> toReceiver'[p].kind = "block"
                      /\ JobIs(toReceiver'[p].id)
  BY <1>2, <1>5 DEF BlockAt
\* A new block of a file without errors follows the others.
<1>n. ASSUME NEW p \in DOMAIN toReceiver', p > L, BlockAt(p)', toReceiver'[p].num \notin suspect
      PROVE  \E i \in DOMAIN read_jobs :
                /\ read_jobs[i].confirmed /\ JobIs(read_jobs[i].id)
                /\ toReceiver'[p].num = read_jobs[i].num
                /\ toReceiver'[p] = BlockOf(read_jobs[i])
                /\ read_jobs[i].num \notin suspect
                /\ Key(toReceiver'[p]) = read_jobs[i].stream + 1
                /\ read_jobs[i].stream \in Nat /\ Held(read_jobs[i].num) \in Nat
                /\ Held(read_jobs[i].num) <= read_jobs[i].stream
  <2>1. PICK i \in DOMAIN read_jobs :
                /\ read_jobs[i].confirmed /\ toReceiver'[p] = BlockOf(read_jobs[i])
                /\ toReceiver'[p].id = read_jobs[i].id /\ toReceiver'[p].num = read_jobs[i].num
    BY <1>n, <1>b, <1>7
  <2>2. JobIs(read_jobs[i].id) /\ read_jobs[i].num \notin suspect
    BY <2>1, <1>n, <1>b
  <2>3. /\ Key(BlockOf(read_jobs[i])) = read_jobs[i].stream + 1
        /\ read_jobs[i].stream \in Nat /\ Held(read_jobs[i].num) \in Nat
        /\ Held(read_jobs[i].num) <= read_jobs[i].stream
    BY <2>1, <2>2, NextKey
  <2> QED BY <2>1, <2>2, <2>3
<1>k. \A p \in DOMAIN toReceiver' : toReceiver'[p].kind = "block" /\ toReceiver'[p].num < N
                => Key(toReceiver'[p]) \in Nat
  <2> TAKE p \in DOMAIN toReceiver'
  <2> HAVE toReceiver'[p].kind = "block" /\ toReceiver'[p].num < N
  <2>1. toReceiver'[p] \in Response
    BY DEF Ticking, Tick
  <2>2. toReceiver'[p].idx \in Nat /\ toReceiver'[p].num \in Files
    BY <2>1, ResponseFields, FilesAre
  <2>3. Blocks[toReceiver'[p].num] \in Nat
    BY <2>2, BlocksAre
  <2> QED BY <2>2, <2>3 DEF Key
<1>15. InOrder'
  <2>1. ASSUME NEW p \in DOMAIN toReceiver', NEW q \in DOMAIN toReceiver', BlockAt(p)',
                  BlockAt(q)', p < q,
               toReceiver'[p].num \notin suspect
        PROVE  Key(toReceiver'[p]) < Key(toReceiver'[q])
    <3>1. CASE p \in DOMAIN toReceiver /\ q \in DOMAIN toReceiver
      BY <3>1, <2>1, <1>0, <1>5, <1>b DEF InOrder
    <3>2. CASE p \in DOMAIN toReceiver /\ q > L
      <4>0. BlockAt(p) /\ toReceiver'[p] = toReceiver[p] /\ toReceiver[p].num < N
        BY <3>2, <2>1, <1>5, <1>b, <1>0 DEF BlockAt, Wire
      <4>1. toReceiver'[q].num = toReceiver'[p].num
        <5>1. PICK i \in DOMAIN read_jobs :
                /\ read_jobs[i].confirmed
                /\ toReceiver'[q].id = read_jobs[i].id /\ toReceiver'[q].num = read_jobs[i].num
          BY <3>2, <2>1, <1>b, <1>7
        <5>2. toReceiver[p].id = read_jobs[i].id
          BY <5>1, <4>0, <2>1, <1>b DEF BlockAt, JobIs
        <5> QED BY <5>1, <5>2, <4>0, <1>0, <3>2 DEF Wire, BlockAt
      <4>2. PICK i \in DOMAIN read_jobs :
                /\ read_jobs[i].confirmed /\ JobIs(read_jobs[i].id)
                /\ read_jobs[i].num \notin suspect
                /\ Key(toReceiver'[q]) = read_jobs[i].stream + 1 /\ read_jobs[i].stream \in Nat
        BY <4>1, <3>2, <2>1, <1>n
      <4>3. Key(toReceiver[p]) <= read_jobs[i].stream
        BY <4>0, <4>2, <3>2, <1>0 DEF Top
      <4>4. Key(toReceiver'[p]) \in Nat
        BY <4>0, <2>1, <1>b, <1>k
      <4> QED BY <4>0, <4>2, <4>3, <4>4
    <3>3. CASE p > L /\ q > L
      BY <3>3, <2>1, <1>b, <1>5, OneMessage DEF JobIs
    <3>4. ~(p > L /\ q \in DOMAIN toReceiver)
      BY <2>1, <1>5, TypeFacts
    <3> QED BY <3>1, <3>2, <3>3, <3>4, <1>5
  <2>2. ASSUME NEW p \in DOMAIN toReceiver', BlockAt(p)', toReceiver'[p].num \notin suspect
        PROVE  /\ Key(toReceiver'[p]) > Held(toReceiver'[p].num)
               /\ \A k \in Held(toReceiver'[p].num) + 1 .. Key(toReceiver'[p]) :
                    \E q \in DOMAIN toReceiver' : q <= p /\ BlockAt(q)' /\ Key(toReceiver'[q]) = k
    <3>1. CASE p \in DOMAIN toReceiver
      <4>1. BlockAt(p) /\ toReceiver'[p] = toReceiver[p]
        BY <3>1, <2>2, <1>5, <1>b
      <4>2. /\ Key(toReceiver[p]) > Held(toReceiver[p].num)
            /\ \A k \in Held(toReceiver[p].num) + 1 .. Key(toReceiver[p]) :
                    \E q \in DOMAIN toReceiver : q <= p /\ BlockAt(q) /\ Key(toReceiver[q]) = k
        BY <4>1, <3>1, <2>2, <1>0 DEF InOrder
      <4> QED BY <4>1, <4>2, <1>5, <1>b
    <3>2. CASE p > L
      <4>1. PICK i \in DOMAIN read_jobs :
                /\ read_jobs[i].confirmed /\ JobIs(read_jobs[i].id)
                /\ toReceiver'[p].num = read_jobs[i].num
                /\ read_jobs[i].num \notin suspect
                /\ Key(toReceiver'[p]) = read_jobs[i].stream + 1
                /\ read_jobs[i].stream \in Nat /\ Held(read_jobs[i].num) \in Nat
                /\ Held(read_jobs[i].num) <= read_jobs[i].stream
        BY <3>2, <2>2, <1>n
      <4>2. \A k \in Held(read_jobs[i].num) + 1 .. read_jobs[i].stream :
                \E q \in DOMAIN toReceiver : BlockAt(q) /\ Key(toReceiver[q]) = k
        BY <4>1, <1>0 DEF Top
      <4>3. ASSUME NEW k \in Held(read_jobs[i].num) + 1 .. read_jobs[i].stream + 1
            PROVE \E q \in DOMAIN toReceiver' : q <= p /\ BlockAt(q)' /\ Key(toReceiver'[q]) = k
        <5>1. CASE k = read_jobs[i].stream + 1
          BY <5>1, <4>1, <2>2, <1>5
        <5>2. CASE k # read_jobs[i].stream + 1
          <6>1. k \in Held(read_jobs[i].num) + 1 .. read_jobs[i].stream
            BY <5>2, <4>1
          <6>2. PICK q \in DOMAIN toReceiver : BlockAt(q) /\ Key(toReceiver[q]) = k
            BY <6>1, <4>2
          <6>3. q \in DOMAIN toReceiver' /\ toReceiver'[q] = toReceiver[q] /\ BlockAt(q)'
            BY <6>2, <1>5, <1>b
          <6>4. q <= p
            BY <6>3, <3>2, <1>5
          <6> QED BY <6>2, <6>3, <6>4
        <5> QED BY <5>1, <5>2
      <4> QED BY <4>1, <4>3
    <3> QED BY <3>1, <3>2, <1>5
  <2> QED BY <2>1, <2>2, <1>1, <1>h DEF InOrder, Key
<1>16. Top'
  <2>1. ASSUME NEW k \in DOMAIN read_jobs', JobIs(read_jobs'[k].id), read_jobs'[k].confirmed,
               read_jobs'[k].num \notin suspect
        PROVE  /\ read_jobs'[k].stream \in Held(read_jobs'[k].num) .. Blocks[read_jobs'[k].num]
               /\ \A p \in DOMAIN toReceiver' : BlockAt(p)'
                               => Key(toReceiver'[p]) <= read_jobs'[k].stream
               /\ \A y \in Held(read_jobs'[k].num) + 1 .. read_jobs'[k].stream :
                    \E q \in DOMAIN toReceiver' : BlockAt(q)' /\ Key(toReceiver'[q]) = y
    <3>1. PICK i \in DOMAIN read_jobs : /\ Ticked(read_jobs[i], read_jobs'[k])
                    /\ JobOK(read_jobs[i])
                                        /\ read_jobs'[k].id = read_jobs[i].id
      BY <1>4
    <3> DEFINE j == read_jobs[i]
    <3>2. /\ j.confirmed /\ read_jobs'[k].num = j.num /\ JobIs(j.id) /\ j.num \notin suspect
          /\ \/ read_jobs'[k].stream = j.stream /\ Silent(j.id)
             \/ read_jobs'[k].stream = j.stream + 1 /\ j.stream < Blocks[j.num] /\ Sent(BlockOf(j))
      BY <3>1, <2>1 DEF Ticked, Same, Asks, Moved
    <3>3. /\ Key(BlockOf(j)) = j.stream + 1
          /\ j.stream \in Nat /\ Held(j.num) \in Nat /\ Held(j.num) <= j.stream
          /\ j.stream <= Blocks[j.num] /\ Blocks[j.num] \in Nat
      BY <3>2, NextKey
    <3>4. /\ \A p \in DOMAIN toReceiver : BlockAt(p) => Key(toReceiver[p]) <= j.stream
          /\ \A y \in Held(j.num) + 1 .. j.stream :
                \E q \in DOMAIN toReceiver : BlockAt(q) /\ Key(toReceiver[q]) = y
      BY <3>2, <1>0 DEF Top
    <3>5. CASE read_jobs'[k].stream = j.stream /\ Silent(j.id)
      <4>1. \A p \in DOMAIN toReceiver' : BlockAt(p)' => p \in DOMAIN toReceiver
        BY <3>5, <3>2, <1>5, <1>b DEF Silent, JobIs
      <4> QED BY <4>1, <3>2, <3>3, <3>4, <3>5, <1>5, <1>b
    <3>6. CASE read_jobs'[k].stream = j.stream + 1 /\ j.stream < Blocks[j.num] /\ Sent(BlockOf(j))
      <4>1. ASSUME NEW p \in DOMAIN toReceiver',
                      BlockAt(p)' PROVE Key(toReceiver'[p]) <= j.stream + 1
        <5>1. CASE p \in DOMAIN toReceiver /\ toReceiver'[p] = toReceiver[p]
          <6>1. Key(toReceiver[p]) <= j.stream /\ toReceiver[p].num < N
            BY <5>1, <4>1, <3>4, <1>b, <1>0 DEF Wire, BlockAt
          <6>2. Key(toReceiver'[p]) \in Nat
            BY <6>1, <5>1, <4>1, <1>b, <1>k
          <6> QED BY <6>1, <6>2, <5>1, <3>3
        <5>2. CASE p > L
          <6>1. PICK n \in DOMAIN read_jobs :
                /\ toReceiver'[p] = BlockOf(read_jobs[n])
                /\ toReceiver'[p].id = read_jobs[n].id
            BY <5>2, <4>1, <1>b, <1>7
          <6>2. n = i
            BY <6>1, <4>1, <3>2, <1>b, <1>0 DEF Ids, JobIs
          <6> QED BY <6>1, <6>2, <3>3
        <5> QED BY <5>1, <5>2, <1>5
      <4>2. ASSUME NEW y \in Held(j.num) + 1 .. j.stream + 1
            PROVE \E q \in DOMAIN toReceiver' : BlockAt(q)' /\ Key(toReceiver'[q]) = y
        <5>1. CASE y = j.stream + 1
          <6>1. PICK q \in DOMAIN toReceiver' : toReceiver'[q] = BlockOf(j)
            BY <3>6 DEF Sent
          <6>2. BlockOf(j).kind = "block" /\ BlockOf(j).id = j.id
            BY DEF BlockOf
          <6> QED BY <6>1, <6>2, <5>1, <3>2, <3>3, <1>b
        <5>2. CASE y # j.stream + 1
          <6>1. y \in Held(j.num) + 1 .. j.stream
            BY <5>2, <3>3
          <6> QED BY <6>1, <3>4, <1>5, <1>b
        <5> QED BY <5>1, <5>2
      <4> QED BY <4>1, <4>2, <3>2, <3>3, <3>6
    <3> QED BY <3>2, <3>5, <3>6
  <2> QED BY <2>1, <1>0, <1>1, <1>2, <1>h DEF Top, Key
<1>17. Reached'
  <2>1. ASSUME NEW h, Arriving(h) PROVE Arriving(h)'
    BY <2>1, <1>1, <1>5, <1>b DEF Arriving
  <2>2. \A n : Clear(n) => Clear(n)'
    BY <2>1, <1>1 DEF Clear
  <2>3. \A n : ErrorBefore(n) => ErrorBefore(n)'
    BY <1>2, <1>5 DEF ErrorBefore
  <2>4. ASSUME ErrorBefore(L + 1), NEW n \in Nat, n > L PROVE ErrorBefore(n)'
    <3>1. PICK p \in DOMAIN toReceiver : p < L + 1 /\ toReceiver[p].kind = "error"
                    /\ JobIs(toReceiver[p].id)
      BY <2>4 DEF ErrorBefore
    <3>2. p \in DOMAIN toReceiver' /\ toReceiver'[p] = toReceiver[p] /\ p \in Nat
      BY <1>5
    <3>3. p < n
      BY <3>1, <3>2, <2>4, <1>5
    <3> QED BY <3>1, <3>2, <3>3, <1>2 DEF ErrorBefore
  <2>5. ErrorBefore(L + 1) => ErrorBefore(Len(toReceiver) + 1)'
    <3> DEFINE n == Len(toReceiver') + 1
    <3>1. n \in Nat /\ n > L
      BY <1>5
    <3>2. ErrorBefore(L + 1) => \E p \in DOMAIN toReceiver' :
                p < n /\ toReceiver'[p].kind = "error" /\ JobIs(toReceiver'[p].id)
      <4> HIDE DEF n
      <4> SUFFICES ASSUME ErrorBefore(L + 1) PROVE \E p \in DOMAIN toReceiver' :
                p < n /\ toReceiver'[p].kind = "error" /\ JobIs(toReceiver'[p].id)
        OBVIOUS
      <4>2. PICK p \in DOMAIN toReceiver : p < L + 1 /\ toReceiver[p].kind = "error"
                      /\ JobIs(toReceiver[p].id)
        BY DEF ErrorBefore
      <4>3. p \in DOMAIN toReceiver' /\ toReceiver'[p] = toReceiver[p] /\ p < n
        BY <3>1, <4>2, <1>5
      <4> QED BY <4>2, <4>3
    <3> QED BY <3>2, <1>2 DEF ErrorBefore
  <2>6. ASSUME write_job # None, NEW k \in DOMAIN read_jobs', JobIs(read_jobs'[k].id)
        PROVE  Clear(read_jobs[k].num)' \/ ErrorBefore(Len(toReceiver) + 1)'
    <3>1. PICK i \in DOMAIN read_jobs : /\ Ticked(read_jobs[i], read_jobs'[k])
                    /\ JobOK(read_jobs[i])
                                        /\ read_jobs'[k].id = read_jobs[i].id
                                        /\ read_jobs[i].num \in Nat
      BY <1>4
    <3> DEFINE j == read_jobs[i]
    <3>2. JobIs(j.id) /\ (Clear(j.num) \/ ErrorBefore(L + 1))
      BY <3>1, <2>6, <1>0 DEF Reached
    <3>3. CASE read_jobs'[k].num = j.num
      BY <3>2, <3>3, <2>1, <2>5, <1>1 DEF Clear
    <3>4. CASE Moved(j, read_jobs'[k]) /\ Sent(Error(j))
      <4>1. PICK p \in DOMAIN toReceiver' : toReceiver'[p] = Error(j)
        BY <3>4 DEF Sent
      <4>2. Error(j).kind = "error" /\ Error(j).id = j.id
        BY DEF Error
      <4>3. p < Len(toReceiver') + 1
        BY <1>5
      <4> QED BY <4>1, <4>2, <4>3, <3>2, <1>2 DEF ErrorBefore
    <3>5. CASE Moved(j, read_jobs'[k]) /\ j.confirmed /\ ~(j.stream < Blocks[j.num])
                    /\ Sent(BlockOf(j))
      <4>1. PICK p \in DOMAIN toReceiver' : toReceiver'[p] = BlockOf(j)
        BY <3>5 DEF Sent
      <4>2. BlockOf(j).kind = "block" /\ BlockOf(j).id = j.id /\ BlockOf(j).num = j.num
                      /\ BlockOf(j).idx = 0
        BY <3>5 DEF BlockOf
      <4>3. PICK h \in Files : h = j.num /\ h \in Nat
        BY <3>1, <3>5, FilesAre DEF JobOK
      <4>4. Arriving(h)'
        BY <4>1, <4>2, <4>3, <3>2, <1>b DEF Arriving
      <4>5. Clear(h) => \A g \in Files : write_job.num <= g /\ g < h + 1 =>
                            g \in suspect \/ g \in skips \/ Arriving(g)'
        <5> SUFFICES ASSUME Clear(h), NEW g \in Files, write_job.num <= g, g < h + 1
                     PROVE  g \in suspect \/ g \in skips \/ Arriving(g)'
          OBVIOUS
        <5>1. g \in Nat /\ (g = h \/ g < h)
          BY <4>3, FilesAre
        <5>2. g = h => Arriving(g)'
          BY <4>4
        <5> QED BY <5>1, <5>2, <2>1 DEF Clear
      <4>6. read_jobs'[k].num = h + 1
        BY <3>5, <4>3 DEF Moved
      <4>7. Clear(h) => Clear(read_jobs[k].num)'
        BY <4>5, <4>6, <1>1 DEF Clear
      <4> QED BY <4>3, <4>7, <3>2, <2>5
    <3> QED BY <3>1, <3>3, <3>4, <3>5 DEF Ticked, Same, Asks
  <2>7. ASSUME write_job # None, NEW p \in DOMAIN toReceiver', BlockAt(p)'
        PROVE  Clear(toReceiver[p].num)'
    <3>1. CASE p \in DOMAIN toReceiver /\ toReceiver'[p] = toReceiver[p]
      <4>1. Clear(toReceiver[p].num)
        BY <3>1, <2>7, <1>0, <1>b DEF Reached
      <4> QED BY <4>1, <3>1, <2>1, <1>1 DEF Clear
    <3>2. CASE p > L
      <4>1. PICK i \in DOMAIN read_jobs :
                /\ read_jobs[i].confirmed
                /\ toReceiver'[p].id = read_jobs[i].id /\ toReceiver'[p].num = read_jobs[i].num
        BY <3>2, <2>7, <1>b, <1>7
      <4>2. JobIs(read_jobs[i].id)
        BY <4>1, <2>7, <1>b
      <4>3. ~ErrorBefore(L + 1)
        BY <4>1, <4>2, <1>0 DEF ErrorBefore, Ended, JobIs
      <4>4. Clear(read_jobs[i].num)
        BY <4>2, <4>3, <2>7, <1>0 DEF Reached
      <4> QED BY <4>1, <4>4, <2>1, <1>1 DEF Clear
    <3> QED BY <3>1, <3>2, <1>5
  <2>8. ASSUME write_job # None, NEW p \in DOMAIN toReceiver', toReceiver'[p].kind = "done",
                  JobIs(toReceiver'[p].id)
        PROVE  Clear(N)' \/ ErrorBefore(p)'
    <3>1. CASE p \in DOMAIN toReceiver /\ toReceiver'[p] = toReceiver[p]
      BY <3>1, <2>2, <2>3, <2>8, <1>0 DEF Reached
    <3>2. CASE p > L
      <4>1. PICK i \in DOMAIN read_jobs :
            /\ TickedMsg(read_jobs[i], toReceiver'[p])
            /\ read_jobs[i].num >= N \/
                \E q \in DOMAIN toReceiver' : q > Len(toReceiver) /\ q < p
                    /\ toReceiver'[q].kind = "error" /\ toReceiver'[q].id = read_jobs[i].id
        BY <3>2, <2>8 DEF Ticking, Tick
      <4>2. JobIs(read_jobs[i].id) /\ toReceiver'[p].id = read_jobs[i].id
        BY <4>1, <2>8 DEF TickedMsg
      <4>3. CASE read_jobs[i].num >= N
        <5>1. Clear(read_jobs[i].num) \/ ErrorBefore(L + 1)
          BY <4>2, <2>8, <1>0 DEF Reached
        <5>2. ErrorBefore(L + 1) => ErrorBefore(p)'
          BY <3>2, <2>4, <1>5
        <5>3. Clear(read_jobs[i].num) => Clear(N)
          <6>1. read_jobs[i].num \in Nat
            BY TypeFacts
          <6> QED BY <6>1, <4>3, FilesAre DEF Clear
        <5> QED BY <5>1, <5>2, <5>3, <2>2
      <4>4. CASE \E q \in DOMAIN toReceiver' : q > Len(toReceiver) /\ q < p
                    /\ toReceiver'[q].kind = "error" /\ toReceiver'[q].id = read_jobs[i].id
        BY <4>2, <4>4, <1>2 DEF ErrorBefore
      <4> QED BY <4>1, <4>3, <4>4
    <3> QED BY <3>1, <3>2, <1>5
  <2> QED BY <2>6, <2>7, <2>8, <1>1, <1>2 DEF Reached
<1> QED BY <1>10, <1>11, <1>12, <1>13, <1>14, <1>15, <1>16, <1>17 DEF Writer

-----------------------------------------------------------------------------
(***************************************************************************)
(* Blocks: the shape Wrote.                                                *)
(***************************************************************************)

\* modify_time on the writer's file, as far as other files than that of the
\* block at the head are concerned.
Shelved ==
    \A f \in Files :
        /\ disk'.final[f] = IF f = write_job.num /\ disk.download[f] # None
                            THEN disk.download[f] ELSE disk.final[f]
        /\ f # toReceiver[1].num =>
            IF f = write_job.num THEN disk'.download[f] = None /\ disk'.digest[f] = None
            ELSE disk'.download[f] = disk.download[f] /\ disk'.digest[f] = disk.digest[f]

\* The same when the renaming fails: the file is suspect.
LeftOver ==
    /\ write_job.num \in suspect'
    /\ \A f \in Files :
        /\ disk'.final[f] = disk.final[f]
        /\ f # toReceiver[1].num =>
            /\ disk'.download[f] = disk.download[f]
            /\ disk'.digest[f] = IF f = write_job.num THEN None ELSE disk.digest[f]

\* The writer stays at its file.
Stays == write_job'.num = write_job.num /\ write_job'.stream = write_job.stream

\* The block is added to the open file.
Appended ==
    LET m == toReceiver[1] IN
    /\ Stays /\ suspect' = suspect
    /\ m.num = write_job.num /\ write_job.stream = m.num
    /\ disk.download[m.num] # None /\ disk.digest[m.num] = src[m.num]
    /\ \A f \in Files :
        /\ disk'.final[f] = disk.final[f] /\ disk'.digest[f] = disk.digest[f]
        /\ disk'.download[f] = IF f = m.num THEN WriteAll(disk.download[f], m) ELSE disk.download[f]

\* The file of the block is created.
Begun(c) ==
    LET m == toReceiver[1] IN
    /\ Moves(write_job, m) /\ (Shelved \/ LeftOver)
    /\ write_job'.num = m.num /\ write_job'.stream = m.num
    /\ disk'.download[m.num] = c /\ disk'.digest[m.num] = src[m.num]

\* Something went wrong with the file of the block, or had before.
Lost ==
    LET m == toReceiver[1] IN
    /\ m.num \in suspect'
    /\ write_job.stream # None => write_job.stream \in suspect'
    /\ \/ /\ Stays /\ ~Moves(write_job, m)
          /\ \A f \in Files :
                /\ disk'.download[f] = disk.download[f] /\ disk'.digest[f] = disk.digest[f]
                /\ \/ disk'.final[f] = disk.final[f]
                   \/ f = write_job.stream /\ disk'.final[f] # None
       \/ /\ Moves(write_job, m) /\ Shelved
          /\ \/ Stays /\ write_job.stream # None
             \/ write_job'.num = m.num /\ write_job'.stream = write_job.stream
          /\ disk'.download[m.num] = IF m.num = write_job.num THEN None ELSE disk.download[m.num]
          /\ disk'.digest[m.num] \in {None, disk.digest[m.num]}
       \/ Begun(FC!Empty)

\* The response at the head is a block of the writer's job.
AtBlock ==
    LET m == toReceiver[1] IN
    /\ m \in Response /\ m.kind = "block" /\ JobIs(m.id)
    /\ m.num \in Files /\ m.num \in Nat /\ m.num < N
    /\ m.idx \in Nat /\ m.ver \in Nat /\ m.ver = src[m.num]
    /\ write_job \in TransferJob /\ write_job # None /\ write_job.listed
    /\ ~write_job.last /\ connected

\* A step of write, whether it fails or not.
Wrote ==
    /\ AtBlock
    /\ TakenR
    /\ UNCHANGED <<connected, read_jobs, ask, toSender, src, saved, jobs, skips, failed, done>>
    /\ disk' \in DiskType
    /\ suspect \subseteq suspect' /\ suspect' \subseteq Files
    /\ faults' \in 0 .. MaxFaults
    /\ write_job' \in TransferJob /\ write_job' # None
    /\ write_job'.id = write_job.id /\ ~write_job'.last /\ write_job'.listed
    /\ write_job'.resume = write_job.resume /\ write_job'.digest = write_job.digest
    /\ \/ Appended
       \/ Begun(WriteAll(FC!Empty, toReceiver[1]))
       \/ Lost

\* What is known of the block at the head.
LEMMA BlockAtHead ==
    ASSUME TypeOK, Protocol, Writer, toReceiver # <<>>, Head(toReceiver).kind = "block",
           ForJob(Head(toReceiver)), write_job.listed
    PROVE  /\ Head(toReceiver) = toReceiver[1] /\ 1 \in DOMAIN toReceiver /\ BlockAt(1)
           /\ AtBlock
           /\ write_job.digest = src[toReceiver[1].num] /\ toReceiver[1].num >= write_job.num
           /\ toReceiver[1].num \notin skips /\ write_job.num \in Files
           /\ write_job.stream # None => Open(write_job.stream) /\ write_job.stream \in Files
<1> DEFINE m == toReceiver[1]
<1>0. /\ Agreed /\ Progress /\ Behind /\ Stream /\ Parts /\ InOrder /\ Top /\ Reached
      /\ Ids /\ Fresh /\ Question /\ OneQuestion /\ Wire /\ Ended
  BY DEF Writer, Protocol
<1>1. Head(toReceiver) = m /\ 1 \in DOMAIN toReceiver /\ m \in Response
  <2>1. toReceiver \in Seq(Response)
    BY DEF TypeOK
  <2> QED BY <2>1, TailAt
<1>2. m.kind = "block" /\ JobIs(m.id) /\ write_job # None /\ BlockAt(1)
  BY <1>1 DEF ForJob, JobIs, BlockAt
<1>3. m.num \in Nat /\ m.ver \in Nat /\ m.idx \in Nat
  BY <1>1, <1>2, ResponseFields
<1>4. m.num < N /\ m.ver = src[m.num] /\ m.num \in Files
  BY <1>0, <1>1, <1>2, <1>3, FilesAre DEF Wire
<1>5. write_job \in TransferJob /\ connected /\ write_job.num \in Nat
  BY <1>0, <1>2, TypeFacts DEF Ids
<1>6. ~write_job.last
  BY <1>0, <1>1, <1>2 DEF Fresh, JobIs
<1>7. write_job.digest = src[m.num] /\ m.num \notin skips
  BY <1>0, <1>1, <1>2 DEF Agreed
<1>8. m.num >= write_job.num
  BY <1>0, <1>1, <1>2 DEF Progress
<1>9. write_job.num \in Files
  BY <1>3, <1>4, <1>5, <1>8, FilesAre
<1>10. ASSUME write_job.stream # None PROVE Open(write_job.stream) /\ write_job.stream \in Files
  <2>1. Open(write_job.stream) /\ write_job.stream \in Nat
    BY <1>0, <1>2, <1>10, TypeFacts DEF Stream
  <2> QED BY <2>1, FilesAre DEF Open
<1>11. AtBlock
  BY <1>1, <1>2, <1>3, <1>4, <1>5, <1>6 DEF AtBlock
<1> QED BY <1>1, <1>2, <1>7, <1>8, <1>9, <1>10, <1>11

\* modify_time when the renaming fails.
LEMMA NotRenamedIs ==
    ASSUME NEW d \in DiskType, NEW j \in TransferJob, NEW e, e = NotRenamed(d, j)
    PROVE  /\ e \in DiskType /\ e.final = d.final /\ e.download = d.download
           /\ \A f \in Files :
                e.digest[f] = IF j.listed /\ f = j.num THEN None ELSE d.digest[f]
<1>1. j.num \in Nat /\ N \in Nat /\ j.listed \in BOOLEAN
  BY FilesAre DEF TransferJob
<1>2. CASE ~j.listed \/ j.num >= N
  <2>1. e = d
    BY <1>2 DEF NotRenamed
  <2>2. \A f \in Files : ~(j.listed /\ f = j.num)
    BY <1>1, <1>2, FilesAre
  <2> QED BY <2>1, <2>2
<1>3. CASE j.listed /\ ~(j.num >= N)
  <2>1. j.num \in Files
    BY <1>1, <1>3, FilesAre
  <2>2. e = [d EXCEPT !.digest[j.num] = None]
    BY <1>3 DEF NotRenamed
  <2>3. e \in DiskType
    BY <2>1, <2>2 DEF DiskType
  <2>4. /\ e.final = d.final /\ e.download = d.download
        /\ e.digest = [d.digest EXCEPT ![j.num] = None]
    BY <2>2 DEF DiskType
  <2> QED BY <2>1, <2>3, <2>4, <1>3 DEF DiskType
<1> QED BY <1>2, <1>3

\* The directory after modify_time.
LEMMA ShelvedIs ==
    ASSUME TypeOK, AtBlock, write_job.num \in Files,
           NEW e, e = ModifyTime(disk, write_job)
    PROVE  /\ e \in DiskType
           /\ \A f \in Files :
                /\ e.final[f] = IF f = write_job.num /\ disk.download[f] # None
                                THEN disk.download[f] ELSE disk.final[f]
                /\ IF f = write_job.num THEN e.download[f] = None /\ e.digest[f] = None
                   ELSE e.download[f] = disk.download[f] /\ e.digest[f] = disk.digest[f]
<1>1. disk \in DiskType /\ write_job \in TransferJob /\ write_job.listed
  BY TypeFacts DEF AtBlock
<1>2. Renamed(disk, write_job, e)
  BY <1>1, ModifyTimeIs
<1> QED BY <1>1, <1>2 DEF Renamed

\* The directory after the file of the block was created as well, holding c.
LEMMA BegunIs ==
    ASSUME TypeOK, AtBlock, write_job.num \in Files,
           NEW d \in DiskType,
           \/ d = ModifyTime(disk, write_job)
           \/ d = NotRenamed(disk, write_job) /\ write_job.num \in suspect',
           NEW c \in FC!Content, write_job.digest = src[toReceiver[1].num],
           disk' = WithDigest(WithDownload(d, toReceiver[1].num, c), toReceiver[1].num,
                           write_job.digest)
    PROVE  /\ disk' \in DiskType /\ (Shelved \/ LeftOver)
           /\ disk'.download[toReceiver[1].num] = c
           /\ disk'.digest[toReceiver[1].num] = src[toReceiver[1].num]
<1> DEFINE g == toReceiver[1].num
           e == WithDownload(d, g, c)
<1>1. g \in Files /\ c \in ContentOrNone /\ src[g] \in Nat \cup {None}
  BY TypeFacts DEF AtBlock, ContentOrNone
<1>2. /\ e \in DiskType /\ e.final = d.final /\ e.digest = d.digest
      /\ e.download = [d.download EXCEPT ![g] = c]
  BY <1>1, PutDownload
<1>3. disk' = WithDigest(e, g, src[g])
  OBVIOUS
<1> HIDE DEF e
<1>4. /\ disk' \in DiskType /\ disk'.download = e.download /\ disk'.final = e.final
      /\ disk'.digest = [e.digest EXCEPT ![g] = src[g]]
  <2>1. e \in DiskType /\ g \in Files /\ src[g] \in Digest
    BY <1>1, <1>2 DEF Digest
  <2> HIDE DEF g
  <2>2. /\ WithDigest(e, g, src[g]) \in DiskType
        /\ WithDigest(e, g, src[g]).download = e.download
        /\ WithDigest(e, g, src[g]).final = e.final
        /\ WithDigest(e, g, src[g]).digest = [e.digest EXCEPT ![g] = src[g]]
    BY <2>1, PutDigest
  <2> QED BY <2>2, <1>3
<1>5. d = ModifyTime(disk, write_job) => \A f \in Files :
        /\ d.final[f] = IF f = write_job.num /\ disk.download[f] # None
                        THEN disk.download[f] ELSE disk.final[f]
        /\ IF f = write_job.num THEN d.download[f] = None /\ d.digest[f] = None
           ELSE d.download[f] = disk.download[f] /\ d.digest[f] = disk.digest[f]
  BY ShelvedIs
<1>n. d = NotRenamed(disk, write_job) => \A f \in Files :
        /\ d.final[f] = disk.final[f] /\ d.download[f] = disk.download[f]
        /\ d.digest[f] = IF f = write_job.num THEN None ELSE disk.digest[f]
  <2>1. disk \in DiskType /\ write_job \in TransferJob /\ write_job.listed
    BY TypeFacts DEF AtBlock
  <2> QED BY <2>1, NotRenamedIs
<1>6. /\ d.download \in [Files -> ContentOrNone] /\ d.digest \in [Files -> Nat \cup {None}]
  BY DEF DiskType
<1>7. /\ \A f \in Files : disk'.final[f] = d.final[f]
      /\ \A f \in Files : f # g => disk'.download[f] = d.download[f]
                      /\ disk'.digest[f] = d.digest[f]
      /\ disk'.download[g] = c /\ disk'.digest[g] = src[g]
  BY <1>1, <1>2, <1>4, <1>6
<1>8. CASE d = ModifyTime(disk, write_job)
  BY <1>4, <1>5, <1>7, <1>8 DEF Shelved
<1>9. CASE d = NotRenamed(disk, write_job) /\ write_job.num \in suspect'
  BY <1>4, <1>n, <1>7, <1>9 DEF LeftOver
<1> QED BY <1>8, <1>9

\* The last of two changes of f.download counts.
LEMMA PutTwice ==
    ASSUME NEW d \in DiskType, NEW f \in Files, NEW a \in ContentOrNone, NEW b \in ContentOrNone,
           NEW v \in Nat \cup {None}
    PROVE  WithDownload(WithDigest(WithDownload(d, f, a), f, v), f, b)
                = WithDigest(WithDownload(d, f, b), f, v)
BY DEF DiskType, WithDigest, WithDownload

\* write.
LEMMA WriteStep ==
    ASSUME TypeOK, Protocol, Writer, HandleBlock
    PROVE  Wrote
<1> DEFINE m == toReceiver[1]
           g == m.num
           w == write_job
<1>1. /\ Head(toReceiver) = m /\ 1 \in DOMAIN toReceiver /\ BlockAt(1) /\ AtBlock
      /\ w.digest = src[g] /\ g >= w.num /\ g \notin skips /\ w.num \in Files
      /\ w.stream # None => Open(w.stream) /\ w.stream \in Files
  <2>1. toReceiver # <<>> /\ Head(toReceiver).kind = "block" /\ ForJob(Head(toReceiver))
                  /\ write_job.listed
    BY DEF HandleBlock
  <2> QED BY <2>1, BlockAtHead
<1>2. PICK d :
      /\ toReceiver # <<>> /\ toReceiver' = Tail(toReceiver)
      /\ UNCHANGED <<connected, read_jobs, ask, toSender, src, saved, jobs, skips, failed, done>>
      /\ \/ d = ModifyTime(disk, w) /\ UNCHANGED <<faults, suspect>>
         \/ d = NotRenamed(disk, w) /\ Moves(w, m) /\ RenameFails(w)
      /\ write_job' = Prepared(w, m, d).job
      /\ disk' = Written(Prepared(w, m, d).disk, Prepared(w, m, d).job, m)
  BY <1>1 DEF HandleBlock, Write
<1>3. TakenR
  BY <1>2, TakenRIs
<1>4. /\ m.idx \in Nat /\ m.ver \in Nat /\ g \in Files /\ g \in Nat /\ w \in TransferJob /\ w # None
      /\ w.listed /\ ~w.last
  BY <1>1 DEF AtBlock
<1>d. disk \in DiskType /\ faults \in 0 .. MaxFaults /\ suspect \subseteq Files
        /\ \A f \in Files : disk.download[f] \in ContentOrNone /\ disk.final[f] \in ContentOrNone
  BY TypeFacts DEF TypeOK
<1>5. /\ disk \in DiskType /\ faults' \in 0 .. MaxFaults
      /\ suspect \subseteq suspect' /\ suspect' \subseteq Files
      /\ \A f \in Files : disk.download[f] \in ContentOrNone /\ disk.final[f] \in ContentOrNone
      /\ d = ModifyTime(disk, w) \/ (d = NotRenamed(disk, w) /\ w.num \in suspect')
  BY <1>d, <1>1, <1>2, BoundsAssumption DEF RenameFails
<1>6. CASE ~Moves(w, m)
  <2>1. g = w.num /\ w.stream # None /\ w.stream \in Files /\ Open(w.stream)
    BY <1>1, <1>6 DEF Moves
  <2>2. write_job' = w /\ disk' = Written(disk, w, m) /\ suspect' = suspect
    BY <1>2, <1>6 DEF Prepared
  <2>3. CASE w.stream = w.num
    <3> DEFINE c == WriteAll(disk.download[g], m)
    <3>1. disk.download[g] # None /\ disk.digest[g] = src[g]
      BY <2>1, <2>3, <1>1, <1>4 DEF Open, BlockAt
    <3>2. disk.download[g] \in FC!Content
      BY <3>1, <1>4, <1>5, ContentIs
    <3>3. c \in FC!Content /\ c \in ContentOrNone
      BY <3>2, <1>4, WriteAllIs DEF ContentOrNone
    <3>4. disk' = WithDownload(disk, g, c)
      BY <2>1, <2>2, <2>3 DEF Written, WithDownload
    <3> HIDE DEF c
    <3>5. /\ disk' \in DiskType /\ disk'.final = disk.final /\ disk'.digest = disk.digest
          /\ disk'.download = [disk.download EXCEPT ![g] = c]
      <4>1. /\ WithDownload(disk, g, c) \in DiskType
            /\ WithDownload(disk, g, c).final = disk.final
            /\ WithDownload(disk, g, c).digest = disk.digest
            /\ WithDownload(disk, g, c).download = [disk.download EXCEPT ![g] = c]
        BY <3>3, <1>4, <1>5, PutDownload
      <4> QED BY <4>1, <3>4
    <3>6. \A f \in Files : disk'.download[f] = IF f = g THEN c ELSE disk.download[f]
      BY <3>5, <1>4, <1>5 DEF DiskType
    <3>7. Appended
      BY <3>1, <3>5, <3>6, <2>1, <2>2, <2>3, <1>2 DEF Appended, Stays, c
    <3> QED BY <3>5, <3>7, <2>2, <1>1, <1>2, <1>3, <1>4, <1>5 DEF Wrote
  <2>4. CASE w.stream # w.num
    <3> DEFINE s == w.stream
               c == WriteAll(disk.final[s], m)
    <3>1. disk.final[s] # None /\ {s, w.num} \subseteq suspect
      BY <2>1, <2>4 DEF Open
    <3>2. disk.final[s] \in FC!Content
      BY <3>1, <2>1, <1>5, ContentIs
    <3>3. c \in FC!Content /\ c \in ContentOrNone /\ c # None
      BY <3>2, <1>4, WriteAllIs DEF ContentOrNone
    <3>4. disk' = WithFinal(disk, s, c)
      BY <2>1, <2>2, <2>4 DEF Written, WithFinal
    <3> HIDE DEF c
    <3>5. /\ disk' \in DiskType /\ disk'.download = disk.download /\ disk'.digest = disk.digest
          /\ disk'.final = [disk.final EXCEPT ![s] = c]
      <4>1. /\ WithFinal(disk, s, c) \in DiskType
            /\ WithFinal(disk, s, c).download = disk.download
            /\ WithFinal(disk, s, c).digest = disk.digest
            /\ WithFinal(disk, s, c).final = [disk.final EXCEPT ![s] = c]
        BY <3>3, <2>1, <1>5, PutFinal
      <4> QED BY <4>1, <3>4
    <3>6. \A f \in Files : disk'.final[f] = IF f = s THEN c ELSE disk.final[f]
      BY <3>5, <2>1, <1>5 DEF DiskType
    <3>7. Lost
      BY <3>1, <3>3, <3>5, <3>6, <2>1, <2>2, <1>2, <1>6 DEF Lost, Stays
    <3> QED BY <3>5, <3>7, <2>2, <1>1, <1>2, <1>3, <1>4, <1>5 DEF Wrote
  <2> QED BY <2>3, <2>4
<1>7. CASE Moves(w, m)
  <2> DEFINE c == WriteAll(FC!Empty, m)
             k == [w EXCEPT !.num = g, !.stream = g]
  <2>1. d \in DiskType
    BY <1>1, <1>4, <1>5, ShelvedIs, NotRenamedIs
  <2>2. FC!Empty \in FC!Content /\ FC!Empty \in ContentOrNone
    BY ContentIs DEF ContentOrNone
  <2>3. c \in FC!Content /\ c \in ContentOrNone
    BY <2>2, <1>4, WriteAllIs DEF ContentOrNone
  <2>4. write_job' = k /\ disk' = Written([d EXCEPT !.download[g] = FC!Empty,
                  !.digest[g] = w.digest], k, m)
    BY <1>2, <1>7 DEF Prepared
  <2>5. /\ k \in TransferJob /\ k # None /\ k.id = w.id /\ k.last = w.last /\ k.listed = w.listed
        /\ k.resume = w.resume /\ k.digest = w.digest /\ k.num = g /\ k.stream = g
    <3>1. /\ k \in TransferJob /\ k.id = w.id /\ k.last = w.last /\ k.listed = w.listed
          /\ k.resume = w.resume /\ k.digest = w.digest /\ k.num = g /\ k.stream = g
      BY <1>4 DEF TransferJob
    <3> HIDE DEF k
    <3> QED BY <3>1, NoneAssumption
  <2> DEFINE e == WithDigest(WithDownload(d, g, FC!Empty), g, w.digest)
  <2>6. [d EXCEPT !.download[g] = FC!Empty, !.digest[g] = w.digest] = e
    BY <2>1 DEF DiskType, WithDigest, WithDownload
  <2> HIDE DEF k
  <2>7. disk' = WithDownload(e, g, WriteAll(e.download[g], m))
    <3> HIDE DEF e
    <3>1. disk' = Written(e, k, m)
      BY <2>4, <2>6
    <3> QED BY <3>1, <2>5 DEF Written, WithDownload
  <2>8. e.download[g] = FC!Empty /\ w.digest \in Nat \cup {None}
    <3> DEFINE y == WithDownload(d, g, FC!Empty)
    <3>1. y \in DiskType /\ y.download = [d.download EXCEPT ![g] = FC!Empty]
      BY <2>1, <2>2, <1>4, PutDownload
    <3>2. w.digest \in Nat \cup {None}
      BY <1>4 DEF TransferJob
    <3> HIDE DEF y
    <3>g. g \in Files /\ w.digest \in Digest
      BY <3>2, <1>4 DEF Digest
    <3>3. WithDigest(y, g, w.digest).download = y.download
      BY <3>1, <3>g, PutDigest
    <3>4. d.download \in [Files -> ContentOrNone]
      BY <2>1 DEF DiskType
    <3> QED BY <3>1, <3>2, <3>3, <3>4, <1>4 DEF y
  <2>9. disk' = WithDigest(WithDownload(d, g, c), g, w.digest)
    <3>1. disk' = WithDownload(e, g, c)
      <4> HIDE DEF e
      <4> QED BY <2>7, <2>8
    <3> HIDE DEF c
    <3> QED BY <3>1, <2>1, <2>2, <2>3, <2>8, <1>4, PutTwice
  <2> HIDE DEF c
  <2>10. /\ disk' \in DiskType /\ (Shelved \/ LeftOver)
         /\ disk'.download[g] = c /\ disk'.digest[g] = src[g]
    BY <2>1, <2>3, <2>9, <1>1, <1>5, BegunIs
  <2>11. Begun(c)
    BY <2>4, <2>5, <2>10, <1>7 DEF Begun
  <2> QED BY <2>4, <2>5, <2>10, <2>11, <1>1, <1>2, <1>3, <1>4, <1>5 DEF Wrote, c
<1> QED BY <1>6, <1>7

\* What modify_time and at most the removal of the digest leave.
LEMMA ShelvedBy ==
    ASSUME TypeOK, AtBlock, write_job.num \in Files,
           NEW d \in DiskType, d = ModifyTime(disk, write_job),
           disk' = d \/ disk' = WithDigest(d, toReceiver[1].num, None)
    PROVE  /\ disk' \in DiskType /\ Shelved
           /\ disk'.download[toReceiver[1].num] =
                IF toReceiver[1].num = write_job.num THEN None ELSE disk.download[toReceiver[1].num]
           /\ disk'.digest[toReceiver[1].num] \in {None, disk.digest[toReceiver[1].num]}
<1> DEFINE g == toReceiver[1].num
<1>1. g \in Files
  BY DEF AtBlock
<1>2. /\ d \in DiskType
      /\ \A f \in Files :
        /\ d.final[f] = IF f = write_job.num /\ disk.download[f] # None
                        THEN disk.download[f] ELSE disk.final[f]
        /\ IF f = write_job.num THEN d.download[f] = None /\ d.digest[f] = None
           ELSE d.download[f] = disk.download[f] /\ d.digest[f] = disk.digest[f]
  BY ShelvedIs
<1>3. CASE disk' = d
  BY <1>1, <1>2, <1>3 DEF Shelved
<1>4. CASE disk' = WithDigest(d, g, None)
  <2>1. /\ disk' \in DiskType /\ disk'.download = d.download /\ disk'.final = d.final
        /\ disk'.digest = [d.digest EXCEPT ![g] = None]
    <3>1. PICK v \in Digest : v = None
      BY DEF Digest
    <3>2. PICK h \in Files : h = g
      BY <1>1
    <3>3. /\ WithDigest(d, h, v) \in DiskType
          /\ WithDigest(d, h, v).download = d.download
          /\ WithDigest(d, h, v).final = d.final
          /\ WithDigest(d, h, v).digest = [d.digest EXCEPT ![h] = v]
      BY PutDigest
    <3> QED BY <3>1, <3>2, <3>3, <1>4
  <2>2. d.digest \in [Files -> Nat \cup {None}]
    BY <1>2 DEF DiskType
  <2>3. /\ disk'.digest[g] = None
        /\ \A f \in Files : f # g => disk'.digest[f] = d.digest[f]
    BY <2>1, <2>2, <1>1
  <2> QED BY <2>1, <2>3, <1>1, <1>2 DEF Shelved
<1> QED BY <1>3, <1>4

\* write that fails.
LEMMA WriteFailsStep ==
    ASSUME TypeOK, Protocol, Writer, HandleBlockFails
    PROVE  Wrote
<1> DEFINE m == toReceiver[1]
           g == m.num
           w == write_job
           d == ModifyTime(disk, w)
<1>1. /\ Head(toReceiver) = m /\ 1 \in DOMAIN toReceiver /\ BlockAt(1) /\ AtBlock
      /\ w.digest = src[g] /\ g >= w.num /\ g \notin skips /\ w.num \in Files
      /\ w.stream # None => Open(w.stream) /\ w.stream \in Files
  <2>1. toReceiver # <<>> /\ Head(toReceiver).kind = "block" /\ ForJob(Head(toReceiver))
                  /\ write_job.listed
    BY DEF HandleBlockFails
  <2> QED BY <2>1, BlockAtHead
<1>2. /\ toReceiver # <<>> /\ toReceiver' = Tail(toReceiver) /\ faults < MaxFaults
                /\ faults' = faults + 1
      /\ UNCHANGED <<connected, read_jobs, ask, toSender, src, saved, jobs, skips, failed, done>>
      /\ suspect' = suspect \cup {g} \cup IF w.stream = None THEN {} ELSE {w.stream}
      /\ \/ Moves(w, m) /\ w.stream # None /\ disk' = d /\ write_job' = w
         \/ Moves(w, m) /\ disk' = d /\ write_job' = [w EXCEPT !.num = g]
         \/ Moves(w, m) /\ disk' = [d EXCEPT !.digest[g] = None]
                         /\ write_job' = [w EXCEPT !.num = g]
         \/ disk' = Prepared(w, m, d).disk /\ write_job' = Prepared(w, m, d).job
  BY <1>1 DEF HandleBlockFails
<1>3. TakenR
  BY <1>2, TakenRIs
<1>4. /\ g \in Files /\ g \in Nat /\ w \in TransferJob /\ w # None /\ w.listed /\ ~w.last
  BY <1>1 DEF AtBlock
<1>5. disk \in DiskType /\ faults' \in 0 .. MaxFaults
        /\ suspect \subseteq suspect' /\ suspect' \subseteq Files
        /\ g \in suspect' /\ (w.stream # None => w.stream \in suspect')
  <2>1. disk \in DiskType /\ faults \in 0 .. MaxFaults /\ suspect \subseteq Files
    BY TypeFacts DEF TypeOK
  <2>2. faults' \in 0 .. MaxFaults
    BY <2>1, <1>2, BoundsAssumption
  <2>3. CASE w.stream = None
    <3>1. suspect' = suspect \cup {g}
      BY <1>2, <2>3
    <3> QED BY <3>1, <2>1, <2>2, <2>3, <1>4
  <2>4. CASE w.stream # None
    <3>1. suspect' = suspect \cup {g} \cup {w.stream} /\ w.stream \in Files
      BY <1>1, <1>2, <2>4
    <3> QED BY <3>1, <2>1, <2>2, <2>4, <1>4
  <2> QED BY <2>3, <2>4
<1>6. d \in DiskType
  BY <1>1, ShelvedIs
<1>7. CASE Moves(w, m) /\ w.stream # None /\ disk' = d /\ write_job' = w
  <2>1. /\ disk' \in DiskType /\ Shelved
        /\ disk'.download[g] = IF g = w.num THEN None ELSE disk.download[g]
        /\ disk'.digest[g] \in {None, disk.digest[g]}
    <3>1. PICK e \in DiskType : e = ModifyTime(disk, w) /\ disk' = e
      BY <1>6, <1>7
    <3> HIDE DEF d
    <3> QED BY <3>1, <1>1, ShelvedBy
  <2>2. Lost
    BY <2>1, <1>5, <1>7 DEF Lost, Stays
  <2> QED BY <2>1, <2>2, <1>1, <1>2, <1>3, <1>4, <1>5, <1>7 DEF Wrote
<1>8. CASE /\ Moves(w, m) /\ (disk' = d \/ disk' = [d EXCEPT !.digest[g] = None])
           /\ write_job' = [w EXCEPT !.num = g]
  <2>0. disk' = d \/ disk' = WithDigest(d, g, None)
    BY <1>8 DEF WithDigest
  <2>1. /\ disk' \in DiskType /\ Shelved
        /\ disk'.download[g] = IF g = w.num THEN None ELSE disk.download[g]
        /\ disk'.digest[g] \in {None, disk.digest[g]}
    <3>1. PICK e \in DiskType : e = ModifyTime(disk, w) /\ (disk' = e \/ disk' = WithDigest(e, g,
                    None))
      BY <2>0, <1>6
    <3> HIDE DEF d
    <3> QED BY <3>1, <1>1, ShelvedBy
  <2>2. /\ write_job' \in TransferJob /\ write_job'.id = w.id /\ write_job'.last = w.last
        /\ write_job'.listed = w.listed /\ write_job'.resume = w.resume
        /\ write_job'.digest = w.digest /\ write_job'.num = g /\ write_job'.stream = w.stream
    BY <1>4, <1>8 DEF TransferJob
  <2>3. write_job' # None
    BY <2>2, NoneAssumption
  <2> HIDE DEF d
  <2>4. Lost
    BY <2>1, <2>2, <1>5, <1>8 DEF Lost
  <2> QED BY <2>1, <2>2, <2>3, <2>4, <1>1, <1>2, <1>3, <1>4, <1>5 DEF Wrote
<1>9. CASE disk' = Prepared(w, m, d).disk /\ write_job' = Prepared(w, m, d).job /\ ~Moves(w, m)
  <2>1. disk' = disk /\ write_job' = w
    BY <1>9 DEF Prepared
  <2>2. Lost
    BY <2>1, <1>5, <1>9 DEF Lost, Stays
  <2> QED BY <2>1, <2>2, <1>1, <1>2, <1>3, <1>4, <1>5 DEF Wrote
<1>10. CASE disk' = Prepared(w, m, d).disk /\ write_job' = Prepared(w, m, d).job /\ Moves(w, m)
  <2>1. /\ disk' = [d EXCEPT !.download[g] = FC!Empty, !.digest[g] = w.digest]
        /\ write_job' = [w EXCEPT !.num = g, !.stream = g]
    BY <1>10 DEF Prepared
  <2>2. /\ write_job' \in TransferJob /\ write_job'.id = w.id /\ write_job'.last = w.last
        /\ write_job'.listed = w.listed /\ write_job'.resume = w.resume
        /\ write_job'.digest = w.digest /\ write_job'.num = g /\ write_job'.stream = g
    BY <2>1, <1>4 DEF TransferJob
  <2>3. write_job' # None
    BY <2>2, NoneAssumption
  <2>4. FC!Empty \in FC!Content
    BY ContentIs
  <2>5. disk' = WithDigest(WithDownload(d, g, FC!Empty), g, w.digest)
    <3> HIDE DEF d
    <3> QED BY <2>1, <1>6 DEF DiskType, WithDigest, WithDownload
  <2>6. /\ disk' \in DiskType /\ (Shelved \/ LeftOver)
        /\ disk'.download[g] = FC!Empty /\ disk'.digest[g] = src[g]
    <3>1. PICK e \in DiskType : e = ModifyTime(disk, w) /\ disk' = WithDigest(WithDownload(e, g,
                    FC!Empty), g, w.digest)
      BY <2>5, <1>6
    <3> HIDE DEF d
    <3> QED BY <3>1, <2>4, <1>1, BegunIs
  <2>7. Begun(FC!Empty)
    BY <2>2, <2>6, <1>10 DEF Begun
  <2>8. Lost
    BY <2>7, <1>5 DEF Lost
  <2> QED BY <2>2, <2>3, <2>6, <2>8, <1>1, <1>2, <1>3, <1>4, <1>5 DEF Wrote
<1> QED BY <1>2, <1>7, <1>8, <1>9, <1>10

-----------------------------------------------------------------------------
(***************************************************************************)
(* Blocks: Writer is kept.                                                 *)
(***************************************************************************)

\* What is under way when the block at the head is of file g: nothing but
\* blocks of g, and digests of files after it.
LEMMA WroteAmong ==
    ASSUME TypeOK, Protocol, Writer, Wrote, NEW g, g = toReceiver[1].num
    PROVE  /\ g \in Files /\ g \in Nat /\ g < N /\ write_job.num \in Nat /\ write_job.num \in Files
           /\ write_job # None /\ write_job' # None
           /\ 1 \in DOMAIN toReceiver /\ BlockAt(1)
           /\ write_job.digest = src[g] /\ g >= write_job.num /\ g \notin skips
           /\ write_job.stream # None => Open(write_job.stream) /\ write_job.stream \in Files
           /\ ask = None
           /\ \A q \in DOMAIN toSender : JobIs(toSender[q].id) => toSender[q].kind = "cancel"
           /\ \A i \in DOMAIN read_jobs : JobIs(read_jobs[i].id) =>
                /\ read_jobs[i].num \in Nat
                /\ read_jobs[i].confirmed => read_jobs[i].num = g /\ read_jobs[i].waiting
                /\ ~read_jobs[i].confirmed => read_jobs[i].num > g
           /\ \A p \in DOMAIN toReceiver : BlockAt(p) =>
                toReceiver[p].num = g /\ toReceiver[p].idx \in Nat /\ toReceiver[p].idx <= Blocks[g]
           /\ \A p \in DOMAIN toReceiver :
                toReceiver[p].kind = "digest" /\ JobIs(toReceiver[p].id) => toReceiver[p].num > g
           /\ \A id : JobIs(id)' <=> JobIs(id)
           /\ write_job'.num \in {write_job.num, g} /\ write_job'.num \in Nat
           /\ suspect \subseteq suspect'
<1>0. /\ Agreed /\ Progress /\ Behind /\ Stream /\ Ids /\ Fresh /\ Question /\ OneQuestion /\ Wire
  BY DEF Writer, Protocol
<1>1. /\ AtBlock /\ 1 \in DOMAIN toReceiver /\ write_job' # None /\ write_job'.id = write_job.id
      /\ suspect \subseteq suspect'
  BY DEF Wrote, TakenR
<1>2. /\ g \in Files /\ g \in Nat /\ g < N /\ write_job # None /\ JobIs(toReceiver[1].id)
      /\ toReceiver[1].kind = "block" /\ write_job.listed
  BY <1>1 DEF AtBlock
<1>3. Head(toReceiver) = toReceiver[1] /\ toReceiver # <<>>
  <2>1. toReceiver \in Seq(Response)
    BY DEF TypeOK
  <2>2. toReceiver # <<>>
    BY <1>1
  <2> QED BY <2>1, <2>2, TailAt
<1>4. /\ BlockAt(1) /\ write_job.digest = src[g] /\ g >= write_job.num /\ g \notin skips
      /\ write_job.num \in Files
      /\ write_job.stream # None => Open(write_job.stream) /\ write_job.stream \in Files
  <2>1. ForJob(Head(toReceiver)) /\ Head(toReceiver).kind = "block"
    BY <1>2, <1>3 DEF ForJob, JobIs
  <2> QED BY <2>1, <1>2, <1>3, BlockAtHead
<1>5. ask = None
  BY <1>0, <1>1, <1>2 DEF Wire
<1>6. ASSUME NEW q \in DOMAIN toSender, JobIs(toSender[q].id) PROVE toSender[q].kind = "cancel"
  <2>0. toSender[q].id = toReceiver[1].id
    BY <1>6, <1>2 DEF JobIs
  <2>1. toSender[q].kind # "confirm"
    BY <2>0, <1>0, <1>1, <1>2 DEF Wire
  <2>2. toSender[q].kind # "send"
    BY <2>0, <1>0, <1>1 DEF Fresh
  <2>3. toSender[q] \in FileAction
    BY TypeFacts
  <2> QED BY <2>1, <2>2, <2>3 DEF FileAction
<1>7. ASSUME NEW i \in DOMAIN read_jobs, JobIs(read_jobs[i].id)
      PROVE  /\ read_jobs[i].num \in Nat
             /\ read_jobs[i].confirmed => read_jobs[i].num = g /\ read_jobs[i].waiting
             /\ ~read_jobs[i].confirmed => read_jobs[i].num > g
  <2>1. read_jobs[i].id = toReceiver[1].id
    BY <1>7, <1>2 DEF JobIs
  <2>2. read_jobs[i].num \in Nat
    BY TypeFacts
  <2> QED BY <2>1, <2>2, <1>0, <1>1, <1>2 DEF Wire, Question
<1>8. ASSUME NEW p \in DOMAIN toReceiver, BlockAt(p)
      PROVE  toReceiver[p].num = g /\ toReceiver[p].idx \in Nat /\ toReceiver[p].idx <= Blocks[g]
  <2>1. toReceiver[p].id = toReceiver[1].id /\ toReceiver[p].kind = "block"
    BY <1>8, <1>2 DEF JobIs, BlockAt
  <2>2. toReceiver[p].num = g /\ toReceiver[p].idx <= Blocks[g]
    BY <2>1, <1>0, <1>1, <1>2 DEF Wire
  <2>3. toReceiver[p].idx \in Nat
    BY <2>1, TypeFacts, ResponseFields
  <2> QED BY <2>2, <2>3
<1>9. ASSUME NEW p \in DOMAIN toReceiver, toReceiver[p].kind = "digest", JobIs(toReceiver[p].id)
      PROVE  toReceiver[p].num > g
  <2>1. toReceiver[p].id = toReceiver[1].id
    BY <1>9, <1>2 DEF JobIs
  <2>2. g < toReceiver[p].num
    BY <2>1, <1>9, <1>0, <1>1, <1>2 DEF Wire
  <2>3. toReceiver[p].num \in Nat
    BY <1>9, TypeFacts, ResponseFields
  <2> QED BY <2>2, <2>3, <1>2
<1>10. \A id : JobIs(id)' <=> JobIs(id)
  BY <1>1, <1>2 DEF JobIs
<1>11. write_job.num \in Nat
  BY <1>2, TypeFacts
<1>12. write_job'.num \in {write_job.num, g}
  BY <1>2 DEF Wrote, Appended, Begun, Lost, Stays
<1> QED BY <1>1, <1>2, <1>4, <1>5, <1>6, <1>7, <1>8, <1>9, <1>10, <1>11, <1>12

\* A step of the three kinds, in the terms of file g.
LEMMA WroteKinds ==
    ASSUME TypeOK, Protocol, Writer, Wrote, NEW g, g = toReceiver[1].num
    PROVE  \/ Appended
           \/ Begun(WriteAll(FC!Empty, toReceiver[1]))
           \/ Lost /\ Stays /\ g = write_job.num /\ write_job.stream # None
                /\ \A f \in Files :
                    /\ disk'.download[f] = disk.download[f] /\ disk'.digest[f] = disk.digest[f]
                    /\ \/ disk'.final[f] = disk.final[f]
                       \/ f = write_job.stream /\ disk'.final[f] # None
           \/ Lost /\ Shelved /\ Stays /\ write_job.stream # None /\ g > write_job.num
           \/ Lost /\ Shelved /\ write_job'.num = g /\ write_job'.stream = write_job.stream
                /\ (write_job.stream # None => g > write_job.num)
                /\ (disk'.download[g] = IF g = write_job.num THEN None ELSE disk.download[g])
           \/ Lost /\ Begun(FC!Empty)
<1>1. g >= write_job.num /\ g \in Nat /\ write_job.num \in Nat
  BY WroteAmong
<1>2. Appended \/ Begun(WriteAll(FC!Empty, toReceiver[1])) \/ Lost
  BY DEF Wrote
<1>3. Moves(write_job, toReceiver[1]) /\ write_job.stream # None => g > write_job.num
  BY <1>1 DEF Moves
<1>4. ~Moves(write_job, toReceiver[1]) => g = write_job.num /\ write_job.stream # None
  BY DEF Moves
<1>5. ASSUME Lost
      PROVE  \/ /\ Stays /\ ~Moves(write_job, toReceiver[1])
                /\ \A f \in Files :
                    /\ disk'.download[f] = disk.download[f] /\ disk'.digest[f] = disk.digest[f]
                    /\ \/ disk'.final[f] = disk.final[f]
                       \/ f = write_job.stream /\ disk'.final[f] # None
             \/ /\ Moves(write_job, toReceiver[1]) /\ Shelved
                /\ \/ Stays /\ write_job.stream # None
                   \/ write_job'.num = toReceiver[1].num /\ write_job'.stream = write_job.stream
                /\ (disk'.download[toReceiver[1].num] =
                        IF toReceiver[1].num = write_job.num THEN None ELSE disk.download[toReceiver[1].num])
             \/ Begun(FC!Empty)
  BY <1>5 DEF Lost
<1> QED BY <1>2, <1>3, <1>4, <1>5

\* Stream and Parts, when a block is written.
LEMMA WroteStream ==
    ASSUME TypeOK, Protocol, Writer, Wrote
    PROVE  Stream' /\ Parts'
<1>g. PICK g : g = toReceiver[1].num
  OBVIOUS
<1>0. Stream /\ Parts
  BY DEF Writer
<1>1. /\ g \in Files /\ g \in Nat /\ g < N /\ write_job.num \in Nat /\ write_job.num \in Files
      /\ write_job # None /\ write_job' # None
      /\ g >= write_job.num /\ g \notin skips
      /\ write_job.stream # None => Open(write_job.stream) /\ write_job.stream \in Files
      /\ ask = None
      /\ suspect \subseteq suspect'
  BY <1>g, WroteAmong
<1>2. /\ \A q \in DOMAIN toSender : JobIs(toSender[q].id) => toSender[q].kind = "cancel"
      /\ \A i \in DOMAIN read_jobs : JobIs(read_jobs[i].id) =>
                /\ read_jobs[i].num \in Nat
                /\ read_jobs[i].confirmed => read_jobs[i].num = g /\ read_jobs[i].waiting
                /\ ~read_jobs[i].confirmed => read_jobs[i].num > g
      /\ \A p \in DOMAIN toReceiver : BlockAt(p) => toReceiver[p].num = g
      /\ \A p \in DOMAIN toReceiver :
           toReceiver[p].kind = "digest" /\ JobIs(toReceiver[p].id) => toReceiver[p].num > g
      /\ \A id : JobIs(id)' <=> JobIs(id)
  BY <1>g, WroteAmong
<1>3. /\ UNCHANGED <<connected, read_jobs, ask, toSender, src, skips>>
      /\ write_job'.listed /\ ~write_job'.last /\ ~write_job.last
  BY DEF Wrote, AtBlock
<1>4. \A p \in DOMAIN toReceiver' : \E k \in DOMAIN toReceiver : toReceiver'[p] = toReceiver[k]
  BY DEF Wrote, TakenR
<1>5. \/ Appended
      \/ Begun(WriteAll(FC!Empty, toReceiver[1]))
      \/ Lost /\ Stays /\ g = write_job.num /\ write_job.stream # None
           /\ \A f \in Files :
               /\ disk'.download[f] = disk.download[f] /\ disk'.digest[f] = disk.digest[f]
               /\ \/ disk'.final[f] = disk.final[f]
                  \/ f = write_job.stream /\ disk'.final[f] # None
      \/ Lost /\ Shelved /\ Stays /\ write_job.stream # None /\ g > write_job.num
      \/ Lost /\ Shelved /\ write_job'.num = g /\ write_job'.stream = write_job.stream
           /\ (write_job.stream # None => g > write_job.num)
           /\ (disk'.download[g] = IF g = write_job.num THEN None ELSE disk.download[g])
      \/ Lost /\ Begun(FC!Empty)
  BY <1>g, WroteKinds
<1>6. /\ WriteAll(FC!Empty, toReceiver[1]) # None /\ FC!Empty # None
      /\ \A f \in Files : disk.download[f] # None => WriteAll(disk.download[f],
                      toReceiver[1]) # None
  <2>1. toReceiver[1].idx \in Nat /\ toReceiver[1].ver \in Nat
    BY DEF Wrote, AtBlock
  <2>2. \A f \in Files : disk.download[f] # None => disk.download[f] \in FC!Content
    BY TypeFacts, ContentIs DEF DiskType
  <2>3. FC!Empty \in FC!Content /\ FC!Empty # None
    BY ContentIs
  <2> QED BY <2>1, <2>2, <2>3, WriteAllIs
<1>7. write_job.stream # None => write_job.stream \in Nat /\ write_job.stream <= write_job.num
  BY <1>1, FilesAre DEF Open
<1>l. Lost => g \in suspect' /\ (write_job.stream # None => write_job.stream \in suspect')
  BY <1>g DEF Lost
\* The writer is at the file of the block, which is there.
<1>a. ASSUME write_job'.num = g, disk'.download[g] # None, disk'.digest[g] = src[g]
      PROVE  Open(g)'
  BY <1>a, <1>1, <1>2, <1>3, <1>4 DEF Open
\* The file the writer has open is under its name.
<1>b. ASSUME NEW s, s = write_job.stream, s # None, Shelved, s # g PROVE disk'.final[s] # None
  <2>1. s \in Files /\ Open(s)
    BY <1>b, <1>1
  <2>2. disk'.final[s] = IF s = write_job.num /\ disk.download[s] # None
                         THEN disk.download[s] ELSE disk.final[s]
    BY <2>1, <1>b DEF Shelved
  <2> QED BY <2>1, <2>2 DEF Open
<1>8. Stream'
  <2> SUFFICES ASSUME write_job'.stream # None, NEW s, s = write_job'.stream PROVE Open(s)'
    BY DEF Stream, Open
  <2>1. CASE Appended
    <3>1. /\ write_job'.num = g /\ s = g /\ disk'.download[g] = WriteAll(disk.download[g],
                    toReceiver[1])
          /\ disk.download[g] # None /\ disk'.digest[g] = src[g]
      BY <2>1, <1>1, <1>g DEF Appended, Stays
    <3> QED BY <3>1, <1>1, <1>6, <1>a
  <2>2. CASE Begun(WriteAll(FC!Empty, toReceiver[1]))
    <3>1. /\ write_job'.num = g /\ s = g /\ disk'.download[g] = WriteAll(FC!Empty, toReceiver[1])
          /\ disk'.digest[g] = src[g]
      BY <2>2, <1>g DEF Begun
    <3> QED BY <3>1, <1>6, <1>a
  <2>3. CASE Begun(FC!Empty)
    <3>1. /\ write_job'.num = g /\ s = g /\ disk'.download[g] = FC!Empty
          /\ disk'.digest[g] = src[g]
      BY <2>3, <1>g DEF Begun
    <3> QED BY <3>1, <1>6, <1>a
  <2>4. CASE /\ Lost /\ Stays /\ g = write_job.num /\ write_job.stream # None
             /\ \A f \in Files :
               /\ disk'.download[f] = disk.download[f] /\ disk'.digest[f] = disk.digest[f]
               /\ \/ disk'.final[f] = disk.final[f]
                  \/ f = write_job.stream /\ disk'.final[f] # None
    <3>1. s = write_job.stream /\ write_job'.num = g /\ Open(s) /\ s \in Files /\ s \in Nat
      BY <2>4, <1>1, <1>7 DEF Stays
    <3>2. CASE s = g
      <4>1. disk.download[g] # None
        <5>1. 1 \in DOMAIN toReceiver /\ BlockAt(1) /\ toReceiver[1].num = g
          BY <1>g, WroteAmong
        <5> QED BY <5>1, <3>1, <3>2, <2>4, <1>1 DEF Open, BlockAt
      <4>2. disk'.download[g] # None /\ disk'.digest[g] = src[g]
        BY <4>1, <3>1, <3>2, <2>4, <1>1 DEF Open
      <4> QED BY <4>2, <3>1, <3>2, <1>a
    <3>3. CASE s # g
      <4>1. disk.final[s] # None /\ disk'.final[s] # None /\ {s, g} \subseteq suspect
        BY <3>1, <3>3, <2>4 DEF Open
      <4>2. s < N /\ s <= g /\ s \notin skips
        BY <3>1, <2>4 DEF Open
      <4> QED BY <4>1, <4>2, <3>1, <3>3, <1>1, <1>3 DEF Open
    <3> QED BY <3>2, <3>3
  <2>5. CASE Lost /\ Shelved /\ Stays /\ write_job.stream # None /\ g > write_job.num
    <3>1. s = write_job.stream /\ write_job'.num = write_job.num /\ Open(s) /\ s \in Files
                    /\ s \in Nat
          /\ s < g /\ disk'.final[s] # None /\ s \in suspect'
      BY <2>5, <1>1, <1>7, <1>b, <1>l DEF Stays
    <3>2. CASE s = write_job.num
      <4>1. disk'.download[s] = None
        BY <3>1, <3>2, <1>g, <2>5 DEF Shelved
      <4>2. \A i \in DOMAIN read_jobs : JobIs(read_jobs[i].id) => read_jobs[i].num > s
        BY <1>1, <1>2, <3>1
      <4>3. \A p \in DOMAIN toReceiver : toReceiver[p].kind = "digest"
                      /\ JobIs(toReceiver[p].id) => toReceiver[p].num > s
        <5>1. \A p \in DOMAIN toReceiver : toReceiver[p].kind = "digest"
                        => toReceiver[p].num \in Nat
          BY TypeFacts, ResponseFields
        <5> QED BY <5>1, <1>1, <1>2, <3>1
      <4>4. \A p \in DOMAIN toReceiver : toReceiver[p].kind = "block"
                      /\ JobIs(toReceiver[p].id) => toReceiver[p].num > s
        BY <1>1, <1>2, <3>1 DEF BlockAt
      <4>5. s < N /\ s <= write_job.num /\ s \notin skips
        BY <3>1 DEF Open
      <4> QED BY <4>1, <4>2, <4>3, <4>4, <4>5, <3>1, <3>2, <1>1, <1>2, <1>3, <1>4 DEF Open
    <3>3. CASE s # write_job.num
      <4>1. write_job.num \in suspect /\ s < N /\ s <= write_job.num /\ s \notin skips
        BY <3>1, <3>3 DEF Open
      <4> QED BY <4>1, <3>1, <3>3, <1>1, <1>3 DEF Open
    <3> QED BY <3>2, <3>3
  <2>6. CASE Lost /\ Shelved /\ write_job'.num = g /\ write_job'.stream = write_job.stream
           /\ (write_job.stream # None => g > write_job.num)
    <3>1. s = write_job.stream /\ write_job'.num = g /\ Open(s) /\ s \in Files /\ s \in Nat
          /\ s < g /\ disk'.final[s] # None /\ s \in suspect' /\ g \in suspect'
      BY <2>6, <1>1, <1>7, <1>b, <1>l
    <3>2. s < N /\ s \notin skips
      BY <3>1 DEF Open
    <3> QED BY <3>1, <3>2, <1>1, <1>3 DEF Open
  <2> QED BY <1>5, <2>1, <2>2, <2>3, <2>4, <2>5, <2>6
<1>9. Parts'
  <2> SUFFICES ASSUME NEW f \in Files, f \notin suspect', disk'.download[f] # None
               PROVE  f = write_job'.num /\ write_job'.stream = f
    BY DEF Parts
  <2>1. disk.download[f] # None => f = write_job.num
    BY <1>0, <1>1, <1>3 DEF Parts
  <2>2. Shelved \/ LeftOver => f = g
    BY <2>1, <1>g DEF Shelved, LeftOver
  <2>3. CASE Appended
    BY <2>1, <2>3, <1>g DEF Appended, Stays
  <2>4. CASE Begun(WriteAll(FC!Empty, toReceiver[1])) \/ Begun(FC!Empty)
    BY <2>2, <2>4, <1>g DEF Begun
  <2>5. CASE Lost /\ ~Begun(FC!Empty)
    BY <2>1, <2>2, <2>5, <1>5, <1>l, <1>g, <1>1 DEF Appended, Begun
  <2> QED BY <1>5, <2>3, <2>4, <2>5
<1> QED BY <1>8, <1>9

\* The block at the head is the next one the writer needs, and it has it
\* after the step, unless something is wrong with the file.
LEMMA WroteNext ==
    ASSUME TypeOK, Protocol, Writer, Sound, Wrote, NEW g, g = toReceiver[1].num, g \notin suspect'
    PROVE  /\ g \notin suspect
           /\ Held(g) \in Nat /\ Held(g) <= Blocks[g] /\ Blocks[g] \in Nat
           /\ Key(toReceiver[1]) = Held(g) + 1
           /\ toReceiver[1].idx = 0 => Held(g) = Blocks[g]
           /\ write_job'.num = g /\ write_job'.stream = g /\ disk'.download[g] # None
           /\ disk'.download[g].len = IF toReceiver[1].idx = 0 THEN Held(g) ELSE Held(g) + 1
           /\ Appended \/ Begun(WriteAll(FC!Empty, toReceiver[1]))
<1> DEFINE m == toReceiver[1]
           H == Held(g)
<1>1. g \in Files /\ g \in Nat /\ suspect \subseteq suspect' /\ 1 \in DOMAIN toReceiver
                /\ BlockAt(1)
  BY WroteAmong
<1>2. g \notin suspect
  BY <1>1
<1>3. H \in Nat /\ H <= Blocks[g] /\ Blocks[g] \in Nat
  BY <1>1, <1>2, HeldIs
<1>4. m.idx \in Nat /\ m.ver \in Nat /\ m.num = g
  BY DEF Wrote, AtBlock
<1>5. Key(m) = IF m.idx = 0 THEN Blocks[g] + 1 ELSE m.idx
  BY DEF Key
<1>6. Key(m) \in Nat
  BY <1>3, <1>4, <1>5
<1>7. /\ Key(m) > H
      /\ \A k \in H + 1 .. Key(m) : \E q \in DOMAIN toReceiver : q <= 1 /\ BlockAt(q)
                      /\ Key(toReceiver[q]) = k
  BY <1>1, <1>2 DEF Writer, InOrder
<1>8. Key(m) = H + 1
  <2>1. H + 1 \in H + 1 .. Key(m)
    BY <1>3, <1>6, <1>7
  <2>2. PICK q \in DOMAIN toReceiver : q <= 1 /\ Key(toReceiver[q]) = H + 1
    BY <2>1, <1>7
  <2>3. q = 1
    BY <2>2, TypeFacts
  <2> QED BY <2>2, <2>3
<1>9. Appended \/ Begun(WriteAll(FC!Empty, m))
  BY DEF Wrote, Lost
<1>10. m.idx = 0 => H = Blocks[g]
  BY <1>3, <1>5, <1>8
<1>11. ASSUME Appended
       PROVE  /\ write_job'.num = g /\ write_job'.stream = g /\ disk'.download[g] # None
              /\ disk'.download[g].len = IF m.idx = 0 THEN H ELSE H + 1
  <2>1. /\ write_job.num = g /\ write_job.stream = g /\ write_job'.num = g /\ write_job'.stream = g
        /\ disk.download[g] # None /\ disk'.download[g] = WriteAll(disk.download[g], m)
    BY <1>1, <1>11 DEF Appended, Stays
  <2>2. H = disk.download[g].len
    BY <2>1 DEF Held
  <2>3. disk.download[g] \in FC!Content
    BY <2>1, <1>1, TypeFacts, ContentIs DEF DiskType
  <2> QED BY <2>1, <2>2, <2>3, <1>4, WriteAllIs
<1>12. ASSUME Begun(WriteAll(FC!Empty, m))
       PROVE  /\ write_job'.num = g /\ write_job'.stream = g /\ disk'.download[g] # None
              /\ disk'.download[g].len = IF m.idx = 0 THEN H ELSE H + 1
  <2>1. /\ write_job'.num = g /\ write_job'.stream = g /\ disk'.download[g] = WriteAll(FC!Empty, m)
        /\ (g # write_job.num \/ write_job.stream = None)
    BY <1>12 DEF Begun, Moves
  <2>2. H = 0
    BY <2>1, <1>1, NoneAssumption DEF Held
  <2>3. FC!Empty \in FC!Content /\ FC!Empty.len = 0
    BY ContentIs
  <2> QED BY <2>1, <2>2, <2>3, <1>4, WriteAllIs
<1> QED BY <1>2, <1>3, <1>8, <1>9, <1>10, <1>11, <1>12

\* InOrder and Top, when a block is written: the one taken is the one that
\* the writer needed.
LEMMA WroteOrder ==
    ASSUME TypeOK, Protocol, Writer, Sound, Wrote
    PROVE  InOrder' /\ Top'
<1>g. PICK g : g = toReceiver[1].num
  OBVIOUS
<1> DEFINE H == Held(g)
           K == Key(toReceiver[1])
<1>0. InOrder /\ Top
  BY DEF Writer
<1>1. /\ g \in Files /\ suspect \subseteq suspect' /\ 1 \in DOMAIN toReceiver /\ BlockAt(1)
      /\ \A q \in DOMAIN toSender : JobIs(toSender[q].id) => toSender[q].kind = "cancel"
      /\ \A i \in DOMAIN read_jobs : 
                JobIs(read_jobs[i].id) /\ read_jobs[i].confirmed => read_jobs[i].num = g
      /\ \A p \in DOMAIN toReceiver : BlockAt(p) =>
           toReceiver[p].num = g /\ toReceiver[p].idx \in Nat /\ toReceiver[p].idx <= Blocks[g]
      /\ \A id : JobIs(id)' <=> JobIs(id)
  BY <1>g, WroteAmong
<1>2. UNCHANGED <<read_jobs, toSender>>
  BY DEF Wrote
<1>3. /\ \A p \in DOMAIN toReceiver' :
        p \in Nat /\ p >= 1 /\ p + 1 \in DOMAIN toReceiver /\ toReceiver'[p] = toReceiver[p + 1]
            /\ (BlockAt(p)' <=> BlockAt(p + 1))
      /\ \A p \in DOMAIN toReceiver :
        p > 1 => p - 1 \in DOMAIN toReceiver' /\ toReceiver'[p - 1] = toReceiver[p]
            /\ (BlockAt(p - 1)' <=> BlockAt(p))
  BY <1>1 DEF Wrote, TakenR, BlockAt
<1>4. \A p \in DOMAIN toReceiver : p \in Nat /\ p >= 1
  BY TypeFacts
<1>5. ASSUME g \notin suspect'
      PROVE  /\ g \notin suspect /\ H \in Nat /\ H <= Blocks[g] /\ Blocks[g] \in Nat /\ K = H + 1
             /\ toReceiver[1].idx = 0 => H = Blocks[g]
             /\ Held(g)' = IF toReceiver[1].idx = 0 THEN H ELSE H + 1
  <2>1. /\ g \notin suspect /\ H \in Nat /\ H <= Blocks[g] /\ Blocks[g] \in Nat /\ K = H + 1
        /\ toReceiver[1].idx = 0 => H = Blocks[g]
        /\ write_job'.num = g /\ write_job'.stream = g /\ disk'.download[g] # None
        /\ disk'.download[g].len = IF toReceiver[1].idx = 0 THEN H ELSE H + 1
    BY <1>5, <1>g, WroteNext
  <2> HIDE DEF H, K
  <2>2. Held(g)' = IF toReceiver[1].idx = 0 THEN H ELSE H + 1
    BY <2>1 DEF Held
  <2> QED BY <2>1, <2>2
<1>6. ASSUME NEW p \in DOMAIN toReceiver, BlockAt(p), g \notin suspect'
      PROVE  Key(toReceiver[p]) \in Nat /\ Key(toReceiver[p]) <= Blocks[g] + 1
  BY <1>1, <1>5, <1>6 DEF Key
<1> HIDE DEF H, K
<1>7. \A p : Key(toReceiver[p])' = Key(toReceiver'[p])
  BY DEF Key
<1>8. InOrder'
  <2>1. ASSUME NEW p \in DOMAIN toReceiver', NEW q \in DOMAIN toReceiver', BlockAt(p)',
                  BlockAt(q)', p < q,
               toReceiver'[p].num \notin suspect'
        PROVE  Key(toReceiver'[p]) < Key(toReceiver'[q])
    <3>1. /\ p + 1 \in DOMAIN toReceiver /\ q + 1 \in DOMAIN toReceiver /\ p + 1 < q + 1
          /\ BlockAt(p + 1) /\ BlockAt(q + 1)
          /\ toReceiver'[p] = toReceiver[p + 1] /\ toReceiver'[q] = toReceiver[q + 1]
          /\ toReceiver[p + 1].num \notin suspect
      BY <2>1, <1>1, <1>3
    <3>2. Key(toReceiver[p + 1]) < Key(toReceiver[q + 1])
      BY <3>1, <1>0 DEF InOrder
    <3> QED BY <3>1, <3>2
  <2>2. ASSUME NEW p \in DOMAIN toReceiver', BlockAt(p)', toReceiver'[p].num \notin suspect'
        PROVE  /\ toReceiver'[p].num = g
               /\ Key(toReceiver'[p]) > Held(g)'
               /\ \A k \in Held(g)' + 1 .. Key(toReceiver'[p]) :
                    \E q \in DOMAIN toReceiver' : q <= p /\ BlockAt(q)' /\ Key(toReceiver'[q]) = k
    <3>1. PICK r \in DOMAIN toReceiver : r = p + 1
      BY <1>3
    <3>2. r > 1 /\ r \in Nat /\ p \in Nat /\ p >= 1 /\ BlockAt(r) /\ toReceiver'[p] = toReceiver[r]
      BY <3>1, <2>2, <1>3
    <3>3. toReceiver'[p].num = g /\ g \notin suspect' /\ toReceiver[r].num = g
      BY <3>2, <2>2, <1>1
    <3>4. /\ g \notin suspect /\ H \in Nat /\ H <= Blocks[g] /\ Blocks[g] \in Nat /\ K = H + 1
          /\ toReceiver[1].idx = 0 => H = Blocks[g]
          /\ Held(g)' = IF toReceiver[1].idx = 0 THEN H ELSE H + 1
      BY <3>3, <1>5
    <3>5. K < Key(toReceiver[r]) /\ Key(toReceiver[r]) \in Nat
                    /\ Key(toReceiver[r]) <= Blocks[g] + 1
      <4>1. toReceiver[1].num \notin suspect /\ 1 < r
        BY <1>g, <3>2, <3>4
      <4>2. Key(toReceiver[1]) < Key(toReceiver[r])
        BY <4>1, <3>1, <3>2, <1>0, <1>1 DEF InOrder
      <4> QED BY <4>2, <3>2, <3>3, <1>6 DEF K
    <3>6. toReceiver[1].idx # 0 /\ Held(g)' = K
      BY <3>4, <3>5
    <3>7. ASSUME NEW k \in K + 1 .. Key(toReceiver[r])
          PROVE  \E q \in DOMAIN toReceiver' : q <= p /\ BlockAt(q)' /\ Key(toReceiver'[q]) = k
      <4>1. k \in H + 1 .. Key(toReceiver[r]) /\ k \in Nat /\ k > K
        BY <3>4, <3>5
      <4>2. \E q \in DOMAIN toReceiver : q <= r /\ BlockAt(q) /\ Key(toReceiver[q]) = k
        <5>1. \A x \in Held(toReceiver[r].num) + 1 .. Key(toReceiver[r]) :
                \E q \in DOMAIN toReceiver : q <= r /\ BlockAt(q) /\ Key(toReceiver[q]) = x
          BY <3>2, <3>3, <3>4, <1>0 DEF InOrder
        <5> QED BY <5>1, <4>1, <3>3 DEF H
      <4>3. PICK q \in DOMAIN toReceiver : q <= r /\ BlockAt(q) /\ Key(toReceiver[q]) = k
        BY <4>2
      <4>4. q # 1
        BY <4>1, <4>3, <3>4 DEF K
      <4>5. q \in Nat /\ q > 1
        BY <4>4, <1>4
      <4>6. q - 1 \in DOMAIN toReceiver' /\ toReceiver'[q - 1] = toReceiver[q] /\ BlockAt(q - 1)'
        BY <4>3, <4>5, <1>3
      <4>7. q - 1 <= p
        BY <4>3, <4>5, <3>1, <3>2
      <4> QED BY <4>3, <4>6, <4>7
    <3>8. \A k \in Held(g)' + 1 .. Key(toReceiver'[p]) :
                    \E q \in DOMAIN toReceiver' : q <= p /\ BlockAt(q)' /\ Key(toReceiver'[q]) = k
      BY <3>2, <3>6, <3>7
    <3>9. Key(toReceiver'[p]) > Held(g)'
      BY <3>2, <3>4, <3>5, <3>6
    <3> QED BY <3>3, <3>8, <3>9
  <2>3. \A p \in DOMAIN toReceiver' : BlockAt(p)' /\ toReceiver'[p].num \notin suspect' =>
            Held(toReceiver[p].num)' = Held(g)'
    BY <2>2 DEF Held
  <2> QED BY <2>1, <2>2, <2>3, <1>7 DEF InOrder
<1>9. Top'
  <2>1. ASSUME NEW i \in DOMAIN read_jobs, JobIs(read_jobs[i].id), read_jobs[i].confirmed,
               g \notin suspect'
        PROVE  /\ read_jobs[i].stream \in Held(g)' .. Blocks[g]
               /\ \A p \in DOMAIN toReceiver' : BlockAt(p)'
                               => Key(toReceiver'[p]) <= read_jobs[i].stream
               /\ \A k \in Held(g)' + 1 .. read_jobs[i].stream :
                    \E q \in DOMAIN toReceiver' : BlockAt(q)' /\ Key(toReceiver'[q]) = k
    <3>1. /\ g \notin suspect /\ H \in Nat /\ H <= Blocks[g] /\ Blocks[g] \in Nat /\ K = H + 1
          /\ toReceiver[1].idx = 0 => H = Blocks[g]
          /\ Held(g)' = IF toReceiver[1].idx = 0 THEN H ELSE H + 1
      BY <2>1, <1>5
    <3>2. read_jobs[i].num = g
      BY <2>1, <1>1
    <3> DEFINE s == read_jobs[i].stream
    <3>3. /\ s \in H .. Blocks[g]
          /\ \A p \in DOMAIN toReceiver : BlockAt(p) => Key(toReceiver[p]) <= s
          /\ \A k \in H + 1 .. s : \E q \in DOMAIN toReceiver : BlockAt(q) /\ Key(toReceiver[q]) = k
      BY <2>1, <3>1, <3>2, <1>0 DEF Top, H
    <3> HIDE DEF s
    <3>4. K <= s
      BY <3>3, <1>1 DEF K
    <3>5. toReceiver[1].idx # 0 /\ Held(g)' = K /\ s \in Nat
      BY <3>1, <3>3, <3>4
    <3>6. s \in Held(g)' .. Blocks[g]
      BY <3>1, <3>3, <3>4, <3>5
    <3>7. \A p \in DOMAIN toReceiver' : BlockAt(p)' => Key(toReceiver'[p]) <= s
      BY <3>3, <1>3
    <3>8. ASSUME NEW k \in K + 1 .. s
          PROVE  \E q \in DOMAIN toReceiver' : BlockAt(q)' /\ Key(toReceiver'[q]) = k
      <4>1. k \in H + 1 .. s /\ k > K
        BY <3>1, <3>5
      <4>2. PICK q \in DOMAIN toReceiver : BlockAt(q) /\ Key(toReceiver[q]) = k
        BY <4>1, <3>3
      <4>3. q # 1
        BY <4>1, <4>2, <3>1 DEF K
      <4>4. q \in Nat /\ q > 1
        BY <4>3, <1>4
      <4> QED BY <4>2, <4>4, <1>3
    <3>9. \A k \in Held(g)' + 1 .. s : \E q \in DOMAIN toReceiver' : BlockAt(q)'
                    /\ Key(toReceiver'[q]) = k
      BY <3>5, <3>8
    <3> QED BY <3>6, <3>7, <3>9 DEF s
  <2>2. \A i \in DOMAIN read_jobs : JobIs(read_jobs[i].id) /\ read_jobs[i].confirmed
                  => read_jobs[i].num = g
    BY <1>1
  <2>3. \A i \in DOMAIN read_jobs : read_jobs[i].num = g => Held(read_jobs[i].num)' = Held(g)'
    BY <1>2 DEF Held
  <2>4. \A q \in DOMAIN toSender : JobIs(toSender[q].id) => toSender[q].kind # "confirm"
    BY <1>1
  <2> QED BY <2>1, <2>2, <2>3, <2>4, <1>1, <1>2, <1>7 DEF Top
<1> QED BY <1>8, <1>9

\* Reached, when a block is written.
LEMMA WroteReached ==
    ASSUME TypeOK, Protocol, Writer, Sound, Wrote
    PROVE  Reached'
<1>g. PICK g : g = toReceiver[1].num
  OBVIOUS
<1>0. Reached
  BY DEF Writer
<1>1. /\ g \in Files /\ g \in Nat /\ write_job.num \in Nat /\ write_job'.num \in Nat
      /\ suspect \subseteq suspect' /\ 1 \in DOMAIN toReceiver /\ BlockAt(1)
      /\ write_job # None /\ write_job' # None /\ g >= write_job.num
      /\ write_job'.num \in {write_job.num, g}
      /\ \A p \in DOMAIN toReceiver : BlockAt(p) =>
           toReceiver[p].num = g /\ toReceiver[p].idx \in Nat /\ toReceiver[p].idx <= Blocks[g]
      /\ \A id : JobIs(id)' <=> JobIs(id)
  BY <1>g, WroteAmong
<1>2. UNCHANGED <<read_jobs, skips>>
  BY DEF Wrote
<1>3. /\ \A p \in DOMAIN toReceiver' :
        p \in Nat /\ p >= 1 /\ p + 1 \in DOMAIN toReceiver /\ toReceiver'[p] = toReceiver[p + 1]
            /\ (BlockAt(p)' <=> BlockAt(p + 1))
      /\ \A p \in DOMAIN toReceiver :
        p > 1 => p - 1 \in DOMAIN toReceiver' /\ toReceiver'[p - 1] = toReceiver[p]
            /\ (BlockAt(p - 1)' <=> BlockAt(p))
  BY <1>1 DEF Wrote, TakenR, BlockAt
<1>4. \A p \in DOMAIN toReceiver : p \in Nat /\ p >= 1
  BY TypeFacts
<1>5. g \notin suspect' =>
           /\ Held(g) \in Nat /\ Held(g) <= Blocks[g] /\ Blocks[g] \in Nat
           /\ Key(toReceiver[1]) = Held(g) + 1
           /\ toReceiver[1].idx = 0 => Held(g) = Blocks[g]
           /\ write_job'.num = g /\ write_job'.stream = g /\ disk'.download[g] # None
           /\ disk'.download[g].len = IF toReceiver[1].idx = 0 THEN Held(g) ELSE Held(g) + 1
           /\ Appended \/ Begun(WriteAll(FC!Empty, toReceiver[1]))
  BY <1>g, WroteNext
\* A file that was arriving is, or the writer is past it.
<1>6. ASSUME NEW h \in Files, Arriving(h), write_job'.num <= h, h \notin suspect'
      PROVE  Arriving(h)'
  <2>1. CASE \E p \in DOMAIN toReceiver : BlockAt(p) /\ toReceiver[p].num = h
                  /\ toReceiver[p].idx = 0
    <3>1. PICK p \in DOMAIN toReceiver : BlockAt(p) /\ toReceiver[p].num = h
                    /\ toReceiver[p].idx = 0
      BY <2>1
    <3>2. h = g
      BY <3>1, <1>1
    <3>3. CASE p = 1
      <4>1. /\ write_job'.num = h /\ write_job'.stream = h /\ disk'.download[h] # None
            /\ disk'.download[h].len = Blocks[h]
        BY <3>1, <3>2, <3>3, <1>5, <1>6
      <4> QED BY <4>1 DEF Arriving
    <3>4. CASE p # 1
      <4>1. p > 1
        BY <3>4, <1>4
      <4>2. p - 1 \in DOMAIN toReceiver' /\ toReceiver'[p - 1] = toReceiver[p] /\ BlockAt(p - 1)'
        BY <4>1, <3>1, <1>3
      <4> QED BY <4>2, <3>1 DEF Arriving
    <3> QED BY <3>3, <3>4
  <2>2. CASE /\ write_job.num = h /\ write_job.stream = h
             /\ disk.download[h] # None /\ disk.download[h].len = Blocks[h]
    <3>1. h \in Nat
      BY FilesAre
    <3>2. write_job'.num = h
      BY <3>1, <2>2, <1>1, <1>6
    <3>3. h = g
      <4>1. ASSUME h # g PROVE FALSE
        <5>1. Lost
          BY <4>1, <3>2, <2>2, <1>g DEF Wrote, Appended, Begun
        <5>2. write_job.stream \in suspect'
          <6>1. write_job.stream # None
            BY <2>2, <3>1, NoneAssumption
          <6> QED BY <5>1, <6>1 DEF Lost
        <5> QED BY <5>2, <2>2, <1>6
      <4> QED BY <4>1
    <3>4. Appended
      <4>1. ~Moves(write_job, toReceiver[1])
        BY <3>1, <3>3, <2>2, <1>g, NoneAssumption DEF Moves
      <4> QED BY <4>1, <3>3, <1>5, <1>6 DEF Begun
    <3>5. Held(g) = Blocks[g]
      BY <2>2, <3>3 DEF Held
    <3>6. toReceiver[1].idx = 0
      <4>1. toReceiver[1].idx <= Blocks[g] /\ toReceiver[1].idx \in Nat
        BY <1>1
      <4>2. toReceiver[1].idx # 0 => Key(toReceiver[1]) = toReceiver[1].idx
        BY DEF Key
      <4> QED BY <4>1, <4>2, <3>3, <3>5, <1>5, <1>6
    <3>7. /\ write_job'.num = h /\ write_job'.stream = h /\ disk'.download[h] # None
          /\ disk'.download[h].len = Blocks[h]
      BY <3>3, <3>5, <3>6, <1>5, <1>6
    <3> QED BY <3>7 DEF Arriving
  <2> QED BY <1>6, <2>1, <2>2 DEF Arriving
<1>7. ASSUME NEW n, Clear(n) PROVE Clear(n)'
  <2>1. ASSUME NEW h \in Files, write_job'.num <= h, h < n
        PROVE  h \in suspect' \/ h \in skips \/ Arriving(h)'
    <3>1. h \in Nat
      BY FilesAre
    <3>2. write_job.num <= h
      BY <3>1, <2>1, <1>1
    <3>3. h \in suspect \/ h \in skips \/ Arriving(h)
      BY <3>2, <2>1, <1>7 DEF Clear
    <3> QED BY <3>3, <2>1, <1>1, <1>6
  <2> QED BY <2>1, <1>2 DEF Clear
<1>8. ASSUME NEW n \in Nat, ErrorBefore(n + 1) PROVE ErrorBefore(n)'
  <2>1. PICK p \in DOMAIN toReceiver : p < n + 1 /\ toReceiver[p].kind = "error"
                  /\ JobIs(toReceiver[p].id)
    BY <1>8 DEF ErrorBefore
  <2>2. p # 1 /\ p \in Nat
    BY <2>1, <1>1, <1>4 DEF BlockAt
  <2>3. p > 1 /\ p - 1 < n
    BY <2>1, <2>2, <1>4
  <2>4. p - 1 \in DOMAIN toReceiver' /\ toReceiver'[p - 1] = toReceiver[p]
    BY <2>3, <1>3
  <2> QED BY <2>1, <2>3, <2>4, <1>1 DEF ErrorBefore
<1>9. ASSUME ErrorBefore(Len(toReceiver) + 1) PROVE ErrorBefore(Len(toReceiver) + 1)'
  <2>1. PICK p \in DOMAIN toReceiver : toReceiver[p].kind = "error" /\ JobIs(toReceiver[p].id)
    BY <1>9 DEF ErrorBefore
  <2>2. p # 1 /\ p \in Nat
    BY <2>1, <1>1, <1>4 DEF BlockAt
  <2>3. p > 1
    BY <2>2, <1>4
  <2>4. p - 1 \in DOMAIN toReceiver' /\ toReceiver'[p - 1] = toReceiver[p]
    BY <2>3, <1>3
  <2>5. toReceiver' \in Seq(Response)
    BY DEF Wrote, TakenR
  <2>6. Len(toReceiver') \in Nat /\ p - 1 <= Len(toReceiver')
    BY <2>4, <2>5, LenProperties
  <2>7. p - 1 < Len(toReceiver') + 1
    BY <2>2, <2>6
  <2> QED BY <2>1, <2>4, <2>7, <1>1 DEF ErrorBefore
<1>10. ASSUME NEW i \in DOMAIN read_jobs, JobIs(read_jobs[i].id)
       PROVE  Clear(read_jobs[i].num)' \/ ErrorBefore(Len(toReceiver) + 1)'
  <2>1. PICK n : n = read_jobs[i].num
    OBVIOUS
  <2>2. Clear(n) \/ ErrorBefore(Len(toReceiver) + 1)
    BY <2>1, <1>0, <1>1, <1>10 DEF Reached
  <2>3. Clear(n)' => Clear(read_jobs[i].num)'
    BY <2>1, <1>2 DEF Clear
  <2> QED BY <2>2, <2>3, <1>7, <1>9
<1>11. ASSUME NEW p \in DOMAIN toReceiver'
       PROVE  /\ BlockAt(p)' => Clear(toReceiver[p].num)'
              /\ toReceiver'[p].kind = "done" /\ JobIs(toReceiver'[p].id) => Clear(N)'
                              \/ ErrorBefore(p)'
  <2>1. /\ p \in Nat /\ p + 1 \in DOMAIN toReceiver /\ toReceiver'[p] = toReceiver[p + 1]
        /\ (BlockAt(p)' <=> BlockAt(p + 1))
    BY <1>3
  <2>2. PICK n : n = toReceiver[p + 1].num
    OBVIOUS
  <2>3. /\ BlockAt(p + 1) => Clear(n)
        /\ toReceiver[p + 1].kind = "done" /\ JobIs(toReceiver[p + 1].id) => Clear(N)
                        \/ ErrorBefore(p + 1)
    BY <2>1, <2>2, <1>0, <1>1 DEF Reached
  <2>4. Clear(n)' => Clear(toReceiver[p].num)'
    BY <2>1, <2>2 DEF Clear
  <2>5. Clear(N) => Clear(N)'
    BY <1>7
  <2>6. Clear(n) => Clear(n)'
    BY <1>7
  <2> QED BY <2>1, <2>3, <2>4, <2>5, <2>6, <1>8
<1> QED BY <1>1, <1>2, <1>10, <1>11 DEF Reached

\* Writer, when a block is written.
LEMMA WroteWriter ==
    ASSUME TypeOK, Protocol, Writer, Sound, Wrote
    PROVE  Writer'
<1>g. PICK g : g = toReceiver[1].num
  OBVIOUS
<1>0. Agreed /\ Progress /\ Behind
  BY DEF Writer
<1>1. /\ g \in Nat /\ g < N /\ write_job.num \in Nat /\ write_job' # None /\ write_job # None
      /\ g >= write_job.num /\ g \notin skips /\ ask = None
      /\ write_job'.num \in {write_job.num, g}
      /\ \A q \in DOMAIN toSender : JobIs(toSender[q].id) => toSender[q].kind = "cancel"
      /\ \A i \in DOMAIN read_jobs : JobIs(read_jobs[i].id) =>
                /\ read_jobs[i].num \in Nat
                /\ read_jobs[i].confirmed => read_jobs[i].num = g /\ read_jobs[i].waiting
                /\ ~read_jobs[i].confirmed => read_jobs[i].num > g
      /\ \A p \in DOMAIN toReceiver : BlockAt(p) => toReceiver[p].num = g
      /\ \A p \in DOMAIN toReceiver :
           toReceiver[p].kind = "digest" /\ JobIs(toReceiver[p].id) => toReceiver[p].num > g
      /\ \A id : JobIs(id)' <=> JobIs(id)
  BY <1>g, WroteAmong
<1>2. /\ UNCHANGED <<read_jobs, ask, toSender, src, skips>>
      /\ write_job'.digest = write_job.digest /\ ~write_job'.last
  BY DEF Wrote
<1>3. \A p \in DOMAIN toReceiver' : \E k \in DOMAIN toReceiver : toReceiver'[p] = toReceiver[k]
  BY DEF Wrote, TakenR
<1>4. \A p \in DOMAIN toReceiver : toReceiver[p].kind \in {"digest", "block"}
                => toReceiver[p].num \in Nat
  BY TypeFacts, ResponseFields
<1>5. Agreed'
  BY <1>0, <1>1, <1>2, <1>3 DEF Agreed
<1>6. Progress'
  <2>1. \A p \in DOMAIN toReceiver :
            toReceiver[p].kind \in {"digest", "block"} /\ JobIs(toReceiver[p].id)
                => toReceiver[p].num >= write_job'.num
    BY <1>1, <1>4 DEF BlockAt
  <2>2. \A i \in DOMAIN read_jobs : JobIs(read_jobs[i].id) => read_jobs[i].num >= write_job'.num
    BY <1>1
  <2>3. write_job'.num <= N
    BY <1>0, <1>1, FilesAre DEF Progress
  <2> QED BY <2>1, <2>2, <2>3, <1>1, <1>2, <1>3 DEF Progress
<1>7. Behind'
  BY <1>0, <1>1, <1>2, <1>3 DEF Behind
<1> QED BY <1>5, <1>6, <1>7, WroteStream, WroteOrder, WroteReached DEF Writer

-----------------------------------------------------------------------------
(***************************************************************************)
(* TypeOK is kept.                                                         *)
(***************************************************************************)

\* TypeOK, when the timer ticks.
LEMMA TickingType ==
    ASSUME TypeOK, Ticking, failed' \in SUBSET (1 .. MaxJobs), faults' \in 0 .. MaxFaults
    PROVE  TypeOK'
BY DEF TypeOK, Ticking, Tick

\* TypeOK, when the reader starts a job.
LEMMA SendingType ==
    ASSUME TypeOK, Sending
    PROVE  TypeOK'
<1>1. toReceiver' \in Seq(Response) /\ toSender' \in Seq(FileAction)
  BY DEF Sending, AddedR, TakenS
<1> QED BY <1>1 DEF TypeOK, Sending, history

\* TypeOK, when the reader takes an answer.
LEMMA ConfirmingType ==
    ASSUME TypeOK, Confirming
    PROVE  TypeOK'
<1>1. toSender' \in Seq(FileAction)
  BY DEF Confirming, TakenS
<1>2. suspect' \in SUBSET Files
  BY DEF TypeOK, Confirming
<1> QED BY <1>1, <1>2 DEF TypeOK, Confirming

\* TypeOK, when messages and jobs only disappear.
LEMMA ThinnedType ==
    ASSUME TypeOK, Thinned, failed' \in SUBSET (1 .. MaxJobs)
    PROVE  TypeOK'
<1>1. /\ toReceiver' \in Seq(Response) /\ toSender' \in Seq(FileAction)
      /\ read_jobs' \in Seq(TransferJob) /\ write_job' \in TransferJob \cup {None}
      /\ UNCHANGED <<connected, ask, src, disk, saved, jobs, faults, skips, suspect, done>>
  BY DEF Thinned
<1> QED BY <1>1 DEF TypeOK

\* TypeOK, when the user is asked.
LEMMA AskingType ==
    ASSUME TypeOK, Asking
    PROVE  TypeOK'
<1>1. PICK f \in Files :
        /\ write_job \in TransferJob /\ toReceiver' \in Seq(Response)
        /\ UNCHANGED <<connected, read_jobs, src, disk, saved, jobs, done>>
        /\ failed' \in SUBSET (1 .. MaxJobs) /\ faults' \in 0 .. MaxFaults
        /\ ask' \in {f, None} /\ write_job' = [write_job EXCEPT !.digest = src[f]]
        /\ UNCHANGED <<toSender, skips, suspect>>
  BY DEF Asking, OnQuestion
<1>2. src[f] \in Nat
  BY DEF TypeOK
<1>3. write_job' \in TransferJob
  BY <1>1, <1>2 DEF TransferJob
<1> QED BY <1>1, <1>3 DEF TypeOK

\* TypeOK, when the writer answers.
LEMMA AnsweringType ==
    ASSUME TypeOK, Answering
    PROVE  TypeOK'
<1>1. PICK f \in Files : \E c \in FileAction : AnswerTo(f, c)
  BY DEF Answering
<1>2. PICK c \in FileAction : AnswerTo(f, c)
  BY <1>1
<1>3. /\ toReceiver' \in Seq(Response) /\ toSender' \in Seq(FileAction)
      /\ UNCHANGED <<connected, read_jobs, src, disk, saved, jobs, done>>
      /\ failed' \in SUBSET (1 .. MaxJobs)
      /\ ask' = None /\ faults' \in 0 .. MaxFaults /\ write_job' \in TransferJob
      /\ suspect' = suspect \/ suspect' = suspect \cup {f}
      /\ skips' = IF c.skip THEN skips \cup {f} ELSE skips \ {f}
  BY <1>2 DEF AnswerTo, OnQuestion, AddedS
<1>4. skips' \in SUBSET Files /\ suspect' \in SUBSET Files
  BY <1>3 DEF TypeOK
<1> QED BY <1>3, <1>4 DEF TypeOK

\* TypeOK, when the writer asks for a job.
LEMMA OpeningType ==
    ASSUME TypeOK, Opening
    PROVE  TypeOK'
<1>1. PICK c \in FileAction : OpenedWith(c)
  BY DEF Opening
<1>2. /\ toSender' \in Seq(FileAction) /\ write_job' \in TransferJob
      /\ suspect' \in SUBSET Files /\ done' = FALSE
      /\ UNCHANGED <<connected, read_jobs, ask, toReceiver, src, disk, saved, faults, failed>>
      /\ skips' = {} \/ skips' = skips
  BY <1>1 DEF OpenedWith, AddedS
<1>3. jobs' \in 0 .. MaxJobs
  BY <1>1, BoundsAssumption DEF OpenedWith
<1> QED BY <1>2, <1>3 DEF TypeOK

\* TypeOK, when the user cancels.
LEMMA CancellingType ==
    ASSUME TypeOK, Cancelling
    PROVE  TypeOK'
<1>1. toSender' \in Seq(FileAction)
  BY DEF Cancelling, AddedS
<1>2. disk' \in DiskType
  BY TypeFacts, RemoveDownloadFileIs DEF Cancelling
<1>3. /\ write_job' = None /\ ask' = None
      /\ UNCHANGED <<connected, read_jobs, toReceiver, src, saved, jobs, faults, skips, suspect,
                      failed, done>>
  BY DEF Cancelling, history
<1>4. /\ connected \in BOOLEAN /\ read_jobs \in Seq(TransferJob)
      /\ toReceiver \in Seq(Response)
      /\ src \in [Files -> 1 .. MaxVersion]
      /\ saved \in [num : Nat, skips : SUBSET Files] \cup {None}
      /\ jobs \in 0 .. MaxJobs /\ faults \in 0 .. MaxFaults
      /\ skips \in SUBSET Files /\ suspect \in SUBSET Files
      /\ failed \in SUBSET (1 .. MaxJobs) /\ done \in BOOLEAN
  BY DEF TypeOK
<1> QED BY <1>1, <1>2, <1>3, <1>4 DEF TypeOK, DiskType, ContentOrNone

\* TypeOK, when nothing is under way.
LEMMA QuietType ==
    ASSUME TypeOK, Quiet, disk' \in DiskType, src' \in [Files -> 1 .. MaxVersion],
           saved' \in [num : Nat, skips : SUBSET Files] \cup {None}
    PROVE  TypeOK'
<1>1. skips' \in SUBSET Files /\ write_job' \in TransferJob \cup {None}
  BY DEF TypeOK, Quiet
<1>2. /\ read_jobs' = <<>> /\ toReceiver' = <<>> /\ toSender' = <<>> /\ ask' = None
      /\ done' = FALSE /\ failed' \in SUBSET (1 .. MaxJobs)
      /\ connected' \in BOOLEAN /\ jobs' \in 0 .. MaxJobs /\ UNCHANGED <<faults, suspect>>
  BY DEF Quiet
<1>3. faults \in 0 .. MaxFaults /\ suspect \in SUBSET Files
  BY DEF TypeOK
<1>4. read_jobs' \in Seq(TransferJob) /\ toReceiver' \in Seq(Response)
                /\ toSender' \in Seq(FileAction)
  BY <1>2
<1> QED BY <1>1, <1>2, <1>3, <1>4 DEF TypeOK, DiskType, ContentOrNone

\* TypeOK, when a block is written.
LEMMA WroteType ==
    ASSUME TypeOK, Wrote
    PROVE  TypeOK'
<1>1. /\ toReceiver' \in Seq(Response)
      /\ UNCHANGED <<connected, read_jobs, ask, toSender, src, saved, jobs, skips, failed, done>>
      /\ disk' \in DiskType /\ suspect' \in SUBSET Files /\ faults' \in 0 .. MaxFaults
      /\ write_job' \in TransferJob
  BY DEF Wrote, TakenR
<1>2. /\ connected \in BOOLEAN /\ read_jobs \in Seq(TransferJob)
      /\ toSender \in Seq(FileAction) /\ ask \in Files \cup {None}
      /\ src \in [Files -> 1 .. MaxVersion]
      /\ saved \in [num : Nat, skips : SUBSET Files] \cup {None}
      /\ jobs \in 0 .. MaxJobs /\ skips \in SUBSET Files
      /\ failed \in SUBSET (1 .. MaxJobs) /\ done \in BOOLEAN
  BY DEF TypeOK
<1> QED BY <1>1, <1>2 DEF TypeOK, DiskType, ContentOrNone

-----------------------------------------------------------------------------
(***************************************************************************)
(* Disk is kept.                                                           *)
(***************************************************************************)

\* Only one file changes under its name: it is whole, or suspect.
Installed ==
    /\ suspect \subseteq suspect'
    /\ \/ \A f \in Files : disk'.final[f] = disk.final[f]
       \/ \E f \in Files \ skips :
            /\ \A h \in Files : h # f => disk'.final[h] = disk.final[h]
            /\ f \in suspect' \/ FC!Whole(f, disk'.final[f])

\* A step that leaves the directory alone.
LEMMA StillDisk ==
    ASSUME Disk, UNCHANGED <<disk, saved>>, suspect \subseteq suspect',
           done' => done /\ skips' = skips,
           \/ write_job' = None
           \/ /\ write_job # None
              /\ \A f \in Files : f < write_job'.num => f < write_job.num \/ f \in skips'
              /\ \A f \in Files : f < write_job'.num /\ f \in skips => f \in skips'
           \/ saved # None /\ write_job'.num = saved.num /\ skips' = saved.skips
           \/ write_job'.num = 0
    PROVE  Disk'
<1>0. Keeps /\ Sound /\ DigestTells /\ DoneMeansDelivered
  BY DEF Disk
<1>1. ASSUME write_job' # None PROVE Kept(write_job.num, skips)'
  <2>1. CASE write_job'.num = 0
    BY <2>1, FilesAre DEF Kept
  <2>2. CASE saved # None /\ write_job'.num = saved.num /\ skips' = saved.skips
    BY <2>2, <1>0 DEF Keeps, Kept
  <2>3. CASE /\ write_job # None
             /\ \A f \in Files : f < write_job'.num => f < write_job.num \/ f \in skips'
             /\ \A f \in Files : f < write_job'.num /\ f \in skips => f \in skips'
    BY <2>3, <1>0 DEF Keeps, Kept
  <2> QED BY <1>1, <2>1, <2>2, <2>3
<1>2. Keeps'
  BY <1>0, <1>1 DEF Keeps, Kept
<1>3. Sound' /\ DigestTells'
  BY <1>0 DEF Sound, DigestTells
<1>4. DoneMeansDelivered'
  BY <1>0 DEF DoneMeansDelivered
<1> QED BY <1>2, <1>3, <1>4 DEF Disk

\* The files that the reader is past: those between are skipped or suspect,
\* the writer's own is whole.
LEMMA Passed ==
    ASSUME TypeOK, Protocol, Writer, Sound, write_job # None, NEW n, Clear(n),
           \A p \in DOMAIN toReceiver : BlockAt(p) => ~(toReceiver[p].num < n),
           NEW f \in Files, write_job.num <= f, f < n, f \notin suspect, f \notin skips
    PROVE  /\ f = write_job.num /\ write_job.stream = f /\ write_job.listed
           /\ disk.download[f] # None /\ FC!Whole(f, disk.download[f])
<1>1. Arriving(f)
  BY DEF Clear
<1>2. /\ write_job.num = f /\ write_job.stream = f
      /\ disk.download[f] # None /\ disk.download[f].len = Blocks[f]
  BY <1>1 DEF Arriving
<1>3. Open(f)
  <2>1. f # None
    BY FilesAre, NoneAssumption
  <2> QED BY <2>1, <1>2 DEF Writer, Stream
<1>4. FC!Whole(f, disk.download[f])
  BY <1>2 DEF Sound, FC!Whole
<1> QED BY <1>2, <1>3, <1>4 DEF Open

\* The writer's file that gets its name for a block of the same or of a
\* later file.
LEMMA ShelvedSafe ==
    ASSUME TypeOK, Protocol, Writer, Sound, AtBlock, 1 \in DOMAIN toReceiver, BlockAt(1),
           NEW g, g = toReceiver[1].num, g >= write_job.num,
           \A p \in DOMAIN toReceiver : BlockAt(p) => toReceiver[p].num = g,
           write_job.num \in Files, Moves(write_job, toReceiver[1])
    PROVE  /\ \/ disk.download[write_job.num] = None \/ write_job.num \in suspect
              \/ FC!Whole(write_job.num, disk.download[write_job.num])
           /\ \A f \in Files : write_job.num <= f /\ f < g /\ f \notin suspect /\ f \notin skips =>
                f = write_job.num /\ disk.download[f] # None /\ FC!Whole(f, disk.download[f])
           /\ write_job.num \notin skips
<1>0. Behind /\ Reached /\ Parts /\ write_job # None /\ ~write_job.last
  BY DEF Writer, AtBlock
<1>1. write_job.num \notin skips
  BY <1>0 DEF Behind
<1>2. g \in Nat /\ write_job.num \in Nat
  BY FilesAre DEF AtBlock
<1>3. Clear(g)
  BY <1>0 DEF Reached
<1>4. \A p \in DOMAIN toReceiver : BlockAt(p) => ~(toReceiver[p].num < g)
  BY <1>2
<1>5. \A f \in Files : write_job.num <= f /\ f < g /\ f \notin suspect /\ f \notin skips =>
                f = write_job.num /\ disk.download[f] # None /\ FC!Whole(f, disk.download[f])
  BY <1>0, <1>3, <1>4, Passed
<1>6. CASE write_job.num < g
  BY <1>1, <1>2, <1>5, <1>6
<1>7. CASE write_job.num = g
  <2>1. write_job.stream = None
    BY <1>7 DEF Moves
  <2>2. ASSUME disk.download[g] # None, g \notin suspect PROVE FALSE
    <3>1. g \in Files /\ g # None
      BY <1>2, NoneAssumption DEF AtBlock
    <3>2. Continuable(g)
      BY <2>1, <2>2, <3>1, <1>0 DEF Parts
    <3> QED BY <3>2 DEF Continuable, BlockAt
  <2> QED BY <2>2, <1>1, <1>5, <1>7
<1> QED BY <1>2, <1>6, <1>7

\* What is under a name after a block: the file the writer was at is whole
\* or suspect, the others are what they were.
LEMMA WroteInstalls ==
    ASSUME TypeOK, Protocol, Writer, Sound, Wrote
    PROVE  /\ Installed
           /\ \A f \in Files : disk'.final[f] = disk.final[f] \/ f \in suspect' \/ FC!Whole(f,
                           disk'.final[f])
           /\ write_job # None /\ write_job' # None
           /\ \A f \in Files : f < write_job'.num /\ ~(f < write_job.num) =>
                f \in skips \/ f \in suspect' \/ FC!Whole(f, disk'.final[f])
<1>g. PICK g : g = toReceiver[1].num
  OBVIOUS
<1>1. /\ g \in Files /\ g \in Nat /\ write_job.num \in Nat /\ write_job.num \in Files
      /\ write_job # None /\ write_job' # None
      /\ 1 \in DOMAIN toReceiver /\ BlockAt(1) /\ g >= write_job.num
      /\ write_job.stream # None => Open(write_job.stream) /\ write_job.stream \in Files
      /\ \A p \in DOMAIN toReceiver : BlockAt(p) => toReceiver[p].num = g
      /\ write_job'.num \in {write_job.num, g} /\ suspect \subseteq suspect'
  BY <1>g, WroteAmong
<1>2. AtBlock /\ write_job.num \notin skips
  BY <1>1 DEF Wrote, Writer, Behind
<1>3. ASSUME Moves(write_job, toReceiver[1])
      PROVE  /\ \/ disk.download[write_job.num] = None \/ write_job.num \in suspect
                \/ FC!Whole(write_job.num, disk.download[write_job.num])
             /\ \A f \in Files : write_job.num <= f /\ f < g /\ f \notin suspect
                             /\ f \notin skips =>
                  f = write_job.num /\ disk.download[f] # None /\ FC!Whole(f, disk.download[f])
  BY <1>g, <1>1, <1>2, <1>3, ShelvedSafe
<1>4. \/ \A f \in Files : disk'.final[f] = disk.final[f]
      \/ Moves(write_job, toReceiver[1]) /\ Shelved
      \/ /\ write_job.stream # None /\ write_job.stream \in suspect' /\ Stays
         /\ \A f \in Files : disk'.final[f] = disk.final[f] \/ f = write_job.stream
  BY DEF Wrote, Appended, Begun, Lost, LeftOver, Moves
<1>5. ASSUME \A f \in Files : disk'.final[f] = disk.final[f]
      PROVE  /\ Installed
             /\ \A f \in Files : disk'.final[f] = disk.final[f] \/ f \in suspect' \/ FC!Whole(f,
                             disk'.final[f])
  BY <1>1, <1>2, <1>5 DEF Installed
<1>6. ASSUME Moves(write_job, toReceiver[1]), Shelved
      PROVE  /\ Installed
             /\ \A f \in Files : disk'.final[f] = disk.final[f] \/ f \in suspect' \/ FC!Whole(f,
                             disk'.final[f])
  <2>1. \A f \in Files : disk'.final[f] = IF f = write_job.num /\ disk.download[f] # None
                                          THEN disk.download[f] ELSE disk.final[f]
    BY <1>6 DEF Shelved
  <2>2. \/ disk'.final[write_job.num] = disk.final[write_job.num] \/ write_job.num \in suspect'
        \/ FC!Whole(write_job.num, disk'.final[write_job.num])
    BY <2>1, <1>1, <1>3, <1>6
  <2>3. \A h \in Files : h # write_job.num => disk'.final[h] = disk.final[h]
    BY <2>1
  <2>4. CASE disk'.final[write_job.num] = disk.final[write_job.num]
    BY <2>3, <2>4, <1>1 DEF Installed
  <2>5. CASE disk'.final[write_job.num] # disk.final[write_job.num]
    BY <2>2, <2>3, <2>5, <1>1, <1>2 DEF Installed
  <2> QED BY <2>4, <2>5
<1>7. ASSUME write_job.stream # None, write_job.stream \in suspect',
             \A f \in Files : disk'.final[f] = disk.final[f] \/ f = write_job.stream
      PROVE  /\ Installed
             /\ \A f \in Files : disk'.final[f] = disk.final[f] \/ f \in suspect' \/ FC!Whole(f,
                             disk'.final[f])
  <2>1. write_job.stream \in Files /\ write_job.stream \notin skips
    BY <1>1, <1>7 DEF Open
  <2> QED BY <2>1, <1>1, <1>7 DEF Installed
<1>8. /\ Installed
      /\ \A f \in Files : disk'.final[f] = disk.final[f] \/ f \in suspect' \/ FC!Whole(f,
                      disk'.final[f])
  BY <1>4, <1>5, <1>6, <1>7, <1>1 DEF Installed
<1>9. ASSUME NEW f \in Files, f < write_job'.num, ~(f < write_job.num)
      PROVE  f \in skips \/ f \in suspect' \/ FC!Whole(f, disk'.final[f])
  <2>1. f \in Nat
    BY FilesAre
  <2>2. write_job'.num = g /\ g # write_job.num /\ write_job.num <= f /\ f < g
    BY <2>1, <1>1, <1>9
  <2>3. Moves(write_job, toReceiver[1])
    BY <2>2, <1>g DEF Moves
  <2>4. Shelved \/ LeftOver
    BY <2>2, <2>3, <1>g DEF Wrote, Appended, Begun, Lost, Stays
  <2>5. f \notin suspect /\ f \notin skips =>
          f = write_job.num /\ disk.download[f] # None /\ FC!Whole(f, disk.download[f])
    BY <2>2, <2>3, <1>3
  <2>6. Shelved => disk'.final[f] = IF f = write_job.num /\ disk.download[f] # None
                                    THEN disk.download[f] ELSE disk.final[f]
    BY DEF Shelved
  <2>7. LeftOver => write_job.num \in suspect'
    BY DEF LeftOver
  <2> QED BY <2>4, <2>5, <2>6, <2>7, <1>1
<1> QED BY <1>1, <1>8, <1>9

\* The directory, when a block is written.
LEMMA WroteDisk ==
    ASSUME TypeOK, Protocol, Writer, Disk, Wrote
    PROVE  Disk'
<1>g. PICK g : g = toReceiver[1].num
  OBVIOUS
<1> DEFINE m == toReceiver[1]
<1>0. Keeps /\ Sound /\ DigestTells /\ DoneMeansDelivered /\ Ids
  BY DEF Disk, Protocol
<1>1. /\ Installed
      /\ \A f \in Files : disk'.final[f] = disk.final[f] \/ f \in suspect' \/ FC!Whole(f,
                      disk'.final[f])
      /\ write_job # None /\ write_job' # None
      /\ \A f \in Files : f < write_job'.num /\ ~(f < write_job.num) =>
           f \in skips \/ f \in suspect' \/ FC!Whole(f, disk'.final[f])
  BY <1>0, WroteInstalls
<1>2. /\ UNCHANGED <<saved, skips, done, src>> /\ suspect \subseteq suspect'
      /\ g \in Files /\ g \in Nat /\ m.idx \in Nat /\ m.ver \in Nat /\ m.ver = src[g]
  BY <1>g DEF Wrote, AtBlock
<1>3. ~done
  BY <1>0, <1>1 DEF Ids
<1>4. Keeps'
  <2>1. Kept(write_job.num, skips)'
    BY <1>0, <1>1, <1>2 DEF Keeps, Kept
  <2> QED BY <2>1, <1>0, <1>1, <1>2 DEF Keeps, Kept
<1>5. src[g] \in Nat /\ src[g] > 0 /\ src[g] # None
  <2>1. src[g] \in 1 .. MaxVersion
    BY <1>2 DEF TypeOK
  <2> QED BY <2>1, BoundsAssumption, NoneAssumption
<1>6. \A f \in Files : /\ disk.download[f] # None => disk.download[f] \in FC!Content
                       /\ disk.download[f] # None => /\ disk.download[f].len \in Nat
                                                     /\ disk.download[f].ok \in BOOLEAN
  BY TypeFacts, ContentIs DEF DiskType
<1>7. FC!Empty \in FC!Content /\ FC!Empty.len = 0 /\ FC!Empty.ok
  BY ContentIs
\* What the writer has of the file of the block.
<1>8. ASSUME Appended
      PROVE  /\ disk.download[g] # None /\ disk.digest[g] = src[g] /\ disk'.digest[g] = src[g]
             /\ disk'.download[g] = WriteAll(disk.download[g], m)
             /\ write_job.num = g /\ write_job.stream = g
             /\ \A f \in Files : f # g => disk'.download[f] = disk.download[f]
                             /\ disk'.digest[f] = disk.digest[f]
             /\ disk.download[g].len = 0 \/ disk.download[g].ver = src[g]
  <2>1. /\ disk.download[g] # None /\ disk.digest[g] = src[g] /\ disk'.digest[g] = src[g]
        /\ disk'.download[g] = WriteAll(disk.download[g], m)
        /\ write_job.num = g /\ write_job.stream = g
        /\ \A f \in Files : f # g => disk'.download[f] = disk.download[f]
                        /\ disk'.digest[f] = disk.digest[f]
    BY <1>8, <1>g, <1>2 DEF Appended
  <2> QED BY <2>1, <1>0, <1>2, <1>5 DEF DigestTells
<1>9. ASSUME Shelved \/ LeftOver, NEW f \in Files, f # g, disk'.download[f] # None
      PROVE  disk'.download[f] = disk.download[f] /\ disk'.digest[f] \in {None, disk.digest[f]}
  BY <1>9, <1>g DEF Shelved, LeftOver
<1>10. ASSUME NEW c, Begun(c)
       PROVE  (Shelved \/ LeftOver) /\ disk'.download[g] = c /\ disk'.digest[g] = src[g]
  BY <1>10, <1>g DEF Begun
<1>w. ASSUME NEW c \in FC!Content
      PROVE  /\ m.idx = 0 => WriteAll(c, m) = c
             /\ m.idx # 0 => /\ WriteAll(c, m).ver = m.ver
                             /\ WriteAll(c, m).len = c.len + 1
                             /\ WriteAll(c, m).ok <=>
                                  c.ok /\ m.idx = c.len + 1 /\ (c.len = 0 \/ c.ver = m.ver)
  BY <1>2, WriteAllIs
<1>l. Lost => g \in suspect'
  BY <1>g DEF Lost
<1>11. Sound'
  <2> SUFFICES ASSUME NEW f \in Files, f \notin suspect', disk'.download[f] # None
               PROVE  /\ disk'.download[f].ok
                      /\ disk'.download[f].len <= Blocks[f]
                      /\ disk'.download[f].len > 0 => disk'.download[f].ver > 0
    BY DEF Sound
  <2>1. CASE f # g
    <3>1. disk'.download[f] = disk.download[f]
      BY <2>1, <1>8, <1>9, <1>10 DEF Wrote, Lost
    <3> QED BY <3>1, <1>0, <1>2 DEF Sound
  <2>2. CASE f = g
    <3>1. /\ g \notin suspect /\ Held(g) \in Nat /\ Held(g) <= Blocks[g] /\ Blocks[g] \in Nat
          /\ Key(m) = Held(g) + 1
          /\ Appended \/ Begun(WriteAll(FC!Empty, m))
          /\ disk'.download[g].len = IF m.idx = 0 THEN Held(g) ELSE Held(g) + 1
      BY <2>2, <1>0, <1>g, WroteNext
    <3>2. m.idx # 0 => m.idx = Held(g) + 1 /\ m.idx <= Blocks[g]
      <4>1. m.idx <= Blocks[g]
        BY <1>g, WroteAmong
      <4> QED BY <4>1, <3>1 DEF Key
    <3>3. disk'.download[g].len <= Blocks[g]
      BY <3>1, <3>2
    <3>4. CASE Appended
      <4>1. disk.download[g].ok /\ (disk.download[g].len > 0 => disk.download[g].ver > 0)
        BY <3>1, <3>4, <1>0, <1>2, <1>8 DEF Sound
      <4>2. Held(g) = disk.download[g].len
        BY <3>4, <1>8 DEF Held
      <4>3. disk.download[g] \in FC!Content
        BY <3>4, <1>2, <1>6, <1>8
      <4>4. disk'.download[g].ok
        BY <4>1, <4>2, <4>3, <3>2, <3>4, <1>2, <1>8, <1>w
      <4>5. disk'.download[g].len > 0 => disk'.download[g].ver > 0
        BY <4>1, <4>3, <3>4, <1>2, <1>5, <1>8, <1>w
      <4> QED BY <4>4, <4>5, <3>3, <2>2
    <3>5. CASE Begun(WriteAll(FC!Empty, m)) /\ ~Appended
      <4>1. disk'.download[g] = WriteAll(FC!Empty, m)
        BY <3>5, <1>10
      <4>2. m.idx # 0 => m.idx = 1
        <5>1. (m.idx = 0 => WriteAll(FC!Empty, m).len = 0) /\ (m.idx # 0 => WriteAll(FC!Empty,
                        m).len = 1)
          BY <1>7, <1>w
        <5> QED BY <5>1, <4>1, <3>1, <3>2
      <4>3. disk'.download[g].ok
        BY <4>1, <4>2, <1>7, <1>w
      <4>4. disk'.download[g].len > 0 => disk'.download[g].ver > 0
        BY <4>1, <1>2, <1>5, <1>7, <1>w
      <4> QED BY <4>3, <4>4, <3>3, <2>2
    <3> QED BY <3>1, <3>4, <3>5
  <2> QED BY <2>1, <2>2
<1>12. DigestTells'
  <2> SUFFICES ASSUME NEW f \in Files, disk'.digest[f] # None, disk'.download[f] # None
               PROVE  disk'.download[f].len = 0 \/ disk'.download[f].ver = disk'.digest[f]
    BY DEF DigestTells
  <2>0. disk.digest[f] # None /\ disk.download[f] # None
            => disk.download[f].len = 0 \/ disk.download[f].ver = disk.digest[f]
    BY <1>0 DEF DigestTells
  <2>1. CASE Appended
    <3>1. CASE f # g
      BY <2>0, <2>1, <3>1, <1>8
    <3>2. CASE f = g
      <4>1. disk.download[g] \in FC!Content
        BY <2>1, <1>2, <1>6, <1>8
      <4> QED BY <4>1, <3>2, <2>0, <2>1, <1>2, <1>8, <1>w
    <3> QED BY <3>1, <3>2
  <2>2. CASE Begun(WriteAll(FC!Empty, m))
    <3>1. CASE f # g
      BY <2>0, <2>2, <3>1, <1>9, <1>10
    <3>2. CASE f = g
      BY <3>2, <2>2, <1>2, <1>7, <1>10, <1>w
    <3> QED BY <3>1, <3>2
  <2>3. CASE Lost /\ Begun(FC!Empty)
    <3>1. CASE f # g
      BY <2>0, <2>3, <3>1, <1>9, <1>10
    <3>2. CASE f = g
      BY <3>2, <2>3, <1>7, <1>10
    <3> QED BY <3>1, <3>2
  <2>4. CASE Lost /\ ~Begun(FC!Empty)
    <3>1. CASE f # g
      <4>1. disk'.download[f] = disk.download[f] /\ disk'.digest[f] \in {None, disk.digest[f]}
        BY <2>4, <3>1, <1>9 DEF Lost
      <4> QED BY <4>1, <2>0
    <3>2. CASE f = g
      <4>1. disk'.download[f] = disk.download[f] /\ disk'.digest[f] = disk.digest[f]
        BY <2>4, <3>2, <1>g DEF Lost
      <4> QED BY <4>1, <2>0
    <3> QED BY <3>1, <3>2
  <2> QED BY <2>1, <2>2, <2>3, <2>4 DEF Wrote
<1>13. DoneMeansDelivered'
  BY <1>2, <1>3 DEF DoneMeansDelivered
<1> QED BY <1>4, <1>11, <1>12, <1>13 DEF Disk

\* A step after which the writer has no job, and that gives names only to
\* files that are whole or suspect.
LEMMA EndedDisk ==
    ASSUME Disk, write_job' = None, UNCHANGED saved, suspect \subseteq suspect',
           \A f \in Files : disk'.final[f] = disk.final[f] \/ f \in suspect' \/ FC!Whole(f,
                           disk'.final[f]),
           \A f \in Files : disk'.download[f] \in {None, FC!Empty, disk.download[f]},
           \A f \in Files : disk'.download[f] # None /\ disk'.download[f] = disk.download[f] =>
                disk'.digest[f] \in {None, disk.digest[f]},
           DoneMeansDelivered'
    PROVE  Disk'
<1>0. Keeps /\ Sound /\ DigestTells
  BY DEF Disk
<1>1. Keeps'
  BY <1>0 DEF Keeps, Kept
<1>2. FC!Empty.len = 0 /\ FC!Empty.ok
  BY ContentIs
<1>3. \A f \in Files : Blocks[f] \in Nat
  BY BlocksAre
<1>4. Sound'
  <2> SUFFICES ASSUME NEW f \in Files, f \notin suspect', disk'.download[f] # None
               PROVE  /\ disk'.download[f].ok
                      /\ disk'.download[f].len <= Blocks[f]
                      /\ disk'.download[f].len > 0 => disk'.download[f].ver > 0
    BY DEF Sound
  <2>1. CASE disk'.download[f] = FC!Empty
    <3>1. Blocks[f] \in Nat /\ Blocks[f] >= 0
      BY <1>3
    <3> QED BY <2>1, <3>1, <1>2
  <2>2. CASE disk'.download[f] = disk.download[f]
    BY <2>2, <1>0 DEF Sound
  <2> QED BY <2>1, <2>2
<1>5. DigestTells'
  <2> SUFFICES ASSUME NEW f \in Files, disk'.digest[f] # None, disk'.download[f] # None
               PROVE  disk'.download[f].len = 0 \/ disk'.download[f].ver = disk'.digest[f]
    BY DEF DigestTells
  <2>1. CASE disk'.download[f] = FC!Empty
    BY <2>1, <1>2
  <2>2. CASE disk'.download[f] = disk.download[f]
    BY <2>2, <1>0 DEF DigestTells
  <2> QED BY <2>1, <2>2
<1> QED BY <1>1, <1>4, <1>5 DEF Disk

\* FileTransferDone: all files are there.
LEMMA DoneDisk ==
    ASSUME TypeOK, Protocol, Writer, Disk, HandleDone
    PROVE  Disk' /\ Installed /\ disk' \in DiskType
<1>0. Keeps /\ Sound /\ Behind /\ Reached /\ Ended /\ Progress
  BY DEF Disk, Writer, Protocol
<1> DEFINE w == write_job
<1>1. /\ toReceiver # <<>> /\ Head(toReceiver).kind = "done" /\ ForJob(Head(toReceiver))
      /\ write_job' = None /\ toReceiver' = Tail(toReceiver)
      /\ UNCHANGED <<saved, skips>>
      /\ \/ disk' = ModifyTime(disk, w) /\ UNCHANGED suspect
         \/ disk' = NotRenamed(disk, w) /\ RenameFails(w)
  BY DEF HandleDone
<1>2. Head(toReceiver) = toReceiver[1] /\ 1 \in DOMAIN toReceiver
  BY <1>1, TakenRIs DEF TakenR
<1>3. toReceiver[1].kind = "done" /\ JobIs(toReceiver[1].id) /\ w # None
  BY <1>1, <1>2 DEF ForJob, JobIs
<1>4. w \in TransferJob /\ w.num \in Nat /\ disk \in DiskType
  BY <1>3, TypeFacts
<1>5. ASSUME disk' = ModifyTime(disk, w) PROVE Renamed(disk, w, disk')
  BY <1>4, <1>5, ModifyTimeIs
<1>n. ASSUME disk' = NotRenamed(disk, w)
      PROVE  /\ disk' \in DiskType /\ disk'.final = disk.final /\ disk'.download = disk.download
             /\ \A f \in Files :
                disk'.digest[f] = IF w.listed /\ f = w.num THEN None ELSE disk.digest[f]
  BY <1>4, <1>n, NotRenamedIs
<1>s. suspect \subseteq suspect' /\ (RenameFails(w) => w.num \in suspect')
  BY <1>1 DEF RenameFails
<1>6. /\ disk' \in DiskType
      /\ \A f \in Files :
        IF w.listed /\ f = w.num
        THEN /\ disk'.digest[f] = None /\ disk'.download[f] \in {None, disk.download[f]}
             /\ \/ disk'.final[f] = IF disk.download[f] = None THEN disk.final[f]
                                    ELSE disk.download[f]
                \/ f \in suspect' /\ disk'.final[f] = disk.final[f]
        ELSE /\ disk'.digest[f] = disk.digest[f] /\ disk'.download[f] = disk.download[f]
             /\ disk'.final[f] = disk.final[f]
  <2>1. CASE disk' = ModifyTime(disk, w)
    BY <2>1, <1>5 DEF Renamed
  <2>2. CASE disk' = NotRenamed(disk, w) /\ RenameFails(w)
    BY <2>2, <1>n, <1>s
  <2> QED BY <1>1, <2>1, <2>2
<1>7. \A p \in DOMAIN toReceiver : ~BlockAt(p)
  <2> SUFFICES ASSUME NEW p \in DOMAIN toReceiver, BlockAt(p) PROVE FALSE
    OBVIOUS
  <2>1. toReceiver[p].kind = "block" /\ toReceiver[p].id = toReceiver[1].id
    BY <1>3 DEF BlockAt, JobIs
  <2>2. p # 1 /\ p \in Nat /\ p >= 1
    BY <2>1, <1>3, TypeFacts
  <2>3. p > 1
    BY <2>2
  <2> QED BY <2>1, <2>3, <1>0, <1>2, <1>3 DEF Ended
<1>8. Clear(N)
  <2>1. Clear(N) \/ ErrorBefore(1)
    BY <1>0, <1>2, <1>3 DEF Reached
  <2>2. ~ErrorBefore(1)
    <3>1. \A p \in DOMAIN toReceiver : ~(p < 1)
      BY TypeFacts
    <3> QED BY <3>1 DEF ErrorBefore
  <2> QED BY <2>1, <2>2
<1>9. ASSUME NEW f \in Files, w.num <= f, f \notin suspect, f \notin skips
      PROVE  /\ f = w.num /\ w.listed /\ disk.download[f] # None /\ FC!Whole(f, disk.download[f])
  <2>1. f < N
    BY FilesAre
  <2> HIDE DEF w
  <2>2. write_job # None /\ write_job.num <= f
    BY <1>3, <1>9 DEF w
  <2> QED BY <2>1, <2>2, <1>0, <1>7, <1>8, <1>9, Passed DEF w
<1>10. ASSUME NEW f \in Files PROVE f \in skips \/ f \in suspect' \/ FC!Whole(f, disk'.final[f])
  <2>1. CASE f < w.num
    <3>1. f \in skips \/ f \in suspect \/ FC!Whole(f, disk.final[f])
      BY <2>1, <1>0, <1>3 DEF Keeps, Kept
    <3>2. f # w.num
      BY <2>1, <1>4, FilesAre
    <3> QED BY <3>1, <3>2, <1>6, <1>s
  <2>2. CASE ~(f < w.num)
    <3>1. w.num <= f
      BY <2>2, <1>4, FilesAre
    <3> QED BY <3>1, <1>6, <1>9, <1>s
  <2> QED BY <2>1, <2>2
<1>11. w.num \notin skips
  BY <1>0, <1>3 DEF Behind
<1>12. ASSUME NEW f \in Files
       PROVE  disk'.final[f] = disk.final[f] \/ f \in suspect' \/ FC!Whole(f, disk'.final[f])
  <2>1. disk'.final[f] = disk.final[f] \/ f = w.num
    BY <1>6
  <2> QED BY <2>1, <1>1, <1>10, <1>11
<1>13. DoneMeansDelivered'
  BY <1>1, <1>10 DEF DoneMeansDelivered
<1>14. \A f \in Files : disk'.download[f] \in {None, FC!Empty, disk.download[f]}
  BY <1>6
<1>15. \A f \in Files : disk'.digest[f] \in {None, disk.digest[f]}
  BY <1>6
<1>16. Disk'
  BY <1>1, <1>s, <1>12, <1>13, <1>14, <1>15, EndedDisk
<1>17. Installed
  <2>1. CASE w.num \in Files
    <3>1. \A h \in Files : h # w.num => disk'.final[h] = disk.final[h]
      BY <1>6
    <3>2. CASE disk'.final[w.num] = disk.final[w.num]
      BY <3>1, <3>2, <1>s DEF Installed
    <3>3. CASE disk'.final[w.num] # disk.final[w.num]
      BY <2>1, <3>1, <3>3, <1>s, <1>11, <1>12 DEF Installed
    <3> QED BY <3>2, <3>3
  <2>2. CASE w.num \notin Files
    <3>1. \A f \in Files : disk'.final[f] = disk.final[f]
      BY <2>2, <1>6
    <3> QED BY <3>1, <1>s DEF Installed
  <2> QED BY <2>1, <2>2
<1> QED BY <1>6, <1>16, <1>17

\* The client is killed before it renames the writer's file.
LEMMA KilledUnrenamed ==
    ASSUME TypeOK, Protocol, Disk, KillInWrite, disk' = NotRenamed(disk, write_job)
    PROVE  Disk' /\ Installed /\ disk' \in DiskType
<1>1. /\ toReceiver # <<>> /\ ForJob(Head(toReceiver))
      /\ write_job' = None /\ done' = FALSE /\ UNCHANGED <<saved, skips, suspect>>
  BY DEF KillInWrite, Cut
<1>2. write_job \in TransferJob /\ disk \in DiskType
  BY <1>1, TypeFacts DEF ForJob
<1>3. /\ disk' \in DiskType /\ disk'.final = disk.final /\ disk'.download = disk.download
      /\ \A f \in Files : disk'.digest[f] \in {None, disk.digest[f]}
  BY <1>2, NotRenamedIs
<1>4. DoneMeansDelivered'
  BY <1>1 DEF DoneMeansDelivered
<1>5. Disk'
  BY <1>1, <1>3, <1>4, EndedDisk
<1> QED BY <1>1, <1>3, <1>5 DEF Installed

\* The client is killed while it prepares the file of a block.
LEMMA KilledDisk ==
    ASSUME TypeOK, Protocol, Writer, Disk, KillInWrite, disk' # NotRenamed(disk, write_job)
    PROVE  Disk' /\ Installed /\ disk' \in DiskType
<1>g. PICK g : g = toReceiver[1].num
  OBVIOUS
<1>0. Keeps /\ Sound /\ Behind /\ Reached /\ Wire
  BY DEF Disk, Writer, Protocol
<1>1. /\ toReceiver # <<>> /\ Head(toReceiver).kind = "block" /\ ForJob(Head(toReceiver))
      /\ write_job.listed /\ Moves(write_job, Head(toReceiver))
      /\ write_job' = None /\ done' = FALSE /\ UNCHANGED <<saved, skips, suspect>>
  BY DEF KillInWrite, Cut
<1>2. /\ Head(toReceiver) = toReceiver[1] /\ 1 \in DOMAIN toReceiver /\ BlockAt(1)
      /\ AtBlock /\ g >= write_job.num /\ write_job.num \in Files
  BY <1>1, <1>g, BlockAtHead
<1>3. g \in Files /\ write_job # None /\ JobIs(toReceiver[1].id) /\ toReceiver[1].kind = "block"
  BY <1>2, <1>g DEF AtBlock
<1>4. PICK d \in DiskType : d = ModifyTime(disk, write_job)
  BY <1>2, ShelvedIs
<1>5. /\ \A f \in Files :
        /\ d.final[f] = IF f = write_job.num /\ disk.download[f] # None
                        THEN disk.download[f] ELSE disk.final[f]
        /\ IF f = write_job.num THEN d.download[f] = None /\ d.digest[f] = None
           ELSE d.download[f] = disk.download[f] /\ d.digest[f] = disk.digest[f]
  BY <1>2, <1>4, ShelvedIs
<1>6. disk' \in {d, WithDigest(d, g, None), WithDownload(WithDigest(d, g, None), g, FC!Empty)}
  <2>1. disk' \in {d, [d EXCEPT !.digest[g] = None],
                   [d EXCEPT !.digest[g] = None, !.download[g] = FC!Empty]}
    BY <1>2, <1>4, <1>g DEF KillInWrite
  <2>2. [d EXCEPT !.digest[g] = None] = WithDigest(d, g, None)
    BY DEF WithDigest
  <2>3. [d EXCEPT !.digest[g] = None, !.download[g] = FC!Empty]
            = WithDownload(WithDigest(d, g, None), g, FC!Empty)
    BY <1>3 DEF DiskType, WithDigest, WithDownload
  <2> QED BY <2>1, <2>2, <2>3
<1> DEFINE Left(e) == /\ e \in DiskType
                      /\ \A f \in Files : e.final[f] = d.final[f]
                      /\ \A f \in Files : f # g => e.download[f] = d.download[f]
                                      /\ e.digest[f] = d.digest[f]
                      /\ e.download[g] \in {FC!Empty, d.download[g]} /\ e.digest[g] \in {None,
                                      d.digest[g]}
<1>7. Left(d)
  OBVIOUS
<1>8. PICK e \in DiskType : e = WithDigest(d, g, None) /\ Left(e)
  <2>1. PICK v \in Digest : v = None
    BY DEF Digest
  <2>2. /\ WithDigest(d, g, v) \in DiskType
        /\ WithDigest(d, g, v).download = d.download
        /\ WithDigest(d, g, v).final = d.final
        /\ WithDigest(d, g, v).digest = [d.digest EXCEPT ![g] = v]
    BY <1>3, PutDigest
  <2>3. d.digest \in [Files -> Nat \cup {None}]
    BY DEF DiskType
  <2>4. PICK e : e = WithDigest(d, g, v)
    OBVIOUS
  <2>5. e \in DiskType /\ e.download = d.download /\ e.final = d.final
                  /\ e.digest = [d.digest EXCEPT ![g] = v]
    BY <2>2, <2>4
  <2>6. e.digest[g] = None /\ \A f \in Files : f # g => e.digest[f] = d.digest[f]
    BY <2>1, <2>3, <2>5, <1>3
  <2>7. Left(e)
    BY <2>5, <2>6
  <2> HIDE DEF Left
  <2> QED BY <2>1, <2>4, <2>5, <2>7
<1>9. Left(WithDownload(e, g, FC!Empty))
  <2>1. FC!Empty \in ContentOrNone
    BY ContentIs DEF ContentOrNone
  <2>2. /\ WithDownload(e, g, FC!Empty) \in DiskType
        /\ WithDownload(e, g, FC!Empty).digest = e.digest
        /\ WithDownload(e, g, FC!Empty).final = e.final
        /\ WithDownload(e, g, FC!Empty).download = [e.download EXCEPT ![g] = FC!Empty]
    BY <2>1, <1>3, PutDownload
  <2>3. e.download \in [Files -> ContentOrNone]
    BY DEF DiskType
  <2>4. PICK h : h = WithDownload(e, g, FC!Empty)
    OBVIOUS
  <2>5. h \in DiskType /\ h.digest = e.digest /\ h.final = e.final
                  /\ h.download = [e.download EXCEPT ![g] = FC!Empty]
    BY <2>2, <2>4
  <2>6. h.download[g] = FC!Empty /\ \A f \in Files : f # g => h.download[f] = e.download[f]
    BY <2>3, <2>5, <1>3
  <2>7. Left(h)
    BY <2>5, <2>6, <1>8
  <2> HIDE DEF Left
  <2> QED BY <2>4, <2>7
<1>10. Left(disk')
  <2> HIDE DEF Left
  <2> QED BY <1>6, <1>7, <1>8, <1>9
<1>11. \A p \in DOMAIN toReceiver : BlockAt(p) => toReceiver[p].num = g
  <2> SUFFICES ASSUME NEW p \in DOMAIN toReceiver, BlockAt(p) PROVE toReceiver[p].num = g
    OBVIOUS
  <2>1. toReceiver[p].id = toReceiver[1].id /\ toReceiver[p].kind = "block"
    BY <1>3 DEF JobIs, BlockAt
  <2> QED BY <2>1, <1>0, <1>2, <1>3, <1>g DEF Wire
<1>12. /\ \/ disk.download[write_job.num] = None \/ write_job.num \in suspect
          \/ FC!Whole(write_job.num, disk.download[write_job.num])
       /\ write_job.num \notin skips
  <2>1. Moves(write_job, toReceiver[1])
    BY <1>1, <1>2
  <2> QED BY <2>1, <1>0, <1>2, <1>11, <1>g, ShelvedSafe
<1>13. ASSUME NEW f \in Files
       PROVE  /\ disk'.download[f] \in {None, FC!Empty, disk.download[f]}
              /\ disk'.download[f] = disk.download[f] => disk'.digest[f] \in {None, disk.digest[f]}
              /\ f # write_job.num => disk'.final[f] = disk.final[f]
              /\ disk'.final[f] = disk.final[f] \/ f \in suspect \/ FC!Whole(f, disk'.final[f])
  BY <1>5, <1>10, <1>12
<1>14. disk' \in DiskType
  BY <1>10
<1> HIDE DEF Left
<1>15. DoneMeansDelivered'
  BY <1>1 DEF DoneMeansDelivered
<1>16. Disk'
  BY <1>1, <1>13, <1>15, EndedDisk
<1>17. Installed
  <2>1. CASE disk'.final[write_job.num] = disk.final[write_job.num]
    BY <2>1, <1>1, <1>13 DEF Installed
  <2>2. CASE disk'.final[write_job.num] # disk.final[write_job.num]
    BY <2>2, <1>1, <1>2, <1>12, <1>13 DEF Installed
  <2> QED BY <2>1, <2>2
<1> QED BY <1>14, <1>16, <1>17

\* Data::CancelJob removes what was downloaded.
LEMMA CancellingDisk ==
    ASSUME TypeOK, Disk, Cancelling
    PROVE  Disk' /\ Installed
<1>1. /\ disk' = RemoveDownloadFile(disk, write_job) /\ write_job \in TransferJob
                /\ disk \in DiskType
      /\ write_job' = None /\ done = FALSE /\ UNCHANGED <<saved, skips, suspect, done>>
  BY TypeFacts DEF Cancelling, history
<1>2. \A f \in Files :
        /\ disk'.final[f] = disk.final[f]
        /\ \/ disk'.download[f] = None
           \/ disk'.download[f] = disk.download[f] /\ disk'.digest[f] = disk.digest[f]
  BY <1>1, RemoveDownloadFileIs
<1>3. DoneMeansDelivered'
  BY <1>1 DEF DoneMeansDelivered
<1>4. \A f \in Files : disk'.download[f] \in {None, FC!Empty, disk.download[f]}
  BY <1>2
<1>5. \A f \in Files : disk'.download[f] # None /\ disk'.download[f] = disk.download[f] =>
            disk'.digest[f] \in {None, disk.digest[f]}
  BY <1>2
<1>6. \A f \in Files : disk'.final[f] = disk.final[f] \/ f \in suspect' \/ FC!Whole(f,
                disk'.final[f])
  BY <1>2
<1>7. Disk'
  BY <1>1, <1>3, <1>4, <1>5, <1>6, EndedDisk
<1> QED BY <1>1, <1>2, <1>7 DEF Installed

-----------------------------------------------------------------------------
(***************************************************************************)
(* The actions, the invariant and the theorems.                            *)
(***************************************************************************)

\* Every step is a step of FileCopy or leaves its variables alone.
Copied ==
    /\ suspect \subseteq suspect'
    /\ UNCHANGED disk \/ (Installed /\ UNCHANGED skips)

\* The invariant is its four groups.
LEMMA InvIs ==
    Inv <=> TypeOK /\ Protocol /\ Writer /\ Disk
BY DEF Inv, Protocol, Writer, Disk

\* The invariant holds at the start.
LEMMA InvInit ==
    ASSUME Init
    PROVE  Inv
<1>1. /\ connected = FALSE /\ read_jobs = <<>> /\ write_job = None /\ toReceiver = <<>>
      /\ toSender = <<>> /\ src = [f \in Files |-> 1] /\ saved = None /\ ask = None
      /\ jobs = 0 /\ faults = 0 /\ skips = {} /\ suspect = {} /\ failed = {} /\ done = FALSE
  BY DEF Init
<1>2. PICK old \in [Files -> {None, FC!Old}] :
        disk = [final |-> old, download |-> [f \in Files |-> None],
                        digest |-> [f \in Files |-> None]]
  BY DEF Init
<1>3. FC!Old \in FC!Content
  BY DEF FC!Old, FC!Content
<1>4. disk \in DiskType /\ \A f \in Files : disk.download[f] = None
  BY <1>2, <1>3 DEF DiskType, ContentOrNone
<1>5. src \in [Files -> 1 .. MaxVersion] /\ jobs \in 0 .. MaxJobs /\ faults \in 0 .. MaxFaults
  BY <1>1, BoundsAssumption
<1>6. TypeOK
  <2>1. /\ read_jobs \in Seq(TransferJob) /\ toReceiver \in Seq(Response)
                  /\ toSender \in Seq(FileAction)
    BY <1>1
  <2> QED BY <2>1, <1>1, <1>4, <1>5 DEF TypeOK, DiskType, ContentOrNone
<1>7. DOMAIN read_jobs = {} /\ DOMAIN toReceiver = {} /\ DOMAIN toSender = {}
  BY <1>1
<1>8. Protocol
  <2>1. Ids /\ Fresh /\ Question
    BY <1>1, <1>7 DEF Ids, Fresh, Question
  <2>2. OneQuestion /\ Wire /\ Ended
    BY <1>1, <1>7 DEF OneQuestion, Wire, Ended
  <2> QED BY <2>1, <2>2 DEF Protocol
<1>9. Writer
  <2>1. Agreed /\ Progress /\ Behind /\ Stream
    BY <1>1 DEF Agreed, Progress, Behind, Stream
  <2>2. Parts /\ Reached
    BY <1>1 DEF Parts, Reached
  <2>3. InOrder /\ Top
    BY <1>7 DEF InOrder, Top
  <2> QED BY <2>1, <2>2, <2>3 DEF Writer
<1>10. Disk
  BY <1>1, <1>4 DEF Disk, Keeps, Sound, DigestTells, DoneMeansDelivered
<1> QED BY <1>6, <1>8, <1>9, <1>10, InvIs

-----------------------------------------------------------------------------
\* The reading side leaves the directory alone.
LEMMA SenderStep ==
    ASSUME Inv, Sender
    PROVE  Inv' /\ Copied
<1>0. TypeOK /\ Protocol /\ Writer /\ Disk /\ Sound
  BY InvIs DEF Disk
<1>1. Ids /\ Fresh /\ Question /\ OneQuestion /\ Wire /\ Ended
  BY <1>0 DEF Protocol
<1>2. CASE FileTimer
  <2>1. Ticking /\ failed' \in SUBSET (1 .. MaxJobs) /\ faults' \in 0 .. MaxFaults
    <3>1. Tick /\ failed' \in SUBSET (1 .. MaxJobs) /\ faults' \in 0 .. MaxFaults
      BY <1>0, <1>1, <1>2, TimerStep
    <3>2. connected /\ UNCHANGED <<connected, write_job, ask, toSender, src, disk, saved, jobs,
                   skips, suspect, done>>
      BY <1>2 DEF FileTimer
    <3> QED BY <3>1, <3>2 DEF Ticking
  <2>2. TypeOK' /\ Protocol' /\ Writer'
    BY <2>1, <1>0, TickingType, TickingProtocol, TickingWriter
  <2>3. UNCHANGED <<disk, saved, write_job, skips, suspect, done>>
    BY <2>1 DEF Ticking
  <2>4. Disk'
    BY <2>3, <1>0, StillDisk
  <2> QED BY <2>2, <2>3, <2>4, InvIs DEF Inv, Protocol, Writer, Disk, Copied
<1>3. CASE HandleSend
  <2>1. Sending
    BY <1>0, <1>3, SendStep
  <2>2. TypeOK' /\ Protocol' /\ Writer'
    BY <2>1, <1>0, SendingType, SendingProtocol, SendingWriter
  <2>3. UNCHANGED <<disk, saved, write_job, skips, suspect, done>>
    BY <2>1 DEF Sending, history
  <2>4. Disk'
    BY <2>3, <1>0, StillDisk
  <2> QED BY <2>2, <2>3, <2>4 DEF Inv, Protocol, Writer, Disk, Copied
<1>4. CASE HandleConfirm
  <2>1. Confirming
    BY <1>0, <1>1, <1>4, ConfirmStep
  <2>2. TypeOK' /\ Protocol' /\ Writer'
    BY <2>1, <1>0, ConfirmingType, ConfirmingProtocol, ConfirmingWriter
  <2>3. UNCHANGED <<disk, saved, write_job, skips, done>> /\ suspect \subseteq suspect'
    BY <2>1 DEF Confirming
  <2>4. Disk'
    BY <2>3, <1>0, StillDisk
  <2> QED BY <2>2, <2>3, <2>4 DEF Inv, Protocol, Writer, Disk, Copied
<1>5. CASE HandleCancel
  <2>1. Thinned /\ failed' \in SUBSET (1 .. MaxJobs)
    BY <1>0, <1>5, CancelStep
  <2>2. TypeOK' /\ Protocol' /\ Writer'
    BY <2>1, <1>0, ThinnedType, ThinnedProtocol, ThinnedWriter
  <2>3. UNCHANGED <<disk, saved, write_job, skips, suspect, done>>
    BY <1>5 DEF HandleCancel
  <2>4. Disk'
    BY <2>3, <1>0, StillDisk
  <2> QED BY <2>2, <2>3, <2>4 DEF Inv, Protocol, Writer, Disk, Copied
<1> QED BY <1>2, <1>3, <1>4, <1>5 DEF Sender

\* The writer's messages and the user's answer that leave the directory alone.
LEMMA QuestionStep ==
    ASSUME Inv, HandleDigest \/ HandleDigestFails \/ SetConfirmOverrideFile
    PROVE  Inv' /\ Copied
<1>0. TypeOK /\ Protocol /\ Writer /\ Disk /\ Ids
  BY InvIs DEF Protocol
<1>1. Asking \/ Answering
  BY DigestStep, DigestFailsStep, AnswerStep
<1>2. CASE Asking
  <2>1. TypeOK' /\ Protocol' /\ Writer'
    BY <1>0, <1>2, AskingType, AskingProtocol, AskingWriter
  <2>2. PICK f \in Files :
        /\ write_job \in TransferJob /\ write_job # None
        /\ write_job' = [write_job EXCEPT !.digest = src[f]]
        /\ UNCHANGED <<disk, saved, skips, suspect, done>>
    BY <1>2 DEF Asking, OnQuestion
  <2>3. write_job'.num = write_job.num
    BY <2>2 DEF TransferJob
  <2>4. Disk'
    BY <2>2, <2>3, <1>0, StillDisk
  <2> QED BY <2>1, <2>2, <2>4 DEF Inv, Protocol, Writer, Disk, Copied
<1>3. CASE Answering
  <2>1. TypeOK' /\ Protocol' /\ Writer'
    BY <1>0, <1>3, AnsweringType, AnsweringProtocol, AnsweringWriter
  <2>2. PICK f \in Files : \E c \in FileAction : AnswerTo(f, c)
    BY <1>3 DEF Answering
  <2>3. PICK c \in FileAction : AnswerTo(f, c)
    BY <2>2
  <2>4. /\ write_job # None /\ UNCHANGED <<disk, saved, done>> /\ suspect \subseteq suspect'
        /\ f >= write_job.num /\ write_job \in TransferJob
        /\ skips' = IF c.skip THEN skips \cup {f} ELSE skips \ {f}
        /\ Placed(f, c)
    BY <2>3 DEF AnswerTo, OnQuestion
  <2>5. ~done
    BY <2>4, <1>0 DEF Ids
  <2>6. f \in Nat /\ write_job.num \in Nat /\ \A h \in Files : h \in Nat
    BY <2>4, FilesAre DEF TransferJob
  <2>7. \/ c.skip /\ write_job.num = f /\ write_job'.num = f + 1
        \/ write_job'.num = write_job.num
    BY <2>4 DEF Placed
  <2>8. /\ \A h \in Files : h < write_job'.num => h < write_job.num \/ h \in skips'
        /\ \A h \in Files : h < write_job'.num /\ h \in skips => h \in skips'
    BY <2>4, <2>6, <2>7
  <2>9. Disk'
    BY <2>4, <2>5, <2>8, <1>0, StillDisk
  <2> QED BY <2>1, <2>4, <2>9 DEF Inv, Protocol, Writer, Disk, Copied
<1> QED BY <1>1, <1>2, <1>3

\* The responses that are no questions.
LEMMA ReceiptStep ==
    ASSUME Inv, Receipt
    PROVE  Inv' /\ Copied
<1>0. TypeOK /\ Protocol /\ Writer /\ Disk /\ Sound /\ Ids /\ Ended
  BY InvIs DEF Disk, Protocol
<1>1. Protocol'
  BY <1>0, ReceivedStep, ReceivedProtocol
<1>2. CASE HandleDir \/ IgnoreResponse
  <2>1. Thinned /\ failed' \in SUBSET (1 .. MaxJobs)
    BY <1>0, <1>2, DirStep
  <2>2. TypeOK' /\ Writer'
    BY <2>1, <1>0, ThinnedType, ThinnedWriter
  <2>3. UNCHANGED <<disk, saved, skips, suspect, done>>
    BY <2>1 DEF Thinned
  <2>4. write_job' = None \/ (write_job # None /\ write_job'.num = write_job.num)
    BY <2>1 DEF Thinned
  <2>5. Disk'
    BY <2>3, <2>4, <1>0, StillDisk
  <2> QED BY <2>2, <2>3, <2>5, <1>1 DEF Inv, Protocol, Writer, Disk, Copied
<1>3. CASE HandleBlock \/ HandleBlockFails
  <2>1. Wrote
    BY <1>0, <1>3, WriteStep, WriteFailsStep
  <2>2. TypeOK' /\ Writer' /\ Disk'
    BY <2>1, <1>0, WroteType, WroteWriter, WroteDisk
  <2>3. Installed
    BY <2>1, <1>0, WroteInstalls
  <2>4. UNCHANGED skips /\ suspect \subseteq suspect'
    BY <2>1 DEF Wrote
  <2> QED BY <2>2, <2>3, <2>4, <1>1 DEF Inv, Protocol, Writer, Disk, Copied
<1>4. CASE HandleDone
  <2>1. Disk' /\ Installed /\ disk' \in DiskType
    BY <1>0, <1>4, DoneDisk
  <2>2. /\ write_job' = None /\ done' = TRUE /\ toReceiver # <<>> /\ toReceiver' = Tail(toReceiver)
        /\ UNCHANGED <<connected, read_jobs, ask, toSender, src, saved, jobs, skips, failed>>
        /\ UNCHANGED <<faults, suspect>> \/ RenameFails(write_job)
    BY <1>4 DEF HandleDone
  <2>3. Writer'
    BY <2>2, NoWriter
  <2>4. toReceiver' \in Seq(Response)
    BY <2>2, <1>0, TakenRIs DEF TakenR
  <2>5. TypeOK'
    <3>1. /\ connected \in BOOLEAN /\ read_jobs \in Seq(TransferJob)
          /\ toSender \in Seq(FileAction) /\ ask \in Files \cup {None}
          /\ src \in [Files -> 1 .. MaxVersion]
          /\ saved \in [num : Nat, skips : SUBSET Files] \cup {None}
          /\ jobs \in 0 .. MaxJobs /\ faults \in 0 .. MaxFaults
          /\ skips \in SUBSET Files /\ suspect \in SUBSET Files /\ failed \in SUBSET (1 .. MaxJobs)
      BY <1>0 DEF TypeOK
    <3>2. faults' \in 0 .. MaxFaults /\ suspect' \in SUBSET Files
      <4>1. write_job # None => write_job.num \in Nat
        BY <1>0, TypeFacts
      <4>2. write_job # None
        BY <1>4 DEF HandleDone, ForJob
      <4> QED BY <4>1, <4>2, <3>1, <2>2, BoundsAssumption, FilesAre DEF RenameFails
    <3> QED BY <3>1, <3>2, <2>1, <2>2, <2>4 DEF TypeOK, DiskType, ContentOrNone
  <2>6. suspect \subseteq suspect'
    BY <2>2 DEF RenameFails
  <2> QED BY <2>1, <2>2, <2>3, <2>5, <2>6, <1>1 DEF Inv, Protocol, Writer, Disk, Copied
<1>5. CASE HandleError
  <2>1. /\ write_job' = None /\ ask' = None /\ toReceiver # <<>> /\ toReceiver' = Tail(toReceiver)
        /\ UNCHANGED <<connected, read_jobs, toSender, src, disk, saved, jobs, faults,
                       skips, suspect, failed, done>>
    BY <1>5 DEF HandleError, history
  <2>2. Writer'
    BY <2>1, NoWriter
  <2>3. toReceiver' \in Seq(Response)
    BY <2>1, <1>0, TakenRIs DEF TakenR
  <2>4. TypeOK'
    BY <2>1, <2>3, <1>0 DEF TypeOK
  <2>5. Disk'
    BY <2>1, <1>0, StillDisk
  <2> QED BY <2>1, <2>2, <2>4, <2>5, <1>1 DEF Inv, Protocol, Writer, Disk, Copied
<1> QED BY <1>2, <1>3, <1>4, <1>5 DEF Receipt

\* The user starts, resumes or cancels a job.
LEMMA JobStep ==
    ASSUME Inv, StartJob \/ ResumeJob \/ CancelJob
    PROVE  Inv' /\ Copied
<1>0. TypeOK /\ Protocol /\ Writer /\ Disk /\ Ids /\ Fresh /\ Progress /\ Behind
  BY InvIs DEF Protocol, Writer
<1>1. CASE StartJob \/ ResumeJob
  <2>1. Opening
    BY <1>0, <1>1, StartStep, ResumeStep
  <2>2. TypeOK' /\ Protocol' /\ Writer'
    BY <2>1, <1>0, OpeningType, OpeningProtocol, OpeningWriter
  <2>3. PICK c \in FileAction : OpenedWith(c)
    BY <2>1 DEF Opening
  <2>4. /\ UNCHANGED <<disk, saved>> /\ suspect \subseteq suspect' /\ done' = FALSE
        /\ \/ write_job'.num = 0
           \/ write_job # None /\ skips' = skips /\ write_job'.num = write_job.num
    BY <2>3 DEF OpenedWith
  <2>5. Disk'
    BY <2>4, <1>0, StillDisk
  <2> QED BY <2>2, <2>4, <2>5 DEF Inv, Protocol, Writer, Disk, Copied
<1>2. CASE CancelJob
  <2>1. Cancelling
    BY <1>0, <1>2, CancelJobStep
  <2>2. TypeOK' /\ Protocol'
    BY <2>1, <1>0, CancellingType, CancellingProtocol
  <2>3. write_job' = None /\ UNCHANGED <<skips, suspect>>
    BY <2>1 DEF Cancelling, history
  <2>4. Writer'
    BY <2>3, NoWriter
  <2>5. Disk' /\ Installed
    BY <2>1, <1>0, CancellingDisk
  <2> QED BY <2>2, <2>3, <2>4, <2>5 DEF Inv, Protocol, Writer, Disk, Copied
<1> QED BY <1>1, <1>2

\* What the client saves of its job.
LEMMA DisconnectDisk ==
    ASSUME TypeOK, Progress, Disk, Disconnect
    PROVE  Disk' /\ saved' \in [num : Nat, skips : SUBSET Files] \cup {None}
<1>0. Keeps /\ Sound /\ DigestTells
  BY DEF Disk
<1> DEFINE sk == {f \in skips : f < write_job.num}
<1>1. /\ write_job' = None /\ done' = FALSE /\ UNCHANGED <<disk, suspect>>
      /\ write_job = None => saved' = None
      /\ write_job # None => saved' = [num |-> write_job.num, skips |-> sk]
  BY DEF Disconnect, Cut
<1>2. Sound' /\ DigestTells' /\ DoneMeansDelivered'
  BY <1>0, <1>1 DEF Sound, DigestTells, DoneMeansDelivered
<1>3. CASE write_job = None
  BY <1>1, <1>2, <1>3 DEF Keeps, Disk
<1>4. CASE write_job # None
  <2>1. write_job.num \in Nat /\ write_job.num <= N /\ sk \subseteq Files
    BY <1>4, TypeFacts DEF Progress, TypeOK
  <2>2. \A f \in Files : f < write_job.num => f \in sk \/ f \in suspect \/ FC!Whole(f,
                  disk.final[f])
    BY <1>0, <1>4 DEF Keeps, Kept
  <2>3. \A g \in sk : g < write_job.num
    OBVIOUS
  <2> HIDE DEF sk
  <2>4. saved'.num = write_job.num /\ saved'.skips = sk
    BY <1>1, <1>4
  <2>5. Kept(saved.num, saved.skips)'
    BY <2>2, <2>4, <1>1 DEF Kept
  <2>6. Keeps'
    BY <2>1, <2>3, <2>4, <2>5, <1>1 DEF Keeps
  <2>7. saved' \in [num : Nat, skips : SUBSET Files]
    BY <2>1, <1>1, <1>4
  <2> QED BY <2>6, <2>7, <1>2 DEF Disk
<1> QED BY <1>3, <1>4

\* The connection breaks, the client is killed or comes back.
LEMMA WorldStep ==
    ASSUME Inv, World
    PROVE  Inv' /\ Copied
<1>0. TypeOK /\ Protocol /\ Writer /\ Disk /\ Keeps /\ Ids /\ Progress
  BY InvIs DEF Protocol, Writer, Disk
<1>t. /\ disk \in DiskType /\ src \in [Files -> 1 .. MaxVersion]
      /\ saved \in [num : Nat, skips : SUBSET Files] \cup {None}
  BY <1>0, TypeFacts DEF TypeOK
<1>1. ASSUME Quiet, disk' \in DiskType, src' \in [Files -> 1 .. MaxVersion],
             saved' \in [num : Nat, skips : SUBSET Files] \cup {None}
      PROVE  TypeOK' /\ Protocol' /\ Writer'
  BY <1>0, <1>1, QuietType, QuietProtocol, QuietWriter
<1>2. CASE Disconnect
  <2>1. Quiet /\ UNCHANGED <<src, disk, suspect>>
    <3>1. Cut /\ UNCHANGED disk
      BY <1>2 DEF Disconnect
    <3> QED BY <3>1, <1>0, CutStep DEF Cut
  <2>2. Disk' /\ saved' \in [num : Nat, skips : SUBSET Files] \cup {None}
    BY <1>0, <1>2, DisconnectDisk
  <2>3. TypeOK' /\ Protocol' /\ Writer'
    BY <2>1, <2>2, <1>1, <1>t
  <2> QED BY <2>1, <2>2, <2>3 DEF Inv, Protocol, Writer, Disk, Copied
<1>3. CASE Kill
  <2>1. Quiet /\ UNCHANGED <<src, disk, saved, suspect>> /\ write_job' = None /\ done' = FALSE
    <3>1. Cut /\ UNCHANGED <<disk, saved>>
      BY <1>3 DEF Kill
    <3> QED BY <3>1, <1>0, CutStep DEF Cut
  <2>2. TypeOK' /\ Protocol' /\ Writer'
    BY <2>1, <1>1, <1>t
  <2>3. Disk'
    BY <2>1, <1>0, StillDisk
  <2> QED BY <2>1, <2>2, <2>3 DEF Inv, Protocol, Writer, Disk, Copied
<1>4. CASE KillInWrite
  <2>1. Quiet /\ UNCHANGED <<src, saved, suspect, skips>>
    <3>1. Cut /\ UNCHANGED saved
      BY <1>4 DEF KillInWrite
    <3> QED BY <3>1, <1>0, CutStep DEF Cut
  <2>2. Disk' /\ Installed /\ disk' \in DiskType
    BY <1>0, <1>4, KilledDisk, KilledUnrenamed
  <2>3. TypeOK' /\ Protocol' /\ Writer'
    BY <2>1, <2>2, <1>1, <1>t
  <2> QED BY <2>1, <2>2, <2>3 DEF Inv, Protocol, Writer, Disk, Copied
<1>5. CASE Connect \/ ChangeSource
  <2>1. Quiet
    BY <1>0, <1>5, ConnectStep
  <2>2. UNCHANGED <<disk, saved, suspect>>
    BY <1>5 DEF Connect, ChangeSource, history
  <2>3. src' \in [Files -> 1 .. MaxVersion]
    <3>1. CASE Connect
      BY <3>1, <1>t DEF Connect
    <3>2. CASE ChangeSource
      <4>1. PICK f \in Files, v \in 2 .. MaxVersion : src' = [src EXCEPT ![f] = v]
        BY <3>2 DEF ChangeSource
      <4>2. v \in 1 .. MaxVersion
        BY BoundsAssumption
      <4> QED BY <4>1, <4>2, <1>t
    <3> QED BY <1>5, <3>1, <3>2
  <2>4. TypeOK' /\ Protocol' /\ Writer'
    BY <2>1, <2>2, <2>3, <1>1, <1>t
  <2>5. /\ done' = FALSE
        /\ \/ write_job' = None
           \/ saved # None /\ write_job'.num = saved.num /\ skips' = saved.skips
    BY <2>1 DEF Quiet
  <2>6. Disk'
    BY <2>2, <2>5, <1>0, StillDisk
  <2> QED BY <2>2, <2>4, <2>6 DEF Inv, Protocol, Writer, Disk, Copied
<1> QED BY <1>2, <1>3, <1>4, <1>5 DEF World

\* Every step keeps the invariant and is a step of FileCopy.
LEMMA InvStep ==
    ASSUME Inv, [Next]_vars
    PROVE  Inv' /\ Copied
<1>1. CASE Sender
  BY <1>1, SenderStep
<1>2. CASE Receiver
  BY <1>2, QuestionStep, ReceiptStep DEF Receiver, Receipt
<1>3. CASE User
  BY <1>3, QuestionStep, JobStep DEF User
<1>4. CASE World
  BY <1>4, WorldStep
<1>5. CASE UNCHANGED vars
  <2>0. TypeOK /\ Protocol /\ Writer /\ Disk
    BY InvIs
  <2>1. Thinned /\ failed' \in SUBSET (1 .. MaxJobs)
    BY <2>0, <1>5, StutterStep
  <2>2. TypeOK' /\ Protocol' /\ Writer'
    BY <2>1, <2>0, ThinnedType, ThinnedProtocol, ThinnedWriter
  <2>3. UNCHANGED <<disk, saved, write_job, skips, suspect, done>>
    BY <1>5 DEF vars, peers, history
  <2>4. Disk'
    BY <2>3, <2>0, StillDisk
  <2> QED BY <2>2, <2>3, <2>4 DEF Inv, Protocol, Writer, Disk, Copied
<1> QED BY <1>1, <1>2, <1>3, <1>4, <1>5 DEF Next

\* The invariant holds of every behaviour of the two sides, their connection
\* and the user.
THEOREM InvHolds == Spec => []Inv
<1>1. Init => Inv
  BY InvInit
<1>2. Inv /\ [Next]_vars => Inv'
  BY InvStep
<1> QED BY <1>1, <1>2, PTL DEF Spec

\* Every variable keeps its type.
THEOREM TypeCorrect == Spec => []TypeOK
<1>1. Inv => TypeOK
  BY DEF Inv, Protocol, Writer, Disk
<1> QED BY <1>1, InvHolds, PTL

\* After FileTransferDone every file is under its name, whole or skipped
\* (or suspect), whatever was lost, refused, resumed or killed before.
THEOREM DoneMeansDeliveredHolds == Spec => []DoneMeansDelivered
<1>1. Inv => DoneMeansDelivered
  BY DEF Inv, Protocol, Writer, Disk
<1> QED BY <1>1, InvHolds, PTL

\* f.digest tells the version of f.download in every state, also in the
\* middle of write, so that a resumed job never joins two versions.
THEOREM DigestTellsHolds == Spec => []DigestTells
<1>1. Inv => DigestTells
  BY DEF Inv, Protocol, Writer, Disk
<1> QED BY <1>1, InvHolds, PTL

\* The reader sends blocks only of a file whose digest the writer answered
\* with a yes (is_file_confirmed, is_write_need_confirmation).
THEOREM AgreedBeforeSentHolds == Spec => []AgreedBeforeSent
<1>1. Inv => AgreedBeforeSent
  BY DEF Inv, Protocol, Writer, Disk, AgreedBeforeSent, Agreed, Question, ForJob, JobIs
<1> QED BY <1>1, InvHolds, PTL

\* What Copied says is a step of FileCopy.
LEMMA CopiedIs ==
    ASSUME TypeOK, TypeOK', Copied
    PROVE  [FC!Next]_(FC!vars)
<1>1. /\ disk.final \in [Files -> ContentOrNone] /\ disk'.final \in [Files -> ContentOrNone]
      /\ skips' \subseteq Files /\ suspect \subseteq suspect'
  BY DEF TypeOK, ContentOrNone, Copied
<1>2. CASE disk'.final = disk.final
  BY <1>1, <1>2 DEF FC!Next, FC!Decide, Files
<1>3. CASE disk'.final # disk.final
  <2>1. Installed /\ UNCHANGED skips
    BY <1>3 DEF Copied
  <2>2. PICK f \in Files \ skips :
            /\ \A h \in Files : h # f => disk'.final[h] = disk.final[h]
            /\ f \in suspect' \/ FC!Whole(f, disk'.final[f])
    <3>1. ~ \A h \in Files : disk'.final[h] = disk.final[h]
      BY <1>1, <1>3
    <3> QED BY <2>1, <3>1 DEF Installed
  <2>3. disk'.final = [disk.final EXCEPT ![f] = disk'.final[f]]
    BY <1>1, <2>2
  <2>4. FC!Install
    BY <1>1, <2>1, <2>2, <2>3 DEF FC!Install, Files
  <2> QED BY <2>4 DEF FC!Next
<1> QED BY <1>2, <1>3

\* The transfer implements FileCopy: what is found under a name is what was
\* there or a whole copy, and what the user skips is not touched.
THEOREM ImplementsFileCopyHolds == Spec => ImplementsFileCopy
<1>1. Init => FC!Init
  BY DEF Init, FC!Init, Files
<1>2. Inv /\ Inv' /\ [Next]_vars => [FC!Next]_(FC!vars)
  BY InvStep, CopiedIs DEF Inv, Protocol, Writer, Disk
<1> QED BY <1>1, <1>2, InvHolds, PTL DEF Spec, ImplementsFileCopy, FC!Spec

-----------------------------------------------------------------------------
(***************************************************************************)
(* Nobody waits in vain.                                                   *)
(***************************************************************************)

\* Alive says that nobody waits in vain.
LEMMA AliveIs ==
    ASSUME TypeOK, Wire, Alive
    PROVE  NobodyWaitsInVain
<1>1. \A i \in DOMAIN read_jobs :
        read_jobs[i].waiting /\ ~read_jobs[i].confirmed =>
            \/ Pending({"digest"}, read_jobs[i].id, toReceiver)
            \/ Pending({"confirm", "cancel"}, read_jobs[i].id, toSender)
            \/ ask # None /\ ForJob(read_jobs[i])
            \/ read_jobs[i].id \in failed
  BY DEF Alive, ReaderWaits, AnswerComes, JobIs, ForJob
<1>2. write_job # None /\ ~write_job.last =>
        \/ \E i \in DOMAIN read_jobs : ForJob(read_jobs[i])
        \/ Pending({"send"}, write_job.id, toSender)
        \/ Pending({"done", "error"}, write_job.id, toReceiver)
  BY DEF Alive, WriterWaits, JobIs, ForJob
<1>3. ASSUME toReceiver # <<>>, ForJob(Head(toReceiver)),
             Head(toReceiver).kind \in {"digest", "block"}
      PROVE  write_job.listed /\ Head(toReceiver).num < N
  <2>1. Head(toReceiver) = toReceiver[1] /\ 1 \in DOMAIN toReceiver
    <3>1. toReceiver \in Seq(Response)
      BY DEF TypeOK
    <3> QED BY <3>1, <1>3, TailAt
  <2>2. toReceiver[1].kind \in {"digest", "block"} /\ JobIs(toReceiver[1].id) /\ write_job # None
    BY <2>1, <1>3 DEF ForJob, JobIs
  <2>3. toReceiver[1].num < N
    BY <2>1, <2>2 DEF Wire
  <2>4. ASSUME ~write_job.listed PROVE FALSE
    <3>1. \E q \in DOMAIN toReceiver : q < 1
      BY <2>1, <2>2, <2>4 DEF Alive, ListFirst
    <3> QED BY <3>1, TypeFacts
  <2> QED BY <2>1, <2>3, <2>4
<1> QED BY <1>1, <1>2, <1>3 DEF NobodyWaitsInVain

\* A response that is not taken stays under way.
LEMMA StaysR ==
    ASSUME TypeOK, TakenR, NEW K, NEW id, Pending(K, id, toReceiver),
           ~(toReceiver[1].kind \in K /\ toReceiver[1].id = id)
    PROVE  Pending(K, id, toReceiver')
<1>1. PICK p \in DOMAIN toReceiver : toReceiver[p].kind \in K /\ toReceiver[p].id = id
  BY DEF Pending
<1>2. p # 1 /\ p \in Nat /\ p >= 1
  BY <1>1, TypeFacts
<1>3. p > 1
  BY <1>2
<1>4. p - 1 \in DOMAIN toReceiver' /\ toReceiver'[p - 1] = toReceiver[p]
  BY <1>3 DEF TakenR
<1> QED BY <1>1, <1>4 DEF Pending

\* The actions behind the head stay under way, in their order.
ShiftedS ==
    \A q \in DOMAIN toSender :
        q > 1 => q - 1 \in DOMAIN toSender' /\ toSender'[q - 1] = toSender[q]

\* Tail of the actions keeps the others.
LEMMA ShiftedSIs ==
    ASSUME TypeOK, toSender # <<>>, toSender' = Tail(toSender)
    PROVE  TakenS /\ ShiftedS /\ Head(toSender) = toSender[1] /\ 1 \in DOMAIN toSender
<1>1. TakenS /\ Head(toSender) = toSender[1] /\ 1 \in DOMAIN toSender
  BY TakenSIs DEF TakenS
<1>2. toSender \in Seq(FileAction)
  BY DEF TypeOK
<1>3. \A q \in DOMAIN toSender : q \in Nat /\ (q > 1 => q - 1 \in DOMAIN toSender')
  BY <1>2, TailAt
<1>4. \A q \in DOMAIN toSender : q > 1 => (q - 1) + 1 = q
  BY <1>3
<1> QED BY <1>1, <1>3, <1>4 DEF TakenS, ShiftedS

\* An action that is not taken stays under way.
LEMMA StaysS ==
    ASSUME TypeOK, ShiftedS, NEW K, NEW id, Pending(K, id, toSender),
           ~(toSender[1].kind \in K /\ toSender[1].id = id)
    PROVE  Pending(K, id, toSender')
<1>1. PICK p \in DOMAIN toSender : toSender[p].kind \in K /\ toSender[p].id = id
  BY DEF Pending
<1>2. p # 1 /\ p \in Nat /\ p >= 1
  BY <1>1, TypeFacts
<1>3. p > 1
  BY <1>2
<1>4. p - 1 \in DOMAIN toSender' /\ toSender'[p - 1] = toSender[p]
  BY <1>3 DEF ShiftedS
<1> QED BY <1>1, <1>4 DEF Pending

\* Nothing under way is lost when messages are added.
LEMMA StaysGrown ==
    ASSUME NEW s, NEW t, \A p \in DOMAIN s : p \in DOMAIN t /\ t[p] = s[p],
           NEW K, NEW id, Pending(K, id, s)
    PROVE  Pending(K, id, t)
BY DEF Pending

-----------------------------------------------------------------------------
\* Alive, when the timer ticks.
LEMMA TickingAlive ==
    ASSUME TypeOK, Protocol, Alive, Ticking, TickEnds
    PROVE  Alive'
<1>0. /\ ReaderWaits /\ WriterWaits /\ Orphans /\ EndsOnce /\ ListFirst
      /\ Ids /\ Question
  BY DEF Alive, Protocol
<1>1. /\ UNCHANGED <<write_job, ask, toSender>>
      /\ \A p \in DOMAIN toReceiver : p \in DOMAIN toReceiver' /\ toReceiver'[p] = toReceiver[p]
      /\ Len(toReceiver) \in Nat
      /\ \A p \in DOMAIN toReceiver' : p \in Nat /\ (p \in DOMAIN toReceiver \/ p > Len(toReceiver))
      /\ \A p \in DOMAIN toReceiver : p \in Nat /\ p <= Len(toReceiver)
  <2>1. toReceiver' \in Seq(Response) /\ toReceiver \in Seq(Response)
    BY DEF Ticking, Tick, TypeOK
  <2>2. \A p \in DOMAIN toReceiver' : p \in Nat /\ (p \in DOMAIN toReceiver \/ p > Len(toReceiver))
    BY <2>1, LenProperties
  <2> QED BY <2>2, TypeFacts DEF Ticking, Tick
<1>2. ASSUME NEW K, NEW id, Pending(K, id, toReceiver)
      PROVE  Pending(K, id, toReceiver')
  BY <1>1, <1>2, StaysGrown
<1>3. PICK x \in {0, 1} : \A k \in DOMAIN read_jobs' :
        k + x \in DOMAIN read_jobs /\ Ticked(read_jobs[k + x], read_jobs'[k])
  BY DEF Ticking, Tick
<1>4. \A k \in DOMAIN read_jobs' : read_jobs'[k].id = read_jobs[k + x].id
  BY <1>3 DEF Ticked
<1>5. \A k \in DOMAIN read_jobs' : read_jobs'[k].id \in failed => read_jobs'[k].id \in failed'
  BY DEF TickEnds
<1>6. ReaderWaits'
  <2> SUFFICES ASSUME NEW k \in DOMAIN read_jobs', read_jobs'[k].waiting, ~read_jobs'[k].confirmed
               PROVE  AnswerComes(read_jobs[k].id)'
    BY DEF ReaderWaits
  <2> DEFINE j == read_jobs[k + x]
  <2>1. k + x \in DOMAIN read_jobs /\ Ticked(j, read_jobs'[k]) /\ read_jobs'[k].id = j.id
    BY <1>3, <1>4
  <2>2. CASE ~j.waiting
    <3>1. Sent(DigestOf(j))
      BY <2>1, <2>2 DEF TickEnds
    <3>2. DigestOf(j).kind = "digest" /\ DigestOf(j).id = j.id
      BY DEF DigestOf
    <3>3. Pending({"digest"}, read_jobs'[k].id, toReceiver')
      BY <3>1, <3>2, <2>1 DEF Sent, Pending
    <3> QED BY <3>3 DEF AnswerComes
  <2>3. CASE j.waiting
    <3>1. ~j.confirmed
      BY <2>1, <2>3 DEF Ticked, Same, Moved
    <3>2. AnswerComes(read_jobs'[k].id)
      BY <3>1, <2>1, <2>3, <1>0 DEF ReaderWaits
    <3> QED BY <3>2, <1>1, <1>2, <1>5 DEF AnswerComes, JobIs
  <2> QED BY <2>2, <2>3
<1>7. WriterWaits'
  <2> SUFFICES ASSUME write_job # None, ~write_job.last,
                      ~ \E k \in DOMAIN read_jobs' : read_jobs'[k].id = write_job.id,
                      ~Pending({"send"}, write_job.id, toSender)
               PROVE  Pending({"done", "error"}, write_job.id, toReceiver')
    BY <1>1 DEF WriterWaits, JobIs
  <2>1. CASE \E i \in DOMAIN read_jobs : JobIs(read_jobs[i].id)
    BY <2>1 DEF TickEnds, JobIs, Pending
  <2> QED BY <2>1, <1>0, <1>2 DEF WriterWaits
<1>8. Orphans'
  <2>1. ASSUME NEW k \in DOMAIN read_jobs', ~JobIs(read_jobs'[k].id)
        PROVE  Pending({"cancel"}, read_jobs'[k].id, toSender) \/ read_jobs'[k].id \in failed'
    BY <2>1, <1>0, <1>3, <1>4, <1>5 DEF Orphans
  <2> QED BY <2>1, <1>0, <1>1 DEF Orphans, JobIs
<1>9. EndsOnce'
  <2> SUFFICES ASSUME NEW p \in DOMAIN toReceiver', NEW k \in DOMAIN read_jobs',
                      toReceiver'[p].kind \in {"done", "error"},
                      toReceiver'[p].id = read_jobs'[k].id
               PROVE  toReceiver'[p].kind = "error" /\ read_jobs'[k].id \in failed'
    BY DEF EndsOnce
  <2>1. CASE p > Len(toReceiver)
    BY <2>1 DEF TickEnds
  <2>2. CASE p \in DOMAIN toReceiver
    <3>1. toReceiver[p].kind = "error" /\ read_jobs'[k].id \in failed
      BY <2>2, <1>0, <1>1, <1>3, <1>4 DEF EndsOnce
    <3> QED BY <3>1, <2>2, <1>1, <1>5
  <2> QED BY <2>1, <2>2, <1>1
<1>10. ListFirst'
  <2> SUFFICES ASSUME write_job # None, ~write_job.listed
               PROVE  /\ \A p \in DOMAIN toReceiver' :
                            toReceiver'[p].kind \in {"digest", "block"} /\ JobIs(toReceiver'[p].id)
                            => \E q \in DOMAIN toReceiver' :
                                q < p /\ toReceiver'[q].kind = "dir"
                                    /\ toReceiver'[q].id = toReceiver'[p].id
                      /\ \A k \in DOMAIN read_jobs' : JobIs(read_jobs'[k].id) =>
                            Pending({"dir"}, read_jobs'[k].id, toReceiver')
    BY <1>1 DEF ListFirst, JobIs
  <2>1. \A k \in DOMAIN read_jobs' : JobIs(read_jobs'[k].id) =>
            Pending({"dir"}, read_jobs'[k].id, toReceiver')
    BY <1>0, <1>2, <1>3, <1>4 DEF ListFirst
  <2>2. ASSUME NEW p \in DOMAIN toReceiver',
               toReceiver'[p].kind \in {"digest", "block"}, JobIs(toReceiver'[p].id)
        PROVE  \E q \in DOMAIN toReceiver' :
                    q < p /\ toReceiver'[q].kind = "dir" /\ toReceiver'[q].id = toReceiver'[p].id
    <3>1. CASE p \in DOMAIN toReceiver
      BY <3>1, <2>2, <1>0, <1>1 DEF ListFirst
    <3>2. CASE p > Len(toReceiver)
      <4>1. PICK i \in DOMAIN read_jobs : TickedMsg(read_jobs[i], toReceiver'[p])
        BY <3>2 DEF Ticking, Tick
      <4>2. read_jobs[i].id = toReceiver'[p].id
        BY <4>1 DEF TickedMsg
      <4>3. PICK q \in DOMAIN toReceiver : toReceiver[q].kind = "dir"
                                           /\ toReceiver[q].id = toReceiver'[p].id
        BY <4>2, <2>2, <1>0 DEF ListFirst, Pending
      <4>4. q < p
        BY <3>2, <1>1
      <4> QED BY <4>3, <4>4, <1>1
    <3> QED BY <3>1, <3>2, <1>1
  <2> QED BY <2>1, <2>2
<1> QED BY <1>6, <1>7, <1>8, <1>9, <1>10 DEF Alive

\* What Orphans says of the actions, when one is taken.
LEMMA ShiftedOrphans ==
    ASSUME TypeOK, Orphans, TakenS, ShiftedS
    PROVE  /\ \A q \in DOMAIN toSender' : toSender'[q].kind = "send" /\ ~JobIs(toSender'[q].id) =>
                \E p \in DOMAIN toSender' :
                    p > q /\ toSender'[p].kind = "cancel" /\ toSender'[p].id = toSender'[q].id
           /\ \A q \in DOMAIN toSender' : toSender'[q].kind = "cancel" => ~JobIs(toSender'[q].id)
<1>1. \A q \in DOMAIN toSender' :
        q \in Nat /\ q >= 1 /\ q + 1 \in DOMAIN toSender /\ toSender'[q] = toSender[q + 1]
  BY DEF TakenS
<1>2. ASSUME NEW q \in DOMAIN toSender', toSender'[q].kind = "send", ~JobIs(toSender'[q].id)
      PROVE  \E p \in DOMAIN toSender' :
                p > q /\ toSender'[p].kind = "cancel" /\ toSender'[p].id = toSender'[q].id
  <2>1. PICK p \in DOMAIN toSender :
            p > q + 1 /\ toSender[p].kind = "cancel" /\ toSender[p].id = toSender'[q].id
    BY <1>1, <1>2 DEF Orphans
  <2>2. p \in Nat /\ p > 1 /\ p - 1 > q
    BY <2>1, <1>1, TypeFacts
  <2>3. p - 1 \in DOMAIN toSender' /\ toSender'[p - 1] = toSender[p]
    BY <2>2 DEF ShiftedS
  <2> QED BY <2>1, <2>2, <2>3
<1>3. \A q \in DOMAIN toSender' : toSender'[q].kind = "cancel" => ~JobIs(toSender'[q].id)
  BY <1>1 DEF Orphans
<1> QED BY <1>2, <1>3

\* Alive, when a job is created or cannot be.
LEMMA SendAlive ==
    ASSUME TypeOK, Protocol, Alive, HandleSend
    PROVE  Alive'
<1>0. ReaderWaits /\ WriterWaits /\ Orphans /\ EndsOnce /\ ListFirst /\ Fresh
  BY DEF Alive, Protocol
<1> DEFINE m == toSender[1]
           J == NewJob(m.id, m.num)
           D == [kind |-> "dir", id |-> m.id]
<1>1. /\ TakenS /\ ShiftedS /\ Head(toSender) = m /\ 1 \in DOMAIN toSender
      /\ UNCHANGED <<write_job, ask, failed>>
  BY ShiftedSIs DEF HandleSend, history
<1>2. m.kind = "send" /\ m.id \in Nat /\ m.num \in Nat
  BY <1>1, TypeFacts, FileActionFields DEF HandleSend
<1>3. /\ D \in Response /\ D.id = m.id /\ D.kind = "dir"
      /\ Error(m) \in Response /\ Error(m).id = m.id /\ Error(m).kind = "error"
  BY <1>2 DEF Error, Response
<1>4. J \in TransferJob /\ J.id = m.id /\ ~J.waiting
  BY <1>2, NewJobIs
<1>5. \/ read_jobs' = Append(read_jobs, J) /\ toReceiver' = Append(toReceiver, D)
      \/ read_jobs' = read_jobs /\ toReceiver' = Append(toReceiver, Error(m))
  BY <1>1 DEF HandleSend
<1> HIDE DEF J, D
<1>6. PICK y \in Response :
        /\ y.id = m.id /\ AddedR(y)
        /\ \/ y.kind = "dir" /\ read_jobs' = Append(read_jobs, J)
           \/ y.kind = "error" /\ read_jobs' = read_jobs
  BY <1>3, <1>5, AddedRIs
<1>7. /\ \A i \in DOMAIN read_jobs : i \in DOMAIN read_jobs' /\ read_jobs'[i] = read_jobs[i]
      /\ \A i \in DOMAIN read_jobs' :
            \/ i \in DOMAIN read_jobs /\ read_jobs'[i] = read_jobs[i]
            \/ y.kind = "dir" /\ read_jobs'[i] = J
      /\ y.kind = "dir" => \E i \in DOMAIN read_jobs' : read_jobs'[i] = J
  <2>1. read_jobs \in Seq(TransferJob)
    BY DEF TypeOK
  <2>2. CASE y.kind = "dir" /\ read_jobs' = Append(read_jobs, J)
    BY <2>1, <2>2, <1>4, AppendAt
  <2>3. CASE y.kind = "error" /\ read_jobs' = read_jobs
    BY <2>3
  <2> QED BY <2>2, <2>3, <1>6
<1>8. /\ Len(toReceiver) + 1 \in DOMAIN toReceiver' /\ toReceiver'[Len(toReceiver) + 1] = y
      /\ \A p \in DOMAIN toReceiver : p \in DOMAIN toReceiver' /\ toReceiver'[p] = toReceiver[p]
      /\ \A p \in DOMAIN toReceiver' :
            \/ p \in DOMAIN toReceiver /\ toReceiver'[p] = toReceiver[p]
            \/ toReceiver'[p] = y
  BY <1>6 DEF AddedR
<1>9. ASSUME NEW K, NEW id, Pending(K, id, toReceiver)
      PROVE  Pending(K, id, toReceiver')
  BY <1>8, <1>9, StaysGrown
<1>10. ASSUME NEW K, "send" \notin K, NEW id, Pending(K, id, toSender)
       PROVE  Pending(K, id, toSender')
  BY <1>1, <1>2, <1>10, StaysS
<1>11. /\ \A i \in DOMAIN read_jobs : read_jobs[i].id # m.id
       /\ \A p \in DOMAIN toReceiver : toReceiver[p].id # m.id
  BY <1>0, <1>1, <1>2 DEF Fresh
<1>12. ReaderWaits'
  <2> SUFFICES ASSUME NEW k \in DOMAIN read_jobs', read_jobs'[k].waiting, ~read_jobs'[k].confirmed
               PROVE  AnswerComes(read_jobs[k].id)'
    BY DEF ReaderWaits
  <2>1. k \in DOMAIN read_jobs /\ read_jobs'[k] = read_jobs[k]
    BY <1>4, <1>7
  <2>2. AnswerComes(read_jobs[k].id)
    BY <2>1, <1>0 DEF ReaderWaits
  <2>3. Pending({"confirm", "cancel"}, read_jobs[k].id, toSender) =>
            Pending({"confirm", "cancel"}, read_jobs[k].id, toSender')
    BY <1>10
  <2> QED BY <2>1, <2>2, <2>3, <1>1, <1>9 DEF AnswerComes, JobIs
<1>13. WriterWaits'
  <2> SUFFICES ASSUME write_job # None, ~write_job.last
               PROVE  \/ \E k \in DOMAIN read_jobs' : read_jobs'[k].id = write_job.id
                      \/ Pending({"send"}, write_job.id, toSender')
                      \/ Pending({"done", "error"}, write_job.id, toReceiver')
    BY <1>1 DEF WriterWaits, JobIs
  <2>1. CASE m.id = write_job.id
    <3>1. CASE y.kind = "dir"
      BY <3>1, <2>1, <1>4, <1>7
    <3>2. CASE y.kind = "error"
      BY <3>2, <2>1, <1>6, <1>8 DEF Pending
    <3> QED BY <3>1, <3>2, <1>6
  <2>2. CASE m.id # write_job.id
    <3>1. Pending({"send"}, write_job.id, toSender) => Pending({"send"}, write_job.id, toSender')
      BY <2>2, <1>1, StaysS
    <3> QED BY <3>1, <1>0, <1>7, <1>9 DEF WriterWaits, JobIs
  <2> QED BY <2>1, <2>2
<1>14. Orphans'
  <2>1. ASSUME NEW k \in DOMAIN read_jobs', ~JobIs(read_jobs'[k].id)
        PROVE  Pending({"cancel"}, read_jobs'[k].id, toSender') \/ read_jobs'[k].id \in failed
    <3>1. CASE k \in DOMAIN read_jobs /\ read_jobs'[k] = read_jobs[k]
      <4>1. Pending({"cancel"}, read_jobs[k].id, toSender) \/ read_jobs[k].id \in failed
        BY <2>1, <3>1, <1>0 DEF Orphans
      <4>2. Pending({"cancel"}, read_jobs[k].id, toSender) =>
                Pending({"cancel"}, read_jobs[k].id, toSender')
        BY <1>10
      <4> QED BY <4>1, <4>2, <3>1
    <3>2. CASE read_jobs'[k] = J
      <4>1. PICK p \in DOMAIN toSender :
                p > 1 /\ toSender[p].kind = "cancel" /\ toSender[p].id = m.id
        BY <2>1, <3>2, <1>0, <1>1, <1>2, <1>4 DEF Orphans
      <4>2. p - 1 \in DOMAIN toSender' /\ toSender'[p - 1] = toSender[p]
        BY <4>1, <1>1 DEF ShiftedS
      <4> QED BY <4>1, <4>2, <3>2, <1>4 DEF Pending
    <3> QED BY <3>1, <3>2, <1>7
  <2> QED BY <2>1, <1>0, <1>1, ShiftedOrphans DEF Orphans, JobIs
<1>15. EndsOnce'
  <2> SUFFICES ASSUME NEW p \in DOMAIN toReceiver', NEW k \in DOMAIN read_jobs',
                      toReceiver'[p].kind \in {"done", "error"},
                      toReceiver'[p].id = read_jobs'[k].id
               PROVE  toReceiver'[p].kind = "error" /\ read_jobs'[k].id \in failed'
    BY DEF EndsOnce
  <2>1. k \in DOMAIN read_jobs /\ read_jobs'[k] = read_jobs[k]
    BY <1>4, <1>6, <1>7, <1>8, <1>11
  <2>2. p \in DOMAIN toReceiver /\ toReceiver'[p] = toReceiver[p]
    BY <2>1, <1>6, <1>8, <1>11
  <2> QED BY <2>1, <2>2, <1>0, <1>1 DEF EndsOnce
<1>16. ListFirst'
  <2> SUFFICES ASSUME write_job # None, ~write_job.listed
               PROVE  /\ \A p \in DOMAIN toReceiver' :
                            toReceiver'[p].kind \in {"digest", "block"} /\ JobIs(toReceiver'[p].id)
                            => \E q \in DOMAIN toReceiver' :
                                q < p /\ toReceiver'[q].kind = "dir"
                                    /\ toReceiver'[q].id = toReceiver'[p].id
                      /\ \A k \in DOMAIN read_jobs' : JobIs(read_jobs'[k].id) =>
                            Pending({"dir"}, read_jobs'[k].id, toReceiver')
    BY <1>1 DEF ListFirst, JobIs
  <2>1. ASSUME NEW k \in DOMAIN read_jobs', JobIs(read_jobs'[k].id)
        PROVE  Pending({"dir"}, read_jobs'[k].id, toReceiver')
    <3>1. CASE k \in DOMAIN read_jobs /\ read_jobs'[k] = read_jobs[k]
      BY <2>1, <3>1, <1>0, <1>9 DEF ListFirst
    <3>2. CASE y.kind = "dir" /\ read_jobs'[k] = J
      BY <3>2, <1>4, <1>6, <1>8 DEF Pending
    <3> QED BY <3>1, <3>2, <1>7
  <2>2. ASSUME NEW p \in DOMAIN toReceiver',
               toReceiver'[p].kind \in {"digest", "block"}, JobIs(toReceiver'[p].id)
        PROVE  \E q \in DOMAIN toReceiver' :
                    q < p /\ toReceiver'[q].kind = "dir" /\ toReceiver'[q].id = toReceiver'[p].id
    <3>1. p \in DOMAIN toReceiver /\ toReceiver'[p] = toReceiver[p]
      BY <2>2, <1>6, <1>8
    <3> QED BY <3>1, <2>2, <1>0, <1>8 DEF ListFirst
  <2> QED BY <2>1, <2>2
<1> QED BY <1>12, <1>13, <1>14, <1>15, <1>16 DEF Alive

\* Alive, when an answer is taken.
LEMMA ConfirmAlive ==
    ASSUME TypeOK, Protocol, Alive, HandleConfirm
    PROVE  Alive'
<1>0. /\ ReaderWaits /\ WriterWaits /\ Orphans /\ EndsOnce /\ ListFirst
      /\ Question /\ Wire
  BY DEF Alive, Protocol
<1> DEFINE m == toSender[1]
<1>1. TakenS /\ ShiftedS
  BY ShiftedSIs DEF HandleConfirm
<1>2. /\ m.kind = "confirm" /\ UNCHANGED <<write_job, ask, toReceiver, failed>>
      /\ DOMAIN read_jobs' = DOMAIN read_jobs
      /\ \A i \in DOMAIN read_jobs :
            IF read_jobs[i].id = m.id THEN Answered(read_jobs[i], m, read_jobs'[i])
            ELSE read_jobs'[i] = read_jobs[i]
  BY <1>0, ConfirmStep DEF Confirming
<1>3. \A i \in DOMAIN read_jobs : read_jobs'[i].id = read_jobs[i].id
  BY <1>2 DEF Answered
<1>4. ASSUME NEW K, "confirm" \notin K, NEW id, Pending(K, id, toSender)
      PROVE  Pending(K, id, toSender')
  BY <1>1, <1>2, <1>4, StaysS
<1>5. ReaderWaits'
  <2> SUFFICES ASSUME NEW k \in DOMAIN read_jobs, read_jobs'[k].waiting, ~read_jobs'[k].confirmed
               PROVE  AnswerComes(read_jobs[k].id)'
    BY <1>2 DEF ReaderWaits
  <2>1. read_jobs[k].id # m.id /\ read_jobs'[k] = read_jobs[k]
    BY <1>2 DEF Answered, Moved
  <2>2. AnswerComes(read_jobs[k].id)
    BY <2>1, <1>0 DEF ReaderWaits
  <2>3. Pending({"confirm", "cancel"}, read_jobs[k].id, toSender) =>
            Pending({"confirm", "cancel"}, read_jobs[k].id, toSender')
    BY <2>1, <1>1, StaysS
  <2> QED BY <2>1, <2>2, <2>3, <1>2 DEF AnswerComes, JobIs
<1>6. WriterWaits'
  <2>1. write_job # None => (Pending({"send"}, write_job.id, toSender) =>
            Pending({"send"}, write_job.id, toSender'))
    BY <1>4
  <2> QED BY <2>1, <1>0, <1>2, <1>3 DEF WriterWaits, JobIs
<1>7. Orphans'
  <2>1. ASSUME NEW k \in DOMAIN read_jobs, ~JobIs(read_jobs[k].id)
        PROVE  Pending({"cancel"}, read_jobs[k].id, toSender') \/ read_jobs[k].id \in failed
    <3>1. Pending({"cancel"}, read_jobs[k].id, toSender) =>
                Pending({"cancel"}, read_jobs[k].id, toSender')
      BY <1>4
    <3> QED BY <2>1, <3>1, <1>0 DEF Orphans
  <2> QED BY <2>1, <1>0, <1>1, <1>2, <1>3, ShiftedOrphans DEF Orphans, JobIs
<1>8. EndsOnce'
  BY <1>0, <1>2, <1>3 DEF EndsOnce
<1>9. ListFirst'
  BY <1>0, <1>2, <1>3 DEF ListFirst, JobIs
<1> QED BY <1>5, <1>6, <1>7, <1>8, <1>9 DEF Alive

\* Alive, when a job is removed.
LEMMA CancelAlive ==
    ASSUME TypeOK, Protocol, Alive, HandleCancel
    PROVE  Alive'
<1>0. ReaderWaits /\ WriterWaits /\ Orphans /\ EndsOnce /\ ListFirst /\ Ids
  BY DEF Alive, Protocol
<1> DEFINE m == toSender[1]
<1>1. /\ TakenS /\ ShiftedS /\ Head(toSender) = m /\ 1 \in DOMAIN toSender
      /\ UNCHANGED <<write_job, ask, toReceiver>>
  BY ShiftedSIs DEF HandleCancel
<1>2. m.kind = "cancel" /\ failed' = failed \ {m.id}
  BY <1>1 DEF HandleCancel
<1>3. ~JobIs(m.id)
  BY <1>0, <1>1, <1>2 DEF Orphans
<1>4. /\ LostOne(read_jobs, read_jobs')
      /\ \A i \in DOMAIN read_jobs : read_jobs[i].id # m.id =>
            \E k \in DOMAIN read_jobs' : read_jobs'[k] = read_jobs[i]
      /\ \A k \in DOMAIN read_jobs' : read_jobs'[k].id # m.id
  <2>1. read_jobs' = Without(read_jobs, Head(toSender).id)
    BY Zenon DEF HandleCancel, Without
  <2>2. read_jobs \in Seq(TransferJob)
    BY DEF TypeOK
  <2>3. \A i, k \in DOMAIN read_jobs : read_jobs[i].id = read_jobs[k].id => i = k
    BY <1>0 DEF Ids
  <2>4. read_jobs' = Without(read_jobs, m.id)
    BY <2>1, <1>1
  <2> QED BY <2>2, <2>3, <2>4, RemoveFirstIs
<1>5. \A k \in DOMAIN read_jobs' :
        read_jobs'[k].id # m.id /\ \E i \in DOMAIN read_jobs : read_jobs'[k] = read_jobs[i]
  <2> TAKE k \in DOMAIN read_jobs'
  <2>1. PICK z \in Nat : \A i \in DOMAIN read_jobs' :
            /\ i \in Nat
            /\ i < z => i \in DOMAIN read_jobs /\ read_jobs'[i] = read_jobs[i]
            /\ i >= z => i + 1 \in DOMAIN read_jobs /\ read_jobs'[i] = read_jobs[i + 1]
    BY <1>4 DEF LostOne
  <2>2. k < z \/ k >= z
    BY <2>1
  <2> QED BY <2>1, <2>2, <1>4
<1>6. ASSUME NEW K, NEW id, id # m.id \/ "cancel" \notin K, Pending(K, id, toSender)
      PROVE  Pending(K, id, toSender')
  BY <1>1, <1>2, <1>6, StaysS
<1>7. ReaderWaits'
  <2> SUFFICES ASSUME NEW k \in DOMAIN read_jobs', read_jobs'[k].waiting, ~read_jobs'[k].confirmed
               PROVE  AnswerComes(read_jobs[k].id)'
    BY DEF ReaderWaits
  <2>1. AnswerComes(read_jobs'[k].id) /\ read_jobs'[k].id # m.id
    BY <1>0, <1>5 DEF ReaderWaits
  <2>2. Pending({"confirm", "cancel"}, read_jobs'[k].id, toSender) =>
            Pending({"confirm", "cancel"}, read_jobs'[k].id, toSender')
    BY <2>1, <1>6
  <2> QED BY <2>1, <2>2, <1>1, <1>2 DEF AnswerComes, JobIs
<1>8. WriterWaits'
  <2>1. write_job # None => (Pending({"send"}, write_job.id, toSender) =>
            Pending({"send"}, write_job.id, toSender'))
    BY <1>6
  <2>2. \A i \in DOMAIN read_jobs : JobIs(read_jobs[i].id) =>
            \E k \in DOMAIN read_jobs' : read_jobs'[k].id = read_jobs[i].id
    BY <1>3, <1>4
  <2> QED BY <2>1, <2>2, <1>0, <1>1 DEF WriterWaits, JobIs
<1>9. Orphans'
  <2>1. ASSUME NEW k \in DOMAIN read_jobs', ~JobIs(read_jobs'[k].id)
        PROVE  Pending({"cancel"}, read_jobs'[k].id, toSender') \/ read_jobs'[k].id \in failed'
    <3>1. Pending({"cancel"}, read_jobs'[k].id, toSender) =>
                Pending({"cancel"}, read_jobs'[k].id, toSender')
      BY <1>5, <1>6
    <3> QED BY <2>1, <3>1, <1>0, <1>2, <1>5 DEF Orphans
  <2> QED BY <2>1, <1>0, <1>1, ShiftedOrphans DEF Orphans, JobIs
<1>10. EndsOnce'
  BY <1>0, <1>1, <1>2, <1>5 DEF EndsOnce
<1>11. ListFirst'
  BY <1>0, <1>1, <1>5 DEF ListFirst, JobIs
<1> QED BY <1>7, <1>8, <1>9, <1>10, <1>11 DEF Alive

\* The writer deals with a digest or with the user's answer: it answers the
\* reader or asks the user, or fails.
Replied ==
    /\ UNCHANGED read_jobs /\ failed \subseteq failed'
    /\ write_job # None /\ write_job' # None /\ write_job'.id = write_job.id
    /\ write_job'.last = write_job.last /\ write_job'.listed = write_job.listed
    /\ \/ ask' # None \/ Pending({"confirm"}, write_job.id, toSender')
       \/ write_job.id \in failed'
    /\ \A q \in DOMAIN toSender : q \in DOMAIN toSender' /\ toSender'[q] = toSender[q]
    /\ \A q \in DOMAIN toSender' :
        \/ q \in DOMAIN toSender /\ toSender'[q] = toSender[q]
        \/ toSender'[q].kind = "confirm"
    /\ \/ UNCHANGED toReceiver
       \/ /\ TakenR /\ toReceiver[1].kind = "digest" /\ JobIs(toReceiver[1].id)
          /\ write_job.listed

\* A digest and the user's answer are replied to.
LEMMA ReplyStep ==
    ASSUME Inv, HandleDigest \/ HandleDigestFails \/ SetConfirmOverrideFile
    PROVE  Replied
<1>0. TypeOK
  BY DEF Inv
<1>1. \/ UNCHANGED toReceiver
      \/ /\ TakenR /\ toReceiver[1].kind = "digest" /\ JobIs(toReceiver[1].id)
         /\ write_job.listed
  <2>1. CASE SetConfirmOverrideFile
    BY <2>1 DEF SetConfirmOverrideFile
  <2>2. CASE HandleDigest \/ HandleDigestFails
    <3>1. toReceiver # <<>> /\ toReceiver' = Tail(toReceiver)
      BY <2>2 DEF HandleDigest, HandleDigestFails
    <3>2. TakenR /\ Head(toReceiver) = toReceiver[1]
      BY <3>1, <1>0, TakenRIs
    <3>3. toReceiver[1].kind = "digest" /\ JobIs(toReceiver[1].id)
      BY <2>2, <3>2 DEF HandleDigest, HandleDigestFails, ForJob, JobIs
    <3>4. PICK v : v = [write_job EXCEPT !.digest = toReceiver[1].ver] /\ v.listed
      BY <2>2, <3>2 DEF HandleDigest, HandleDigestFails
    <3>5. write_job \in TransferJob
      BY <3>3, <1>0, TypeFacts DEF JobIs
    <3>6. v.listed = write_job.listed
      BY <3>4, <3>5 DEF TransferJob
    <3> QED BY <3>2, <3>3, <3>4, <3>6
  <2> QED BY <2>1, <2>2
<1>2. CASE Asking
  <2>1. PICK f \in Files :
        /\ OnQuestion(f) /\ (ask' = f \/ write_job.id \in failed')
        /\ write_job' = [write_job EXCEPT !.digest = src[f]]
        /\ UNCHANGED toSender
    BY <1>2 DEF Asking
  <2>2. /\ write_job \in TransferJob /\ write_job # None /\ UNCHANGED read_jobs
        /\ failed \subseteq failed'
    BY <2>1 DEF OnQuestion
  <2>3. src[f] \in Nat /\ f # None
    BY <1>0, TypeFacts, FilesAre, NoneAssumption
  <2>4. /\ write_job' \in TransferJob /\ write_job'.id = write_job.id
        /\ write_job'.last = write_job.last /\ write_job'.listed = write_job.listed
    BY <2>1, <2>2, <2>3 DEF TransferJob
  <2>5. write_job' # None
    BY <2>4, NoneAssumption
  <2> QED BY <2>1, <2>2, <2>3, <2>4, <2>5, <1>1 DEF Replied
<1>3. CASE Answering
  <2>1. PICK f \in Files, c \in FileAction : AnswerTo(f, c)
    BY <1>3 DEF Answering
  <2>2. /\ write_job # None /\ UNCHANGED read_jobs /\ ~write_job.last
        /\ write_job \in TransferJob /\ failed \subseteq failed'
    BY <2>1 DEF AnswerTo, OnQuestion
  <2>3. /\ write_job' \in TransferJob /\ write_job' # None /\ write_job'.id = write_job.id
        /\ ~write_job'.last /\ write_job'.listed = write_job.listed
        /\ c.kind = "confirm" /\ c.id = write_job.id /\ AddedS(c)
    BY <2>1 DEF AnswerTo
  <2>4. write_job'.last = write_job.last
    BY <2>2, <2>3 DEF TransferJob
  <2>5. Pending({"confirm"}, write_job.id, toSender')
    BY <2>3 DEF Pending, AddedS
  <2>6. /\ \A q \in DOMAIN toSender : q \in DOMAIN toSender' /\ toSender'[q] = toSender[q]
        /\ \A q \in DOMAIN toSender' :
            \/ q \in DOMAIN toSender /\ toSender'[q] = toSender[q]
            \/ toSender'[q].kind = "confirm"
    BY <2>3 DEF AddedS
  <2> QED BY <2>2, <2>3, <2>4, <2>5, <2>6, <1>1 DEF Replied
<1> QED BY <1>2, <1>3, DigestStep, DigestFailsStep, AnswerStep

\* Alive, when the writer replies.
LEMMA RepliedAlive ==
    ASSUME TypeOK, Alive, Replied
    PROVE  Alive'
<1>0. ReaderWaits /\ WriterWaits /\ Orphans /\ EndsOnce /\ ListFirst
  BY DEF Alive
<1>1. /\ UNCHANGED read_jobs /\ failed \subseteq failed' /\ \A id : JobIs(id)' <=> JobIs(id)
      /\ \A q \in DOMAIN toSender : q \in DOMAIN toSender' /\ toSender'[q] = toSender[q]
  BY DEF Replied, JobIs
<1>2. ASSUME NEW K, NEW id, Pending(K, id, toSender)
      PROVE  Pending(K, id, toSender')
  BY <1>1, <1>2, StaysGrown
<1>3. ASSUME NEW K, NEW id, "digest" \notin K \/ ~JobIs(id), Pending(K, id, toReceiver)
      PROVE  Pending(K, id, toReceiver')
  <2>1. CASE UNCHANGED toReceiver
    BY <2>1, <1>3
  <2>2. CASE TakenR /\ toReceiver[1].kind = "digest" /\ JobIs(toReceiver[1].id)
    BY <2>2, <1>3, StaysR
  <2> QED BY <2>1, <2>2 DEF Replied
<1>4. ReaderWaits'
  <2> SUFFICES ASSUME NEW k \in DOMAIN read_jobs, read_jobs[k].waiting, ~read_jobs[k].confirmed
               PROVE  AnswerComes(read_jobs[k].id)'
    BY <1>1 DEF ReaderWaits
  <2>0. AnswerComes(read_jobs[k].id)
    BY <1>0 DEF ReaderWaits
  <2>1. CASE JobIs(read_jobs[k].id)
    <3>1. CASE ask' # None
      BY <3>1, <2>1, <1>1 DEF AnswerComes
    <3>2. CASE Pending({"confirm"}, write_job.id, toSender')
      <4>1. Pending({"confirm", "cancel"}, read_jobs[k].id, toSender')
        BY <3>2, <2>1 DEF Pending, JobIs
      <4> QED BY <4>1, <1>1 DEF AnswerComes
    <3>3. CASE write_job.id \in failed'
      BY <3>3, <2>1, <1>1 DEF AnswerComes, JobIs
    <3> QED BY <3>1, <3>2, <3>3 DEF Replied
  <2>2. CASE ~JobIs(read_jobs[k].id)
    <3>1. Pending({"digest"}, read_jobs[k].id, toReceiver) =>
              Pending({"digest"}, read_jobs[k].id, toReceiver')
      BY <2>2, <1>3
    <3>2. Pending({"confirm", "cancel"}, read_jobs[k].id, toSender) =>
              Pending({"confirm", "cancel"}, read_jobs[k].id, toSender')
      BY <1>2
    <3> QED BY <2>0, <2>2, <3>1, <3>2, <1>1 DEF AnswerComes
  <2> QED BY <2>1, <2>2
<1>5. WriterWaits'
  <2>1. Pending({"send"}, write_job.id, toSender) => Pending({"send"}, write_job.id, toSender')
    BY <1>2
  <2>2. Pending({"done", "error"}, write_job.id, toReceiver) =>
            Pending({"done", "error"}, write_job.id, toReceiver')
    BY <1>3
  <2>3. \/ ~write_job'.last => \E i \in DOMAIN read_jobs : JobIs(read_jobs[i].id)
        \/ Pending({"send"}, write_job.id, toSender')
        \/ Pending({"done", "error"}, write_job.id, toReceiver')
    BY <2>1, <2>2, <1>0 DEF WriterWaits, Replied
  <2> QED BY <2>3, <1>1 DEF WriterWaits, Replied
<1>6. Orphans'
  <2>1. \A i \in DOMAIN read_jobs : ~JobIs(read_jobs[i].id) =>
            Pending({"cancel"}, read_jobs[i].id, toSender') \/ read_jobs[i].id \in failed
    BY <1>0, <1>2 DEF Orphans
  <2>2. ASSUME NEW q \in DOMAIN toSender', toSender'[q].kind \in {"send", "cancel"}
        PROVE  q \in DOMAIN toSender /\ toSender'[q] = toSender[q]
    BY <2>2 DEF Replied
  <2>3. \A q \in DOMAIN toSender' : toSender'[q].kind = "send" /\ ~JobIs(toSender'[q].id) =>
            \E p \in DOMAIN toSender' :
                p > q /\ toSender'[p].kind = "cancel" /\ toSender'[p].id = toSender'[q].id
    BY <2>2, <1>0, <1>1 DEF Orphans
  <2>4. \A q \in DOMAIN toSender' : toSender'[q].kind = "cancel" => ~JobIs(toSender'[q].id)
    BY <2>2, <1>0 DEF Orphans
  <2> QED BY <2>1, <2>3, <2>4, <1>1 DEF Orphans
<1>7. EndsOnce'
  <2>1. CASE UNCHANGED toReceiver
    BY <2>1, <1>0, <1>1 DEF EndsOnce
  <2>2. CASE TakenR
    BY <2>2, <1>0, <1>1 DEF EndsOnce, TakenR
  <2> QED BY <2>1, <2>2 DEF Replied
<1>8. ListFirst'
  <2>1. CASE UNCHANGED toReceiver
    BY <2>1, <1>0, <1>1 DEF ListFirst, Replied
  <2>2. CASE write_job.listed
    BY <2>2 DEF ListFirst, Replied
  <2> QED BY <2>1, <2>2 DEF Replied
<1> QED BY <1>4, <1>5, <1>6, <1>7, <1>8 DEF Alive

\* A response is taken after which the writer's job goes on.
Heard ==
    /\ TakenR
    /\ UNCHANGED <<read_jobs, ask, toSender, failed>>
    /\ write_job = None => write_job' = None
    /\ write_job # None =>
        /\ write_job' # None /\ write_job'.id = write_job.id
        /\ write_job'.last <=> write_job.last
        /\ write_job.listed => write_job'.listed
    /\ \/ ~JobIs(toReceiver[1].id)
       \/ toReceiver[1].kind \in {"dir", "block"} /\ write_job'.listed

\* FileResponse::Dir and Block, and what is ignored.
LEMMA HeardStep ==
    ASSUME Inv, HandleDir \/ HandleBlock \/ HandleBlockFails \/ IgnoreResponse
    PROVE  Heard
<1>0. TypeOK /\ Protocol /\ Writer /\ Disk
  BY InvIs
<1>1. CASE HandleDir \/ IgnoreResponse
  <2>1. /\ toReceiver # <<>> /\ toReceiver' = Tail(toReceiver)
        /\ UNCHANGED <<read_jobs, ask, toSender, failed>>
    BY <1>1 DEF HandleDir, IgnoreResponse, history, peers
  <2>2. TakenR /\ Head(toReceiver) = toReceiver[1]
    BY <2>1, <1>0, TakenRIs
  <2>3. Thinned
    BY <1>0, <1>1, DirStep
  <2>4. CASE IgnoreResponse
    <3>1. ~JobIs(toReceiver[1].id)
      BY <2>2, <2>4 DEF IgnoreResponse, ForJob, JobIs
    <3> QED BY <3>1, <2>1, <2>2, <2>3 DEF Thinned, Heard
  <2>5. CASE HandleDir
    <3>1. /\ toReceiver[1].kind = "dir" /\ write_job # None
          /\ write_job' = [write_job EXCEPT !.listed = TRUE]
      BY <2>2, <2>5 DEF HandleDir, ForJob
    <3>2. write_job'.listed
      BY <3>1, <1>0, TypeFacts DEF TransferJob
    <3> QED BY <3>1, <3>2, <2>1, <2>2, <2>3 DEF Thinned, Heard
  <2> QED BY <1>1, <2>4, <2>5
<1>2. CASE HandleBlock \/ HandleBlockFails
  <2>1. Wrote
    BY <1>0, <1>2, WriteStep, WriteFailsStep
  <2>2. toReceiver[1].kind = "block" /\ write_job # None /\ ~write_job.last
    BY <2>1 DEF Wrote, AtBlock
  <2> QED BY <2>1, <2>2 DEF Wrote, Heard
<1> QED BY <1>1, <1>2

\* Alive, when a response is taken after which the writer's job goes on.
LEMMA HeardAlive ==
    ASSUME TypeOK, Alive, Heard
    PROVE  Alive'
<1>0. ReaderWaits /\ WriterWaits /\ Orphans /\ EndsOnce /\ ListFirst
  BY DEF Alive
<1>1. TakenR /\ UNCHANGED <<read_jobs, ask, toSender, failed>> /\ \A id : JobIs(id)' <=> JobIs(id)
  BY DEF Heard, JobIs
<1>2. ReaderWaits'
  <2> SUFFICES ASSUME NEW k \in DOMAIN read_jobs, read_jobs[k].waiting, ~read_jobs[k].confirmed
               PROVE  AnswerComes(read_jobs[k].id)'
    BY <1>1 DEF ReaderWaits
  <2>0. AnswerComes(read_jobs[k].id)
    BY <1>0 DEF ReaderWaits
  <2>1. CASE ~(toReceiver[1].kind = "digest" /\ toReceiver[1].id = read_jobs[k].id)
    <3>1. Pending({"digest"}, read_jobs[k].id, toReceiver) =>
              Pending({"digest"}, read_jobs[k].id, toReceiver')
      BY <2>1, <1>1, StaysR
    <3> QED BY <2>0, <3>1, <1>1 DEF AnswerComes
  <2>2. CASE toReceiver[1].kind = "digest" /\ toReceiver[1].id = read_jobs[k].id
    <3>1. ~JobIs(read_jobs[k].id)
      BY <2>2 DEF Heard
    <3>2. Pending({"cancel"}, read_jobs[k].id, toSender) \/ read_jobs[k].id \in failed
      BY <3>1, <1>0 DEF Orphans
    <3>3. Pending({"cancel"}, read_jobs[k].id, toSender) =>
              Pending({"confirm", "cancel"}, read_jobs[k].id, toSender)
      BY DEF Pending
    <3> QED BY <3>2, <3>3, <1>1 DEF AnswerComes
  <2> QED BY <2>1, <2>2
<1>3. WriterWaits'
  <2> SUFFICES ASSUME write_job # None, ~write_job.last
               PROVE  \/ \E i \in DOMAIN read_jobs : JobIs(read_jobs[i].id)
                      \/ Pending({"send"}, write_job.id, toSender)
                      \/ Pending({"done", "error"}, write_job.id, toReceiver')
    BY <1>1 DEF WriterWaits, Heard
  <2>1. ~(toReceiver[1].kind \in {"done", "error"} /\ toReceiver[1].id = write_job.id)
    BY DEF Heard, JobIs
  <2>2. Pending({"done", "error"}, write_job.id, toReceiver) =>
            Pending({"done", "error"}, write_job.id, toReceiver')
    BY <2>1, <1>1, StaysR
  <2> QED BY <2>2, <1>0 DEF WriterWaits
<1>4. Orphans'
  BY <1>0, <1>1 DEF Orphans
<1>5. EndsOnce'
  BY <1>0, <1>1 DEF EndsOnce, TakenR
<1>6. ListFirst'
  <2> SUFFICES ASSUME write_job # None, ~write_job.listed, ~JobIs(toReceiver[1].id)
               PROVE  /\ \A p \in DOMAIN toReceiver' :
                            toReceiver'[p].kind \in {"digest", "block"} /\ JobIs(toReceiver'[p].id)
                            => \E q \in DOMAIN toReceiver' :
                                q < p /\ toReceiver'[q].kind = "dir"
                                    /\ toReceiver'[q].id = toReceiver'[p].id
                      /\ \A k \in DOMAIN read_jobs : JobIs(read_jobs[k].id) =>
                            Pending({"dir"}, read_jobs[k].id, toReceiver')
    BY <1>1 DEF ListFirst, Heard
  <2>1. ASSUME NEW k \in DOMAIN read_jobs, JobIs(read_jobs[k].id)
        PROVE  Pending({"dir"}, read_jobs[k].id, toReceiver')
    <3>1. Pending({"dir"}, read_jobs[k].id, toReceiver)
      BY <2>1, <1>0 DEF ListFirst
    <3> QED BY <3>1, <2>1, <1>1, StaysR
  <2>2. ASSUME NEW p \in DOMAIN toReceiver',
               toReceiver'[p].kind \in {"digest", "block"}, JobIs(toReceiver'[p].id)
        PROVE  \E q \in DOMAIN toReceiver' :
                    q < p /\ toReceiver'[q].kind = "dir" /\ toReceiver'[q].id = toReceiver'[p].id
    <3>1. p \in Nat /\ p + 1 \in DOMAIN toReceiver /\ toReceiver'[p] = toReceiver[p + 1]
      BY <1>1 DEF TakenR
    <3>2. PICK q \in DOMAIN toReceiver :
            q < p + 1 /\ toReceiver[q].kind = "dir" /\ toReceiver[q].id = toReceiver'[p].id
      BY <2>2, <3>1, <1>0 DEF ListFirst
    <3>3. q # 1 /\ q \in Nat /\ q >= 1
      BY <2>2, <3>2, TypeFacts
    <3>4. q > 1 /\ q - 1 < p
      BY <3>1, <3>2, <3>3
    <3>5. q - 1 \in DOMAIN toReceiver' /\ toReceiver'[q - 1] = toReceiver[q]
      BY <3>4, <1>1 DEF TakenR
    <3> QED BY <3>2, <3>4, <3>5
  <2> QED BY <2>1, <2>2
<1> QED BY <1>2, <1>3, <1>4, <1>5, <1>6 DEF Alive

\* Alive, when the writer's job ends.
LEMMA EndAlive ==
    ASSUME TypeOK, Protocol, Alive, HandleDone \/ HandleError
    PROVE  Alive'
<1>0. ReaderWaits /\ WriterWaits /\ Orphans /\ EndsOnce /\ ListFirst /\ Fresh
  BY DEF Alive, Protocol
<1>1. /\ toReceiver # <<>> /\ toReceiver' = Tail(toReceiver) /\ write_job' = None
      /\ UNCHANGED <<read_jobs, toSender, failed>>
  BY DEF HandleDone, HandleError, history
<1>2. TakenR /\ Head(toReceiver) = toReceiver[1] /\ 1 \in DOMAIN toReceiver
  BY <1>1, TakenRIs DEF TakenR
<1>3. toReceiver[1].kind \in {"done", "error"} /\ JobIs(toReceiver[1].id)
  BY <1>2 DEF HandleDone, HandleError, ForJob, JobIs
<1>4. \A i \in DOMAIN read_jobs : JobIs(read_jobs[i].id) => read_jobs[i].id \in failed
  BY <1>0, <1>2, <1>3 DEF EndsOnce, JobIs
<1>5. \A q \in DOMAIN toSender : toSender[q].kind = "send" => ~JobIs(toSender[q].id)
  BY <1>0, <1>2, <1>3 DEF Fresh, JobIs
<1>6. \A id : ~JobIs(id)'
  BY <1>1 DEF JobIs
<1>7. ReaderWaits'
  <2> SUFFICES ASSUME NEW k \in DOMAIN read_jobs, read_jobs[k].waiting, ~read_jobs[k].confirmed
               PROVE  AnswerComes(read_jobs[k].id)'
    BY <1>1 DEF ReaderWaits
  <2>0. AnswerComes(read_jobs[k].id)
    BY <1>0 DEF ReaderWaits
  <2>1. Pending({"digest"}, read_jobs[k].id, toReceiver) =>
            Pending({"digest"}, read_jobs[k].id, toReceiver')
    BY <1>2, <1>3, StaysR
  <2> QED BY <2>0, <2>1, <1>1, <1>4 DEF AnswerComes
<1>8. WriterWaits' /\ ListFirst'
  BY <1>1 DEF WriterWaits, ListFirst
<1>9. Orphans'
  BY <1>0, <1>1, <1>4, <1>5, <1>6 DEF Orphans
<1>10. EndsOnce'
  BY <1>0, <1>1, <1>2 DEF EndsOnce, TakenR
<1> QED BY <1>7, <1>8, <1>9, <1>10 DEF Alive

\* Alive, when the writer gives its job up.
LEMMA CancellingAlive ==
    ASSUME TypeOK, Protocol, Alive, Cancelling
    PROVE  Alive'
<1>0. ReaderWaits /\ WriterWaits /\ Orphans /\ EndsOnce /\ ListFirst /\ Ids
  BY DEF Alive, Protocol
<1>1. /\ write_job' = None /\ ask' = None /\ write_job \in TransferJob
      /\ UNCHANGED <<read_jobs, toReceiver, failed>>
  BY DEF Cancelling, history
<1>2. PICK c \in FileAction : c.kind = "cancel" /\ c.id = jobs /\ AddedS(c)
  BY DEF Cancelling
<1>3. c.id = write_job.id /\ \A id : JobIs(id) => id = c.id
  BY <1>0, <1>1, <1>2, NoneAssumption DEF Ids, JobIs
<1>4. /\ Len(toSender) + 1 \in DOMAIN toSender' /\ toSender'[Len(toSender) + 1] = c
      /\ \A q \in DOMAIN toSender : q \in DOMAIN toSender' /\ toSender'[q] = toSender[q]
      /\ \A q \in DOMAIN toSender' :
            \/ q \in DOMAIN toSender /\ toSender'[q] = toSender[q]
            \/ toSender'[q] = c
  BY <1>2 DEF AddedS
<1>5. ASSUME NEW K, NEW id, Pending(K, id, toSender) \/ ("cancel" \in K /\ JobIs(id))
      PROVE  Pending(K, id, toSender')
  <2>1. CASE Pending(K, id, toSender)
    BY <2>1, <1>4, StaysGrown
  <2>2. CASE "cancel" \in K /\ JobIs(id)
    BY <2>2, <1>2, <1>3, <1>4 DEF Pending
  <2> QED BY <1>5, <2>1, <2>2
<1>6. \A id : ~JobIs(id)'
  BY <1>1 DEF JobIs
<1>7. ReaderWaits'
  <2> SUFFICES ASSUME NEW k \in DOMAIN read_jobs, read_jobs[k].waiting, ~read_jobs[k].confirmed
               PROVE  AnswerComes(read_jobs[k].id)'
    BY <1>1 DEF ReaderWaits
  <2>0. AnswerComes(read_jobs[k].id)
    BY <1>0 DEF ReaderWaits
  <2>1. Pending({"confirm", "cancel"}, read_jobs[k].id, toSender) \/ JobIs(read_jobs[k].id) =>
            Pending({"confirm", "cancel"}, read_jobs[k].id, toSender')
    BY <1>5
  <2> QED BY <2>0, <2>1, <1>1 DEF AnswerComes
<1>8. WriterWaits' /\ ListFirst'
  BY <1>1 DEF WriterWaits, ListFirst
<1>9. Orphans'
  <2>1. \A i \in DOMAIN read_jobs :
            Pending({"cancel"}, read_jobs[i].id, toSender') \/ read_jobs[i].id \in failed
    <3> TAKE i \in DOMAIN read_jobs
    <3>1. Pending({"cancel"}, read_jobs[i].id, toSender) \/ JobIs(read_jobs[i].id) =>
              Pending({"cancel"}, read_jobs[i].id, toSender')
      BY <1>5
    <3> QED BY <3>1, <1>0 DEF Orphans
  <2>2. ASSUME NEW q \in DOMAIN toSender', toSender'[q].kind = "send"
        PROVE  \E p \in DOMAIN toSender' :
                    p > q /\ toSender'[p].kind = "cancel" /\ toSender'[p].id = toSender'[q].id
    <3>1. q \in DOMAIN toSender /\ toSender'[q] = toSender[q]
      BY <2>2, <1>2, <1>4
    <3>2. CASE JobIs(toSender[q].id)
      <4>1. Len(toSender) + 1 > q
        BY <3>1, TypeFacts
      <4> QED BY <4>1, <3>1, <3>2, <1>2, <1>3, <1>4
    <3>3. CASE ~JobIs(toSender[q].id)
      <4>1. PICK p \in DOMAIN toSender :
                p > q /\ toSender[p].kind = "cancel" /\ toSender[p].id = toSender[q].id
        BY <3>1, <3>3, <2>2, <1>0 DEF Orphans
      <4> QED BY <4>1, <3>1, <1>4
    <3> QED BY <3>2, <3>3
  <2> QED BY <2>1, <2>2, <1>1, <1>6 DEF Orphans
<1>10. EndsOnce'
  BY <1>0, <1>1 DEF EndsOnce
<1> QED BY <1>7, <1>8, <1>9, <1>10 DEF Alive

\* Alive, when the writer asks for a job.
LEMMA OpeningAlive ==
    ASSUME TypeOK, Protocol, Alive, Opening
    PROVE  Alive'
<1>0. ReaderWaits /\ WriterWaits /\ Orphans /\ EndsOnce /\ ListFirst /\ Ids
  BY DEF Alive, Protocol
<1>1. PICK c \in FileAction : OpenedWith(c)
  BY DEF Opening
<1>2. /\ c.kind = "send" /\ c.id = jobs' /\ write_job' # None /\ write_job'.id = jobs'
      /\ ask = None /\ UNCHANGED <<read_jobs, ask, toReceiver, failed>> /\ Unknown(jobs')
  BY <1>1 DEF OpenedWith
<1>3. write_job = None \/ jobs' = jobs
  BY <1>1 DEF OpenedWith
<1>4. \A id : id # jobs' => ~JobIs(id) /\ ~JobIs(id)'
  BY <1>0, <1>2, <1>3 DEF Ids, JobIs
<1>5. /\ Len(toSender) + 1 \in DOMAIN toSender' /\ toSender'[Len(toSender) + 1] = c
      /\ \A q \in DOMAIN toSender : q \in DOMAIN toSender' /\ toSender'[q] = toSender[q]
      /\ \A q \in DOMAIN toSender' :
            \/ q \in DOMAIN toSender /\ toSender'[q] = toSender[q]
            \/ toSender'[q] = c
  BY <1>1 DEF OpenedWith, AddedS
<1>6. ASSUME NEW K, NEW id, Pending(K, id, toSender)
      PROVE  Pending(K, id, toSender')
  BY <1>5, <1>6, StaysGrown
<1>7. ReaderWaits'
  <2> SUFFICES ASSUME NEW k \in DOMAIN read_jobs, read_jobs[k].waiting, ~read_jobs[k].confirmed
               PROVE  AnswerComes(read_jobs[k].id)'
    BY <1>2 DEF ReaderWaits
  <2>1. AnswerComes(read_jobs[k].id)
    BY <1>0 DEF ReaderWaits
  <2> QED BY <2>1, <1>2, <1>6 DEF AnswerComes
<1>8. WriterWaits'
  <2>1. Pending({"send"}, write_job'.id, toSender')
    BY <1>2, <1>5 DEF Pending
  <2> QED BY <2>1 DEF WriterWaits
<1>9. Orphans'
  <2>1. \A i \in DOMAIN read_jobs :
            Pending({"cancel"}, read_jobs[i].id, toSender') \/ read_jobs[i].id \in failed
    BY <1>0, <1>2, <1>4, <1>6 DEF Orphans, Unknown
  <2>2. ASSUME NEW q \in DOMAIN toSender', toSender'[q].kind = "send", toSender'[q].id # jobs'
        PROVE  \E p \in DOMAIN toSender' :
                    p > q /\ toSender'[p].kind = "cancel" /\ toSender'[p].id = toSender'[q].id
    <3>1. q \in DOMAIN toSender /\ toSender'[q] = toSender[q]
      BY <2>2, <1>2, <1>5
    <3>2. PICK p \in DOMAIN toSender :
              p > q /\ toSender[p].kind = "cancel" /\ toSender[p].id = toSender[q].id
      BY <3>1, <2>2, <1>0, <1>4 DEF Orphans
    <3> QED BY <3>1, <3>2, <1>5
  <2>3. \A q \in DOMAIN toSender' : toSender'[q].kind = "cancel" => toSender'[q].id # jobs'
    BY <1>2, <1>5 DEF Unknown
  <2>4. \A id : JobIs(id)' <=> id = jobs'
    BY <1>2 DEF JobIs
  <2> QED BY <2>1, <2>2, <2>3, <2>4, <1>2 DEF Orphans
<1>10. EndsOnce'
  BY <1>0, <1>2 DEF EndsOnce
<1>11. ListFirst'
  <2>1. \A p \in DOMAIN toReceiver : ~JobIs(toReceiver[p].id)'
    BY <1>2, <1>4 DEF Unknown
  <2>2. \A i \in DOMAIN read_jobs : ~JobIs(read_jobs[i].id)'
    BY <1>2, <1>4 DEF Unknown
  <2> QED BY <2>1, <2>2, <1>2 DEF ListFirst
<1> QED BY <1>7, <1>8, <1>9, <1>10, <1>11 DEF Alive

\* Alive, when nothing is under way.
LEMMA QuietAlive ==
    ASSUME Quiet
    PROVE  Alive'
<1>1. DOMAIN read_jobs' = {} /\ DOMAIN toReceiver' = {} /\ DOMAIN toSender' = {}
  BY DEF Quiet
<1>2. write_job' = None \/ write_job'.last
  BY DEF Quiet
<1>3. ReaderWaits' /\ WriterWaits' /\ EndsOnce'
  BY <1>1, <1>2 DEF ReaderWaits, WriterWaits, EndsOnce
<1>4. Orphans' /\ ListFirst'
  BY <1>1 DEF Orphans, ListFirst
<1> QED BY <1>3, <1>4 DEF Alive

\* Every step keeps Alive.
LEMMA AliveStep ==
    ASSUME Inv, Alive, [Next]_vars
    PROVE  Alive'
<1>0. /\ TypeOK /\ Protocol /\ Writer /\ Disk
      /\ Ids /\ Fresh /\ Question
  BY InvIs DEF Protocol
<1>1. CASE FileTimer
  <2>1. Tick /\ TickEnds
    BY <1>0, <1>1, TimerStep
  <2>2. Ticking
    BY <2>1, <1>1 DEF Ticking, FileTimer
  <2> QED BY <2>1, <2>2, <1>0, TickingAlive
<1>2. CASE HandleSend \/ HandleConfirm \/ HandleCancel
  BY <1>0, <1>2, SendAlive, ConfirmAlive, CancelAlive
<1>3. CASE HandleDigest \/ HandleDigestFails \/ SetConfirmOverrideFile
  BY <1>0, <1>3, ReplyStep, RepliedAlive
<1>4. CASE HandleDir \/ HandleBlock \/ HandleBlockFails \/ IgnoreResponse
  BY <1>0, <1>4, HeardStep, HeardAlive
<1>5. CASE HandleDone \/ HandleError
  BY <1>0, <1>5, EndAlive
<1>6. CASE StartJob \/ ResumeJob
  BY <1>0, <1>6, StartStep, ResumeStep, OpeningAlive
<1>7. CASE CancelJob
  BY <1>0, <1>7, CancelJobStep, CancellingAlive
<1>8. CASE World
  <2>1. CASE Cut
    BY <2>1, <1>0, CutStep, QuietAlive
  <2>2. CASE Connect \/ ChangeSource
    BY <2>2, <1>0, ConnectStep, QuietAlive
  <2> QED BY <2>1, <2>2, <1>8 DEF World, Disconnect, Kill, KillInWrite
<1>9. CASE UNCHANGED vars
  <2>1. UNCHANGED <<read_jobs, write_job, ask, toReceiver, toSender, failed>>
    BY <1>9 DEF vars, peers, wires, history
  <2>2. ReaderWaits' /\ WriterWaits' /\ Orphans' /\ EndsOnce' /\ ListFirst'
    <3>1. ReaderWaits' /\ WriterWaits'
      BY <2>1 DEF Alive, ReaderWaits, AnswerComes, WriterWaits, JobIs
    <3>2. Orphans' /\ EndsOnce' /\ ListFirst'
      BY <2>1 DEF Alive, Orphans, EndsOnce, ListFirst, JobIs
    <3> QED BY <3>1, <3>2
  <2> QED BY <2>2 DEF Alive
<1> QED BY <1>1, <1>2, <1>3, <1>4, <1>5, <1>6, <1>7, <1>8, <1>9
     DEF Next, Sender, Receiver, User

\* Nobody waits in vain: whatever is cancelled, refused or ignored, in
\* whatever order the messages cross, neither side is left waiting for
\* something that is not under way (file_confirmed_waiting, remove_job,
\* handle_read_jobs), but for the reading jobs in failed: those that go on
\* after an error they reported, and those whose question the writer dropped.
THEOREM NobodyWaitsInVainHolds == Spec => []NobodyWaitsInVain
<1>1. Init => Inv /\ Alive
  <2>1. Init => DOMAIN read_jobs = {} /\ DOMAIN toReceiver = {} /\ DOMAIN toSender = {}
                /\ write_job = None
    BY DEF Init
  <2>2. Init => Alive
    BY <2>1 DEF Alive, ReaderWaits, WriterWaits, Orphans, EndsOnce, ListFirst
  <2> QED BY <2>2, InvInit
<1>2. (Inv /\ Alive) /\ [Next]_vars => (Inv /\ Alive)'
  BY InvStep, AliveStep
<1>3. Inv /\ Alive => NobodyWaitsInVain
  BY InvIs, AliveIs DEF Protocol
<1> QED BY <1>1, <1>2, <1>3, PTL DEF Spec

=============================================================================
