------------------------- MODULE HtlcForwardProofs --------------------------
(***************************************************************************)
(* Forwarding is safe for any number of HTLCs, link failures and restarts. *)
(***************************************************************************)
EXTENDS HtlcForward, SumTheorems

Distinct(s) == \A i, j \in 1 .. Len(s) : s[i] = s[j] => i = j
Begins(t, s) == Len(s) <= Len(t) /\ \A i \in 1 .. Len(s) : t[i] = s[i]
Elements(s) == {s[i] : i \in 1 .. Len(s)}
Fails(rs) == {rs[i].key : i \in {j \in 1 .. Len(rs) : rs[j].answer = "fail"}}
Offered == {Sent(o) : o \in SentKeys}

\* The outgoing mailbox: no packet twice, and what the link took from its head
\* is what it added to the channel since it last signed.
MailboxInv ==
    /\ Distinct(adds)
    /\ Begins(adds, outLog) /\ addHead = Len(outLog)
    /\ ~ outUp => outLog = <<>>
    /\ Len(sent) + Len(outLog) <= MaxHtlcs + 1

\* An add in the mailbox was neither sent nor answered, and no answer to it is
\* on its way; its circuit is in memory, and not from disk.
QueuedInv ==
    \A k \in Elements(adds) :
        /\ k \in lockedIn /\ k \notin Offered /\ answered[k] = none
        /\ pending[k] # none /\ ~ pending[k].loadedFromDisk
        /\ k \notin Keys(reps) /\ k \notin Keys(inLog)

\* An HTLC is signed once, and keeps its circuit until it is answered.
SentInv ==
    /\ Distinct(sent)
    /\ \A k \in Offered : k \in lockedIn /\ (answered[k] = none => pending[k] # none)

\* Responses and replays are about HTLCs that were locked in, removals are
\* acked with their signature, and circuits are only deleted after it.
IncomingInv ==
    /\ replay \subseteq lockedIn \ addAcked
    /\ Keys(reps) \subseteq lockedIn /\ Keys(inLog) \subseteq lockedIn
    /\ \A k \in Keys(inLog) : k \notin replay /\ answered[k] = none
    /\ addAcked = {k \in InKeys : answered[k] # none}
    /\ owed \subseteq addAcked
    /\ ~ inUp => inLog = <<>>
    /\ toClose \subseteq {o \in SentKeys : resp[o] # none}

\* Memory and disk agree on the circuits, a circuit's outgoing key leads back
\* to it, and keystones in memory are on disk.
CircuitInv ==
    /\ circuitBkt = {k \in InKeys : pending[k] # none}
    /\ \A k \in InKeys : HasKeystone(k) => opened[pending[k].out] = k
    /\ \A o \in OutKeys : opened[o] # none => keystoneBkt[o] = opened[o]

\* The keys of signed HTLCs, and of those about to be signed, lead to their
\* circuits.
RouteInv ==
    /\ \A o \in SentKeys :
          /\ keystoneBkt[o] \in {Sent(o), none}
          /\ answered[Sent(o)] = none => opened[o] = Sent(o)
    /\ \A i \in 1 .. keystoned : opened[Len(sent) + i - 1] = outLog[i]

ForwardInv ==
    /\ TypeOK /\ MailboxInv /\ QueuedInv /\ SentInv /\ IncomingInv
    /\ CircuitInv /\ RouteInv

\* What holds as well while keystones leave no gaps: disk and memory agree on
\* keystones, a circuit has at most one, and ids that are not signed are free.
KeystoneInv ==
    /\ keystoneBkt = opened
    /\ \A o \in OutKeys : opened[o] # none =>
          pending[opened[o]] # none /\ pending[opened[o]].out = o
    /\ outUp => \A o \in OutKeys : o >= Len(sent) + keystoned => opened[o] = none

\* A failure on its way back for an HTLC that was sent is the peer's own.
FailureInv ==
    /\ FailedMeansFailed
    /\ \A o \in SentKeys :
          answered[Sent(o)] = none /\ Sent(o) \in Fails(reps) \cup Fails(inLog) =>
              resp[o] = "fail"

-----------------------------------------------------------------------------
\* g holds only elements among the first n of box that are not in acked.
Left(g, box, acked, n) ==
    \A i \in 1 .. Len(g) : \E j \in 1 .. n : g[i] = box[j] /\ box[j] \notin acked

\* What the recursion in Unacked computes up to n.
Step(f, box, acked, i) ==
    IF i = 0 THEN <<>>
    ELSE IF box[i] \in acked THEN f[i - 1] ELSE Append(f[i - 1], box[i])
IsFilter(f, box, acked, n) == f = [i \in 0 .. n |-> Step(f, box, acked, i)]

\* The recursion has a solution.
LEMMA FilterExists ==
    ASSUME NEW box, NEW acked, NEW N \in Nat
    PROVE  \E f : IsFilter(f, box, acked, N)
<1> DEFINE G == {n \in 0 .. N : \E f : IsFilter(f, box, acked, n)}
<1>1. 0 \in G
  <2> DEFINE f == [i \in 0 .. 0 |-> <<>>]
  <2>1. IsFilter(f, box, acked, 0)
    BY DEF IsFilter, Step
  <2> QED BY <2>1
<1>2. ASSUME NEW n \in 1 .. N, n - 1 \in G PROVE n \in G
  <2>1. PICK f : IsFilter(f, box, acked, n - 1)
    BY <1>2
  <2> DEFINE g == [i \in 0 .. n |-> IF i = n THEN Step(f, box, acked, n) ELSE f[i]]
  <2>2. ASSUME NEW i \in 0 .. n PROVE g[i] = Step(g, box, acked, i)
    <3>1. i # 0 => g[i - 1] = f[i - 1]
      OBVIOUS
    <3>2. Step(g, box, acked, i) = Step(f, box, acked, i)
      BY <3>1 DEF Step
    <3>3. i # n => f[i] = Step(f, box, acked, i)
      BY <2>1 DEF IsFilter
    <3> QED BY <3>2, <3>3
  <2>3. IsFilter(g, box, acked, n)
    <3> HIDE DEF g
    <3>1. g = [i \in 0 .. n |-> g[i]]
      BY DEF g
    <3> QED BY <2>2, <3>1 DEF IsFilter
  <2> QED BY <2>3
<1> HIDE DEF G
<1>3. \A n \in 0 .. N : n \in G
  <2>1. G \in SUBSET (0 .. N)
    BY DEF G
  <2> QED BY <1>1, <1>2, <2>1, UpTo
<1> QED BY <1>3 DEF G

\* Unacked is that solution, and so is Unacked of every prefix of the box.
LEMMA UnackedFilter ==
    ASSUME NEW box, NEW acked, Len(box) \in Nat
    PROVE  \E f : IsFilter(f, box, acked, Len(box)) /\ Unacked(box, acked) = f[Len(box)]
<1>1. \E f : IsFilter(f, box, acked, Len(box))
  BY FilterExists
<1> DEFINE left == CHOOSE f : IsFilter(f, box, acked, Len(box))
<1>2. IsFilter(left, box, acked, Len(box))
  BY <1>1
<1>3. Unacked(box, acked) = left[Len(box)]
  BY DEF Unacked, IsFilter, Step
<1> QED BY <1>2, <1>3

\* One step of the recursion.
LEMMA FilterStep ==
    ASSUME NEW box, NEW acked, NEW N \in Nat, NEW f, IsFilter(f, box, acked, N)
    PROVE  \A n \in 1 .. N :
              f[n] = IF box[n] \in acked THEN f[n - 1] ELSE Append(f[n - 1], box[n])
<1>1. \A n \in 0 .. N : f[n] = Step(f, box, acked, n)
  BY DEF IsFilter
<1> QED BY <1>1 DEF Step

\* It starts with nothing.
LEMMA FilterZero ==
    ASSUME NEW box, NEW acked, NEW N \in Nat, NEW f, IsFilter(f, box, acked, N)
    PROVE  f[0] = <<>>
<1>1. f[0] = Step(f, box, acked, 0)
  BY DEF IsFilter
<1> QED BY <1>1 DEF Step

\* Every element the recursion has kept by n comes from the box.
LEMMA FilterElements ==
    ASSUME NEW S, NEW box \in Seq(S), NEW acked, NEW N \in Nat, N <= Len(box), NEW f,
           IsFilter(f, box, acked, N)
    PROVE  \A n \in 0 .. N :
              f[n] \in Seq(S) /\ Left(f[n], box, acked, n)
<1> DEFINE P(n) == /\ f[n] \in Seq(S)
                   /\ \A i \in 1 .. Len(f[n]) :
                         \E j \in 1 .. n : f[n][i] = box[j] /\ box[j] \notin acked
           G == {n \in 0 .. N : P(n)}
<1>1. 0 \in G
  <2>1. f[0] = <<>>
    BY FilterZero
  <2>2. f[0] \in Seq(S) /\ Len(f[0]) = 0
    BY <2>1
  <2> QED BY <2>2
<1>2. ASSUME NEW n \in 1 .. N, n - 1 \in G PROVE n \in G
  <2>1. f[n] = IF box[n] \in acked THEN f[n - 1] ELSE Append(f[n - 1], box[n])
    BY FilterStep
  <2>2. box[n] \in S /\ P(n - 1)
    <3>1. n \in 1 .. Len(box)
      OBVIOUS
    <3>2. box[n] \in S
      BY <3>1
    <3>3. P(n - 1)
      BY <1>2, Zenon
    <3> QED BY <3>2, <3>3
  <2>3. CASE box[n] \in acked
    BY <2>1, <2>2, <2>3
  <2>4. CASE box[n] \notin acked
    <3> DEFINE g == f[n - 1]
    <3>1. f[n] = Append(g, box[n]) /\ g \in Seq(S)
      BY <2>1, <2>2, <2>4
    <3>2. ASSUME NEW i \in 1 .. Len(f[n])
          PROVE  \E j \in 1 .. n : f[n][i] = box[j] /\ box[j] \notin acked
      <4>1. i \in 1 .. Len(g) \/ i = Len(g) + 1
        BY <3>1
      <4>2. CASE i \in 1 .. Len(g)
        <5>1. PICK j \in 1 .. n - 1 : g[i] = box[j] /\ box[j] \notin acked
          BY <2>2, <4>2
        <5>2. f[n][i] = g[i]
          BY <3>1, <4>2
        <5> QED BY <5>1, <5>2
      <4>3. CASE i = Len(g) + 1
        <5>1. f[n][i] = box[n]
          BY <3>1, <2>2, <4>3
        <5> QED BY <5>1, <2>4
      <4> QED BY <4>1, <4>2, <4>3
    <3>3. f[n] \in Seq(S)
      BY <3>1, <2>2
    <3> QED BY <3>2, <3>3
  <2> QED BY <2>3, <2>4
<1> HIDE DEF G
<1>3. \A n \in 0 .. N : n \in G
  <2>1. G \in SUBSET (0 .. N)
    BY DEF G
  <2> QED BY <1>1, <1>2, <2>1, UpTo
<1> QED BY <1>3 DEF G, Left

\* What was kept by m stays in place.
LEMMA FilterGrows ==
    ASSUME NEW S, NEW box \in Seq(S), NEW acked, NEW N \in Nat, N <= Len(box), NEW f,
           IsFilter(f, box, acked, N), NEW m \in 0 .. N
    PROVE  Begins(f[N], f[m])
<1> DEFINE P(n) == n >= m => /\ Len(f[m]) <= Len(f[n])
                             /\ \A i \in 1 .. Len(f[m]) : f[n][i] = f[m][i]
           G == {n \in 0 .. N : P(n)}
<1>0. \A n \in 0 .. N : f[n] \in Seq(S)
  BY FilterElements
<1>1. 0 \in G
  BY <1>0
<1>2. ASSUME NEW n \in 1 .. N, n - 1 \in G PROVE n \in G
  <2>1. f[n] = IF box[n] \in acked THEN f[n - 1] ELSE Append(f[n - 1], box[n])
    BY FilterStep
  <2> DEFINE g == f[n - 1]
  <2>2. box[n] \in S /\ P(n - 1) /\ g \in Seq(S) /\ f[m] \in Seq(S)
    BY <1>0, <1>2
  <2>3. CASE n = m
    BY <2>2, <2>3
  <2>4. CASE n > m /\ box[n] \in acked
    BY <2>1, <2>2, <2>4
  <2>5. CASE n > m /\ box[n] \notin acked
    <3>1. f[n] = Append(g, box[n])
      BY <2>1, <2>5
    <3>2. Len(f[m]) <= Len(g) /\ \A i \in 1 .. Len(f[m]) : g[i] = f[m][i]
      BY <2>2, <2>5
    <3> HIDE DEF g
    <3>3. Len(f[n]) = Len(g) + 1 /\ \A i \in 1 .. Len(g) : f[n][i] = g[i]
      BY <2>2, <3>1
    <3> QED BY <2>2, <3>2, <3>3
  <2> QED BY <2>3, <2>4, <2>5
<1> HIDE DEF G
<1>3. \A n \in 0 .. N : n \in G
  <2>1. G \in SUBSET (0 .. N)
    BY DEF G
  <2> QED BY <1>1, <1>2, <2>1, UpTo
<1> QED BY <1>3 DEF G, Begins

\* A box without repetitions is left without repetitions.
LEMMA FilterInjective ==
    ASSUME NEW S, NEW box \in Seq(S), NEW acked, NEW N \in Nat, N <= Len(box), NEW f,
           IsFilter(f, box, acked, N),
           Distinct(box)
    PROVE  Distinct(f[N])
<1>0. \A n \in 0 .. N : Left(f[n], box, acked, n)
  BY FilterElements
<1> DEFINE P(n) == \A i, j \in 1 .. Len(f[n]) : f[n][i] = f[n][j] => i = j
           G == {n \in 0 .. N : P(n)}
<1>1. 0 \in G
  <2>1. f[0] = <<>>
    BY FilterZero
  <2> QED BY <2>1
<1>2. ASSUME NEW n \in 1 .. N, n - 1 \in G PROVE n \in G
  <2>1. f[n] = IF box[n] \in acked THEN f[n - 1] ELSE Append(f[n - 1], box[n])
    BY FilterStep
  <2> DEFINE g == f[n - 1]
  <2>2. box[n] \in S /\ P(n - 1) /\ g \in Seq(S)
    <3>1. n - 1 \in 0 .. N /\ n \in 1 .. Len(box)
      OBVIOUS
    <3>2. g \in Seq(S)
      BY <3>1, FilterElements
    <3> QED BY <1>2, <3>1, <3>2
  <2>3. \A i \in 1 .. Len(g) : g[i] # box[n]
    <3> SUFFICES ASSUME NEW i \in 1 .. Len(g), g[i] = box[n] PROVE FALSE
      OBVIOUS
    <3>1. n - 1 \in 0 .. N
      OBVIOUS
    <3>3. PICK j \in 1 .. n - 1 : g[i] = box[j]
      BY <1>0, <3>1 DEF Left
    <3>4. j \in 1 .. Len(box) /\ n \in 1 .. Len(box) /\ j # n
      OBVIOUS
    <3> QED BY <3>3, <3>4 DEF Distinct
  <2>4. CASE box[n] \in acked
    BY <2>1, <2>2, <2>4
  <2>5. CASE box[n] \notin acked
    <3>1. f[n] = Append(g, box[n])
      BY <2>1, <2>5
    <3> HIDE DEF g
    <3>2. ASSUME NEW i \in 1 .. Len(f[n]), NEW j \in 1 .. Len(f[n]), f[n][i] = f[n][j]
          PROVE  i = j
      <4>1. (i \in 1 .. Len(g) \/ i = Len(g) + 1) /\ (j \in 1 .. Len(g) \/ j = Len(g) + 1)
        BY <2>2, <3>1
      <4>2. \A x \in 1 .. Len(g) : f[n][x] = g[x]
        BY <2>2, <3>1
      <4>3. f[n][Len(g) + 1] = box[n]
        BY <2>2, <3>1
      <4>4. \A x, y \in 1 .. Len(g) : g[x] = g[y] => x = y
        BY <2>2 DEF g
      <4> QED BY <2>3, <3>2, <4>1, <4>2, <4>3, <4>4
    <3> QED BY <3>2
  <2> QED BY <2>4, <2>5
<1> HIDE DEF G
<1>3. \A n \in 0 .. N : n \in G
  <2>1. G \in SUBSET (0 .. N)
    BY DEF G
  <2> QED BY <1>1, <1>2, <2>1, UpTo
<1> QED BY <1>3 DEF G, Distinct

\* A stretch at the start that is all acked leaves nothing.
LEMMA FilterAllAcked ==
    ASSUME NEW S, NEW box \in Seq(S), NEW acked, NEW N \in Nat, N <= Len(box), NEW f,
           IsFilter(f, box, acked, N), NEW m \in 0 .. N,
           \A i \in 1 .. m : box[i] \in acked
    PROVE  Len(f[m]) = 0
<1> DEFINE P(n) == n <= m => f[n] = <<>>
           G == {n \in 0 .. N : P(n)}
<1>1. 0 \in G
  <2>1. f[0] = <<>>
    BY FilterZero
  <2> QED BY <2>1
<1>2. ASSUME NEW n \in 1 .. N, n - 1 \in G PROVE n \in G
  <2>1. f[n] = IF box[n] \in acked THEN f[n - 1] ELSE Append(f[n - 1], box[n])
    BY FilterStep
  <2> QED BY <1>2, <2>1
<1> HIDE DEF G
<1>3. \A n \in 0 .. N : n \in G
  <2>1. G \in SUBSET (0 .. N)
    BY DEF G
  <2> QED BY <1>1, <1>2, <2>1, UpTo
<1> QED BY <1>3 DEF G

\* One that is all kept is left as it is.
LEMMA FilterNoneAcked ==
    ASSUME NEW S, NEW box \in Seq(S), NEW acked, NEW N \in Nat, N <= Len(box), NEW f,
           IsFilter(f, box, acked, N), NEW m \in 0 .. N,
           \A i \in 1 .. m : box[i] \notin acked
    PROVE  Begins(f[m], SubSeq(box, 1, m))
<1> DEFINE P(n) == n <= m => Len(f[n]) = n /\ \A i \in 1 .. n : f[n][i] = box[i]
           G == {n \in 0 .. N : P(n)}
<1>1. 0 \in G
  <2>1. f[0] = <<>>
    BY FilterZero
  <2> QED BY <2>1
<1>2. ASSUME NEW n \in 1 .. N, n - 1 \in G PROVE n \in G
  <2>1. f[n] = IF box[n] \in acked THEN f[n - 1] ELSE Append(f[n - 1], box[n])
    BY FilterStep
  <2>2. CASE n > m
    BY <2>2
  <2>3. CASE n <= m
    <3> DEFINE g == f[n - 1]
    <3>1. f[n] = Append(g, box[n]) /\ box[n] \in S
      BY <2>1, <2>3
    <3>2. g \in Seq(S)
      <4>1. n - 1 \in 0 .. N
        OBVIOUS
      <4> QED BY <4>1, FilterElements
    <3>3. Len(g) = n - 1 /\ \A i \in 1 .. n - 1 : g[i] = box[i]
      BY <1>2, <2>3
    <3> HIDE DEF g
    <3>4. Len(f[n]) = Len(g) + 1 /\ \A i \in 1 .. Len(g) : f[n][i] = g[i]
      BY <3>1, <3>2
    <3>5. f[n][Len(g) + 1] = box[n]
      BY <3>1, <3>2
    <3>6. Len(f[n]) = n /\ \A i \in 1 .. n : f[n][i] = box[i]
      BY <3>3, <3>4, <3>5
    <3> QED BY <3>6
  <2> QED BY <2>2, <2>3
<1> HIDE DEF G
<1>3. \A n \in 0 .. N : n \in G
  <2>1. G \in SUBSET (0 .. N)
    BY DEF G
  <2> QED BY <1>1, <1>2, <2>1, UpTo
<1>4. Len(f[m]) = m /\ \A i \in 1 .. m : f[m][i] = box[i]
  BY <1>3 DEF G
<1> QED BY <1>4 DEF Begins

\* What is left of a mailbox: elements of it that were not acked, each once if
\* each was there once, and nothing if all of them were acked.
LEMMA UnackedFacts ==
    ASSUME NEW S, NEW box \in Seq(S), NEW acked
    PROVE  /\ Unacked(box, acked) \in Seq(S)
           /\ Left(Unacked(box, acked), box, acked, Len(box))
           /\ Distinct(box) => Distinct(Unacked(box, acked))
           /\ (\A i \in 1 .. Len(box) : box[i] \in acked) => Len(Unacked(box, acked)) = 0
<1>1. PICK f : IsFilter(f, box, acked, Len(box)) /\ Unacked(box, acked) = f[Len(box)]
  BY UnackedFilter
<1> DEFINE n == Len(box)
<1>2. n \in Nat /\ n <= Len(box) /\ n \in 0 .. n /\ IsFilter(f, box, acked, n)
  BY <1>1
<1> HIDE DEF n
<1>3. f[n] \in Seq(S) /\ Left(f[n], box, acked, n)
  BY <1>2, FilterElements
<1>4. Distinct(box) => Distinct(f[n])
  BY <1>2, FilterInjective
<1>5. (\A i \in 1 .. n : box[i] \in acked) => Len(f[n]) = 0
  BY <1>2, FilterAllAcked
<1>6. Unacked(box, acked) = f[n] /\ n = Len(box)
  BY <1>1 DEF n
<1> QED BY <1>3, <1>4, <1>5, <1>6

\* The head keeps its place: the first n packets shrink to a prefix of what is
\* left, and to themselves when none of them was acked.
LEMMA UnackedPrefix ==
    ASSUME NEW S, NEW box \in Seq(S), NEW acked, NEW n \in 0 .. Len(box)
    PROVE  /\ Len(Unacked(SubSeq(box, 1, n), acked)) <= Len(Unacked(box, acked))
           /\ (\A i \in 1 .. n : box[i] \notin acked) =>
                 Begins(Unacked(box, acked), SubSeq(box, 1, n))
<1>1. PICK f : IsFilter(f, box, acked, Len(box)) /\ Unacked(box, acked) = f[Len(box)]
  BY UnackedFilter
<1> DEFINE pre == SubSeq(box, 1, n)
<1>2. pre \in Seq(S) /\ Len(pre) = n /\ \A i \in 1 .. n : pre[i] = box[i]
  OBVIOUS
<1> HIDE DEF pre
<1>3. PICK g : IsFilter(g, pre, acked, n) /\ Unacked(pre, acked) = g[n]
  BY <1>2, UnackedFilter
<1>4. g[n] = f[n]
  <2> DEFINE G == {i \in 0 .. n : g[i] = f[i]}
  <2>1. 0 \in G
    <3>1. f[0] = <<>> /\ g[0] = <<>>
      BY <1>1, <1>3, FilterZero
    <3> QED BY <3>1
  <2>2. ASSUME NEW i \in 1 .. n, i - 1 \in G PROVE i \in G
    <3>1. f[i] = IF box[i] \in acked THEN f[i - 1] ELSE Append(f[i - 1], box[i])
      BY <1>1, FilterStep
    <3>2. g[i] = IF pre[i] \in acked THEN g[i - 1] ELSE Append(g[i - 1], pre[i])
      BY <1>3, FilterStep
    <3> QED BY <1>2, <2>2, <3>1, <3>2
  <2>3. \A i \in 0 .. n : i \in G
    <3>1. G \in SUBSET (0 .. n) /\ n \in Nat
      OBVIOUS
    <3> HIDE DEF G
    <3> QED BY <2>1, <2>2, <3>1, UpTo
  <2> QED BY <2>3
<1> DEFINE N == Len(box)
<1>5. N \in Nat /\ N <= Len(box) /\ n \in 0 .. N /\ IsFilter(f, box, acked, N)
  BY <1>1
<1>6. Unacked(box, acked) = f[N]
  BY <1>1
<1> HIDE DEF N
<1>7. Begins(f[N], f[n])
  BY <1>5, FilterGrows
<1>8. (\A i \in 1 .. n : box[i] \notin acked) => Begins(f[n], pre)
  BY <1>5, FilterNoneAcked DEF pre
<1>9. Unacked(SubSeq(box, 1, n), acked) = f[n]
  BY <1>3, <1>4 DEF pre
<1>10. f[n] \in Seq(S) /\ f[N] \in Seq(S)
  <2>1. N \in 0 .. N
    BY <1>5
  <2> QED BY <1>5, <2>1, FilterElements
<1>11. Begins(f[n], pre) => Begins(f[N], pre)
  BY <1>2, <1>7, <1>10 DEF Begins
<1> QED BY <1>6, <1>7, <1>8, <1>9, <1>11 DEF Begins, pre

-----------------------------------------------------------------------------
\* The rest of a sequence after its first n elements.
LEMMA TailFacts ==
    ASSUME NEW T, NEW s \in Seq(T), NEW n \in 0 .. Len(s)
    PROVE  /\ SubSeq(s, n + 1, Len(s)) \in Seq(T)
           /\ Len(SubSeq(s, n + 1, Len(s))) = Len(s) - n
           /\ \A i \in 1 .. Len(s) - n : SubSeq(s, n + 1, Len(s))[i] = s[n + i]
<1>1. Len(s) \in Nat /\ n \in Nat /\ n <= Len(s)
  OBVIOUS
<1>2. SubSeq(s, n + 1, Len(s)) = [i \in 1 .. Len(s) - n |-> s[n + i]]
  BY <1>1
<1>3. \A i \in 1 .. Len(s) - n : n + i \in 1 .. Len(s) /\ s[n + i] \in T
  BY <1>1
<1>4. Len(s) - n \in Nat
  BY <1>1
<1>5. [i \in 1 .. Len(s) - n |-> s[n + i]] \in Seq(T)
  BY <1>3, <1>4
<1>6. Len([i \in 1 .. Len(s) - n |-> s[n + i]]) = Len(s) - n
  BY <1>4
<1> QED BY <1>2, <1>5, <1>6

\* Mailboxes.  A delivery adds at most the packet to the mailbox.
LEMMA DeliverFacts ==
    ASSUME TypeOK, NEW r \in Reps, Deliver(r)
    PROVE  /\ reps' \in Seq(Reps) /\ repHead' \in 0 .. Len(reps')
           /\ Keys(reps)' \subseteq Keys(reps) \cup {r.key}
           /\ Fails(reps)' \subseteq Fails(reps) \cup (IF r.answer = "fail" THEN {r.key} ELSE {})
<1>1. reps \in Seq(Reps) /\ repHead \in 0 .. Len(reps)
  BY DEF TypeOK
<1>2. CASE reps' = reps
  BY <1>1, <1>2 DEF Deliver, Keys, Fails
<1>3. CASE reps' = Append(reps, r)
  <2>1. Len(reps') = Len(reps) + 1
    BY <1>1, <1>3
  <2>2. \A i \in 1 .. Len(reps) : reps'[i] = reps[i]
    BY <1>1, <1>3
  <2>3. reps'[Len(reps) + 1] = r
    BY <1>1, <1>3
  <2>4. \A i \in 1 .. Len(reps') : i \in 1 .. Len(reps) \/ i = Len(reps) + 1
    BY <1>1, <2>1
  <2>5. reps' \in Seq(Reps) /\ repHead' \in 0 .. Len(reps')
    BY <1>1, <1>3 DEF Deliver
  <2>6. Keys(reps)' \subseteq Keys(reps) \cup {r.key}
    BY <2>2, <2>3, <2>4 DEF Keys
  <2>7. Fails(reps)' \subseteq Fails(reps) \cup (IF r.answer = "fail" THEN {r.key} ELSE {})
    BY <2>2, <2>3, <2>4 DEF Fails
  <2> QED BY <2>5, <2>6, <2>7
<1> QED BY <1>2, <1>3 DEF Deliver

\* Acking only removes packets.
LEMMA AckRepsFacts ==
    ASSUME TypeOK, NEW keys, AckReps(keys)
    PROVE  /\ reps' \in Seq(Reps) /\ repHead' \in 0 .. Len(reps')
           /\ Keys(reps)' \subseteq Keys(reps) /\ Fails(reps)' \subseteq Fails(reps)
<1> DEFINE acked == {r \in ToSet(reps) : r.key \in keys}
<1>1. reps \in Seq(Reps) /\ repHead \in 0 .. Len(reps)
  BY DEF TypeOK
<1>2. reps' = Unacked(reps, acked) /\ repHead' = Len(Unacked(SubSeq(reps, 1, repHead), acked))
  BY DEF AckReps
<1> HIDE DEF acked
<1>3. reps' \in Seq(Reps) /\ Left(reps', reps, acked, Len(reps))
  BY <1>1, <1>2, UnackedFacts
<1>4. SubSeq(reps, 1, repHead) \in Seq(Reps)
  BY <1>1
<1>5. Unacked(SubSeq(reps, 1, repHead), acked) \in Seq(Reps)
  BY <1>4, UnackedFacts
<1>6. repHead' <= Len(reps')
  BY <1>1, <1>2, UnackedPrefix
<1>7. repHead' \in 0 .. Len(reps')
  BY <1>2, <1>3, <1>5, <1>6
<1>8. \A i \in 1 .. Len(reps') : \E j \in 1 .. Len(reps) : reps'[i] = reps[j]
  BY <1>3 DEF Left
<1>9. Keys(reps)' \subseteq Keys(reps) /\ Fails(reps)' \subseteq Fails(reps)
  BY <1>8 DEF Keys, Fails
<1> QED BY <1>3, <1>7, <1>9

\* A failed add leaves the mailbox, and leaves what the link took in place.
LEMMA UnackedAdd ==
    ASSUME TypeOK, MailboxInv, addHead < Len(adds),
           adds' = Unacked(adds, {adds[addHead + 1]})
    PROVE  /\ adds' \in Seq(InKeys) /\ Distinct(adds')
           /\ Begins(adds', outLog)
           /\ Elements(adds)' \subseteq Elements(adds) \ {adds[addHead + 1]}
           /\ adds[addHead + 1] \in Elements(adds)
<1> DEFINE k == adds[addHead + 1]
<1>1. adds \in Seq(InKeys) /\ addHead \in 0 .. Len(adds) /\ outLog \in Seq(InKeys)
  BY DEF TypeOK
<1>2. Distinct(adds) /\ Begins(adds, outLog) /\ addHead = Len(outLog)
  BY DEF MailboxInv
<1>3. /\ addHead + 1 \in 1 .. Len(adds)
      /\ \A i \in 1 .. addHead : i \in 1 .. Len(adds) /\ i # addHead + 1
  BY <1>1
<1>4. \A i \in 1 .. addHead : adds[i] \notin {k}
  BY <1>2, <1>3 DEF Distinct
<1>5. k \in Elements(adds)
  BY <1>3 DEF Elements
<1>6. adds' = Unacked(adds, {k})
  OBVIOUS
<1> HIDE DEF k
<1>7. adds' \in Seq(InKeys) /\ Left(adds', adds, {k}, Len(adds)) /\ Distinct(adds')
  BY <1>1, <1>2, <1>6, UnackedFacts
<1>8. Begins(adds', SubSeq(adds, 1, addHead))
  BY <1>1, <1>4, <1>6, UnackedPrefix
<1>9. Begins(adds', outLog)
  <2>1. Len(SubSeq(adds, 1, addHead)) = addHead
    BY <1>1
  <2>2. \A i \in 1 .. addHead : SubSeq(adds, 1, addHead)[i] = adds[i]
    BY <1>1
  <2> QED BY <1>2, <1>8, <2>1, <2>2 DEF Begins
<1>10. Elements(adds)' \subseteq Elements(adds) \ {k}
  BY <1>7 DEF Left, Elements
<1> QED BY <1>5, <1>7, <1>9, <1>10 DEF k

\* Signing takes what was signed out of the mailbox.
LEMMA UnackedSigned ==
    ASSUME TypeOK, MailboxInv, adds' = Unacked(adds, ToSet(outLog)),
           addHead' = Len(Unacked(SubSeq(adds, 1, addHead), ToSet(outLog)))
    PROVE  /\ adds' \in Seq(InKeys) /\ Distinct(adds') /\ addHead' = 0
           /\ Elements(adds)' \subseteq Elements(adds) \ Elements(outLog)
           /\ Elements(outLog) \subseteq Elements(adds) /\ Distinct(outLog)
<1>1. adds \in Seq(InKeys) /\ addHead \in 0 .. Len(adds) /\ outLog \in Seq(InKeys)
  BY DEF TypeOK
<1>2. Distinct(adds) /\ Begins(adds, outLog) /\ addHead = Len(outLog)
  BY DEF MailboxInv
<1>3. ToSet(outLog) = Elements(outLog)
  BY <1>1 DEF ToSet, Elements
<1> DEFINE acked == ToSet(outLog)  pre == SubSeq(adds, 1, addHead)
<1>4. pre \in Seq(InKeys) /\ Len(pre) = addHead /\ \A i \in 1 .. addHead : pre[i] = outLog[i]
  BY <1>1, <1>2 DEF Begins
<1>5. \A i \in 1 .. Len(pre) : pre[i] \in acked
  BY <1>2, <1>3, <1>4 DEF Elements
<1>6. Elements(outLog) \subseteq Elements(adds) /\ Distinct(outLog)
  BY <1>1, <1>2 DEF Elements, Begins, Distinct
<1>7. adds' = Unacked(adds, acked) /\ addHead' = Len(Unacked(pre, acked))
  OBVIOUS
<1> HIDE DEF acked, pre
<1>8. adds' \in Seq(InKeys) /\ Left(adds', adds, acked, Len(adds)) /\ Distinct(adds')
  BY <1>1, <1>2, <1>7, UnackedFacts
<1>9. addHead' = 0
  BY <1>4, <1>5, <1>7, UnackedFacts
<1>10. Elements(adds)' \subseteq Elements(adds) \ acked
  BY <1>8 DEF Left, Elements
<1> QED BY <1>3, <1>6, <1>8, <1>9, <1>10 DEF acked

-----------------------------------------------------------------------------
\* The circuit map.  Its operations keep memory, disk and the two directions
\* of the map in agreement; each lemma also says what becomes of the keys.

\* A new circuit has no keystone.
LEMMA CommitFacts ==
    ASSUME CircuitsOK, CircuitInv, NEW k \in InKeys, CommitCircuits(k)
    PROVE  /\ CircuitsOK' /\ CircuitInv'
           /\ pending' = [pending EXCEPT ![k] = [out |-> none, loadedFromDisk |-> FALSE]]
           /\ pending'[k] # none /\ ~ pending'[k].loadedFromDisk
           /\ keystoneBkt' = keystoneBkt /\ opened' = opened
<1> DEFINE new == [out |-> none, loadedFromDisk |-> FALSE]
<1>1. new \in Circuit /\ new # none /\ new.out = none
  <2>1. new \in Circuit
    BY DEF Circuit
  <2> QED BY <2>1, CircuitAssumption
<1>2. pending' = [pending EXCEPT ![k] = new]
  BY DEF CommitCircuits
<1>3. ~ new.loadedFromDisk
  OBVIOUS
<1> HIDE DEF new
<1>4. CircuitsOK'
  BY <1>1, <1>2 DEF CommitCircuits, CircuitsOK
<1>5. CircuitInv'
  <2>1. \A j \in InKeys : pending'[j] = IF j = k THEN new ELSE pending[j]
    BY <1>2 DEF CircuitsOK
  <2>2. circuitBkt' = {j \in InKeys : pending'[j] # none}
    BY <1>1, <2>1 DEF CommitCircuits, CircuitInv
  <2>3. \A j \in InKeys : HasKeystone(j)' => HasKeystone(j) /\ pending'[j] = pending[j]
    BY <1>1, <2>1 DEF HasKeystone
  <2> QED BY <2>2, <2>3 DEF CommitCircuits, CircuitInv
<1>6. pending'[k] # none /\ ~ pending'[k].loadedFromDisk
  BY <1>1, <1>2, <1>3 DEF CircuitsOK
<1> QED BY <1>4, <1>5, <1>6 DEF CommitCircuits

\* A batch of keystones takes the ids from first on; the circuits stay.
LEMMA OpenFacts ==
    ASSUME CircuitsOK, CircuitInv, NEW batch \in Seq(InKeys), Distinct(batch),
           NEW first \in Nat, first + Len(batch) <= MaxHtlcs + 1,
           OpenCircuits(batch, first)
    PROVE  /\ CircuitsOK' /\ CircuitInv'
           /\ \A o \in OutKeys :
                 IF o - first + 1 \in 1 .. Len(batch)
                 THEN opened'[o] = batch[o - first + 1] /\ keystoneBkt'[o] = batch[o - first + 1]
                 ELSE opened'[o] = opened[o] /\ keystoneBkt'[o] = keystoneBkt[o]
           /\ \A k \in InKeys :
                 /\ pending[k] # none <=> pending'[k] # none
                 /\ pending[k] # none => pending'[k].loadedFromDisk = pending[k].loadedFromDisk
                 /\ k \notin Elements(batch) => pending'[k] = pending[k]
           /\ \A i \in 1 .. Len(batch) :
                 pending'[batch[i]] # none /\ pending'[batch[i]].out = first + i - 1
<1> USE CircuitAssumption
<1> DEFINE At(o) == o - first + 1
           New(o) == At(o) \in 1 .. Len(batch)
           Op(m) == [o \in OutKeys |-> IF New(o) THEN batch[At(o)] ELSE m[o]]
           Has(k) == \E o \in OutKeys : New(o) /\ batch[At(o)] = k
           Key(k) == CHOOSE o \in OutKeys : New(o) /\ batch[At(o)] = k
<1>1. /\ Openable(batch, first)
      /\ keystoneBkt' = Op(keystoneBkt) /\ opened' = Op(opened)
      /\ pending' = [k \in InKeys |->
            IF Has(k) THEN [pending[k] EXCEPT !.out = Key(k)] ELSE pending[k]]
      /\ UNCHANGED <<circuitBkt, closed>>
  BY DEF OpenCircuits
<1>2. \A o \in OutKeys : New(o) =>
         /\ batch[At(o)] \in InKeys /\ Has(batch[At(o)])
         /\ opened[o] = none /\ pending[batch[At(o)]] # none
  BY <1>1 DEF Openable, OutKeys
<1>3. \A k \in InKeys : Has(k) =>
         /\ Key(k) \in OutKeys /\ New(Key(k)) /\ batch[At(Key(k))] = k
         /\ pending[k] # none
  BY <1>2
<1>4. \A i \in 1 .. Len(batch) :
         first + i - 1 \in OutKeys /\ At(first + i - 1) = i /\ New(first + i - 1)
  BY DEF OutKeys
<1>5. \A o, p \in OutKeys : New(o) /\ New(p) /\ batch[At(o)] = batch[At(p)] => o = p
  BY DEF Distinct, OutKeys
<1>6. \A k \in InKeys : IF Has(k) THEN /\ pending'[k] \in Circuit /\ pending'[k] # none
                                       /\ pending'[k].out = Key(k)
                                       /\ pending'[k].loadedFromDisk = pending[k].loadedFromDisk
                                  ELSE pending'[k] = pending[k]
  <2> SUFFICES ASSUME NEW k \in InKeys, Has(k)
               PROVE  /\ pending'[k] \in Circuit /\ pending'[k] # none
                      /\ pending'[k].out = Key(k)
                      /\ pending'[k].loadedFromDisk = pending[k].loadedFromDisk
    BY <1>1
  <2>1. pending[k] \in Circuit /\ Key(k) \in OutKeys
    BY <1>3 DEF CircuitsOK
  <2>2. pending'[k] = [pending[k] EXCEPT !.out = Key(k)]
    BY <1>1
  <2> HIDE DEF Key, Has
  <2> QED BY <2>1, <2>2 DEF Circuit
<1>7. CircuitsOK'
  <2>1. \A k \in InKeys : pending'[k] \in Circuit \cup {none}
    BY <1>6 DEF CircuitsOK
  <2>2. pending' \in [InKeys -> Circuit \cup {none}]
    BY <1>1, <2>1
  <2>3. /\ keystoneBkt' \in [OutKeys -> InKeys \cup {none}]
        /\ opened' \in [OutKeys -> InKeys \cup {none}]
    BY <1>1, <1>2 DEF CircuitsOK
  <2> QED BY <1>1, <2>2, <2>3 DEF CircuitsOK
<1>8. \A o \in OutKeys : opened'[o] = (IF New(o) THEN batch[At(o)] ELSE opened[o])
                         /\ keystoneBkt'[o] = (IF New(o) THEN batch[At(o)] ELSE keystoneBkt[o])
  BY <1>1
<1>9. \A i \in 1 .. Len(batch) :
         Has(batch[i]) /\ batch[i] \in InKeys /\ Key(batch[i]) = first + i - 1
  BY <1>2, <1>3, <1>4, <1>5
<1> HIDE DEF Has, Key, Op
<1>10. CircuitInv'
  <2>1. circuitBkt' = {k \in InKeys : pending'[k] # none}
    BY <1>1, <1>3, <1>6 DEF CircuitInv
  <2>2. ASSUME NEW k \in InKeys, HasKeystone(k)' PROVE opened'[pending'[k].out] = k
    <3>1. CASE Has(k)
      BY <1>3, <1>6, <1>8, <3>1
    <3>2. CASE ~ Has(k)
      <4>1. pending'[k] = pending[k] /\ HasKeystone(k) /\ opened[pending[k].out] = k
        BY <1>6, <2>2, <3>2 DEF CircuitInv, HasKeystone
      <4>2. pending[k].out \in OutKeys /\ k # none
        BY <4>1 DEF HasKeystone, CircuitsOK, Circuit
      <4> QED BY <1>2, <1>8, <4>1, <4>2
    <3> QED BY <3>1, <3>2
  <2>3. \A o \in OutKeys : opened'[o] # none => keystoneBkt'[o] = opened'[o]
    BY <1>8 DEF CircuitInv
  <2> QED BY <2>1, <2>2, <2>3 DEF CircuitInv
<1>11. \A k \in InKeys :
          /\ pending[k] # none <=> pending'[k] # none
          /\ pending[k] # none => pending'[k].loadedFromDisk = pending[k].loadedFromDisk
          /\ k \notin Elements(batch) => pending'[k] = pending[k]
  <2>1. \A k \in InKeys : Has(k) => k \in Elements(batch)
    BY <1>3 DEF Elements
  <2> QED BY <1>3, <1>6, <2>1
<1>12. \A i \in 1 .. Len(batch) :
          pending'[batch[i]] # none /\ pending'[batch[i]].out = first + i - 1
  BY <1>6, <1>9
<1> QED BY <1>7, <1>8, <1>10, <1>11, <1>12

\* Trimming reverts keystones from start on.
LEMMA TrimFacts ==
    ASSUME CircuitsOK, CircuitInv, NEW start \in Nat, TrimOpenCircuits(start)
    PROVE  /\ CircuitsOK' /\ CircuitInv'
           /\ \A o \in OutKeys : IF o \in Trimmed(opened, start)
                                 THEN opened'[o] = none /\ keystoneBkt'[o] = none
                                 ELSE opened'[o] = opened[o] /\ keystoneBkt'[o] = keystoneBkt[o]
           /\ \A k \in InKeys :
                 /\ pending[k] # none <=> pending'[k] # none
                 /\ pending[k] # none => pending'[k].loadedFromDisk = pending[k].loadedFromDisk
                 /\ (\A o \in Trimmed(opened, start) : opened[o] # k) => pending'[k] = pending[k]
<1> USE CircuitAssumption
<1> DEFINE trimmed == Trimmed(opened, start)
<1>1. /\ opened' = [o \in OutKeys |-> IF o \in trimmed THEN none ELSE opened[o]]
      /\ keystoneBkt' = [o \in OutKeys |-> IF o \in trimmed THEN none ELSE keystoneBkt[o]]
      /\ pending' = [k \in InKeys |-> HalfOpen(pending[k], k, opened, trimmed)]
      /\ UNCHANGED <<circuitBkt, closed>>
  BY DEF TrimOpenCircuits, Untrimmed
<1> HIDE DEF trimmed
<1>2. \A k \in InKeys :
         IF pending[k] # none /\ \E o \in trimmed : opened[o] = k
         THEN /\ pending'[k] \in Circuit /\ pending'[k] # none /\ pending'[k].out = none
              /\ pending'[k].loadedFromDisk = pending[k].loadedFromDisk
         ELSE pending'[k] = pending[k]
  <2> SUFFICES ASSUME NEW k \in InKeys, pending[k] # none, \E o \in trimmed : opened[o] = k
               PROVE  /\ pending'[k] \in Circuit /\ pending'[k].out = none
                      /\ pending'[k].loadedFromDisk = pending[k].loadedFromDisk
    BY <1>1 DEF HalfOpen
  <2>1. pending[k] \in Circuit
    BY DEF CircuitsOK
  <2>2. pending'[k] = [pending[k] EXCEPT !.out = none]
    BY <1>1 DEF HalfOpen
  <2> QED BY <2>1, <2>2 DEF Circuit
<1>3. CircuitsOK'
  <2>1. pending' \in [InKeys -> Circuit \cup {none}]
    BY <1>1, <1>2 DEF CircuitsOK
  <2> QED BY <1>1, <2>1 DEF CircuitsOK
<1>4. CircuitInv'
  <2>1. circuitBkt' = {k \in InKeys : pending'[k] # none}
    BY <1>1, <1>2 DEF CircuitInv
  <2>2. ASSUME NEW k \in InKeys, HasKeystone(k)' PROVE opened'[pending'[k].out] = k
    <3>1. pending'[k] = pending[k] /\ HasKeystone(k) /\ \A o \in trimmed : opened[o] # k
      BY <1>2, <2>2 DEF HasKeystone
    <3>2. pending[k].out \in OutKeys
      BY <3>1 DEF HasKeystone, CircuitsOK, Circuit
    <3> QED BY <1>1, <3>1, <3>2 DEF CircuitInv
  <2>3. \A o \in OutKeys : opened'[o] # none => keystoneBkt'[o] = opened'[o]
    BY <1>1 DEF CircuitInv
  <2> QED BY <2>1, <2>2, <2>3 DEF CircuitInv
<1> QED BY <1>1, <1>2, <1>3, <1>4 DEF trimmed

\* Deleting a circuit takes its keystone with it and touches no other.
LEMMA DeleteFacts ==
    ASSUME CircuitsOK, CircuitInv, NEW keys \in SUBSET InKeys, DeleteCircuits(keys)
    PROVE  /\ CircuitsOK' /\ CircuitInv'
           /\ \A o \in OutKeys :
                 \/ opened'[o] = opened[o] /\ keystoneBkt'[o] = keystoneBkt[o]
                 \/ opened[o] \in keys /\ opened'[o] = none /\ keystoneBkt'[o] = none
           /\ \A o \in OutKeys :
                 opened[o] \in keys /\ pending[opened[o]] # none /\ pending[opened[o]].out = o =>
                     opened'[o] = none
           /\ \A k \in InKeys : k \notin keys => pending'[k] = pending[k]
<1> USE CircuitAssumption
<1> DEFINE found == {k \in keys : pending[k] # none}
           outs == {pending[k].out : k \in found}
<1>1. /\ pending' = [k \in InKeys |-> IF k \in found THEN none ELSE pending[k]]
      /\ closed' = closed \ found /\ circuitBkt' = circuitBkt \ found
      /\ opened' = [o \in OutKeys |-> IF o \in outs THEN none ELSE opened[o]]
      /\ keystoneBkt' = [o \in OutKeys |-> IF o \in outs THEN none ELSE keystoneBkt[o]]
  BY DEF DeleteCircuits, Untrimmed
<1>2. \A o \in OutKeys : o \in outs => opened[o] \in found
  BY DEF CircuitInv, HasKeystone
<1>3. CircuitsOK'
  BY <1>1 DEF CircuitsOK
<1>4. CircuitInv'
  <2>1. circuitBkt' = {k \in InKeys : pending'[k] # none}
    BY <1>1 DEF CircuitInv
  <2>2. ASSUME NEW k \in InKeys, HasKeystone(k)' PROVE opened'[pending'[k].out] = k
    <3>1. pending'[k] = pending[k] /\ HasKeystone(k) /\ k \notin found
      BY <1>1, <2>2 DEF HasKeystone
    <3>2. pending[k].out \in OutKeys /\ opened[pending[k].out] = k
      BY <3>1 DEF HasKeystone, CircuitsOK, Circuit, CircuitInv
    <3> HIDE DEF found, outs
    <3> QED BY <1>1, <1>2, <3>1, <3>2
  <2>3. \A o \in OutKeys : opened'[o] # none => keystoneBkt'[o] = opened'[o]
    BY <1>1 DEF CircuitInv
  <2> QED BY <2>1, <2>2, <2>3 DEF CircuitInv
<1>5. \A o \in OutKeys :
         opened[o] \in keys /\ pending[opened[o]] # none /\ pending[opened[o]].out = o => o \in outs
  OBVIOUS
<1>6. found \subseteq keys
  OBVIOUS
<1> HIDE DEF found, outs
<1> QED BY <1>1, <1>2, <1>3, <1>4, <1>5, <1>6

\* A nonempty set of outgoing keys has a greatest element.
LEMMA MaxKey ==
    ASSUME NEW S \in SUBSET OutKeys, S # {}
    PROVE  Max(S) \in S
<1>1. PICK x \in S : TRUE
  OBVIOUS
<1>2. MaxHtlcs \in Nat /\ \A y \in S : y \in 0 .. MaxHtlcs
  BY CircuitAssumption DEF OutKeys
<1> DEFINE G == {n \in 0 .. MaxHtlcs : \A y \in S : y <= n =>
                      \E z \in S : z <= n /\ \A w \in S : w <= n => w <= z}
<1>3. 0 \in G
  BY <1>2
<1>4. ASSUME NEW n \in 1 .. MaxHtlcs, n - 1 \in G PROVE n \in G
  <2>1. CASE n \in S
    BY <1>2, <2>1
  <2>2. CASE n \notin S
    <3>1. \A y \in S : y <= n <=> y <= n - 1
      BY <1>2, <2>2
    <3> QED BY <1>4, <3>1
  <2> QED BY <2>1, <2>2
<1>5. MaxHtlcs \in G
  <2>1. G \in SUBSET (0 .. MaxHtlcs)
    OBVIOUS
  <2> HIDE DEF G
  <2>2. \A n \in 0 .. MaxHtlcs : n \in G
    BY <1>2, <1>3, <1>4, <2>1, UpTo
  <2> QED BY <1>2, <2>2
<1>6. \E z \in S : \A w \in S : w <= z
  BY <1>1, <1>2, <1>5
<1>7. \E z \in S : \A w \in S : z >= w
  BY <1>2, <1>6
<1> QED BY <1>7 DEF Max

\* A restart rebuilds memory from disk; signed keys that disk knows are found.
LEMMA NewMapFacts ==
    ASSUME CircuitsOK, CircuitInv, NEW start \in Nat, NewCircuitMap(start)
    PROVE  /\ CircuitsOK' /\ CircuitInv'
           /\ \A o \in OutKeys : o < start =>
                 /\ keystoneBkt'[o] = keystoneBkt[o]
                 /\ opened'[o] = IF keystoneBkt[o] \in circuitBkt THEN keystoneBkt[o] ELSE none
           /\ \A k \in InKeys : pending'[k] # none <=> pending[k] # none
           /\ keystoneBkt = opened
              /\ (\A o \in OutKeys : opened[o] # none =>
                     pending[opened[o]] # none /\ pending[opened[o]].out = o) =>
                 /\ keystoneBkt' = opened'
                 /\ \A o \in OutKeys : opened'[o] # none =>
                       /\ opened'[o] = opened[o]
                       /\ pending'[opened'[o]] # none /\ pending'[opened'[o]].out = o
<1> USE CircuitAssumption
<1> DEFINE restored == [o \in OutKeys |-> IF keystoneBkt[o] \in circuitBkt
                                          THEN keystoneBkt[o] ELSE none]
           trimmed == Trimmed(restored, start)
           Outs(k) == {o \in OutKeys : restored[o] = k}
           Out(k) == IF Outs(k) = {} THEN none ELSE Max(Outs(k))
           circ(k) == [out |-> Out(k), loadedFromDisk |-> TRUE]
<1>1. /\ opened' = [o \in OutKeys |-> IF o \in trimmed THEN none ELSE restored[o]]
      /\ keystoneBkt' = [o \in OutKeys |-> IF o \in trimmed THEN none ELSE keystoneBkt[o]]
      /\ pending' = [k \in InKeys |-> IF k \in circuitBkt
                                      THEN HalfOpen(circ(k), k, restored, trimmed) ELSE none]
      /\ closed' = {} /\ UNCHANGED circuitBkt
  BY DEF NewCircuitMap, Untrimmed
<1>2. \A o \in OutKeys : o < start => o \notin trimmed
  BY DEF Trimmed, OutKeys
<1>3. \A o \in OutKeys :
         restored[o] = IF keystoneBkt[o] \in circuitBkt THEN keystoneBkt[o] ELSE none
  OBVIOUS
<1>4. \A k \in InKeys : Out(k) \in OutKeys \cup {none} /\ (Out(k) # none => restored[Out(k)] = k)
  <2> SUFFICES ASSUME NEW k \in InKeys, Outs(k) # {}
               PROVE  Max(Outs(k)) \in Outs(k)
    BY DEF OutKeys
  <2>1. Outs(k) \in SUBSET OutKeys
    OBVIOUS
  <2> HIDE DEF Outs
  <2> QED BY <2>1, MaxKey
<1>5. ASSUME NEW k \in InKeys, k \in circuitBkt
      PROVE  /\ pending'[k] \in Circuit /\ pending'[k] # none
             /\ IF \E o \in trimmed : restored[o] = k THEN pending'[k].out = none
                                                      ELSE pending'[k].out = Out(k)
  <2>1. circ(k) \in Circuit /\ circ(k).out = Out(k)
    <3> HIDE DEF Out
    <3> QED BY <1>4 DEF Circuit
  <2>2. pending'[k] = HalfOpen(circ(k), k, restored, trimmed)
    BY <1>1, <1>5
  <2>3. circ(k) # none
    BY <2>1
  <2>4. [circ(k) EXCEPT !.out = none] \in Circuit /\ [circ(k) EXCEPT !.out = none].out = none
    <3> HIDE DEF Out
    <3> QED BY DEF Circuit
  <2> HIDE DEF circ, trimmed, restored, Out
  <2> QED BY <2>1, <2>2, <2>3, <2>4 DEF HalfOpen
<1>6. \A k \in InKeys : k \notin circuitBkt => pending'[k] = none
  BY <1>1
<1> HIDE DEF circ, trimmed, Out, restored
<1>7. CircuitsOK'
  <2>1. pending' \in [InKeys -> Circuit \cup {none}]
    BY <1>1, <1>5, <1>6
  <2>2. \A o \in OutKeys : restored[o] \in InKeys \cup {none}
    BY <1>3 DEF CircuitsOK
  <2> QED BY <1>1, <2>1, <2>2 DEF CircuitsOK
<1>8. \A k \in InKeys : pending'[k] # none <=> pending[k] # none
  BY <1>5, <1>6 DEF CircuitInv
<1>9. CircuitInv'
  <2>1. circuitBkt' = {k \in InKeys : pending'[k] # none}
    BY <1>1, <1>8 DEF CircuitInv
  <2>2. ASSUME NEW k \in InKeys, HasKeystone(k)' PROVE opened'[pending'[k].out] = k
    <3>1. k \in circuitBkt /\ pending'[k].out # none
      BY <1>6, <2>2 DEF HasKeystone
    <3>2. pending'[k].out = Out(k) /\ \A o \in trimmed : restored[o] # k
      BY <1>5, <3>1
    <3>3. Out(k) \in OutKeys /\ restored[Out(k)] = k
      BY <1>4, <3>1, <3>2
    <3> QED BY <1>1, <3>2, <3>3
  <2>3. \A o \in OutKeys : opened'[o] # none => keystoneBkt'[o] = opened'[o]
    BY <1>1, <1>3
  <2> QED BY <2>1, <2>2, <2>3 DEF CircuitInv
<1>10. ASSUME keystoneBkt = opened,
              \A o \in OutKeys : opened[o] # none =>
                     pending[opened[o]] # none /\ pending[opened[o]].out = o
       PROVE  /\ keystoneBkt' = opened'
              /\ \A o \in OutKeys : opened'[o] # none =>
                    /\ opened'[o] = opened[o]
                    /\ pending'[opened'[o]] # none /\ pending'[opened'[o]].out = o
  <2>1. \A o \in OutKeys : restored[o] = opened[o]
    BY <1>3, <1>10 DEF CircuitInv, CircuitsOK
  <2>2. keystoneBkt' = opened'
    BY <1>1, <1>10, <2>1
  <2>3. ASSUME NEW o \in OutKeys, opened'[o] # none
        PROVE  /\ opened'[o] = opened[o]
               /\ pending'[opened'[o]] # none /\ pending'[opened'[o]].out = o
    <3>1. opened'[o] = opened[o] /\ o \notin trimmed
      BY <1>1, <2>1, <2>3
    <3>2. PICK k \in InKeys : k = opened[o]
      BY <2>3, <3>1 DEF CircuitsOK
    <3>3. k \in circuitBkt /\ pending[k].out = o
      BY <1>10, <2>3, <3>1, <3>2 DEF CircuitInv
    <3>4. \A p \in OutKeys : restored[p] = k => p = o
      BY <1>10, <2>1, <3>2, <3>3
    <3>5. trimmed \subseteq OutKeys
      BY DEF trimmed, Trimmed
    <3>6. Out(k) # none
      <4>1. o \in Outs(k)
        BY <2>1, <3>2
      <4>2. Outs(k) \in SUBSET OutKeys /\ Outs(k) # {}
        BY <4>1
      <4>3. Max(Outs(k)) \in Outs(k)
        <5> HIDE DEF Outs
        <5> QED BY <4>2, MaxKey
      <4>4. Out(k) = Max(Outs(k))
        BY <4>2 DEF Out
      <4> QED BY <4>2, <4>3, <4>4
    <3>7. Out(k) = o
      BY <1>4, <3>4, <3>6
    <3> QED BY <1>5, <3>1, <3>2, <3>3, <3>4, <3>5, <3>7
  <2> QED BY <2>2, <2>3
<1> QED BY <1>1, <1>2, <1>3, <1>7, <1>8, <1>9, <1>10

\* Empty sequences hold nothing.
LEMMA NothingIn ==
    Keys(<<>>) = {} /\ Fails(<<>>) = {} /\ Elements(<<>>) = {}
BY DEF Keys, Fails, Elements

-----------------------------------------------------------------------------
\* The invariant holds initially, and every action keeps it.
LEMMA ForwardInit == Init => ForwardInv
<1> SUFFICES ASSUME Init PROVE ForwardInv
  OBVIOUS
<1> USE CircuitAssumption
<1>1. SentKeys = {} /\ Offered = {}
  BY DEF Init, SentKeys, Offered
<1>2. Elements(adds) = {} /\ Keys(reps) = {} /\ Keys(inLog) = {}
  BY DEF Init, Elements, Keys
<1>3. TypeOK
  BY DEF Init, InitCircuits, TypeOK, CircuitsOK
<1>4. MailboxInv
  BY DEF Init, MailboxInv, Distinct, Begins
<1>5. QueuedInv /\ IncomingInv /\ RouteInv
  BY <1>1, <1>2 DEF Init, QueuedInv, IncomingInv, RouteInv
<1>6. SentInv
  BY <1>1 DEF Init, SentInv, Distinct
<1>7. CircuitInv
  BY DEF Init, InitCircuits, CircuitInv, HasKeystone
<1> QED BY <1>3, <1>4, <1>5, <1>6, <1>7 DEF ForwardInv

\* The ids of signed HTLCs are within bounds.
LEMMA SentInRange ==
    ASSUME TypeOK, MailboxInv
    PROVE  /\ SentKeys \subseteq OutKeys /\ Len(sent) \in Nat
           /\ \A o \in SentKeys : o + 1 \in 1 .. Len(sent) /\ Sent(o) \in InKeys
           /\ Offered \subseteq InKeys
<1>1. /\ sent \in Seq(InKeys) /\ outLog \in Seq(InKeys) /\ Len(sent) \in Nat /\ Len(outLog) \in Nat
      /\ Len(sent) + Len(outLog) <= MaxHtlcs + 1 /\ MaxHtlcs \in Nat
  BY CircuitAssumption DEF TypeOK, MailboxInv
<1>2. SentKeys \subseteq OutKeys
  BY <1>1 DEF SentKeys, OutKeys
<1>3. \A o \in SentKeys : o + 1 \in 1 .. Len(sent)
  BY <1>1 DEF SentKeys
<1> QED BY <1>1, <1>2, <1>3 DEF Sent, Offered

\* A new HTLC was not locked in before: nothing is known about it.
LEMMA LockInStep ==
    ASSUME ForwardInv, NEW k \in InKeys, LockIn(k)
    PROVE  ForwardInv'
<1> USE CircuitAssumption, AnswerAssumption
<1> USE DEF LockIn, ForwardInv, cmVars, diskVars, inVars, outVars, boxVars
<1>1. TypeOK'
  BY DEF TypeOK, CircuitsOK, SentKeys, OutKeys, IncomingInv
<1>2. MailboxInv'
  BY DEF MailboxInv, TypeOK, Begins
<1>3. QueuedInv' /\ SentInv'
  BY NothingIn DEF QueuedInv, SentInv, Offered, Sent, SentKeys
<1>4. IncomingInv'
  BY NothingIn DEF IncomingInv, InReady, SentKeys, TypeOK, OutKeys
<1>5. CircuitInv'
  BY DEF CircuitInv, HasKeystone
<1>6. RouteInv'
  BY DEF RouteInv, SentKeys, Sent, TypeOK
<1> QED BY <1>1, <1>2, <1>3, <1>4, <1>5, <1>6

\* A response is locked in, and is to be handed over.
LEMMA LockInResponseStep ==
    ASSUME ForwardInv, NEW o \in SentKeys, NEW a \in Answers, LockInResponse(o, a)
    PROVE  ForwardInv'
<1> USE CircuitAssumption, AnswerAssumption
<1> USE DEF LockInResponse, ForwardInv, cmVars, diskVars, inVars, outVars, boxVars
<1>1. TypeOK'
  BY DEF TypeOK, CircuitsOK, SentKeys, OutKeys, IncomingInv
<1>2. MailboxInv'
  BY DEF MailboxInv, TypeOK, Begins
<1>3. QueuedInv' /\ SentInv'
  BY NothingIn DEF QueuedInv, SentInv, Offered, Sent, SentKeys
<1>4. IncomingInv'
  <2>1. SentKeys' = SentKeys /\ o \in OutKeys
    BY SentInRange DEF SentKeys
  <2>2. \A p \in SentKeys : resp[p] # none => resp'[p] # none
    BY SentInRange DEF TypeOK
  <2>3. resp'[o] # none
    BY <2>1 DEF TypeOK
  <2> QED BY <2>1, <2>2, <2>3 DEF IncomingInv
<1>5. CircuitInv'
  BY DEF CircuitInv, HasKeystone
<1>6. RouteInv'
  BY DEF RouteInv, SentKeys, Sent, TypeOK
<1> QED BY <1>1, <1>2, <1>3, <1>4, <1>5, <1>6

\* The incoming link forgets what it has not signed.
LEMMA StopIncomingStep ==
    ASSUME ForwardInv, StopIncoming
    PROVE  ForwardInv'
<1> USE CircuitAssumption, AnswerAssumption
<1> USE DEF StopIncoming, ForwardInv, cmVars, diskVars, inVars, outVars, boxVars
<1>1. TypeOK'
  BY DEF TypeOK, CircuitsOK, SentKeys, OutKeys, IncomingInv
<1>2. MailboxInv'
  BY DEF MailboxInv, TypeOK, Begins
<1>3. QueuedInv' /\ SentInv'
  BY NothingIn DEF QueuedInv, SentInv, Offered, Sent, SentKeys
<1>4. IncomingInv'
  BY NothingIn DEF IncomingInv, InReady, SentKeys, TypeOK, OutKeys
<1>5. CircuitInv'
  BY DEF CircuitInv, HasKeystone
<1>6. RouteInv'
  BY DEF RouteInv, SentKeys, Sent, TypeOK
<1> QED BY <1>1, <1>2, <1>3, <1>4, <1>5, <1>6

\* The incoming link replays what was not acked.
LEMMA StartIncomingStep ==
    ASSUME ForwardInv, StartIncoming
    PROVE  ForwardInv'
<1> USE CircuitAssumption, AnswerAssumption
<1> USE DEF StartIncoming, ForwardInv, cmVars, diskVars, inVars, outVars, boxVars
<1>1. TypeOK'
  BY DEF TypeOK, CircuitsOK, SentKeys, OutKeys, IncomingInv
<1>2. MailboxInv'
  BY DEF MailboxInv, TypeOK, Begins
<1>3. QueuedInv' /\ SentInv'
  BY NothingIn DEF QueuedInv, SentInv, Offered, Sent, SentKeys
<1>4. IncomingInv'
  BY NothingIn DEF IncomingInv, InReady, SentKeys, TypeOK, OutKeys
<1>5. CircuitInv'
  BY DEF CircuitInv, HasKeystone
<1>6. RouteInv'
  BY DEF RouteInv, SentKeys, Sent, TypeOK
<1> QED BY <1>1, <1>2, <1>3, <1>4, <1>5, <1>6

\* The outgoing link forgets what it has not signed.
LEMMA StopOutgoingStep ==
    ASSUME ForwardInv, StopOutgoing
    PROVE  ForwardInv'
<1> USE CircuitAssumption, AnswerAssumption
<1> USE DEF StopOutgoing, ForwardInv, cmVars, diskVars, inVars, outVars, boxVars
<1>1. TypeOK'
  BY DEF TypeOK, CircuitsOK, SentKeys, OutKeys, IncomingInv
<1>2. MailboxInv'
  BY DEF MailboxInv, TypeOK, Begins
<1>3. QueuedInv' /\ SentInv'
  BY NothingIn DEF QueuedInv, SentInv, Offered, Sent, SentKeys
<1>4. IncomingInv'
  BY NothingIn DEF IncomingInv, InReady, SentKeys, TypeOK, OutKeys
<1>5. CircuitInv'
  BY DEF CircuitInv, HasKeystone
<1>6. RouteInv'
  BY DEF RouteInv, SentKeys, Sent, TypeOK
<1> QED BY <1>1, <1>2, <1>3, <1>4, <1>5, <1>6

\* A packet is appended to the outgoing mailbox.
LEMMA AppendAdd ==
    ASSUME TypeOK, MailboxInv, NEW k \in InKeys, k \notin Elements(adds),
           adds' = Append(adds, k)
    PROVE  /\ adds' \in Seq(InKeys) /\ Distinct(adds') /\ Begins(adds', outLog)
           /\ Elements(adds)' = Elements(adds) \cup {k} /\ Len(adds') = Len(adds) + 1
<1>1. adds \in Seq(InKeys) /\ outLog \in Seq(InKeys)
  BY DEF TypeOK
<1>2. Len(adds') = Len(adds) + 1 /\ adds' \in Seq(InKeys)
  BY <1>1
<1>3. \A i \in 1 .. Len(adds) : adds'[i] = adds[i]
  BY <1>1
<1>4. adds'[Len(adds) + 1] = k
  BY <1>1
<1>5. \A i \in 1 .. Len(adds') : i \in 1 .. Len(adds) \/ i = Len(adds) + 1
  BY <1>1, <1>2
<1>6. \A i \in 1 .. Len(adds) : i \in 1 .. Len(adds') /\ adds[i] # k
  BY <1>1, <1>2 DEF Elements
<1>7. Distinct(adds')
  BY <1>3, <1>4, <1>5, <1>6 DEF MailboxInv, Distinct
<1>8. Begins(adds', outLog)
  BY <1>1, <1>2, <1>3 DEF MailboxInv, Begins
<1>9. Len(adds) + 1 \in 1 .. Len(adds')
  BY <1>1, <1>2
<1>10. Elements(adds)' = Elements(adds) \cup {k}
  BY <1>3, <1>4, <1>5, <1>6, <1>9 DEF Elements
<1> QED BY <1>2, <1>7, <1>8, <1>10

\* An HTLC that is replayed was not answered, and is not in the outgoing
\* mailbox unless its circuit is in memory and not from disk.
LEMMA ReplayedFacts ==
    ASSUME ForwardInv, NEW k \in replay
    PROVE  /\ k \in lockedIn /\ k \in InKeys /\ answered[k] = none
           /\ k \notin Keys(inLog)
           /\ pending[k] = none => k \notin Elements(adds) /\ k \notin Offered
           /\ Failed(k) => k \notin Elements(adds)
<1>1. k \in lockedIn /\ k \in InKeys /\ answered[k] = none /\ k \notin Keys(inLog)
  BY DEF ForwardInv, IncomingInv, TypeOK
<1>2. pending[k] = none => k \notin Elements(adds) /\ k \notin Offered
  BY <1>1 DEF ForwardInv, QueuedInv, SentInv
<1>3. Failed(k) => k \notin Elements(adds)
  BY <1>1 DEF ForwardInv, QueuedInv, Failed, Dropped
<1> QED BY <1>1, <1>2, <1>3

\* A packet of the switch or of a peer is a packet.
LEMMA RepType ==
    ASSUME NEW k \in InKeys, NEW a \in Answers, NEW d \in OutKeys \cup {none}
    PROVE  Rep(k, a, d) \in Reps /\ Rep(k, a, d).key = k /\ Rep(k, a, d).answer = a
BY DEF Rep, Reps

\* Forwarding: the circuit is new and its packet goes to the outgoing mailbox,
\* or a failure goes back, or nothing happens.
LEMMA ForwardPacketsStep ==
    ASSUME ForwardInv, NEW k \in InKeys, ForwardPackets(k)
    PROVE  ForwardInv'
<1> USE CircuitAssumption, AnswerAssumption
<1> USE DEF ForwardInv
<1>0. /\ UNCHANGED <<lockedIn, addAcked, answered, owed, sent, resp, respAcked, inUp, inLog,
                     outUp, outLog, keystoned, toClose>>
      /\ replay' = replay \ {k} /\ k \in replay
  BY DEF ForwardPackets, diskVars, outVars
<1>1. /\ k \in lockedIn /\ answered[k] = none /\ k \notin Keys(inLog)
      /\ pending[k] = none => k \notin Elements(adds) /\ k \notin Offered
      /\ Failed(k) => k \notin Elements(adds)
  BY <1>0, ReplayedFacts
<1>2. Rep(k, "fail", none) \in Reps /\ Rep(k, "fail", none).key = k
  BY RepType DEF Answers
<1>3. SentKeys' = SentKeys /\ Offered' = Offered /\ \A o : Sent(o)' = Sent(o)
  BY <1>0 DEF SentKeys, Offered, Sent
<1>4. CASE UNCHANGED <<cmVars, boxVars>>
  <2>1. TypeOK'
    BY <1>0, <1>4 DEF TypeOK, CircuitsOK, cmVars, boxVars
  <2>2. MailboxInv'
    BY <1>0, <1>4 DEF MailboxInv, boxVars
  <2>3. QueuedInv' /\ SentInv' /\ IncomingInv'
    BY <1>0, <1>3, <1>4 DEF QueuedInv, SentInv, IncomingInv, cmVars, boxVars
  <2>4. CircuitInv' /\ RouteInv'
    BY <1>0, <1>3, <1>4 DEF CircuitInv, RouteInv, HasKeystone, cmVars
  <2> QED BY <2>1, <2>2, <2>3, <2>4
<1>5. CASE /\ Deliver(Rep(k, "fail", none)) /\ UNCHANGED <<cmVars, adds, addHead>>
           /\ k \notin Elements(adds)
  <2>1. /\ reps' \in Seq(Reps) /\ repHead' \in 0 .. Len(reps')
        /\ Keys(reps)' \subseteq Keys(reps) \cup {k}
    BY <1>2, <1>5, DeliverFacts
  <2>2. TypeOK'
    BY <1>0, <1>5, <2>1 DEF TypeOK, CircuitsOK, cmVars
  <2>3. MailboxInv'
    BY <1>0, <1>5 DEF MailboxInv
  <2>4. QueuedInv' /\ SentInv' /\ IncomingInv'
    BY <1>0, <1>1, <1>3, <1>5, <2>1 DEF QueuedInv, SentInv, IncomingInv, cmVars
  <2>5. CircuitInv' /\ RouteInv'
    BY <1>0, <1>3, <1>5 DEF CircuitInv, RouteInv, HasKeystone, cmVars
  <2> QED BY <2>2, <2>3, <2>4, <2>5
<1>6. CASE ~ HasPacket(k) /\ CommitCircuits(k) /\ handlePacketAdd(k)
  <2>1. CircuitsOK /\ pending[k] = none
    BY <1>6 DEF TypeOK, CommitCircuits
  <2>2. /\ CircuitsOK' /\ CircuitInv'
        /\ pending' = [pending EXCEPT ![k] = [out |-> none, loadedFromDisk |-> FALSE]]
        /\ pending'[k] # none /\ ~ pending'[k].loadedFromDisk
        /\ keystoneBkt' = keystoneBkt /\ opened' = opened
    BY <1>6, <2>1, CommitFacts
  <2>3. \A j \in InKeys : j # k => pending'[j] = pending[j]
    BY <2>2 DEF CircuitsOK
  <2>4. RouteInv'
    BY <1>0, <1>3, <2>2 DEF RouteInv
  <2>5. SentInv'
    BY <1>0, <1>1, <1>3, <2>1, <2>2, <2>3, SentInRange DEF SentInv
  <2>6. CASE /\ outUp /\ adds' = Append(adds, k) /\ UNCHANGED <<addHead, reps, repHead>>
    <3>1. /\ adds' \in Seq(InKeys) /\ Distinct(adds') /\ Begins(adds', outLog)
          /\ Elements(adds)' = Elements(adds) \cup {k} /\ Len(adds') = Len(adds) + 1
      BY <1>1, <2>1, <2>6, AppendAdd
    <3>2. TypeOK'
      <4>1. addHead' \in 0 .. Len(adds')
        BY <2>6, <3>1 DEF TypeOK
      <4> QED BY <1>0, <2>2, <2>6, <3>1, <4>1 DEF TypeOK
    <3>3. MailboxInv'
      BY <1>0, <2>6, <3>1 DEF MailboxInv
    <3>4. QueuedInv'
      <4>1. k \notin Keys(reps) /\ k \notin Offered
        BY <1>1, <1>6, <2>1 DEF HasPacket
      <4>2. \A j \in Elements(adds) : j \in InKeys
        BY DEF QueuedInv, TypeOK
      <4> QED BY <1>0, <1>1, <1>3, <2>2, <2>3, <2>6, <3>1, <4>1, <4>2 DEF QueuedInv
    <3>5. IncomingInv'
      BY <1>0, <1>3, <2>6 DEF IncomingInv
    <3> QED BY <2>2, <2>4, <2>5, <3>2, <3>3, <3>4, <3>5
  <2>7. CASE Deliver(Rep(k, "fail", none)) /\ UNCHANGED <<adds, addHead>>
    <3>1. /\ reps' \in Seq(Reps) /\ repHead' \in 0 .. Len(reps')
          /\ Keys(reps)' \subseteq Keys(reps) \cup {k}
      BY <1>2, <2>7, DeliverFacts
    <3>2. TypeOK'
      BY <1>0, <2>2, <2>7, <3>1 DEF TypeOK
    <3>3. MailboxInv'
      BY <1>0, <2>7 DEF MailboxInv
    <3>4. QueuedInv' /\ IncomingInv'
      <4>1. \A j \in Elements(adds) : j \in InKeys /\ j # k
        BY <1>1, <2>1 DEF QueuedInv, TypeOK
      <4> QED BY <1>0, <1>1, <1>3, <2>3, <2>7, <3>1, <4>1 DEF QueuedInv, IncomingInv
    <3> QED BY <2>2, <2>4, <2>5, <3>2, <3>3, <3>4
  <2> QED BY <1>6, <2>6, <2>7 DEF handlePacketAdd
<1> QED BY <1>1, <1>4, <1>5, <1>6 DEF ForwardPackets

\* The link quits after the commit: the circuit stays, without a packet.
LEMMA StopWhileForwardingStep ==
    ASSUME ForwardInv, NEW k \in InKeys, StopWhileForwarding(k)
    PROVE  ForwardInv'
<1> USE CircuitAssumption, AnswerAssumption
<1> USE DEF ForwardInv
<1>0. /\ UNCHANGED <<lockedIn, addAcked, answered, owed, sent, resp, respAcked,
                     outUp, outLog, keystoned, adds, addHead, reps, toClose>>
      /\ replay' = {} /\ repHead' = 0 /\ inLog' = <<>> /\ k \in replay /\ CommitCircuits(k)
  BY DEF StopWhileForwarding, diskVars, outVars
<1>1. SentKeys' = SentKeys /\ Offered' = Offered /\ \A o : Sent(o)' = Sent(o)
  BY <1>0 DEF SentKeys, Offered, Sent
<1>2. CircuitsOK /\ pending[k] = none /\ k \notin Elements(adds) /\ k \notin Offered
  BY <1>0, ReplayedFacts DEF TypeOK, CommitCircuits
<1>3. /\ CircuitsOK' /\ CircuitInv'
      /\ pending' = [pending EXCEPT ![k] = [out |-> none, loadedFromDisk |-> FALSE]]
      /\ keystoneBkt' = keystoneBkt /\ opened' = opened
  BY <1>0, <1>2, CommitFacts
<1>4. \A j \in InKeys : j # k => pending'[j] = pending[j]
  BY <1>3 DEF CircuitsOK
<1>5. TypeOK'
  BY <1>0, <1>3 DEF TypeOK
<1>6. MailboxInv'
  BY <1>0 DEF MailboxInv
<1>7. QueuedInv'
  <2>1. \A j \in Elements(adds) : j \in InKeys
    BY DEF QueuedInv, TypeOK
  <2> QED BY <1>0, <1>1, <1>2, <1>4, <2>1, NothingIn DEF QueuedInv
<1>8. SentInv' /\ IncomingInv' /\ RouteInv'
  BY <1>0, <1>1, <1>2, <1>3, <1>4, NothingIn, SentInRange DEF SentInv, IncomingInv, RouteInv
<1> QED BY <1>3, <1>5, <1>6, <1>7, <1>8

\* A failed add goes back, and out of the mailbox.
LEMMA FailAddStep ==
    ASSUME ForwardInv, addHead < Len(adds), FailAdd,
           UNCHANGED <<diskVars, inVars, outVars, toClose>>
    PROVE  ForwardInv'
<1> USE CircuitAssumption, AnswerAssumption
<1> USE DEF ForwardInv
<1> DEFINE k == adds[addHead + 1]
<1>0. UNCHANGED <<lockedIn, addAcked, answered, owed, sent, resp, respAcked, inUp, replay, inLog,
                  outUp, outLog, keystoned, toClose, addHead>>
  BY DEF diskVars, inVars, outVars, FailAdd
<1>1. SentKeys' = SentKeys /\ Offered' = Offered /\ \A o : Sent(o)' = Sent(o)
  BY <1>0 DEF SentKeys, Offered, Sent
<1>2. /\ adds' \in Seq(InKeys) /\ Distinct(adds') /\ Begins(adds', outLog)
      /\ Elements(adds)' \subseteq Elements(adds) \ {k} /\ k \in Elements(adds)
  BY UnackedAdd DEF FailAdd
<1>3. \/ FailCircuit(k) /\ Deliver(Rep(k, "fail", none))
      \/ UNCHANGED <<cmVars, reps, repHead>>
  BY DEF FailAdd
<1> HIDE DEF k
<1>4. k \in lockedIn /\ k \in InKeys
  BY <1>2 DEF QueuedInv, TypeOK
<1>5. UNCHANGED <<circuitBkt, keystoneBkt, pending, opened>> /\ closed' \subseteq InKeys
  BY <1>3, <1>4 DEF FailCircuit, CloseCircuit, cmVars, TypeOK, CircuitsOK
<1>6. /\ reps' \in Seq(Reps) /\ repHead' \in 0 .. Len(reps')
      /\ Keys(reps)' \subseteq Keys(reps) \cup {k}
  <2>1. CASE FailCircuit(k) /\ Deliver(Rep(k, "fail", none))
    <3>1. Rep(k, "fail", none) \in Reps /\ Rep(k, "fail", none).key = k
      BY <1>4, RepType DEF Answers
    <3> QED BY <2>1, <3>1, DeliverFacts
  <2>2. CASE UNCHANGED <<cmVars, reps, repHead>>
    BY <2>2 DEF TypeOK
  <2> QED BY <1>3, <2>1, <2>2
<1>7. MailboxInv'
  BY <1>0, <1>2 DEF MailboxInv
<1>8. TypeOK'
  <2>1. addHead' \in 0 .. Len(adds')
    BY <1>0, <1>2 DEF MailboxInv, Begins, TypeOK
  <2> QED BY <1>0, <1>2, <1>5, <1>6, <2>1 DEF TypeOK, CircuitsOK
<1>9. QueuedInv' /\ SentInv' /\ IncomingInv'
  BY <1>0, <1>1, <1>2, <1>4, <1>5, <1>6 DEF QueuedInv, SentInv, IncomingInv
<1>10. CircuitInv' /\ RouteInv'
  BY <1>0, <1>1, <1>5 DEF CircuitInv, RouteInv, HasKeystone
<1> QED BY <1>7, <1>8, <1>9, <1>10

\* The outgoing link takes a packet into its log, or fails it.
LEMMA DownstreamAddStep ==
    ASSUME ForwardInv, handleDownstreamUpdateAdd
    PROVE  ForwardInv'
<1> USE CircuitAssumption, AnswerAssumption
<1> USE DEF ForwardInv
<1>0. /\ UNCHANGED <<diskVars, inVars, outUp, keystoned, toClose>>
      /\ outUp /\ addHead < Len(adds)
  BY DEF handleDownstreamUpdateAdd
<1>1. CASE FailAdd /\ UNCHANGED outLog
  BY <1>0, <1>1, FailAddStep DEF outVars
<1>2. CASE /\ Len(sent) + Len(outLog) <= MaxHtlcs
           /\ outLog' = Append(outLog, adds[addHead + 1]) /\ addHead' = addHead + 1
           /\ UNCHANGED <<cmVars, adds, reps, repHead>>
  <2>1. UNCHANGED <<lockedIn, addAcked, answered, owed, sent, resp, respAcked, inUp, replay, inLog>>
    BY <1>0 DEF diskVars, inVars
  <2>2. /\ adds \in Seq(InKeys) /\ addHead \in 0 .. Len(adds) /\ outLog \in Seq(InKeys)
        /\ addHead = Len(outLog) /\ adds[addHead + 1] \in InKeys
    BY <1>0 DEF TypeOK, MailboxInv
  <2>3. outLog' \in Seq(InKeys) /\ Len(outLog') = addHead + 1
    BY <1>2, <2>2
  <2>4. \A i \in 1 .. Len(outLog) : outLog'[i] = outLog[i]
    BY <1>2, <2>2
  <2>5. outLog'[addHead + 1] = adds[addHead + 1]
    BY <1>2, <2>2
  <2>6. TypeOK'
    BY <1>0, <1>2, <2>1, <2>2, <2>3 DEF TypeOK, CircuitsOK, cmVars
  <2>7. MailboxInv'
    <3>1. \A i \in 1 .. Len(outLog') : i \in 1 .. Len(outLog) \/ i = addHead + 1
      BY <2>2, <2>3
    <3>2. Begins(adds, outLog')
      BY <1>0, <2>2, <2>3, <2>4, <2>5, <3>1 DEF MailboxInv, Begins
    <3>3. Len(sent) + Len(outLog') <= MaxHtlcs + 1
      BY <1>2, <2>2, <2>3 DEF TypeOK
    <3> QED BY <1>0, <1>2, <2>1, <2>2, <2>3, <3>2, <3>3 DEF MailboxInv
  <2>8. SentKeys' = SentKeys /\ Offered' = Offered /\ \A o : Sent(o)' = Sent(o)
    BY <2>1 DEF SentKeys, Offered, Sent
  <2>9. QueuedInv' /\ SentInv' /\ IncomingInv'
    BY <1>0, <1>2, <2>1, <2>8 DEF QueuedInv, SentInv, IncomingInv, cmVars
  <2>10. CircuitInv'
    BY <1>2 DEF CircuitInv, HasKeystone, cmVars
  <2>11. RouteInv'
    <3>1. \A i \in 1 .. keystoned : i \in 1 .. Len(outLog)
      BY <2>2 DEF TypeOK
    <3> QED BY <1>0, <1>2, <2>1, <2>4, <2>8, <3>1 DEF RouteInv, cmVars
  <2> QED BY <2>6, <2>7, <2>9, <2>10, <2>11
<1> QED BY <1>1, <1>2 DEF handleDownstreamUpdateAdd

\* Keystones are written for what is in the log.
LEMMA WriteKeystonesStep ==
    ASSUME ForwardInv, WriteKeystones
    PROVE  ForwardInv'
<1> USE CircuitAssumption, AnswerAssumption
<1> USE DEF ForwardInv
<1> DEFINE batch == SubSeq(outLog, keystoned + 1, Len(outLog))  first == Len(sent) + keystoned
<1>0. /\ UNCHANGED <<lockedIn, addAcked, answered, owed, sent, resp, respAcked, inUp, replay, inLog,
                     outUp, outLog, adds, addHead, reps, repHead, toClose>>
      /\ keystoned < Len(outLog) /\ keystoned' = Len(outLog) /\ OpenCircuits(batch, first)
  BY DEF WriteKeystones, diskVars, inVars, boxVars
<1>1. SentKeys' = SentKeys /\ Offered' = Offered /\ \A o : Sent(o)' = Sent(o)
  BY <1>0 DEF SentKeys, Offered, Sent
<1>2. /\ outLog \in Seq(InKeys) /\ keystoned \in 0 .. Len(outLog)
      /\ Len(sent) \in Nat /\ Len(outLog) \in Nat
      /\ Len(sent) + Len(outLog) <= MaxHtlcs + 1
  BY DEF TypeOK, MailboxInv
<1>3. /\ batch \in Seq(InKeys) /\ Len(batch) = Len(outLog) - keystoned
      /\ \A i \in 1 .. Len(batch) : batch[i] = outLog[keystoned + i]
  BY <1>2, TailFacts
<1>4. Distinct(outLog)
  <2>1. adds \in Seq(InKeys)
    BY DEF TypeOK
  <2> QED BY <1>2, <2>1 DEF MailboxInv, Distinct, Begins
<1>5. first \in Nat /\ first + Len(batch) <= MaxHtlcs + 1
  <2> HIDE DEF batch
  <2> QED BY <1>2, <1>3
<1>6. Distinct(batch)
  BY <1>2, <1>3, <1>4 DEF Distinct
<1>7. CircuitsOK
  BY DEF TypeOK
<1> HIDE DEF batch
<1>8. /\ CircuitsOK' /\ CircuitInv'
      /\ \A o \in OutKeys :
            IF o - first + 1 \in 1 .. Len(batch)
            THEN opened'[o] = batch[o - first + 1] /\ keystoneBkt'[o] = batch[o - first + 1]
            ELSE opened'[o] = opened[o] /\ keystoneBkt'[o] = keystoneBkt[o]
      /\ \A k \in InKeys :
            /\ pending[k] # none <=> pending'[k] # none
            /\ pending[k] # none => pending'[k].loadedFromDisk = pending[k].loadedFromDisk
  <2> HIDE DEF first
  <2> QED BY <1>0, <1>3, <1>5, <1>6, <1>7, OpenFacts
<1>9. TypeOK'
  BY <1>0, <1>2, <1>8 DEF TypeOK
<1>10. MailboxInv'
  BY <1>0 DEF MailboxInv
<1>11. QueuedInv' /\ SentInv' /\ IncomingInv'
  <2>1. \A k \in Elements(adds) : k \in InKeys
    BY DEF QueuedInv, TypeOK
  <2>2. \A k \in Offered : k \in InKeys
    BY SentInRange
  <2> QED BY <1>0, <1>1, <1>8, <2>1, <2>2 DEF QueuedInv, SentInv, IncomingInv
<1>12. RouteInv'
  <2>1. \A o \in SentKeys : o \in OutKeys /\ o - first + 1 \notin 1 .. Len(batch)
    <3>1. \A o \in SentKeys : o \in Int /\ o < first
      BY <1>2 DEF SentKeys
    <3>2. Len(batch) \in Nat /\ first \in Nat
      BY <1>3, <1>5, <1>2
    <3>3. \A o \in SentKeys : o - first + 1 < 1
      <4> HIDE DEF first
      <4> QED BY <3>1, <3>2
    <3>4. SentKeys \subseteq OutKeys
      BY SentInRange
    <3> QED BY <3>2, <3>3, <3>4
  <2>2. ASSUME NEW i \in 1 .. keystoned' PROVE opened'[Len(sent) + i - 1] = outLog[i]
    <3>1. PICK o \in OutKeys : o = Len(sent) + i - 1
      BY <1>0, <1>2 DEF OutKeys
    <3>2. CASE i <= keystoned
      <4>1. o - first + 1 \notin 1 .. Len(batch) /\ i \in 1 .. keystoned
        BY <1>0, <1>2, <1>3, <3>1, <3>2
      <4>2. opened'[o] = opened[o]
        BY <1>8, <4>1
      <4> QED BY <3>1, <4>1, <4>2 DEF RouteInv
    <3>3. CASE i > keystoned
      <4>1. o - first + 1 = i - keystoned /\ i - keystoned \in 1 .. Len(batch)
        BY <1>0, <1>2, <1>3, <3>1, <3>3
      <4>2. opened'[o] = batch[i - keystoned]
        BY <1>8, <4>1
      <4>3. batch[i - keystoned] = outLog[keystoned + (i - keystoned)]
        BY <1>3, <4>1
      <4> QED BY <1>0, <1>2, <3>1, <4>2, <4>3
    <3> QED BY <1>0, <1>2, <3>2, <3>3
  <2> HIDE DEF first
  <2> QED BY <1>0, <1>1, <1>8, <2>1, <2>2 DEF RouteInv
<1> QED BY <1>8, <1>9, <1>10, <1>11, <1>12

\* The log is signed, and leaves the mailbox.
LEMMA SignOutgoingStep ==
    ASSUME ForwardInv, SignOutgoing
    PROVE  ForwardInv'
<1> USE CircuitAssumption, AnswerAssumption
<1> USE DEF ForwardInv
<1>0. /\ UNCHANGED <<circuitBkt, keystoneBkt, pending, opened, closed, lockedIn, addAcked, answered,
                     owed, resp, respAcked, inUp, replay, inLog, outUp, reps, repHead, toClose>>
      /\ keystoned = Len(outLog) /\ sent' = sent \o outLog
      /\ outLog' = <<>> /\ keystoned' = 0
      /\ adds' = Unacked(adds, ToSet(outLog))
      /\ addHead' = Len(Unacked(SubSeq(adds, 1, addHead), ToSet(outLog)))
  BY DEF SignOutgoing, cmVars, inVars
<1>1. /\ adds' \in Seq(InKeys) /\ Distinct(adds') /\ addHead' = 0
      /\ Elements(adds)' \subseteq Elements(adds) \ Elements(outLog)
      /\ Elements(outLog) \subseteq Elements(adds) /\ Distinct(outLog)
  BY <1>0, UnackedSigned
<1>2. /\ outLog \in Seq(InKeys) /\ sent \in Seq(InKeys) /\ Len(outLog) \in Nat /\ Len(sent) \in Nat
      /\ Len(sent) + Len(outLog) <= MaxHtlcs + 1
  BY DEF TypeOK, MailboxInv
<1>3. /\ sent' \in Seq(InKeys) /\ Len(sent') = Len(sent) + Len(outLog)
      /\ \A i \in 1 .. Len(sent) : sent'[i] = sent[i]
      /\ \A i \in 1 .. Len(outLog) : sent'[Len(sent) + i] = outLog[i]
  BY <1>0, <1>2
<1>4. \A o \in SentKeys' :
         \/ o \in SentKeys /\ Sent(o)' = Sent(o)
         \/ \E i \in 1 .. Len(outLog) : o = Len(sent) + i - 1 /\ Sent(o)' = outLog[i]
  <2> SUFFICES ASSUME NEW o \in SentKeys', o \notin SentKeys
               PROVE  \E i \in 1 .. Len(outLog) : o = Len(sent) + i - 1 /\ Sent(o)' = outLog[i]
    <3>1. \A o \in SentKeys : o + 1 \in 1 .. Len(sent)
      BY <1>2 DEF SentKeys
    <3>2. \A o \in SentKeys : Sent(o)' = Sent(o)
      BY <1>3, <3>1 DEF Sent
    <3> QED BY <3>2
  <2>1. o - Len(sent) + 1 \in 1 .. Len(outLog) /\ Len(sent) + (o - Len(sent) + 1) = o + 1
        /\ o = Len(sent) + (o - Len(sent) + 1) - 1
    BY <1>2, <1>3 DEF SentKeys
  <2>2. Sent(o)' = outLog[o - Len(sent) + 1]
    BY <1>3, <2>1 DEF Sent
  <2> QED BY <2>1, <2>2
<1>5. Offered' \subseteq Offered \cup Elements(outLog)
  BY <1>4 DEF Offered, Elements
<1>6. SentKeys \subseteq SentKeys'
  BY <1>2, <1>3 DEF SentKeys
<1>7. TypeOK'
  BY <1>0, <1>1, <1>3 DEF TypeOK, CircuitsOK
<1>8. MailboxInv'
  <2>1. outLog' \in Seq(InKeys) /\ Len(outLog') = 0
    BY <1>0
  <2>2. Begins(adds', outLog')
    BY <1>1, <2>1 DEF Begins
  <2> QED BY <1>0, <1>1, <1>2, <1>3, <2>1, <2>2 DEF MailboxInv
<1>9. QueuedInv'
  BY <1>0, <1>1, <1>5 DEF QueuedInv
<1>10. Distinct(sent')
  <2>1. \A i \in 1 .. Len(sent) : sent[i] \in Offered
    <3> SUFFICES ASSUME NEW i \in 1 .. Len(sent) PROVE sent[i] \in Offered
      OBVIOUS
    <3>1. i - 1 \in SentKeys /\ Sent(i - 1) = sent[i]
      BY <1>2 DEF SentKeys, Sent
    <3> QED BY <3>1 DEF Offered
  <2>2. \A i \in 1 .. Len(outLog) : outLog[i] \notin Offered
    BY <1>1 DEF QueuedInv, Elements
  <2>3. \A i \in 1 .. Len(sent') : i \in 1 .. Len(sent) \/
           (i - Len(sent) \in 1 .. Len(outLog) /\ sent'[i] = outLog[i - Len(sent)])
    <3> SUFFICES ASSUME NEW i \in 1 .. Len(sent'), i \notin 1 .. Len(sent)
                 PROVE  i - Len(sent) \in 1 .. Len(outLog) /\ sent'[i] = outLog[i - Len(sent)]
      OBVIOUS
    <3>1. i - Len(sent) \in 1 .. Len(outLog) /\ Len(sent) + (i - Len(sent)) = i
      BY <1>2, <1>3
    <3> QED BY <1>3, <3>1
  <2> SUFFICES ASSUME NEW i \in 1 .. Len(sent'), NEW j \in 1 .. Len(sent'), sent'[i] = sent'[j]
               PROVE  i = j
    BY DEF Distinct
  <2>4. CASE i \in 1 .. Len(sent) /\ j \in 1 .. Len(sent)
    BY <1>3, <2>4 DEF SentInv, Distinct
  <2>5. CASE i \notin 1 .. Len(sent) /\ j \notin 1 .. Len(sent)
    <3>1. i - Len(sent) = j - Len(sent)
      BY <1>1, <2>3, <2>5 DEF Distinct
    <3> QED BY <1>2, <1>3, <3>1
  <2>6. CASE i \in 1 .. Len(sent) /\ j \notin 1 .. Len(sent)
    BY <1>3, <2>1, <2>2, <2>3, <2>6
  <2>7. CASE i \notin 1 .. Len(sent) /\ j \in 1 .. Len(sent)
    BY <1>3, <2>1, <2>2, <2>3, <2>7
  <2> QED BY <2>4, <2>5, <2>6, <2>7
<1>11. SentInv'
  BY <1>0, <1>1, <1>5, <1>10 DEF SentInv, QueuedInv
<1>12. IncomingInv'
  BY <1>0, <1>6 DEF IncomingInv
<1>13. CircuitInv'
  BY <1>0 DEF CircuitInv, HasKeystone
<1>14. RouteInv'
  <2>1. \A i \in 1 .. Len(outLog) : opened[Len(sent) + i - 1] = outLog[i] /\ outLog[i] \in InKeys
                                    /\ Len(sent) + i - 1 \in OutKeys
    BY <1>0, <1>2 DEF RouteInv, OutKeys
  <2>2. \A o \in SentKeys' : /\ keystoneBkt'[o] \in {Sent(o)', none}
                             /\ answered'[Sent(o)'] = none => opened'[o] = Sent(o)'
    <3> SUFFICES ASSUME NEW o \in SentKeys'
                 PROVE  /\ keystoneBkt'[o] \in {Sent(o)', none}
                        /\ answered'[Sent(o)'] = none => opened'[o] = Sent(o)'
      OBVIOUS
    <3>1. CASE o \in SentKeys /\ Sent(o)' = Sent(o)
      BY <1>0, <3>1 DEF RouteInv
    <3>2. ASSUME NEW i \in 1 .. Len(outLog), o = Len(sent) + i - 1, Sent(o)' = outLog[i]
          PROVE  keystoneBkt'[o] = Sent(o)' /\ opened'[o] = Sent(o)'
      <4>1. o \in OutKeys /\ opened[o] = outLog[i] /\ outLog[i] # none
        BY <2>1, <3>2
      <4> QED BY <1>0, <3>2, <4>1 DEF CircuitInv
    <3> QED BY <1>4, <3>1, <3>2
  <2> QED BY <1>0, <2>2 DEF RouteInv
<1> QED BY <1>7, <1>8, <1>9, <1>11, <1>12, <1>13, <1>14

\* The key of a signed HTLC leads to it, or nowhere once it was answered.
LEMMA OpenedSent ==
    ASSUME ForwardInv, NEW o \in SentKeys, opened[o] # none
    PROVE  opened[o] = Sent(o) /\ Sent(o) \in Offered /\ Sent(o) \in InKeys
<1>1. o \in OutKeys /\ Sent(o) \in InKeys
  BY SentInRange DEF ForwardInv
<1> QED BY <1>1 DEF ForwardInv, CircuitInv, RouteInv, Offered

\* A response of the peer is handed to the incoming mailbox at most.
LEMMA closeCircuitStep ==
    ASSUME ForwardInv, NEW o \in SentKeys, NEW a \in Answers, NEW d \in OutKeys \cup {none},
           closeCircuit(o, a, d), toClose' \subseteq toClose,
           UNCHANGED <<lockedIn, addAcked, answered, owed, sent, resp, inVars, outVars>>
    PROVE  ForwardInv'
<1> USE CircuitAssumption, AnswerAssumption
<1> USE DEF ForwardInv
<1> DEFINE k == opened[o]
<1>0. UNCHANGED <<lockedIn, addAcked, answered, owed, sent, resp, inUp, replay, inLog,
                  outUp, outLog, keystoned>>
  BY DEF inVars, outVars
<1>1. SentKeys' = SentKeys /\ Offered' = Offered /\ \A p : Sent(p)' = Sent(p)
  BY <1>0 DEF SentKeys, Offered, Sent
<1>2. \/ UNCHANGED <<cmVars, boxVars>> /\ respAcked' \subseteq respAcked \cup ({d} \ {none})
      \/ /\ k # none /\ CloseCircuit(k) /\ Deliver(Rep(k, a, d))
         /\ UNCHANGED <<adds, addHead, respAcked>>
  BY DEF closeCircuit
<1>3. k # none => k \in InKeys /\ k \in lockedIn /\ k \notin Elements(adds)
  BY OpenedSent DEF SentInv, QueuedInv
<1> HIDE DEF k
<1>4. /\ UNCHANGED <<circuitBkt, keystoneBkt, pending, opened, adds, addHead>>
      /\ closed' \subseteq InKeys /\ respAcked' \subseteq OutKeys
  BY <1>2, <1>3 DEF CloseCircuit, cmVars, boxVars, TypeOK, CircuitsOK
<1>5. /\ reps' \in Seq(Reps) /\ repHead' \in 0 .. Len(reps')
      /\ Keys(reps)' \subseteq Keys(reps) \cup ({k} \ {none})
  <2>1. CASE UNCHANGED <<cmVars, boxVars>>
    BY <2>1 DEF TypeOK, boxVars
  <2>2. CASE k # none /\ Deliver(Rep(k, a, d))
    <3>1. Rep(k, a, d) \in Reps /\ Rep(k, a, d).key = k
      BY <1>3, <2>2, RepType
    <3> QED BY <2>2, <3>1, DeliverFacts
  <2> QED BY <1>2, <2>1, <2>2
<1>6. TypeOK'
  BY <1>0, <1>4, <1>5 DEF TypeOK, CircuitsOK
<1>7. MailboxInv'
  BY <1>0, <1>4 DEF MailboxInv
<1>8. QueuedInv' /\ SentInv' /\ IncomingInv'
  BY <1>0, <1>1, <1>3, <1>4, <1>5 DEF QueuedInv, SentInv, IncomingInv
<1>9. CircuitInv' /\ RouteInv'
  BY <1>0, <1>1, <1>4 DEF CircuitInv, RouteInv, HasKeystone
<1> QED BY <1>6, <1>7, <1>8, <1>9

\* Responses that arrive, and those that are replayed.
LEMMA ResponseStep ==
    ASSUME ForwardInv, NEW o \in SentKeys, PipelineSettle(o) \/ ForwardResponse(o)
    PROVE  ForwardInv'
<1>1. o \in OutKeys
  BY SentInRange DEF ForwardInv
<1>2. CASE PipelineSettle(o)
  BY <1>2, closeCircuitStep DEF PipelineSettle, Answers
<1>3. CASE ForwardResponse(o)
  <2>1. resp[o] \in Answers
    BY <1>1, <1>3 DEF ForwardResponse, ForwardInv, IncomingInv, TypeOK
  <2> QED BY <1>1, <1>3, <2>1, closeCircuitStep DEF ForwardResponse
<1> QED BY <1>2, <1>3

\* Circuits of HTLCs that were answered are deleted, with their packets.
LEMMA DeleteStep ==
    ASSUME ForwardInv, NEW keys \in SUBSET addAcked, DeleteCircuits(keys), AckReps(keys),
           owed' \subseteq owed, respAcked' \subseteq OutKeys,
           UNCHANGED <<lockedIn, addAcked, answered, sent, resp, inVars, outVars,
                       adds, addHead, toClose>>
    PROVE  ForwardInv'
<1> USE CircuitAssumption, AnswerAssumption
<1> USE DEF ForwardInv
<1>0. UNCHANGED <<lockedIn, addAcked, answered, sent, resp, inUp, replay, inLog,
                  outUp, outLog, keystoned, adds, addHead, toClose>>
  BY DEF inVars, outVars
<1>1. SentKeys' = SentKeys /\ Offered' = Offered /\ \A p : Sent(p)' = Sent(p)
  BY <1>0 DEF SentKeys, Offered, Sent
<1>2. /\ reps' \in Seq(Reps) /\ repHead' \in 0 .. Len(reps')
      /\ Keys(reps)' \subseteq Keys(reps)
  BY AckRepsFacts
<1>3. keys \in SUBSET InKeys /\ CircuitsOK /\ \A k \in keys : answered[k] # none
  BY DEF TypeOK, IncomingInv
<1>4. /\ CircuitsOK' /\ CircuitInv'
      /\ \A o \in OutKeys :
            \/ opened'[o] = opened[o] /\ keystoneBkt'[o] = keystoneBkt[o]
            \/ opened[o] \in keys /\ opened'[o] = none /\ keystoneBkt'[o] = none
      /\ \A k \in InKeys : k \notin keys => pending'[k] = pending[k]
  BY <1>3, DeleteFacts
<1>5. TypeOK'
  BY <1>0, <1>2, <1>4 DEF TypeOK
<1>6. MailboxInv'
  BY <1>0 DEF MailboxInv
<1>7. QueuedInv' /\ SentInv' /\ IncomingInv'
  <2>1. \A k \in Elements(adds) : k \in InKeys /\ k \notin keys
    BY <1>3 DEF QueuedInv, TypeOK
  <2>2. \A k \in Offered : k \in InKeys
    BY SentInRange
  <2>3. QueuedInv'
    BY <1>0, <1>1, <1>2, <1>4, <2>1 DEF QueuedInv
  <2>4. SentInv'
    BY <1>0, <1>1, <1>3, <1>4, <2>2 DEF SentInv
  <2>5. IncomingInv'
    BY <1>0, <1>1, <1>2 DEF IncomingInv
  <2> QED BY <2>3, <2>4, <2>5
<1>8. RouteInv'
  <2>1. ASSUME NEW o \in SentKeys
        PROVE  /\ keystoneBkt'[o] \in {Sent(o), none}
               /\ answered[Sent(o)] = none => opened'[o] = Sent(o)
    <3>1. o \in OutKeys
      BY SentInRange
    <3> QED BY <1>3, <1>4, <3>1 DEF RouteInv
  <2>2. ASSUME NEW i \in 1 .. keystoned PROVE opened'[Len(sent) + i - 1] = outLog[i]
    <3>0. /\ Len(sent) \in Nat /\ Len(outLog) \in Nat /\ Len(adds) \in Nat
          /\ keystoned \in 0 .. Len(outLog)
          /\ Len(sent) + Len(outLog) <= MaxHtlcs + 1 /\ Begins(adds, outLog)
      BY DEF TypeOK, MailboxInv
    <3>1. PICK o \in OutKeys : o = Len(sent) + i - 1
      BY <3>0 DEF OutKeys
    <3>2. outLog[i] \in Elements(adds)
      <4>1. i \in 1 .. Len(outLog) /\ i \in 1 .. Len(adds)
        BY <3>0 DEF Begins
      <4> QED BY <3>0, <4>1 DEF Elements, Begins
    <3>3. opened[o] = outLog[i] /\ outLog[i] \notin keys
      BY <1>3, <3>1, <3>2 DEF RouteInv, QueuedInv
    <3> QED BY <1>4, <3>1, <3>3
  <2> QED BY <1>0, <1>1, <2>1, <2>2 DEF RouteInv
<1> QED BY <1>4, <1>5, <1>6, <1>7, <1>8

\* The incoming link takes a response into its log, or clears a spurious one.
LEMMA ProcessResponseStep ==
    ASSUME ForwardInv, ProcessResponse
    PROVE  ForwardInv'
<1> USE CircuitAssumption, AnswerAssumption
<1> USE DEF ForwardInv
<1> DEFINE r == reps[repHead + 1]
<1>0. /\ UNCHANGED <<lockedIn, answered, owed, sent, resp, inUp, replay, outVars,
                     adds, addHead, toClose>>
      /\ replay = {} /\ inUp /\ repHead < Len(reps)
  BY DEF ProcessResponse, InReady
<1>1. /\ reps \in Seq(Reps) /\ repHead \in 0 .. Len(reps) /\ inLog \in Seq(Reps)
      /\ repHead + 1 \in 1 .. Len(reps)
  BY <1>0 DEF TypeOK
<1>2. r \in Reps /\ r.key \in Keys(reps) /\ r.key \in InKeys /\ r.dest \in OutKeys \cup {none}
  <2>1. r \in Reps
    BY <1>1
  <2>2. r.key \in Keys(reps)
    BY <1>1 DEF Keys
  <2> HIDE DEF r
  <2> QED BY <2>1, <2>2 DEF Reps
<1>3. CASE answered[r.key] # none
  <2>1. /\ addAcked' = addAcked \cup {r.key} /\ respAcked' = respAcked \cup ({r.dest} \ {none})
        /\ DeleteCircuits({r.key}) /\ AckReps({r.key}) /\ UNCHANGED inLog
    BY <1>3 DEF ProcessResponse, cleanupSpuriousResponse
  <2>2. addAcked' = addAcked /\ {r.key} \in SUBSET addAcked
    BY <1>2, <1>3, <2>1 DEF IncomingInv
  <2>3. respAcked' \subseteq OutKeys
    BY <1>2, <2>1 DEF TypeOK
  <2> HIDE DEF r
  <2> QED BY <1>0, <2>1, <2>2, <2>3, DeleteStep DEF inVars
<1>4. CASE answered[r.key] = none
  <2>1. /\ inLog' = Append(inLog, r) /\ repHead' = repHead + 1
        /\ UNCHANGED <<circuitBkt, keystoneBkt, pending, opened, closed, reps, addAcked, respAcked,
                       outUp, outLog, keystoned>>
    BY <1>0, <1>4 DEF ProcessResponse, cmVars, outVars
  <2> HIDE DEF r
  <2>2. inLog' \in Seq(Reps) /\ repHead' \in 0 .. Len(reps')
    BY <1>1, <1>2, <2>1
  <2>3. Keys(inLog)' \subseteq Keys(inLog) \cup {r.key}
    <3>1. Len(inLog') = Len(inLog) + 1 /\ inLog'[Len(inLog) + 1] = r
      BY <1>1, <2>1
    <3>2. \A i \in 1 .. Len(inLog) : inLog'[i] = inLog[i]
      BY <1>1, <2>1
    <3>3. \A i \in 1 .. Len(inLog') : i \in 1 .. Len(inLog) \/ i = Len(inLog) + 1
      BY <1>1, <3>1
    <3> QED BY <3>1, <3>2, <3>3 DEF Keys
  <2>4. SentKeys' = SentKeys /\ Offered' = Offered /\ \A p : Sent(p)' = Sent(p)
    BY <1>0 DEF SentKeys, Offered, Sent
  <2>5. TypeOK'
    BY <1>0, <2>1, <2>2 DEF TypeOK, CircuitsOK
  <2>6. MailboxInv'
    BY <1>0, <2>1 DEF MailboxInv
  <2>7. QueuedInv' /\ SentInv' /\ IncomingInv'
    BY <1>0, <1>2, <1>4, <2>1, <2>3, <2>4 DEF QueuedInv, SentInv, IncomingInv
  <2>8. CircuitInv' /\ RouteInv'
    BY <1>0, <2>1, <2>4 DEF CircuitInv, RouteInv, HasKeystone
  <2> QED BY <2>5, <2>6, <2>7, <2>8
<1> QED BY <1>3, <1>4

\* What a signature of the incoming link answers.
LEMMA AnswerFacts ==
    ASSUME TypeOK, SignIncoming
    PROVE  \A k \in InKeys :
              IF k \in Keys(inLog)
              THEN \E i \in 1 .. Len(inLog) : inLog[i].key = k /\ answered'[k] = inLog[i].answer
                                              /\ inLog[i].answer \in Answers
              ELSE answered'[k] = answered[k]
<1>1. inLog \in Seq(Reps)
  BY DEF TypeOK
<1> DEFINE A(k) == CHOOSE r \in ToSet(inLog) : r.key = k
<1>2. answered' = [k \in InKeys |-> IF k \in Keys(inLog) THEN A(k).answer ELSE answered[k]]
  BY DEF SignIncoming
<1>3. ASSUME NEW k \in Keys(inLog)
      PROVE  A(k) \in ToSet(inLog) /\ A(k).key = k
  <2>1. \E r \in ToSet(inLog) : r.key = k
    BY <1>1, <1>3 DEF Keys, ToSet
  <2> QED BY <2>1
<1> HIDE DEF A
<1>4. ASSUME NEW k \in Keys(inLog)
      PROVE  \E i \in 1 .. Len(inLog) :
               inLog[i].key = k /\ A(k) = inLog[i] /\ inLog[i].answer \in Answers
  <2>1. PICK i \in DOMAIN inLog : A(k) = inLog[i]
    BY <1>3 DEF ToSet
  <2>2. i \in 1 .. Len(inLog) /\ inLog[i] \in Reps
    BY <1>1
  <2> QED BY <1>3, <2>1, <2>2 DEF Reps
<1> QED BY <1>2, <1>4

\* The removals are signed.
LEMMA SignIncomingStep ==
    ASSUME ForwardInv, SignIncoming
    PROVE  ForwardInv'
<1> USE CircuitAssumption, AnswerAssumption
<1> USE DEF ForwardInv
<1>0. /\ UNCHANGED <<circuitBkt, keystoneBkt, pending, opened, closed, lockedIn, sent, resp, inUp,
                     replay, outUp, outLog, keystoned, adds, addHead, reps, repHead, toClose>>
      /\ addAcked' = addAcked \cup Keys(inLog) /\ owed' = Keys(inLog) /\ inLog' = <<>>
      /\ respAcked' = respAcked \cup ({r.dest : r \in ToSet(inLog)} \ {none})
      /\ replay = {}
  BY DEF SignIncoming, cmVars, outVars, boxVars, InReady
<1>1. SentKeys' = SentKeys /\ Offered' = Offered /\ \A p : Sent(p)' = Sent(p)
  BY <1>0 DEF SentKeys, Offered, Sent
<1>2. \A k \in InKeys :
         IF k \in Keys(inLog) THEN answered'[k] \in Answers ELSE answered'[k] = answered[k]
  BY AnswerFacts
<1>3. answered' \in [InKeys -> Answers \cup {none}]
  BY <1>2 DEF SignIncoming, TypeOK
<1>4. TypeOK'
  <2>1. Keys(inLog) \subseteq InKeys /\ Keys(inLog) \subseteq lockedIn
    BY DEF IncomingInv, TypeOK
  <2>2. \A r \in ToSet(inLog) : r.dest \in OutKeys \cup {none}
    <3>1. \A i \in DOMAIN inLog : inLog[i] \in Reps
      BY DEF TypeOK
    <3> QED BY <3>1 DEF ToSet, Reps
  <2>3. respAcked' \subseteq OutKeys
    BY <1>0, <2>2 DEF TypeOK
  <2> QED BY <1>0, <1>3, <2>1, <2>3 DEF TypeOK, CircuitsOK
<1>5. MailboxInv'
  BY <1>0 DEF MailboxInv
<1>6. \A k \in InKeys : answered'[k] = none => answered[k] = none
  BY <1>2
<1>7. QueuedInv'
  <2>1. \A k \in Elements(adds) : k \in InKeys /\ answered'[k] = none
    BY <1>2 DEF QueuedInv, TypeOK
  <2> QED BY <1>0, <1>1, <2>1, NothingIn DEF QueuedInv
<1>8. SentInv'
  BY <1>0, <1>1, <1>6, SentInRange DEF SentInv
<1>9. IncomingInv'
  <2>1. Keys(inLog) \subseteq InKeys
    BY DEF IncomingInv, TypeOK
  <2>2. addAcked' = {k \in InKeys : answered'[k] # none}
    BY <1>0, <1>2, <2>1 DEF IncomingInv
  <2> QED BY <1>0, <1>1, <2>2, NothingIn DEF IncomingInv
<1>10. CircuitInv'
  BY <1>0 DEF CircuitInv, HasKeystone
<1>11. RouteInv'
  BY <1>0, <1>1, <1>6, SentInRange DEF RouteInv
<1> QED BY <1>4, <1>5, <1>7, <1>8, <1>9, <1>10, <1>11

\* Circuits the signature closed are deleted.
LEMMA AckDownStreamStep ==
    ASSUME ForwardInv, ackDownStreamPackets
    PROVE  ForwardInv'
<1>1. owed \in SUBSET addAcked
  BY DEF ForwardInv, IncomingInv
<1>2. owed' \subseteq owed /\ respAcked' \subseteq OutKeys
  BY DEF ackDownStreamPackets, ForwardInv, TypeOK
<1> QED BY <1>1, <1>2, DeleteStep DEF ackDownStreamPackets

\* The outgoing link starts, trimming keystones that were not signed.
LEMMA StartOutgoingStep ==
    ASSUME ForwardInv, StartOutgoing
    PROVE  ForwardInv'
<1> USE CircuitAssumption, AnswerAssumption
<1> USE DEF ForwardInv
<1>0. /\ UNCHANGED <<lockedIn, addAcked, answered, owed, sent, resp, respAcked, inUp, replay, inLog,
                     outLog, keystoned, adds, addHead, reps, repHead>>
      /\ ~ outUp /\ TrimOpenCircuits(Len(sent))
      /\ toClose' = {o \in SentKeys : resp[o] # none} \ respAcked
  BY DEF StartOutgoing, diskVars, inVars, boxVars
<1>1. SentKeys' = SentKeys /\ Offered' = Offered /\ \A p : Sent(p)' = Sent(p)
  BY <1>0 DEF SentKeys, Offered, Sent
<1>2. CircuitsOK /\ Len(sent) \in Nat
  BY DEF TypeOK
<1>3. /\ CircuitsOK' /\ CircuitInv'
      /\ \A o \in OutKeys : IF o \in Trimmed(opened, Len(sent))
                            THEN opened'[o] = none /\ keystoneBkt'[o] = none
                            ELSE opened'[o] = opened[o] /\ keystoneBkt'[o] = keystoneBkt[o]
      /\ \A k \in InKeys :
            /\ pending[k] # none <=> pending'[k] # none
            /\ pending[k] # none => pending'[k].loadedFromDisk = pending[k].loadedFromDisk
  BY <1>0, <1>2, TrimFacts
<1>4. TypeOK'
  BY <1>0, <1>3 DEF TypeOK
<1>5. MailboxInv'
  BY <1>0 DEF MailboxInv
<1>6. QueuedInv' /\ SentInv' /\ IncomingInv'
  <2>1. \A k \in Elements(adds) : k \in InKeys
    BY DEF QueuedInv, TypeOK
  <2>2. \A k \in Offered : k \in InKeys
    BY SentInRange
  <2>3. QueuedInv' /\ SentInv'
    BY <1>0, <1>1, <1>3, <2>1, <2>2 DEF QueuedInv, SentInv
  <2>4. IncomingInv'
    BY <1>0, <1>1 DEF IncomingInv
  <2> QED BY <2>3, <2>4
<1>7. RouteInv'
  <2>1. \A o \in SentKeys : o \in OutKeys /\ o \notin Trimmed(opened, Len(sent))
    BY <1>2, SentInRange DEF SentKeys, Trimmed
  <2>2. keystoned = 0
    BY <1>0 DEF MailboxInv, TypeOK
  <2> QED BY <1>0, <1>1, <1>3, <2>1, <2>2 DEF RouteInv
<1> QED BY <1>3, <1>4, <1>5, <1>6, <1>7

\* The node restarts.
LEMMA RestartStep ==
    ASSUME ForwardInv, Restart
    PROVE  ForwardInv'
<1> USE CircuitAssumption, AnswerAssumption
<1> USE DEF ForwardInv
<1>0. /\ UNCHANGED <<lockedIn, addAcked, answered, owed, sent, resp, respAcked>>
      /\ NewCircuitMap(Len(sent)) /\ ~ outUp' /\ ~ inUp' /\ replay' = {}
      /\ toClose' = {o \in SentKeys : resp[o] # none} \ respAcked
      /\ adds' = <<>> /\ addHead' = 0 /\ reps' = <<>> /\ repHead' = 0
      /\ outLog' = <<>> /\ keystoned' = 0 /\ inLog' = <<>>
  BY DEF Restart, diskVars
<1>1. SentKeys' = SentKeys /\ Offered' = Offered /\ \A p : Sent(p)' = Sent(p)
  BY <1>0 DEF SentKeys, Offered, Sent
<1>2. CircuitsOK /\ Len(sent) \in Nat
  BY DEF TypeOK
<1>3. /\ CircuitsOK' /\ CircuitInv'
      /\ \A o \in OutKeys : o < Len(sent) =>
            /\ keystoneBkt'[o] = keystoneBkt[o]
            /\ opened'[o] = IF keystoneBkt[o] \in circuitBkt THEN keystoneBkt[o] ELSE none
      /\ \A k \in InKeys : pending'[k] # none <=> pending[k] # none
  BY <1>0, <1>2, NewMapFacts
<1>4. TypeOK'
  BY <1>0, <1>3 DEF TypeOK
<1>5. MailboxInv'
  <2>1. Distinct(adds') /\ Begins(adds', outLog') /\ Len(outLog') = 0
    BY <1>0 DEF Distinct, Begins
  <2> QED BY <1>0, <2>1 DEF MailboxInv, TypeOK
<1>6. QueuedInv' /\ SentInv' /\ IncomingInv'
  BY <1>0, <1>1, <1>3, NothingIn, SentInRange DEF QueuedInv, SentInv, IncomingInv
<1>7. RouteInv'
  <2>1. ASSUME NEW o \in SentKeys
        PROVE  /\ keystoneBkt'[o] \in {Sent(o), none}
               /\ answered[Sent(o)] = none => opened'[o] = Sent(o)
    <3>1. o \in OutKeys /\ o < Len(sent) /\ Sent(o) \in InKeys /\ Sent(o) \in Offered
      BY <1>2, SentInRange DEF SentKeys, Offered
    <3>2. answered[Sent(o)] = none => keystoneBkt[o] = Sent(o) /\ Sent(o) \in circuitBkt
      BY <3>1 DEF RouteInv, CircuitInv, SentInv
    <3> QED BY <1>3, <3>1, <3>2 DEF RouteInv
  <2> QED BY <1>0, <1>1, <2>1 DEF RouteInv
<1> QED BY <1>3, <1>4, <1>5, <1>6, <1>7

\* Every step keeps the invariant.
LEMMA ForwardNext ==
    ASSUME ForwardInv, [Next]_vars
    PROVE  ForwardInv'
<1>1. CASE UNCHANGED vars
  <2>1. UNCHANGED <<circuitBkt, keystoneBkt, pending, opened, closed, lockedIn, addAcked, answered,
                    owed, sent, resp, respAcked, inUp, outUp, replay, toClose, adds, addHead, reps,
                    repHead, outLog, keystoned, inLog>>
    BY <1>1 DEF vars, cmVars, diskVars, inVars, outVars, boxVars
  <2>2. TypeOK' /\ MailboxInv'
    BY <2>1 DEF ForwardInv, TypeOK, CircuitsOK, MailboxInv
  <2>3. SentKeys' = SentKeys /\ Offered' = Offered /\ \A o : Sent(o)' = Sent(o)
    BY <2>1 DEF SentKeys, Offered, Sent
  <2>4. QueuedInv' /\ SentInv' /\ IncomingInv'
    BY <2>1, <2>3 DEF ForwardInv, QueuedInv, SentInv, IncomingInv
  <2>5. CircuitInv' /\ RouteInv'
    BY <2>1, <2>3 DEF ForwardInv, CircuitInv, RouteInv, HasKeystone
  <2> QED BY <2>2, <2>4, <2>5 DEF ForwardInv
<1>2. ASSUME NEW k \in InKeys, LockIn(k) \/ ForwardPackets(k) \/ StopWhileForwarding(k)
      PROVE  ForwardInv'
  BY <1>2, LockInStep, ForwardPacketsStep, StopWhileForwardingStep
<1>3. ASSUME NEW o \in SentKeys, PipelineSettle(o) \/ ForwardResponse(o)
      PROVE  ForwardInv'
  BY <1>3, ResponseStep
<1>4. ASSUME NEW o \in SentKeys, NEW a \in Answers, LockInResponse(o, a)
      PROVE  ForwardInv'
  BY <1>4, LockInResponseStep
<1>5. CASE handleDownstreamUpdateAdd \/ WriteKeystones \/ SignOutgoing
  BY <1>5, DownstreamAddStep, WriteKeystonesStep, SignOutgoingStep
<1>6. CASE ExpireAdd
  BY <1>6, FailAddStep DEF ExpireAdd
<1>7. CASE ProcessResponse \/ SignIncoming \/ ackDownStreamPackets
  BY <1>7, ProcessResponseStep, SignIncomingStep, AckDownStreamStep
<1>8. CASE StopIncoming \/ StartIncoming \/ StopOutgoing \/ StartOutgoing \/ Restart
  BY <1>8, StopIncomingStep, StartIncomingStep, StopOutgoingStep, StartOutgoingStep, RestartStep
<1> QED BY <1>1, <1>2, <1>3, <1>4, <1>5, <1>6, <1>7, <1>8 DEF Next

\* The inductive invariant holds in every reachable state.
LEMMA ForwardInvHolds == Spec => []ForwardInv
<1>1. Init => ForwardInv
  BY ForwardInit
<1>2. ForwardInv /\ [Next]_vars => ForwardInv'
  BY ForwardNext
<1> QED BY <1>1, <1>2, PTL DEF Spec

\* Mailboxes, logs and circuits stay within their types, and the head of each
\* mailbox (mailbox.go) never runs past its end.
THEOREM ForwardTyped == Spec => []TypeOK
<1>1. ForwardInv => TypeOK
  BY DEF ForwardInv
<1> QED BY <1>1, ForwardInvHolds, PTL

\* No incoming HTLC is offered to the outgoing peer twice: the mailbox keeps a
\* packet until it is signed (mailbox.go AckPacket), and CommitCircuits lets
\* none in a second time (circuit_map.go).
THEOREM NeverForwardedTwice == Spec => []ForwardedOnce
<1>1. ForwardInv => ForwardedOnce
  <2> SUFFICES ASSUME ForwardInv, NEW o \in SentKeys, NEW p \in SentKeys, Sent(o) = Sent(p)
               PROVE  o = p
    BY DEF ForwardedOnce
  <2>1. o + 1 \in 1 .. Len(sent) /\ p + 1 \in 1 .. Len(sent) /\ o \in OutKeys /\ p \in OutKeys
    BY SentInRange DEF ForwardInv
  <2>2. o + 1 = p + 1
    BY <2>1 DEF ForwardInv, SentInv, Distinct, Sent
  <2> QED BY <2>1, <2>2, CircuitAssumption DEF OutKeys
<1> QED BY <1>1, ForwardInvHolds, PTL

\* Disk always leads from an outstanding outgoing HTLC back to the incoming
\* one, over crashes and trimming, stale keystones or not (circuit_map.go
\* TrimOpenCircuits, restoreMemState).
THEOREM AlwaysRoutable == Spec => []ResponseRoutable
<1>1. ForwardInv => ResponseRoutable
  <2> SUFFICES ASSUME ForwardInv, NEW o \in SentKeys, answered[Sent(o)] = none
               PROVE  Sent(o) \in circuitBkt /\ keystoneBkt[o] = Sent(o)
    BY DEF ResponseRoutable
  <2>1. o \in OutKeys /\ Sent(o) \in InKeys /\ Sent(o) \in Offered
    BY SentInRange DEF ForwardInv, Offered
  <2>2. Sent(o) \in circuitBkt
    BY <2>1 DEF ForwardInv, SentInv, CircuitInv
  <2>3. opened[o] = Sent(o) /\ Sent(o) # none
    BY <2>1, CircuitAssumption DEF ForwardInv, RouteInv
  <2> QED BY <2>1, <2>2, <2>3 DEF ForwardInv, CircuitInv
<1> QED BY <1>1, ForwardInvHolds, PTL

-----------------------------------------------------------------------------
\* While keystones leave no gaps.
GaplessInv == ForwardInv /\ KeystoneInv /\ FailureInv

\* KeystoneInv is about keystones, their circuits, and what is signed.
LEMMA KeystoneFrame ==
    ASSUME KeystoneInv,
           UNCHANGED <<keystoneBkt, pending, opened, sent, keystoned>>, outUp' => outUp
    PROVE  KeystoneInv'
BY DEF KeystoneInv

\* A step that signs nothing, and only brings failures about HTLCs that were
\* not sent or that the peer has failed, keeps FailureInv.
LEMMA FailureFrame ==
    ASSUME FailureInv, NEW X,
           \A o \in SentKeys : answered[Sent(o)] = none /\ Sent(o) \in X => resp[o] = "fail",
           UNCHANGED <<answered, sent, resp>>,
           Fails(reps)' \subseteq Fails(reps) \cup X,
           Fails(inLog)' \subseteq Fails(inLog) \cup Fails(reps)
    PROVE  FailureInv'
<1>1. SentKeys' = SentKeys /\ \A o : Sent(o)' = Sent(o)
  BY DEF SentKeys, Sent
<1> QED BY <1>1 DEF FailureInv, FailedMeansFailed

\* So does one that brings no failure.
LEMMA FailureKept ==
    ASSUME FailureInv, UNCHANGED <<answered, sent>>,
           \A o \in SentKeys : resp[o] = "fail" => resp'[o] = "fail",
           Fails(reps)' \subseteq Fails(reps),
           Fails(inLog)' \subseteq Fails(inLog) \cup Fails(reps)
    PROVE  FailureInv'
<1>1. SentKeys' = SentKeys /\ \A o : Sent(o)' = Sent(o)
  BY DEF SentKeys, Sent
<1> QED BY <1>1 DEF FailureInv, FailedMeansFailed

\* A circuit without a keystone is not that of an outstanding HTLC: what
\* CommitCircuits fails was never sent.
LEMMA FailedNotSent ==
    ASSUME ForwardInv, KeystoneInv, NEW o \in SentKeys, answered[Sent(o)] = none
    PROVE  ~ Failed(Sent(o)) /\ pending[Sent(o)] # none
<1>1. o \in OutKeys /\ Sent(o) \in InKeys /\ opened[o] = Sent(o)
  BY SentInRange DEF ForwardInv, RouteInv
<1>2. Sent(o) # none /\ o # none
  BY <1>1, CircuitAssumption
<1>3. pending[Sent(o)] # none /\ pending[Sent(o)].out = o
  BY <1>1, <1>2 DEF KeystoneInv
<1> QED BY <1>2, <1>3 DEF Failed, Dropped, HasKeystone

\* A failure of the switch is about an HTLC that was not sent.
LEMMA GaplessForward ==
    ASSUME GaplessInv, NEW k \in InKeys, ForwardPackets(k)
    PROVE  KeystoneInv' /\ FailureInv'
<1> USE CircuitAssumption, AnswerAssumption
<1> USE DEF GaplessInv
<1>0. /\ UNCHANGED <<answered, sent, resp, inLog, outUp, keystoned>> /\ k \in replay
  BY DEF ForwardPackets, diskVars, outVars
<1>1. answered[k] = none
  BY <1>0, ReplayedFacts
<1>2. /\ Rep(k, "fail", none) \in Reps /\ Rep(k, "fail", none).key = k
      /\ Rep(k, "fail", none).answer = "fail"
  BY RepType DEF Answers
<1>3. KeystoneInv'
  <2>1. CASE UNCHANGED cmVars
    BY <1>0, <2>1, KeystoneFrame DEF cmVars
  <2>2. CASE CommitCircuits(k)
    <3>1. CircuitsOK /\ CircuitInv /\ pending[k] = none
      BY <2>2 DEF ForwardInv, TypeOK, CommitCircuits
    <3>2. /\ pending' = [pending EXCEPT ![k] = [out |-> none, loadedFromDisk |-> FALSE]]
          /\ keystoneBkt' = keystoneBkt /\ opened' = opened
      BY <2>2, <3>1, CommitFacts
    <3>3. \A o \in OutKeys : opened[o] # none => opened[o] # k /\ opened[o] \in InKeys
      BY <3>1 DEF KeystoneInv, CircuitsOK
    <3>4. \A j \in InKeys : j # k => pending'[j] = pending[j]
      BY <3>1, <3>2 DEF CircuitsOK
    <3> QED BY <1>0, <3>2, <3>3, <3>4 DEF KeystoneInv
  <2> QED BY <2>1, <2>2 DEF ForwardPackets
<1>4. FailureInv'
  <2>1. CASE UNCHANGED <<reps, repHead>>
    <3>1. /\ Fails(reps)' \subseteq Fails(reps)
          /\ Fails(inLog)' \subseteq Fails(inLog) \cup Fails(reps)
      BY <1>0, <2>1
    <3> QED BY <1>0, <3>1, FailureKept
  <2>2. CASE Deliver(Rep(k, "fail", none)) /\ (Failed(k) \/ pending[k] = none)
    <3>1. Fails(reps)' \subseteq Fails(reps) \cup {k}
      BY <1>2, <2>2, DeliverFacts DEF ForwardInv
    <3>2. \A o \in SentKeys : answered[Sent(o)] = none => Sent(o) # k
      BY <2>2, FailedNotSent
    <3>3. Fails(inLog)' \subseteq Fails(inLog) \cup Fails(reps)
      BY <1>0
    <3> QED BY <1>0, <3>1, <3>2, <3>3, FailureFrame
  <2> QED BY <2>1, <2>2 DEF ForwardPackets, handlePacketAdd, CommitCircuits, boxVars
<1> QED BY <1>3, <1>4

\* An add that fails was not sent.
LEMMA GaplessFailAdd ==
    ASSUME GaplessInv, addHead < Len(adds), FailAdd,
           UNCHANGED <<answered, sent, resp, inLog>>
    PROVE  FailureInv'
<1> USE CircuitAssumption, AnswerAssumption
<1> USE DEF GaplessInv
<1> DEFINE k == adds[addHead + 1]
<1>1. k \in Elements(adds)
  BY UnackedAdd DEF FailAdd, ForwardInv
<1>2. k \in InKeys /\ k \notin Offered
  BY <1>1 DEF ForwardInv, QueuedInv, TypeOK
<1>3. Deliver(Rep(k, "fail", none)) \/ UNCHANGED reps
  BY DEF FailAdd
<1> HIDE DEF k
<1>4. Rep(k, "fail", none) \in Reps /\ Rep(k, "fail", none).key = k
  BY <1>2, RepType DEF Answers
<1>5. Fails(reps)' \subseteq Fails(reps) \cup {k}
  <2>1. CASE Deliver(Rep(k, "fail", none))
    BY <1>4, <2>1, DeliverFacts DEF ForwardInv
  <2>2. CASE UNCHANGED reps
    BY <2>2
  <2> QED BY <1>3, <2>1, <2>2
<1>6. \A o \in SentKeys : Sent(o) # k
  BY <1>2 DEF Offered
<1>7. Fails(inLog)' \subseteq Fails(inLog) \cup Fails(reps)
  OBVIOUS
<1>8. \A o \in SentKeys : answered[Sent(o)] = none /\ Sent(o) \in {k} => resp[o] = "fail"
  BY <1>6
<1> QED BY <1>5, <1>7, <1>8, FailureFrame

\* A response of the peer that is a failure is locked in.
LEMMA GaplessResponse ==
    ASSUME GaplessInv, NEW o \in SentKeys, PipelineSettle(o) \/ ForwardResponse(o)
    PROVE  KeystoneInv' /\ FailureInv'
<1> USE CircuitAssumption, AnswerAssumption
<1> USE DEF GaplessInv
<1>0. UNCHANGED <<keystoneBkt, pending, opened, answered, sent, resp, inLog, outUp, keystoned>>
  BY DEF PipelineSettle, ForwardResponse, closeCircuit, CloseCircuit, cmVars, inVars, outVars
<1>1. KeystoneInv'
  BY <1>0, KeystoneFrame
<1>2. PICK a \in Answers, d \in OutKeys \cup {none} :
         closeCircuit(o, a, d) /\ (a = "fail" => resp[o] = "fail")
  <2>1. CASE PipelineSettle(o)
    <3>1. "settle" \in Answers /\ "settle" # "fail" /\ none \in OutKeys \cup {none}
      BY DEF Answers
    <3> QED BY <2>1, <3>1 DEF PipelineSettle
  <2>2. CASE ForwardResponse(o)
    <3>1. o \in OutKeys
      BY SentInRange DEF ForwardInv
    <3>2. resp[o] \in Answers
      BY <2>2, <3>1 DEF ForwardResponse, ForwardInv, IncomingInv, TypeOK
    <3> QED BY <2>2, <3>1, <3>2 DEF ForwardResponse
  <2> QED BY <2>1, <2>2
<1>3. \/ UNCHANGED reps
      \/ opened[o] # none /\ Deliver(Rep(opened[o], a, d))
  BY <1>2 DEF closeCircuit, boxVars
<1> DEFINE X == IF a = "fail" THEN {Sent(o)} ELSE {}
<1>4. Fails(reps)' \subseteq Fails(reps) \cup X
  <2>1. CASE UNCHANGED reps
    BY <2>1
  <2>2. CASE opened[o] # none /\ Deliver(Rep(opened[o], a, d))
    <3>1. opened[o] = Sent(o) /\ Sent(o) \in InKeys
      BY <2>2, OpenedSent
    <3>2. /\ Rep(Sent(o), a, d) \in Reps /\ Rep(Sent(o), a, d).key = Sent(o)
          /\ Rep(Sent(o), a, d).answer = a
      BY <3>1, RepType
    <3> QED BY <2>2, <3>1, <3>2, DeliverFacts DEF ForwardInv
  <2> QED BY <1>3, <2>1, <2>2
<1>5. \A p \in SentKeys : Sent(p) \in X => resp[p] = "fail"
  <2> SUFFICES ASSUME NEW p \in SentKeys, Sent(p) = Sent(o) PROVE p = o
    BY <1>2
  <2>1. o + 1 \in 1 .. Len(sent) /\ p + 1 \in 1 .. Len(sent) /\ o \in OutKeys /\ p \in OutKeys
    BY SentInRange DEF ForwardInv
  <2>2. o + 1 = p + 1
    BY <2>1 DEF ForwardInv, SentInv, Distinct, Sent
  <2> QED BY <2>1, <2>2 DEF OutKeys
<1>6. Fails(inLog)' \subseteq Fails(inLog) \cup Fails(reps)
  BY <1>0
<1> HIDE DEF X
<1>7. FailureInv'
  BY <1>0, <1>4, <1>5, <1>6, FailureFrame
<1> QED BY <1>1, <1>7

\* Deleting the circuits of answered HTLCs.
LEMMA GaplessDelete ==
    ASSUME GaplessInv, NEW keys \in SUBSET addAcked, DeleteCircuits(keys), AckReps(keys),
           UNCHANGED <<answered, sent, resp, inLog, outUp, keystoned>>
    PROVE  KeystoneInv' /\ FailureInv'
<1> USE CircuitAssumption, AnswerAssumption
<1> USE DEF GaplessInv
<1>1. keys \in SUBSET InKeys /\ CircuitsOK /\ CircuitInv
  BY DEF ForwardInv, TypeOK, IncomingInv
<1>2. /\ CircuitsOK'
      /\ \A o \in OutKeys :
            \/ opened'[o] = opened[o] /\ keystoneBkt'[o] = keystoneBkt[o]
            \/ opened[o] \in keys /\ opened'[o] = none /\ keystoneBkt'[o] = none
      /\ \A o \in OutKeys :
            opened[o] \in keys /\ pending[opened[o]] # none /\ pending[opened[o]].out = o =>
                opened'[o] = none
      /\ \A k \in InKeys : k \notin keys => pending'[k] = pending[k]
  BY <1>1, DeleteFacts
<1>3. KeystoneInv'
  <2>1. \A o \in OutKeys : keystoneBkt'[o] = opened'[o]
    BY <1>2 DEF KeystoneInv
  <2>2. keystoneBkt' = opened'
    BY <1>2, <2>1 DEF CircuitsOK
  <2>3. ASSUME NEW o \in OutKeys, opened'[o] # none
        PROVE  /\ opened'[o] = opened[o]
               /\ pending'[opened'[o]] # none /\ pending'[opened'[o]].out = o
    <3>1. opened'[o] = opened[o] /\ opened[o] \in InKeys
      BY <1>1, <1>2, <2>3 DEF CircuitsOK
    <3>2. pending[opened[o]] # none /\ pending[opened[o]].out = o
      BY <2>3, <3>1 DEF KeystoneInv
    <3>3. opened[o] \notin keys
      BY <1>2, <2>3, <3>2
    <3> QED BY <1>2, <3>1, <3>2, <3>3
  <2> QED BY <2>2, <2>3 DEF KeystoneInv
<1>4. Fails(reps)' \subseteq Fails(reps)
  BY AckRepsFacts DEF ForwardInv
<1>5. Fails(inLog)' \subseteq Fails(inLog) \cup Fails(reps)
  OBVIOUS
<1>6. FailureInv'
  BY <1>4, <1>5, FailureKept
<1> QED BY <1>3, <1>6

\* Responses pass from the mailbox into the log.
LEMMA GaplessProcess ==
    ASSUME GaplessInv, ProcessResponse
    PROVE  KeystoneInv' /\ FailureInv'
<1> USE CircuitAssumption, AnswerAssumption
<1> USE DEF GaplessInv
<1> DEFINE r == reps[repHead + 1]
<1>0. /\ UNCHANGED <<answered, sent, resp, outUp, outLog, keystoned>> /\ repHead < Len(reps)
  BY DEF ProcessResponse, outVars
<1>1. /\ reps \in Seq(Reps) /\ repHead + 1 \in 1 .. Len(reps) /\ inLog \in Seq(Reps)
  BY <1>0 DEF ForwardInv, TypeOK
<1>2. r \in Reps /\ r.key \in InKeys
  <2>1. r \in Reps
    BY <1>1
  <2> HIDE DEF r
  <2> QED BY <2>1 DEF Reps
<1>3. CASE answered[r.key] # none
  <2>1. DeleteCircuits({r.key}) /\ AckReps({r.key}) /\ UNCHANGED inLog
    BY <1>3 DEF ProcessResponse, cleanupSpuriousResponse
  <2>2. {r.key} \in SUBSET addAcked
    BY <1>2, <1>3 DEF ForwardInv, IncomingInv
  <2> HIDE DEF r
  <2> QED BY <1>0, <2>1, <2>2, GaplessDelete
<1>4. CASE answered[r.key] = none
  <2>1. inLog' = Append(inLog, r) /\ UNCHANGED <<keystoneBkt, pending, opened, reps>>
    BY <1>4 DEF ProcessResponse, cmVars
  <2>2. KeystoneInv'
    BY <1>0, <2>1, KeystoneFrame
  <2>3. Fails(inLog)' \subseteq Fails(inLog) \cup Fails(reps)
    <3>1. r.answer = "fail" => r.key \in Fails(reps)
      BY <1>1 DEF Fails
    <3> HIDE DEF r
    <3>2. Len(inLog') = Len(inLog) + 1 /\ inLog'[Len(inLog) + 1] = r
      BY <1>1, <1>2, <2>1
    <3>3. \A i \in 1 .. Len(inLog) : inLog'[i] = inLog[i]
      BY <1>1, <1>2, <2>1
    <3>4. \A i \in 1 .. Len(inLog') : i \in 1 .. Len(inLog) \/ i = Len(inLog) + 1
      BY <1>1, <3>2
    <3> QED BY <3>1, <3>2, <3>3, <3>4 DEF Fails
  <2>4. Fails(reps)' \subseteq Fails(reps)
    BY <2>1
  <2>5. FailureInv'
    BY <1>0, <2>3, <2>4, FailureKept
  <2> QED BY <2>2, <2>5
<1> QED BY <1>3, <1>4

\* What is signed as failed was failed by the peer.
LEMMA GaplessSignIncoming ==
    ASSUME GaplessInv, SignIncoming
    PROVE  KeystoneInv' /\ FailureInv'
<1> USE CircuitAssumption, AnswerAssumption
<1> USE DEF GaplessInv
<1>0. /\ UNCHANGED <<keystoneBkt, pending, opened, sent, resp, reps, outUp, keystoned>>
      /\ inLog' = <<>>
  BY DEF SignIncoming, cmVars, outVars, boxVars
<1>1. KeystoneInv'
  BY <1>0, KeystoneFrame
<1>2. SentKeys' = SentKeys /\ \A o : Sent(o)' = Sent(o)
  BY <1>0 DEF SentKeys, Sent
<1>3. ASSUME NEW o \in SentKeys
      PROVE  /\ answered'[Sent(o)] = none => answered[Sent(o)] = none
             /\ answered'[Sent(o)] = "fail" => resp[o] = "fail"
  <2>1. Sent(o) \in InKeys
    BY SentInRange DEF ForwardInv
  <2>2. CASE Sent(o) \notin Keys(inLog)
    BY <2>1, <2>2, AnswerFacts DEF ForwardInv, FailureInv, FailedMeansFailed
  <2>3. CASE Sent(o) \in Keys(inLog)
    <3>1. PICK i \in 1 .. Len(inLog) :
             inLog[i].key = Sent(o) /\ answered'[Sent(o)] = inLog[i].answer
                                       /\ inLog[i].answer \in Answers
      BY <2>1, <2>3, AnswerFacts DEF ForwardInv
    <3>2. answered[Sent(o)] = none
      BY <2>3 DEF ForwardInv, IncomingInv
    <3>3. inLog[i].answer = "fail" => Sent(o) \in Fails(inLog)
      BY <3>1 DEF Fails
    <3> QED BY <3>1, <3>2, <3>3 DEF FailureInv
  <2> QED BY <2>2, <2>3
<1>4. FailureInv'
  BY <1>0, <1>2, <1>3, NothingIn DEF FailureInv, FailedMeansFailed
<1> QED BY <1>1, <1>4

\* New keystones go to circuits that have none, at ids that are free.
LEMMA GaplessWriteKeystones ==
    ASSUME GaplessInv, WriteKeystones
    PROVE  KeystoneInv' /\ FailureInv'
<1> USE CircuitAssumption, AnswerAssumption
<1> USE DEF GaplessInv
<1> DEFINE batch == SubSeq(outLog, keystoned + 1, Len(outLog))  first == Len(sent) + keystoned
<1>0. /\ UNCHANGED <<answered, sent, resp, inLog, reps, outUp, outLog>> /\ outUp
      /\ keystoned < Len(outLog) /\ keystoned' = Len(outLog) /\ OpenCircuits(batch, first)
  BY DEF WriteKeystones, diskVars, inVars, boxVars
<1>1. FailureInv'
  <2>1. Fails(reps)' \subseteq Fails(reps) /\ Fails(inLog)' \subseteq Fails(inLog) \cup Fails(reps)
    BY <1>0
  <2> QED BY <1>0, <2>1, FailureKept
<1>2. /\ outLog \in Seq(InKeys) /\ keystoned \in 0 .. Len(outLog)
      /\ Len(sent) \in Nat /\ Len(outLog) \in Nat
      /\ Len(sent) + Len(outLog) <= MaxHtlcs + 1
  BY DEF ForwardInv, TypeOK, MailboxInv
<1>3. /\ batch \in Seq(InKeys) /\ Len(batch) = Len(outLog) - keystoned
      /\ \A i \in 1 .. Len(batch) : batch[i] = outLog[keystoned + i]
  BY <1>2, TailFacts
<1>4. Distinct(outLog)
  <2>1. adds \in Seq(InKeys)
    BY DEF ForwardInv, TypeOK
  <2> QED BY <1>2, <2>1 DEF ForwardInv, MailboxInv, Distinct, Begins
<1>5. first \in Nat /\ first + Len(batch) <= MaxHtlcs + 1
  <2> HIDE DEF batch
  <2> QED BY <1>2, <1>3
<1>6. Distinct(batch)
  BY <1>2, <1>3, <1>4 DEF Distinct
<1>7. CircuitsOK /\ CircuitInv
  BY DEF ForwardInv, TypeOK
<1> HIDE DEF batch
<1>8. /\ CircuitsOK'
      /\ \A o \in OutKeys :
            IF o - first + 1 \in 1 .. Len(batch)
            THEN opened'[o] = batch[o - first + 1] /\ keystoneBkt'[o] = batch[o - first + 1]
            ELSE opened'[o] = opened[o] /\ keystoneBkt'[o] = keystoneBkt[o]
      /\ \A k \in InKeys : k \notin Elements(batch) => pending'[k] = pending[k]
      /\ \A i \in 1 .. Len(batch) :
            pending'[batch[i]] # none /\ pending'[batch[i]].out = first + i - 1
  <2> HIDE DEF first
  <2> QED BY <1>0, <1>3, <1>5, <1>6, <1>7, OpenFacts
<1>9. \A o \in OutKeys : opened[o] # none => opened[o] \notin Elements(batch)
  <2> SUFFICES ASSUME NEW o \in OutKeys, NEW i \in 1 .. Len(batch), opened[o] = batch[i],
                      opened[o] # none
               PROVE  FALSE
    BY DEF Elements
  <2>1. keystoned + i \in 1 .. Len(outLog) /\ batch[i] = outLog[keystoned + i]
    BY <1>2, <1>3
  <2>2. batch[i] \in Elements(adds)
    <3>1. Len(adds) \in Nat
      BY DEF ForwardInv, TypeOK
    <3>2. keystoned + i \in 1 .. Len(adds) /\ outLog[keystoned + i] = adds[keystoned + i]
      BY <1>2, <2>1, <3>1 DEF ForwardInv, MailboxInv, Begins
    <3> QED BY <2>1, <3>2 DEF Elements
  <2>3. batch[i] \notin Offered
    BY <2>2 DEF ForwardInv, QueuedInv
  <2>4. CASE o < Len(sent)
    <3>1. o \in SentKeys
      BY <1>2, <2>4 DEF SentKeys, OutKeys
    <3> QED BY <2>3, <3>1, OpenedSent
  <2>5. CASE o >= Len(sent) /\ o < Len(sent) + keystoned
    <3>1. PICK j \in 1 .. keystoned : o = Len(sent) + j - 1
      <4>1. o - Len(sent) + 1 \in 1 .. keystoned /\ o = Len(sent) + (o - Len(sent) + 1) - 1
        BY <1>2, <2>5 DEF OutKeys
      <4> QED BY <4>1
    <3>2. opened[o] = outLog[j]
      BY <3>1 DEF ForwardInv, RouteInv
    <3>3. j \in 1 .. Len(outLog) /\ j # keystoned + i
      BY <1>2, <1>3
    <3> QED BY <1>4, <2>1, <3>2, <3>3 DEF Distinct
  <2>6. CASE o >= Len(sent) + keystoned
    BY <1>0, <2>6 DEF KeystoneInv
  <2> QED BY <1>2, <2>4, <2>5, <2>6 DEF OutKeys
<1>10. KeystoneInv'
  <2>1. keystoneBkt' = opened'
    <3>1. \A o \in OutKeys : keystoneBkt'[o] = opened'[o]
      BY <1>8 DEF KeystoneInv
    <3> QED BY <1>8, <3>1 DEF CircuitsOK
  <2>2. ASSUME NEW o \in OutKeys, opened'[o] # none
        PROVE  pending'[opened'[o]] # none /\ pending'[opened'[o]].out = o
    <3>1. CASE o - first + 1 \in 1 .. Len(batch)
      <4>1. PICK i \in 1 .. Len(batch) : i = o - first + 1
        BY <3>1
      <4>2. opened'[o] = batch[i] /\ first + i - 1 = o
        BY <1>5, <1>8, <3>1, <4>1 DEF OutKeys
      <4> QED BY <1>8, <4>2
    <3>2. CASE o - first + 1 \notin 1 .. Len(batch)
      <4>1. opened'[o] = opened[o] /\ opened[o] \in InKeys
        BY <1>7, <1>8, <2>2, <3>2 DEF CircuitsOK
      <4>2. pending'[opened[o]] = pending[opened[o]]
        BY <1>8, <1>9, <2>2, <4>1
      <4> QED BY <2>2, <4>1, <4>2 DEF KeystoneInv
    <3> QED BY <3>1, <3>2
  <2>3. ASSUME NEW o \in OutKeys, o >= Len(sent') + keystoned' PROVE opened'[o] = none
    <3>1. o - first + 1 \notin 1 .. Len(batch) /\ o >= Len(sent) + keystoned
      BY <1>0, <1>2, <1>3, <2>3 DEF OutKeys
    <3> QED BY <1>0, <1>8, <3>1 DEF KeystoneInv
  <2> QED BY <2>1, <2>2, <2>3 DEF KeystoneInv
<1> QED BY <1>1, <1>10

\* What is signed was not answered, and no answer to it is on its way.
LEMMA GaplessSignOutgoing ==
    ASSUME GaplessInv, SignOutgoing
    PROVE  KeystoneInv' /\ FailureInv'
<1> USE CircuitAssumption, AnswerAssumption
<1> USE DEF GaplessInv
<1>0. /\ UNCHANGED <<keystoneBkt, pending, opened, answered, resp, inLog, outUp, reps>>
      /\ keystoned = Len(outLog) /\ sent' = sent \o outLog /\ keystoned' = 0
  BY DEF SignOutgoing, cmVars, inVars
<1>1. sent \in Seq(InKeys) /\ outLog \in Seq(InKeys) /\ adds \in Seq(InKeys)
      /\ Len(sent) \in Nat /\ Len(outLog) \in Nat
  BY DEF ForwardInv, TypeOK
<1>2. /\ Len(sent') = Len(sent) + Len(outLog)
      /\ \A i \in 1 .. Len(sent) : sent'[i] = sent[i]
      /\ \A i \in 1 .. Len(outLog) : sent'[Len(sent) + i] = outLog[i]
  BY <1>0, <1>1
<1>3. KeystoneInv'
  <2>1. Len(sent') + keystoned' = Len(sent) + keystoned
    BY <1>0, <1>1, <1>2
  <2> QED BY <1>0, <2>1 DEF KeystoneInv
<1>4. \A o \in SentKeys' :
         \/ o \in SentKeys /\ Sent(o)' = Sent(o)
         \/ Sent(o)' \in Elements(adds)
  <2> SUFFICES ASSUME NEW o \in SentKeys'
               PROVE  \/ o \in SentKeys /\ Sent(o)' = Sent(o)
                      \/ Sent(o)' \in Elements(adds)
    OBVIOUS
  <2>1. CASE o < Len(sent)
    <3>1. o \in SentKeys /\ o + 1 \in 1 .. Len(sent)
      BY <1>1, <1>2, <2>1 DEF SentKeys
    <3> QED BY <1>2, <3>1 DEF Sent
  <2>2. CASE o >= Len(sent)
    <3>1. PICK i \in 1 .. Len(outLog) : Len(sent) + i = o + 1
      <4>1. o - Len(sent) + 1 \in 1 .. Len(outLog) /\ Len(sent) + (o - Len(sent) + 1) = o + 1
        BY <1>1, <1>2, <2>2 DEF SentKeys
      <4> QED BY <4>1
    <3>2. Sent(o)' = outLog[i]
      BY <1>2, <3>1 DEF Sent
    <3>3. i \in 1 .. Len(adds) /\ outLog[i] = adds[i]
      BY <1>1 DEF ForwardInv, MailboxInv, Begins
    <3> QED BY <3>2, <3>3 DEF Elements
  <2> QED BY <1>1, <1>2, <2>1, <2>2 DEF SentKeys
<1>5. \A k \in Elements(adds) : answered[k] = none /\ k \notin Fails(reps) /\ k \notin Fails(inLog)
  <2>1. Fails(reps) \subseteq Keys(reps) /\ Fails(inLog) \subseteq Keys(inLog)
    BY DEF Fails, Keys
  <2> QED BY <2>1 DEF ForwardInv, QueuedInv
<1>6. FailureInv'
  <2>1. ASSUME NEW o \in SentKeys'
        PROVE  /\ answered[Sent(o)'] = "fail" => resp[o] = "fail"
               /\ answered[Sent(o)'] = none /\ Sent(o)' \in Fails(reps) \cup Fails(inLog) =>
                     resp[o] = "fail"
    <3>1. CASE o \in SentKeys /\ Sent(o)' = Sent(o)
      BY <3>1 DEF FailureInv, FailedMeansFailed
    <3>2. CASE Sent(o)' \in Elements(adds)
      BY <1>5, <3>2 DEF Answers
    <3> QED BY <1>4, <3>1, <3>2
  <2> QED BY <1>0, <2>1 DEF FailureInv, FailedMeansFailed
<1> QED BY <1>3, <1>6

\* Trimming finds every keystone that was not signed.
LEMMA GaplessStartOutgoing ==
    ASSUME GaplessInv, Gapless, StartOutgoing
    PROVE  KeystoneInv' /\ FailureInv'
<1> USE CircuitAssumption, AnswerAssumption
<1> USE DEF GaplessInv
<1>0. /\ UNCHANGED <<answered, sent, resp, inLog, reps, keystoned>> /\ TrimOpenCircuits(Len(sent))
      /\ ~ outUp
  BY DEF StartOutgoing, diskVars, inVars, boxVars
<1>1. FailureInv'
  <2>1. Fails(reps)' \subseteq Fails(reps) /\ Fails(inLog)' \subseteq Fails(inLog) \cup Fails(reps)
    BY <1>0
  <2> QED BY <1>0, <2>1, FailureKept
<1>2. CircuitsOK /\ CircuitInv /\ Len(sent) \in Nat /\ keystoned = 0
  BY <1>0 DEF ForwardInv, TypeOK, MailboxInv
<1> DEFINE T == Trimmed(opened, Len(sent))
<1>3. /\ CircuitsOK'
      /\ \A o \in OutKeys : IF o \in T
                            THEN opened'[o] = none /\ keystoneBkt'[o] = none
                            ELSE opened'[o] = opened[o] /\ keystoneBkt'[o] = keystoneBkt[o]
      /\ \A k \in InKeys : (\A o \in T : opened[o] # k) => pending'[k] = pending[k]
  BY <1>0, <1>2, TrimFacts
<1>4. T \subseteq OutKeys
  BY DEF Trimmed
<1>5. \A o \in OutKeys : o >= Len(sent) /\ opened[o] # none => o \in T
  BY DEF Gapless, Trimmed
<1> HIDE DEF T
<1>6. keystoneBkt' = opened'
  <2>1. \A o \in OutKeys : keystoneBkt'[o] = opened'[o]
    BY <1>3 DEF KeystoneInv
  <2> QED BY <1>3, <2>1 DEF CircuitsOK
<1>7. ASSUME NEW o \in OutKeys, opened'[o] # none
      PROVE  pending'[opened'[o]] # none /\ pending'[opened'[o]].out = o
  <2>1. o \notin T /\ opened'[o] = opened[o] /\ opened[o] \in InKeys
    BY <1>2, <1>3, <1>7 DEF CircuitsOK
  <2>2. pending[opened[o]] # none /\ pending[opened[o]].out = o
    BY <1>7, <2>1 DEF KeystoneInv
  <2>3. \A p \in T : opened[p] # opened[o]
    BY <1>4, <1>7, <2>1, <2>2 DEF KeystoneInv
  <2> QED BY <1>3, <2>1, <2>2, <2>3
<1>8. \A o \in OutKeys : o >= Len(sent) => opened'[o] = none
  BY <1>3, <1>5
<1>9. Len(sent') + keystoned' = Len(sent)
  BY <1>0, <1>2
<1>10. KeystoneInv'
  BY <1>6, <1>7, <1>8, <1>9 DEF KeystoneInv
<1> QED BY <1>1, <1>10

\* A restart restores the keystones as they were.
LEMMA GaplessRestart ==
    ASSUME GaplessInv, Restart
    PROVE  KeystoneInv' /\ FailureInv'
<1> USE CircuitAssumption, AnswerAssumption
<1> USE DEF GaplessInv
<1>0. /\ UNCHANGED <<answered, sent, resp>> /\ NewCircuitMap(Len(sent)) /\ ~ outUp'
      /\ reps' = <<>> /\ inLog' = <<>>
  BY DEF Restart, diskVars
<1>1. FailureInv'
  <2>1. Fails(reps)' \subseteq Fails(reps) /\ Fails(inLog)' \subseteq Fails(inLog) \cup Fails(reps)
    BY <1>0, NothingIn
  <2> QED BY <1>0, <2>1, FailureKept
<1>2. CircuitsOK /\ CircuitInv /\ Len(sent) \in Nat
  BY DEF ForwardInv, TypeOK
<1>3. /\ keystoneBkt' = opened'
      /\ \A o \in OutKeys : opened'[o] # none =>
            /\ opened'[o] = opened[o]
            /\ pending'[opened'[o]] # none /\ pending'[opened'[o]].out = o
  <2>1. /\ keystoneBkt = opened
        /\ \A o \in OutKeys : opened[o] # none =>
              pending[opened[o]] # none /\ pending[opened[o]].out = o
    BY DEF KeystoneInv
  <2> QED BY <1>0, <1>2, <2>1, NewMapFacts
<1> QED BY <1>0, <1>1, <1>3 DEF KeystoneInv

\* Initially there is no keystone and no failure.
LEMMA GaplessInit == Init => GaplessInv
<1> SUFFICES ASSUME Init PROVE GaplessInv
  OBVIOUS
<1>1. SentKeys = {}
  BY DEF Init, SentKeys
<1>2. KeystoneInv
  BY DEF Init, InitCircuits, KeystoneInv
<1>3. FailureInv
  BY <1>1 DEF FailureInv, FailedMeansFailed
<1> QED BY <1>2, <1>3, ForwardInit DEF GaplessInv

\* Every step from a state without gaps keeps the invariant.
LEMMA GaplessNext ==
    ASSUME GaplessInv, Gapless, [Next]_vars
    PROVE  GaplessInv'
<1> USE DEF GaplessInv
<1>0. SUFFICES KeystoneInv' /\ FailureInv'
  BY ForwardNext
<1>1. ASSUME UNCHANGED <<keystoneBkt, pending, opened, sent, keystoned, answered>>,
             outUp' => outUp,
             \A o \in SentKeys : resp[o] = "fail" => resp'[o] = "fail",
             Fails(reps)' \subseteq Fails(reps), Fails(inLog)' \subseteq Fails(inLog)
      PROVE  KeystoneInv' /\ FailureInv'
  BY <1>1, KeystoneFrame, FailureKept
<1>2. CASE UNCHANGED vars
  <2>1. UNCHANGED <<keystoneBkt, pending, opened, sent, keystoned, answered,
                    outUp, resp, reps, inLog>>
    BY <1>2 DEF vars, cmVars, diskVars, inVars, outVars, boxVars
  <2> QED BY <1>1, <2>1
<1>3. ASSUME NEW k \in InKeys, LockIn(k) PROVE KeystoneInv' /\ FailureInv'
  <2>1. UNCHANGED <<keystoneBkt, pending, opened, sent, keystoned, answered,
                    outUp, resp, reps, inLog>>
    BY <1>3 DEF LockIn, cmVars, outVars, boxVars
  <2> QED BY <1>1, <2>1
<1>4. ASSUME NEW k \in InKeys, ForwardPackets(k) PROVE KeystoneInv' /\ FailureInv'
  BY <1>4, GaplessForward
<1>5. ASSUME NEW k \in InKeys, StopWhileForwarding(k) PROVE KeystoneInv' /\ FailureInv'
  <2>1. /\ UNCHANGED <<sent, keystoned, answered, outUp, resp, reps>> /\ inLog' = <<>>
        /\ CommitCircuits(k)
    BY <1>5 DEF StopWhileForwarding, diskVars, outVars
  <2>2. CircuitsOK /\ CircuitInv /\ pending[k] = none
    BY <2>1 DEF ForwardInv, TypeOK, CommitCircuits
  <2>3. /\ pending' = [pending EXCEPT ![k] = [out |-> none, loadedFromDisk |-> FALSE]]
        /\ keystoneBkt' = keystoneBkt /\ opened' = opened
    BY <2>1, <2>2, CommitFacts
  <2>4. \A o \in OutKeys : opened[o] # none => opened[o] # k /\ opened[o] \in InKeys
    BY <2>2 DEF KeystoneInv, CircuitsOK
  <2>5. \A j \in InKeys : j # k => pending'[j] = pending[j]
    BY <2>2, <2>3 DEF CircuitsOK
  <2>6. KeystoneInv'
    BY <2>1, <2>3, <2>4, <2>5 DEF KeystoneInv
  <2>7. FailureInv'
    BY <2>1, NothingIn, FailureKept
  <2> QED BY <2>6, <2>7
<1>6. ASSUME NEW o \in SentKeys, PipelineSettle(o) \/ ForwardResponse(o)
      PROVE  KeystoneInv' /\ FailureInv'
  BY <1>6, GaplessResponse
<1>7. ASSUME NEW o \in SentKeys, NEW a \in Answers, LockInResponse(o, a)
      PROVE  KeystoneInv' /\ FailureInv'
  <2>1. /\ UNCHANGED <<keystoneBkt, pending, opened, sent, keystoned, answered, outUp, reps, inLog>>
        /\ resp[o] = none /\ resp' = [resp EXCEPT ![o] = a]
    BY <1>7 DEF LockInResponse, cmVars, inVars, outVars, boxVars
  <2>2. none # "fail" /\ o \in OutKeys
    BY AnswerAssumption, SentInRange DEF Answers, ForwardInv
  <2>3. \A p \in SentKeys : resp[p] = "fail" => resp'[p] = "fail"
    BY <2>1, <2>2, SentInRange DEF ForwardInv, TypeOK
  <2> QED BY <1>1, <2>1, <2>3
<1>8. CASE handleDownstreamUpdateAdd \/ ExpireAdd
  <2>1. UNCHANGED <<sent, keystoned, answered, outUp, resp, inLog>> /\ addHead < Len(adds)
    BY <1>8 DEF handleDownstreamUpdateAdd, ExpireAdd, diskVars, inVars, outVars
  <2>2. CASE FailAdd
    <3>1. UNCHANGED <<keystoneBkt, pending, opened>>
      BY <2>2 DEF FailAdd, FailCircuit, CloseCircuit, cmVars
    <3> QED BY <2>1, <2>2, <3>1, KeystoneFrame, GaplessFailAdd
  <2>3. CASE UNCHANGED <<cmVars, adds, reps, repHead>>
    BY <1>1, <2>1, <2>3 DEF cmVars
  <2> QED BY <1>8, <2>2, <2>3 DEF handleDownstreamUpdateAdd, ExpireAdd
<1>9. CASE WriteKeystones \/ SignOutgoing
  BY <1>9, GaplessWriteKeystones, GaplessSignOutgoing
<1>10. CASE ProcessResponse \/ SignIncoming
  BY <1>10, GaplessProcess, GaplessSignIncoming
<1>11. CASE ackDownStreamPackets
  <2>1. owed \in SUBSET addAcked
    BY DEF ForwardInv, IncomingInv
  <2>2. /\ DeleteCircuits(owed) /\ AckReps(owed)
        /\ UNCHANGED <<answered, sent, resp, inLog, outUp, keystoned>>
    BY <1>11 DEF ackDownStreamPackets, inVars, outVars
  <2> QED BY <2>1, <2>2, GaplessDelete
<1>12. CASE StopIncoming \/ StartIncoming
  <2>1. /\ UNCHANGED <<keystoneBkt, pending, opened, sent, keystoned, answered, outUp, resp, reps>>
        /\ inLog' = inLog \/ inLog' = <<>>
    BY <1>12 DEF StopIncoming, StartIncoming, cmVars, diskVars, outVars, boxVars
  <2> QED BY <1>1, <2>1, NothingIn
<1>13. CASE StopOutgoing
  <2>1. UNCHANGED <<keystoneBkt, pending, opened, sent, answered, resp, reps, inLog>> /\ ~ outUp'
    BY <1>13 DEF StopOutgoing, cmVars, diskVars, inVars
  <2>2. KeystoneInv'
    BY <2>1 DEF KeystoneInv
  <2>3. FailureInv'
    BY <2>1, FailureKept
  <2> QED BY <2>2, <2>3
<1>14. CASE StartOutgoing \/ Restart
  BY <1>14, GaplessStartOutgoing, GaplessRestart
<1> QED BY <1>2, <1>3, <1>4, <1>5, <1>6, <1>7, <1>8, <1>9,
            <1>10, <1>11, <1>12, <1>13, <1>14 DEF Next

\* As long as no gap appears, the invariant holds.
LEMMA GaplessInvHolds == Spec /\ []Gapless => []GaplessInv
<1>1. Init => GaplessInv
  BY GaplessInit
<1>2. GaplessInv /\ Gapless /\ [Next]_vars => GaplessInv'
  BY GaplessNext
<1> QED BY <1>1, <1>2, PTL DEF Spec

\* While trimming finds every keystone it is meant to revert, no incoming HTLC
\* is failed back unless the outgoing one was never sent or failed for good
\* (circuit_map.go CommitCircuits, mailbox.go FailAdd).
THEOREM FailedOnlyWhenSafe == Spec => FailsSafely
<1>1. GaplessInv => FailedMeansFailed
  BY DEF GaplessInv, FailureInv
<1> QED BY <1>1, GaplessInvHolds, PTL DEF FailsSafely

\* And OpenCircuits never refuses a batch as duplicate keystones
\* (circuit_map.go), the error on which the link fails.
THEOREM KeystonesAccepted == Spec => KeystonesFresh
<1> DEFINE Fresh == outUp => Openable(SubSeq(outLog, keystoned + 1, Len(outLog)),
                                      Len(sent) + keystoned)
<1>1. GaplessInv => Fresh
  <2> SUFFICES ASSUME GaplessInv, outUp
               PROVE  Openable(SubSeq(outLog, keystoned + 1, Len(outLog)), Len(sent) + keystoned)
    OBVIOUS
  <2> DEFINE batch == SubSeq(outLog, keystoned + 1, Len(outLog))
  <2>1. /\ outLog \in Seq(InKeys) /\ keystoned \in 0 .. Len(outLog) /\ Len(sent) \in Nat
        /\ Len(outLog) \in Nat /\ Len(adds) \in Nat
        /\ Len(sent) + Len(outLog) <= MaxHtlcs + 1 /\ Begins(adds, outLog)
    BY DEF GaplessInv, ForwardInv, TypeOK, MailboxInv
  <2>2. /\ Len(batch) = Len(outLog) - keystoned
        /\ \A i \in 1 .. Len(batch) : batch[i] = outLog[keystoned + i]
    BY <2>1, TailFacts
  <2> HIDE DEF batch
  <2>3. ASSUME NEW i \in 1 .. Len(batch)
        PROVE  opened[Len(sent) + keystoned + i - 1] = none /\ pending[batch[i]] # none
    <3>1. PICK o \in OutKeys : o = Len(sent) + keystoned + i - 1 /\ o >= Len(sent) + keystoned
      <4>1. Len(sent) + keystoned + i - 1 \in OutKeys
        BY <2>1, <2>2, CircuitAssumption DEF OutKeys
      <4>2. Len(sent) + keystoned + i - 1 >= Len(sent) + keystoned
        BY <2>1, <2>2
      <4> QED BY <4>1, <4>2
    <3>2. opened[o] = none
      BY <3>1 DEF GaplessInv, KeystoneInv
    <3>3. keystoned + i \in 1 .. Len(adds) /\ batch[i] = adds[keystoned + i]
      BY <2>1, <2>2 DEF Begins
    <3>4. batch[i] \in Elements(adds)
      BY <3>3 DEF Elements
    <3>5. pending[batch[i]] # none
      BY <3>4 DEF GaplessInv, ForwardInv, QueuedInv
    <3> QED BY <3>1, <3>2, <3>5
  <2> QED BY <2>3 DEF Openable, batch
<1> HIDE DEF Fresh
<1>2. Spec /\ []Gapless => []Fresh
  BY <1>1, GaplessInvHolds, PTL
<1>3. KeystonesFresh <=> ([]Gapless => []Fresh)
  BY DEF KeystonesFresh, Fresh
<1> QED BY <1>2, <1>3, PTL

-----------------------------------------------------------------------------
\* The refinement.  Four steps change what the neighbours see: an HTLC or an
\* answer is locked in, a batch of HTLCs or of answers is signed.
RelayState == <<lockedIn, sent, resp, answered>>

\* A settle on its way back is for an HTLC that was offered.
SettledOffered(rs) ==
    \A i \in 1 .. Len(rs) : rs[i].answer = "settle" => rs[i].key \in Offered
SettleInv == SettledOffered(reps) /\ SettledOffered(inLog)

\* The two modules mean the same by a beginning of a sequence.
LEMMA SamePrefix == \A s, t : IsPrefix(s, t) => Rly!IsPrefix(s, t)
BY DEF Rly!IsPrefix, IsPrefix

\* Packets that are failures, or for HTLCs that were offered, may join.
LEMMA SettleFrame ==
    ASSUME SettleInv, Offered \subseteq Offered',
           \A i \in 1 .. Len(reps') :
              \/ \E j \in 1 .. Len(reps) : reps'[i] = reps[j]
              \/ reps'[i].answer = "fail" \/ reps'[i].key \in Offered,
           \A i \in 1 .. Len(inLog') :
              \/ \E j \in 1 .. Len(inLog) : inLog'[i] = inLog[j]
              \/ \E j \in 1 .. Len(reps) : inLog'[i] = reps[j]
    PROVE  SettleInv'
<1>1. SettledOffered(reps)'
  <2> SUFFICES ASSUME NEW i \in 1 .. Len(reps'), reps'[i].answer = "settle"
               PROVE  reps'[i].key \in Offered'
    BY DEF SettledOffered
  <2>1. CASE \E j \in 1 .. Len(reps) : reps'[i] = reps[j]
    BY <2>1 DEF SettleInv, SettledOffered
  <2>2. reps'[i].answer # "fail"
    OBVIOUS
  <2> QED BY <2>1, <2>2
<1>2. SettledOffered(inLog)'
  <2> SUFFICES ASSUME NEW i \in 1 .. Len(inLog'), inLog'[i].answer = "settle"
               PROVE  inLog'[i].key \in Offered'
    BY DEF SettledOffered
  <2>1. CASE \E j \in 1 .. Len(inLog) : inLog'[i] = inLog[j]
    BY <2>1 DEF SettleInv, SettledOffered
  <2>2. CASE \E j \in 1 .. Len(reps) : inLog'[i] = reps[j]
    BY <2>2 DEF SettleInv, SettledOffered
  <2> QED BY <2>1, <2>2
<1> QED BY <1>1, <1>2 DEF SettleInv

\* A step that neither signs nor moves a packet.
LEMMA SettleIdle ==
    ASSUME SettleInv, UNCHANGED <<sent, reps>>, inLog' = inLog \/ inLog' = <<>>
    PROVE  SettleInv'
<1>1. Offered' = Offered
  BY DEF Offered, Sent, SentKeys
<1>2. \A i \in 1 .. Len(inLog') : \E j \in 1 .. Len(inLog) : inLog'[i] = inLog[j]
  <2>1. Len(<<>>) = 0
    OBVIOUS
  <2> QED BY <2>1
<1>3. \A i \in 1 .. Len(reps') : \E j \in 1 .. Len(reps) : reps'[i] = reps[j]
  OBVIOUS
<1> QED BY <1>1, <1>2, <1>3, SettleFrame

\* A delivery that is a failure, or for an HTLC that was offered.
LEMMA SettleDeliver ==
    ASSUME TypeOK, SettleInv, NEW r \in Reps, Deliver(r), UNCHANGED <<sent, inLog>>,
           r.answer = "fail" \/ r.key \in Offered
    PROVE  SettleInv'
<1>1. Offered' = Offered
  BY DEF Offered, Sent, SentKeys
<1>2. \A i \in 1 .. Len(reps') :
         (\E j \in 1 .. Len(reps) : reps'[i] = reps[j]) \/ reps'[i] = r
  <2>1. reps \in Seq(Reps)
    BY DEF TypeOK
  <2>2. CASE reps' = reps
    BY <2>2
  <2>3. CASE reps' = Append(reps, r)
    <3>1. Len(reps') = Len(reps) + 1 /\ Len(reps) \in Nat /\ reps'[Len(reps) + 1] = r
      BY <2>1, <2>3
    <3>2. \A i \in 1 .. Len(reps) : reps'[i] = reps[i]
      BY <2>1, <2>3
    <3>3. \A i \in 1 .. Len(reps') : i \in 1 .. Len(reps) \/ i = Len(reps) + 1
      BY <3>1
    <3> QED BY <3>1, <3>2, <3>3
  <2> QED BY <2>2, <2>3 DEF Deliver
<1>3. \A i \in 1 .. Len(inLog') : \E j \in 1 .. Len(inLog) : inLog'[i] = inLog[j]
  OBVIOUS
<1> QED BY <1>1, <1>2, <1>3, SettleFrame

\* Packets are acked.
LEMMA SettleAck ==
    ASSUME TypeOK, SettleInv, NEW keys, AckReps(keys), UNCHANGED <<sent, inLog>>
    PROVE  SettleInv'
<1> DEFINE acked == {r \in ToSet(reps) : r.key \in keys}
<1>1. reps \in Seq(Reps) /\ reps' = Unacked(reps, acked)
  BY DEF TypeOK, AckReps
<1> HIDE DEF acked
<1>2. Left(reps', reps, acked, Len(reps))
  BY <1>1, UnackedFacts
<1>3. \A i \in 1 .. Len(reps') : \E j \in 1 .. Len(reps) : reps'[i] = reps[j]
  BY <1>2 DEF Left
<1>4. Offered' = Offered
  BY DEF Offered, Sent, SentKeys
<1>5. \A i \in 1 .. Len(inLog') : \E j \in 1 .. Len(inLog) : inLog'[i] = inLog[j]
  OBVIOUS
<1> QED BY <1>3, <1>4, <1>5, SettleFrame

\* An add that fails.
LEMMA SettleFailAdd ==
    ASSUME ForwardInv, SettleInv, addHead < Len(adds), FailAdd, UNCHANGED <<sent, inLog>>
    PROVE  SettleInv'
<1> DEFINE k == adds[addHead + 1]
<1>1. k \in InKeys
  BY UnackedAdd DEF FailAdd, ForwardInv, QueuedInv, TypeOK
<1>2. Deliver(Rep(k, "fail", none)) \/ UNCHANGED reps
  BY DEF FailAdd
<1> HIDE DEF k
<1>3. Rep(k, "fail", none) \in Reps /\ Rep(k, "fail", none).answer = "fail"
  BY <1>1, RepType DEF Answers
<1> QED BY <1>2, <1>3, SettleDeliver, SettleIdle DEF ForwardInv

\* A response of the peer, to an HTLC it was offered.
LEMMA SettleResponse ==
    ASSUME ForwardInv, SettleInv, NEW o \in SentKeys, PipelineSettle(o) \/ ForwardResponse(o)
    PROVE  SettleInv'
<1>0. UNCHANGED <<sent, inLog>>
  BY DEF PipelineSettle, ForwardResponse, inVars
<1>1. PICK a \in Answers, d \in OutKeys \cup {none} : closeCircuit(o, a, d)
  <2>1. CASE PipelineSettle(o)
    <3>1. "settle" \in Answers /\ none \in OutKeys \cup {none}
      BY DEF Answers
    <3> QED BY <2>1, <3>1 DEF PipelineSettle
  <2>2. CASE ForwardResponse(o)
    <3>1. o \in OutKeys
      BY SentInRange DEF ForwardInv
    <3>2. resp[o] \in Answers
      BY <2>2, <3>1, AnswerAssumption DEF ForwardResponse, ForwardInv, IncomingInv, TypeOK
    <3> QED BY <2>2, <3>1, <3>2 DEF ForwardResponse
  <2> QED BY <2>1, <2>2
<1>2. \/ UNCHANGED reps
      \/ opened[o] # none /\ Deliver(Rep(opened[o], a, d))
  BY <1>1 DEF closeCircuit, boxVars
<1>3. CASE UNCHANGED reps
  BY <1>0, <1>3, SettleIdle
<1>4. CASE opened[o] # none /\ Deliver(Rep(opened[o], a, d))
  <2>1. opened[o] \in Offered /\ opened[o] \in InKeys
    BY <1>4, OpenedSent
  <2>2. Rep(opened[o], a, d) \in Reps /\ Rep(opened[o], a, d).key = opened[o]
    BY <2>1, RepType
  <2> QED BY <1>0, <1>4, <2>1, <2>2, SettleDeliver DEF ForwardInv
<1> QED BY <1>2, <1>3, <1>4

\* A response is taken into the incoming link's log, or cleared.
LEMMA SettleProcess ==
    ASSUME ForwardInv, SettleInv, ProcessResponse
    PROVE  SettleInv'
<1> DEFINE r == reps[repHead + 1]
<1>1. UNCHANGED sent /\ repHead < Len(reps)
  BY DEF ProcessResponse
<1>2. reps \in Seq(Reps) /\ inLog \in Seq(Reps) /\ repHead + 1 \in 1 .. Len(reps)
  BY <1>1 DEF ForwardInv, TypeOK
<1>3. CASE inLog' = Append(inLog, r) /\ UNCHANGED reps
  <2>0. r \in Reps
    BY <1>2
  <2>1. Len(inLog') = Len(inLog) + 1 /\ Len(inLog) \in Nat /\ inLog'[Len(inLog) + 1] = r
    BY <1>2, <1>3, <2>0
  <2>2. \A i \in 1 .. Len(inLog) : inLog'[i] = inLog[i]
    BY <1>2, <1>3, <2>0
  <2>3. \A i \in 1 .. Len(inLog') : i \in 1 .. Len(inLog) \/ i = Len(inLog) + 1
    BY <2>1
  <2>4. \A i \in 1 .. Len(inLog') :
           \/ \E j \in 1 .. Len(inLog) : inLog'[i] = inLog[j]
           \/ \E j \in 1 .. Len(reps) : inLog'[i] = reps[j]
    BY <1>2, <2>1, <2>2, <2>3
  <2>5. Offered' = Offered
    BY <1>1 DEF Offered, Sent, SentKeys
  <2>6. \A i \in 1 .. Len(reps') : \E j \in 1 .. Len(reps) : reps'[i] = reps[j]
    BY <1>3
  <2> HIDE DEF r
  <2> QED BY <2>4, <2>5, <2>6, SettleFrame
<1>4. CASE AckReps({r.key}) /\ UNCHANGED inLog
  BY <1>1, <1>4, SettleAck DEF ForwardInv
<1> QED BY <1>3, <1>4 DEF ProcessResponse, cleanupSpuriousResponse

\* A batch is signed: it comes from the mailbox, whose packets were neither
\* offered nor answered.
LEMMA SignOffers ==
    ASSUME ForwardInv, SettleInv, SignOutgoing
    PROVE  Rly!Offer /\ SettleInv'
<1>1. /\ UNCHANGED <<lockedIn, resp, answered, reps, inLog>>
      /\ sent' = sent \o outLog
  BY DEF SignOutgoing, inVars
<1>2. /\ sent \in Seq(InKeys) /\ outLog \in Seq(InKeys) /\ Len(sent) \in Nat
      /\ Len(outLog) \in Nat
  BY DEF ForwardInv, TypeOK
<1>3. /\ Len(sent') = Len(sent) + Len(outLog) /\ sent' \in Seq(InKeys)
      /\ \A i \in 1 .. Len(sent) : sent'[i] = sent[i]
      /\ \A i \in 1 .. Len(outLog) : sent'[Len(sent) + i] = outLog[i]
  BY <1>1, <1>2
<1>4. ForwardInv'
  BY SignOutgoingStep
<1>5. IsPrefix(sent, sent')
  <2>1. SubSeq(sent, 1, Len(sent)) = sent
    BY <1>2
  <2>2. SubSeq(sent', 1, Len(sent)) = sent
    <3>1. /\ SubSeq(sent', 1, Len(sent)) \in Seq(InKeys)
          /\ Len(SubSeq(sent', 1, Len(sent))) = Len(sent)
          /\ \A i \in 1 .. Len(sent) : SubSeq(sent', 1, Len(sent))[i] = sent[i]
      BY <1>2, <1>3
    <3> QED BY <1>2, <3>1
  <2>3. Len(sent) <= Len(sent')
    BY <1>2, <1>3
  <2> QED BY <2>1, <2>2, <2>3 DEF IsPrefix
<1>6. \A i, j \in 1 .. Len(sent') : sent'[i] = sent'[j] => i = j
  BY <1>4 DEF ForwardInv, SentInv, Distinct
<1>7. ASSUME NEW i \in Len(sent) + 1 .. Len(sent')
      PROVE  sent'[i] \in lockedIn /\ answered[sent'[i]] = none
  <2>1. PICK j \in 1 .. Len(outLog) : i = Len(sent) + j
    <3>1. i - Len(sent) \in 1 .. Len(outLog) /\ i = Len(sent) + (i - Len(sent))
      BY <1>2, <1>3
    <3> QED BY <3>1
  <2>2. sent'[i] = outLog[j]
    BY <1>3, <2>1
  <2>3. outLog[j] \in Elements(adds)
    <3>1. Begins(adds, outLog) /\ adds \in Seq(InKeys)
      BY DEF ForwardInv, MailboxInv, TypeOK
    <3>2. j \in 1 .. Len(adds) /\ adds[j] = outLog[j]
      BY <1>2, <3>1 DEF Begins
    <3> QED BY <3>2 DEF Elements
  <2> QED BY <2>2, <2>3 DEF ForwardInv, QueuedInv
<1>8. Rly!Offer
  BY <1>1, <1>5, <1>6, <1>7, SamePrefix DEF Rly!Offer
<1>9. Offered \subseteq Offered'
  <2>1. ASSUME NEW o \in SentKeys PROVE o \in SentKeys' /\ Sent(o)' = Sent(o)
    <3>1. o + 1 \in 1 .. Len(sent) /\ o \in 0 .. Len(sent') - 1
      BY <1>2, <1>3 DEF SentKeys
    <3> QED BY <1>3, <3>1 DEF SentKeys, Sent
  <2> QED BY <2>1 DEF Offered
<1>10. SettleInv'
  <2>1. \A i \in 1 .. Len(reps') : \E j \in 1 .. Len(reps) : reps'[i] = reps[j]
    BY <1>1
  <2>2. \A i \in 1 .. Len(inLog') : \E j \in 1 .. Len(inLog) : inLog'[i] = inLog[j]
    BY <1>1
  <2> QED BY <1>9, <2>1, <2>2, SettleFrame
<1> QED BY <1>8, <1>10

\* Answers are signed, each for the first time.
LEMMA SignAnswers ==
    ASSUME ForwardInv, SettleInv, SignIncoming
    PROVE  Rly!Answer /\ SettleInv'
<1>1. UNCHANGED <<lockedIn, sent, resp, reps>> /\ inLog' = <<>>
  BY DEF SignIncoming, boxVars
<1>2. answered' \in [InKeys -> Answers \cup {none}]
  BY SignIncomingStep DEF ForwardInv, TypeOK
<1>3. ASSUME NEW k \in InKeys, answered'[k] # answered[k]
      PROVE  /\ k \in lockedIn /\ answered[k] = none
             /\ answered'[k] = "fail" \/ \E i \in 1 .. Len(sent) : sent[i] = k
  <2>1. k \in Keys(inLog) /\ \E i \in 1 .. Len(inLog) :
           inLog[i].key = k /\ answered'[k] = inLog[i].answer /\ inLog[i].answer \in Answers
    BY <1>3, AnswerFacts DEF ForwardInv
  <2>2. k \in lockedIn /\ answered[k] = none
    BY <2>1 DEF ForwardInv, IncomingInv
  <2>3. ASSUME answered'[k] # "fail" PROVE \E i \in 1 .. Len(sent) : sent[i] = k
    <3>1. k \in Offered
      BY <2>1, <2>3 DEF Answers, SettleInv, SettledOffered
    <3>2. PICK o \in SentKeys : k = sent[o + 1]
      BY <3>1 DEF Offered, Sent
    <3>3. o + 1 \in 1 .. Len(sent)
      <4>1. Len(sent) \in Nat
        BY DEF ForwardInv, TypeOK
      <4> QED BY <4>1 DEF SentKeys
    <3> QED BY <3>2, <3>3
  <2> QED BY <2>2, <2>3
<1>4. answered' \in [InKeys -> {"settle", "fail", none}]
  <2>1. Answers \cup {none} = {"settle", "fail", none}
    BY DEF Answers
  <2> QED BY <1>2, <2>1
<1>5. Rly!Answer
  BY <1>1, <1>3, <1>4 DEF Rly!Answer
<1> QED BY <1>1, <1>5, SettleIdle

\* Every step of the node is a step of the relay, or changes nothing of it.
LEMMA RelaySimulated ==
    ASSUME ForwardInv, SettleInv, [Next]_vars
    PROVE  [Rly!RelayNext]_RelayState /\ SettleInv'
<1>1. CASE UNCHANGED vars
  BY <1>1, SettleIdle DEF vars, diskVars, boxVars, inVars, RelayState
<1>2. ASSUME NEW k \in InKeys, LockIn(k)
      PROVE  Rly!Receive(k) /\ SettleInv'
  BY <1>2, SettleIdle DEF LockIn, boxVars, Rly!Receive
<1>3. ASSUME NEW k \in InKeys, ForwardPackets(k) \/ StopWhileForwarding(k)
      PROVE  UNCHANGED RelayState /\ SettleInv'
  <2>1. UNCHANGED RelayState
    BY <1>3 DEF ForwardPackets, StopWhileForwarding, RelayState, diskVars
  <2>2. Rep(k, "fail", none) \in Reps /\ Rep(k, "fail", none).answer = "fail"
    BY RepType DEF Answers
  <2>3. CASE UNCHANGED <<sent, reps>> /\ (inLog' = inLog \/ inLog' = <<>>)
    BY <2>1, <2>3, SettleIdle
  <2>4. CASE Deliver(Rep(k, "fail", none)) /\ UNCHANGED <<sent, inLog>>
    BY <2>1, <2>2, <2>4, SettleDeliver DEF ForwardInv
  <2> QED BY <1>3, <2>1, <2>3, <2>4
          DEF ForwardPackets, StopWhileForwarding, handlePacketAdd, diskVars, boxVars
<1>4. ASSUME NEW o \in SentKeys, PipelineSettle(o) \/ ForwardResponse(o)
      PROVE  UNCHANGED RelayState /\ SettleInv'
  BY <1>4, SettleResponse DEF PipelineSettle, ForwardResponse, RelayState
<1>5. ASSUME NEW o \in SentKeys, NEW a \in Answers, LockInResponse(o, a)
      PROVE  o \in OutKeys /\ Rly!Learn(o) /\ SettleInv'
  <2>1. o \in OutKeys
    BY SentInRange DEF ForwardInv
  <2>2. o < Len(sent)
    <3>1. Len(sent) \in Nat
      BY DEF ForwardInv, TypeOK
    <3> QED BY <3>1 DEF SentKeys
  <2>3. Rly!Learn(o)
    BY <1>5, <2>2 DEF LockInResponse, Rly!Learn, Answers
  <2> QED BY <1>5, <2>1, <2>3, SettleIdle DEF LockInResponse, inVars, boxVars
<1>6. CASE handleDownstreamUpdateAdd \/ ExpireAdd
  <2>1. UNCHANGED RelayState /\ UNCHANGED <<sent, inLog>> /\ addHead < Len(adds)
    BY <1>6 DEF handleDownstreamUpdateAdd, ExpireAdd, RelayState, diskVars, inVars
  <2>2. FailAdd \/ UNCHANGED reps
    BY <1>6 DEF handleDownstreamUpdateAdd, ExpireAdd
  <2> QED BY <2>1, <2>2, SettleFailAdd, SettleIdle
<1>7. CASE SignOutgoing
  BY <1>7, SignOffers DEF Rly!RelayNext
<1>8. CASE SignIncoming
  BY <1>8, SignAnswers DEF Rly!RelayNext
<1>9. CASE ProcessResponse
  BY <1>9, SettleProcess DEF ProcessResponse, RelayState
<1>10. CASE ackDownStreamPackets
  BY <1>10, SettleAck DEF ackDownStreamPackets, RelayState, inVars, ForwardInv
<1>11. CASE WriteKeystones \/ StopIncoming \/ StartIncoming \/ StopOutgoing \/ StartOutgoing
  <2>1. /\ UNCHANGED RelayState /\ UNCHANGED <<sent, reps>>
        /\ inLog' = inLog \/ inLog' = <<>>
    BY <1>11 DEF WriteKeystones, StopIncoming, StartIncoming, StopOutgoing, StartOutgoing,
                 RelayState, diskVars, boxVars, inVars
  <2> QED BY <2>1, SettleIdle
<1>12. CASE Restart
  <2>1. UNCHANGED RelayState /\ reps' = <<>> /\ inLog' = <<>>
    BY <1>12 DEF Restart, RelayState, diskVars
  <2>2. Len(reps') = 0 /\ Len(inLog') = 0
    BY <2>1
  <2> QED BY <2>1, <2>2 DEF SettleInv, SettledOffered
<1> QED BY <1>1, <1>2, <1>3, <1>4, <1>5, <1>6, <1>7, <1>8, <1>9, <1>10, <1>11, <1>12
        DEF Next, Rly!RelayNext

\* The switch implements the relay, for any number of HTLCs, of stops of links
\* and of restarts, and whether or not keystones leave gaps.
THEOREM RelayImplemented == Spec => ImplementsRelay
<1>1. Init => Rly!RelayInit /\ SettleInv
  <2> SUFFICES ASSUME Init PROVE Rly!RelayInit /\ SettleInv
    OBVIOUS
  <2>1. Len(reps) = 0 /\ Len(inLog) = 0
    BY DEF Init
  <2>2. SettleInv
    BY <2>1 DEF SettleInv, SettledOffered
  <2>3. Rly!RelayInit
    BY DEF Init, Rly!RelayInit
  <2> QED BY <2>2, <2>3
<1>2. ForwardInv /\ SettleInv /\ [Next]_vars => [Rly!RelayNext]_RelayState /\ SettleInv'
  BY RelaySimulated
<1> QED BY <1>1, <1>2, ForwardInvHolds, PTL
        DEF Spec, ImplementsRelay, Rly!RelaySpec, Rly!relayVars, RelayState
=============================================================================
