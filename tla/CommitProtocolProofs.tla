------------------------ MODULE CommitProtocolProofs ------------------------
(***************************************************************************)
(* The two ends of a channel stay in step, for any number of updates and   *)
(* of lost connections.  What makes it inductive: the signer's copy of a   *)
(* commitment chain and the owner's mirror each other up to one signature  *)
(* or revocation that is due; whatever is due is in flight, in the order   *)
(* that LastWasRevoke records, as long as its sender has reestablished;    *)
(* and the updates in flight continue the log that the receiver has.       *)
(***************************************************************************)
EXTENDS CommitProtocol, FiniteSetTheorems, SequenceTheorems, SumTheorems

\* The peer has not accepted the pending commitment of n; it has, and its
\* revocation has not been accepted by n.
SigDue(n) == pending[n] # none /\ local[Peer(n)].height = tail[n].height
RevDue(n) == pending[n] # none /\ local[Peer(n)].height = pending[n].height

\* A commitment on the signer's chain and the same one at its owner.
Mirrors(c, d) == c.height = d.height /\ c.own = d.their /\ c.their = d.own

\* The chain of n's peer, as n holds it and as the peer does.  Both are at the
\* tail or both at the pending tip; what the tip says of the peer's updates
\* depends on which came first, the signature or the revocation (LastWasRevoke).
ChainInv(n) ==
    /\ IF RevDue(n) THEN Mirrors(pending[n], local[Peer(n)])
                    ELSE Mirrors(tail[n], local[Peer(n)])
    /\ pending[n] # none =>
          /\ pending[n].height = tail[n].height + 1
          /\ tail[n].own <= pending[n].own /\ tail[n].their <= pending[n].their
    /\ SigDue(n) =>
          pending[n].their = IF RevDue(Peer(n)) /\ ~ lastWasRevoke[n]
                             THEN pending[Peer(n)].own ELSE tail[Peer(n)].own

\* What n received is the beginning of what its peer sent; before an end has
\* processed the reestablishment it is what the commitments cover.
LogInv(n) ==
    /\ Len(rlog[Peer(n)]) <= Len(log[n])
    /\ \A i \in 1 .. Len(rlog[Peer(n)]) : rlog[Peer(n)][i] = log[n][i]
    /\ ~ synced[n] => /\ Len(log[n]) = Tip(n).own
                      /\ Len(rlog[Peer(n)]) = local[Peer(n)].their

\* Each update was valid where n put it.
UpdateInv(n) ==
    \A k \in 1 .. Len(log[n]) :
        LET u == log[n][k]
        IN  /\ u.kind = "add" => u.id = htlcCounter(Take(log[n], k - 1))
            /\ u.kind = "rm" => /\ Offered(fwd[n], u.id)
                                /\ ~ Removed(Take(log[n], k - 1), u.id)
            /\ u.kind = "fee" => n = Initiator

\* Queue q carries the updates lo + 1 to hi of lg, in order; its commitment
\* signatures come after own of them.
Stream(q, lg, lo, hi, own) ==
    \E pos \in [0 .. Len(q) -> 0 .. hi] :
        /\ pos[0] = lo /\ pos[Len(q)] = hi
        /\ \A i \in 1 .. Len(q) :
              /\ q[i].type = "update" =>
                    pos[i] = pos[i - 1] + 1 /\ q[i].update = lg[pos[i]]
              /\ q[i].type # "update" => pos[i] = pos[i - 1]
              /\ q[i].type = "commit_sig" => pos[i] = own

StreamInv(n) ==
    Stream(net[Peer(n)], log[n], Len(rlog[Peer(n)]),
           IF synced[n] THEN Len(log[n]) ELSE Len(rlog[Peer(n)]), Tip(n).own)

At(q, type) == {i \in 1 .. Len(q) : q[i].type = type}

\* Queue q holds each of the signatures sigs, of the revocations revs, once and
\* no other, the signature before the revocation iff sigFirst.  There is at
\* most one of each.
Box(q, sigs, revs, sigFirst) ==
    /\ \A i \in At(q, "commit_sig") : q[i] \in sigs
    /\ \A i \in At(q, "revoke_and_ack") : q[i] \in revs
    /\ sigs # {} => At(q, "commit_sig") # {}
    /\ revs # {} => At(q, "revoke_and_ack") # {}
    /\ \A i, j \in At(q, "commit_sig") : i = j
    /\ \A i, j \in At(q, "revoke_and_ack") : i = j
    /\ \A i \in At(q, "commit_sig"), j \in At(q, "revoke_and_ack") :
          i < j <=> sigFirst

\* What n has sent and is due is on its way, in the order LastWasRevoke tells.
SigsDue(n) == IF synced[n] /\ SigDue(n) THEN {CommitSig(n, pending[n])} ELSE {}
RevsDue(n) == IF synced[n] /\ RevDue(Peer(n)) THEN {Revoke(tail[Peer(n)].height)} ELSE {}
BoxInv(n) == Box(net[Peer(n)], SigsDue(n), RevsDue(n), lastWasRevoke[n])

\* A reestablishment is the first message of a connection, and still says
\* what its sender holds.
SyncInv(n) ==
    /\ \A i \in At(net[Peer(n)], "channel_reestablish") : i = 1 /\ ~ synced[Peer(n)]
    /\ up /\ ~ synced[Peer(n)] =>
          net[Peer(n)] # <<>> /\ net[Peer(n)][1] = Reestablish(n)
    /\ mustSign[n] => synced[n]

\* The switch has been handed what both ends have committed to.
ForwardInv(n) == fwd[n] = Forwarded(Take(rlog[n], tail[n].their))

DownInv == ~ up => \A n \in Nodes : ~ synced[n] /\ net[n] = <<>>

EndInv(n) == /\ ChainInv(n) /\ LogInv(n) /\ UpdateInv(n) /\ StreamInv(n)
             /\ BoxInv(n) /\ SyncInv(n) /\ ForwardInv(n)

IInv == TypeOK /\ NeverFails /\ DownInv /\ \A n \in Nodes : EndInv(n)
-----------------------------------------------------------------------------
\* The two ends are each other's peers.
LEMMA PeerFacts ==
    ASSUME NEW n \in Nodes
    PROVE  /\ Peer(n) \in Nodes /\ Peer(n) # n /\ Peer(Peer(n)) = n
           /\ \A m \in Nodes : m = n \/ m = Peer(n)
<1>1. PICK a, b \in Nodes : a # b /\ Nodes = {a, b}
  BY NodesAssumption
<1>2. \A m \in Nodes : Peer(m) \in Nodes /\ Peer(m) # m
  <2> SUFFICES ASSUME NEW m \in Nodes PROVE Peer(m) \in Nodes /\ Peer(m) # m
    OBVIOUS
  <2>1. \E k \in Nodes : k # m
    BY <1>1
  <2> QED BY <2>1 DEF Peer
<1> QED BY <1>1, <1>2

\* A queue without its first message.
LEMMA TailFacts ==
    ASSUME NEW T, NEW q \in Seq(T), q # <<>>
    PROVE  /\ Tail(q) \in Seq(T) /\ Len(Tail(q)) = Len(q) - 1 /\ Head(q) = q[1]
           /\ Len(q) > 0 /\ Head(q) \in T
           /\ \A i \in 1 .. Len(q) - 1 : Tail(q)[i] = q[i + 1]
BY HeadTailProperties, EmptySeq, ElementOfSeq

\* Two queues in a row.
LEMMA ConcatFacts ==
    ASSUME NEW T, NEW q \in Seq(T), NEW r \in Seq(T)
    PROVE  /\ q \o r \in Seq(T) /\ Len(q \o r) = Len(q) + Len(r)
           /\ \A i \in 1 .. Len(q) : (q \o r)[i] = q[i]
           /\ \A i \in 1 .. Len(r) : (q \o r)[Len(q) + i] = r[i]
BY ConcatProperties

\* The first message of a stream, and the stream without it.
LEMMA StreamTail ==
    ASSUME NEW T, NEW q \in Seq(T), q # <<>>, NEW lg, NEW lo \in Nat, NEW hi \in Nat, NEW own,
           Stream(q, lg, lo, hi, own)
    PROVE  /\ q[1].type = "update" =>
                 /\ q[1].update = lg[lo + 1] /\ lo < hi
                 /\ Stream(Tail(q), lg, lo + 1, hi, own)
           /\ q[1].type # "update" => Stream(Tail(q), lg, lo, hi, own)
           /\ q[1].type = "commit_sig" => lo = own
<1>1. PICK pos \in [0 .. Len(q) -> 0 .. hi] :
        /\ pos[0] = lo /\ pos[Len(q)] = hi
        /\ \A i \in 1 .. Len(q) :
              /\ q[i].type = "update" =>
                    pos[i] = pos[i - 1] + 1 /\ q[i].update = lg[pos[i]]
              /\ q[i].type # "update" => pos[i] = pos[i - 1]
              /\ q[i].type = "commit_sig" => pos[i] = own
  BY DEF Stream
<1>2. /\ Tail(q) \in Seq(T) /\ Len(Tail(q)) = Len(q) - 1 /\ Len(q) \in Nat /\ Len(q) > 0
      /\ \A i \in 1 .. Len(q) - 1 : Tail(q)[i] = q[i + 1]
  BY TailFacts
<1> DEFINE r == Tail(q)
           p2 == [i \in 0 .. Len(r) |-> pos[i + 1]]
<1> HIDE DEF r
<1>3. p2 \in [0 .. Len(r) -> 0 .. hi] /\ p2[0] = pos[1] /\ p2[Len(r)] = hi
  BY <1>1, <1>2 DEF r
<1>4. ASSUME NEW i \in 1 .. Len(r)
      PROVE  /\ r[i].type = "update" => p2[i] = p2[i - 1] + 1 /\ r[i].update = lg[p2[i]]
             /\ r[i].type # "update" => p2[i] = p2[i - 1]
             /\ r[i].type = "commit_sig" => p2[i] = own
  <2>1. i + 1 \in 1 .. Len(q) /\ r[i] = q[i + 1] /\ p2[i] = pos[i + 1] /\ p2[i - 1] = pos[i]
        /\ i + 1 - 1 = i
    BY <1>2 DEF r
  <2> QED BY <1>1, <2>1
<1>5. Stream(r, lg, pos[1], hi, own)
  <2> HIDE DEF p2
  <2> QED BY <1>3, <1>4 DEF Stream
<1>6. 1 \in 1 .. Len(q) /\ 1 - 1 = 0 /\ 1 \in 0 .. Len(q)
  BY <1>2
<1>7. pos[1] \in 0 .. hi
  BY <1>6
<1>8. CASE q[1].type = "update"
  <2>1. pos[1] = lo + 1 /\ q[1].update = lg[lo + 1]
    BY <1>1, <1>6, <1>8
  <2> QED BY <1>5, <1>7, <1>8, <2>1 DEF r
<1>9. CASE q[1].type # "update"
  <2>1. pos[1] = lo /\ (q[1].type = "commit_sig" => lo = own)
    BY <1>1, <1>6, <1>9
  <2> QED BY <1>5, <1>9, <2>1 DEF r
<1> QED BY <1>8, <1>9

\* One stream after the other.
LEMMA StreamConcat ==
    ASSUME NEW T, NEW q \in Seq(T), NEW r \in Seq(T), NEW lg, NEW own,
           NEW lo \in Nat, NEW mid \in Nat, NEW hi \in Nat, mid <= hi,
           Stream(q, lg, lo, mid, own), Stream(r, lg, mid, hi, own)
    PROVE  Stream(q \o r, lg, lo, hi, own)
<1>1. PICK f \in [0 .. Len(q) -> 0 .. mid] :
        /\ f[0] = lo /\ f[Len(q)] = mid
        /\ \A i \in 1 .. Len(q) :
              /\ q[i].type = "update" =>
                    f[i] = f[i - 1] + 1 /\ q[i].update = lg[f[i]]
              /\ q[i].type # "update" => f[i] = f[i - 1]
              /\ q[i].type = "commit_sig" => f[i] = own
  BY DEF Stream
<1>2. PICK g \in [0 .. Len(r) -> 0 .. hi] :
        /\ g[0] = mid /\ g[Len(r)] = hi
        /\ \A i \in 1 .. Len(r) :
              /\ r[i].type = "update" =>
                    g[i] = g[i - 1] + 1 /\ r[i].update = lg[g[i]]
              /\ r[i].type # "update" => g[i] = g[i - 1]
              /\ r[i].type = "commit_sig" => g[i] = own
  BY DEF Stream
<1>3. /\ q \o r \in Seq(T) /\ Len(q \o r) = Len(q) + Len(r) /\ Len(q) \in Nat /\ Len(r) \in Nat
      /\ \A i \in 1 .. Len(q) : (q \o r)[i] = q[i]
      /\ \A i \in 1 .. Len(r) : (q \o r)[Len(q) + i] = r[i]
  BY ConcatFacts
<1> DEFINE s == q \o r
           h == [i \in 0 .. Len(q) + Len(r) |-> IF i <= Len(q) THEN f[i] ELSE g[i - Len(q)]]
<1> HIDE DEF s
<1>4. \A i \in 0 .. Len(q) : h[i] = f[i]
  BY <1>3
<1>5. \A i \in 0 .. Len(r) : h[Len(q) + i] = g[i]
  <2> SUFFICES ASSUME NEW i \in 0 .. Len(r) PROVE h[Len(q) + i] = g[i]
    OBVIOUS
  <2>1. CASE i = 0
    BY <1>1, <1>2, <1>3, <2>1
  <2>2. CASE i > 0
    BY <1>3, <2>2
  <2> QED BY <2>1, <2>2
<1>6. h \in [0 .. Len(s) -> 0 .. hi] /\ Len(s) = Len(q) + Len(r)
  <2>1. \A i \in 0 .. Len(q) + Len(r) : h[i] \in 0 .. hi
    <3> SUFFICES ASSUME NEW i \in 0 .. Len(q) + Len(r) PROVE h[i] \in 0 .. hi
      OBVIOUS
    <3>1. CASE i <= Len(q)
      <4>1. i \in 0 .. Len(q) /\ h[i] = f[i]
        BY <1>3, <3>1
      <4>2. f[i] \in 0 .. mid
        BY <4>1
      <4>3. \A k \in 0 .. mid : k \in 0 .. hi
        OBVIOUS
      <4> HIDE DEF h
      <4> QED BY <4>1, <4>2, <4>3
    <3>2. CASE i > Len(q)
      <4>1. i - Len(q) \in 0 .. Len(r) /\ h[i] = g[i - Len(q)]
        BY <1>3, <3>2
      <4> QED BY <4>1
    <3> QED BY <1>3, <3>1, <3>2
  <2>2. Len(s) = Len(q) + Len(r)
    BY <1>3 DEF s
  <2> QED BY <2>1, <2>2
<1> HIDE DEF h
<1>7. h[0] = lo /\ h[Len(s)] = hi
  <2>1. 0 \in 0 .. Len(q) /\ Len(r) \in 0 .. Len(r)
    BY <1>3
  <2> QED BY <1>1, <1>2, <1>4, <1>5, <1>6, <2>1
<1>8. ASSUME NEW i \in 1 .. Len(s)
      PROVE  /\ s[i].type = "update" => h[i] = h[i - 1] + 1 /\ s[i].update = lg[h[i]]
             /\ s[i].type # "update" => h[i] = h[i - 1]
             /\ s[i].type = "commit_sig" => h[i] = own
  <2>1. CASE i <= Len(q)
    <3>1. i \in 1 .. Len(q) /\ i \in 0 .. Len(q) /\ i - 1 \in 0 .. Len(q)
      BY <1>3, <1>6, <2>1
    <3>2. s[i] = q[i] /\ h[i] = f[i] /\ h[i - 1] = f[i - 1]
      BY <1>3, <1>4, <3>1 DEF s
    <3> QED BY <1>1, <3>1, <3>2
  <2>2. CASE i > Len(q)
    <3>1. PICK k \in 1 .. Len(r) : k \in 0 .. Len(r) /\ k - 1 \in 0 .. Len(r)
                                  /\ i = Len(q) + k /\ i - 1 = Len(q) + (k - 1)
      <4>1. i - Len(q) \in 1 .. Len(r) /\ i = Len(q) + (i - Len(q))
        BY <1>3, <1>6, <2>2
      <4>2. \A k \in 1 .. Len(r) : i = Len(q) + k =>
              k \in 0 .. Len(r) /\ k - 1 \in 0 .. Len(r) /\ i - 1 = Len(q) + (k - 1)
        BY <1>3
      <4> QED BY <4>1, <4>2
    <3>2. s[i] = r[k] /\ h[i] = g[k] /\ h[i - 1] = g[k - 1]
      BY <1>3, <1>5, <3>1 DEF s
    <3> QED BY <1>2, <3>1, <3>2
  <2> QED BY <1>3, <1>6, <2>1, <2>2
<1>9. Stream(s, lg, lo, hi, own)
  BY <1>6, <1>7, <1>8 DEF Stream
<1> QED BY <1>9 DEF s

\* A single update, and a single message of another kind.
LEMMA StreamUpdate ==
    ASSUME NEW u, NEW lg, NEW lo \in Nat, NEW own, u = lg[lo + 1]
    PROVE  Stream(<<Update(u)>>, lg, lo, lo + 1, own)
<1> DEFINE q == <<Update(u)>>
           pos == [i \in 0 .. 1 |-> lo + i]
<1>1. Len(q) = 1 /\ q[1].type = "update" /\ q[1].update = u
  BY DEF Update
<1> HIDE DEF q
<1>2. pos \in [0 .. Len(q) -> 0 .. lo + 1] /\ pos[0] = lo /\ pos[1] = lo + 1
  BY <1>1
<1> HIDE DEF pos
<1>3. \A i \in 1 .. Len(q) : i = 1 /\ i - 1 = 0
  BY <1>1
<1>4. Stream(q, lg, lo, lo + 1, own)
  BY <1>1, <1>2, <1>3 DEF Stream
<1> QED BY <1>4 DEF q

\* A single message of another kind.
LEMMA StreamOther ==
    ASSUME NEW m, NEW lg, NEW lo \in Nat, NEW own,
           m.type # "update", m.type = "commit_sig" => lo = own
    PROVE  Stream(<<m>>, lg, lo, lo, own)
<1> DEFINE q == <<m>>
           pos == [i \in 0 .. 1 |-> lo]
<1>1. Len(q) = 1 /\ q[1] = m
  OBVIOUS
<1> HIDE DEF q
<1>2. pos \in [0 .. Len(q) -> 0 .. lo] /\ pos[0] = lo /\ pos[1] = lo
  BY <1>1
<1> HIDE DEF pos
<1>3. \A i \in 1 .. Len(q) : i = 1 /\ i - 1 = 0
  BY <1>1
<1>4. Stream(q, lg, lo, lo, own)
  BY <1>1, <1>2, <1>3 DEF Stream
<1> QED BY <1>4 DEF q

\* No message at all.
LEMMA StreamEmpty ==
    ASSUME NEW lg, NEW lo \in Nat, NEW own
    PROVE  Stream(<<>>, lg, lo, lo, own)
<1> DEFINE pos == [i \in 0 .. 0 |-> lo]
<1>1. Len(<<>>) = 0 /\ 1 .. 0 = {}
  OBVIOUS
<1>2. pos \in [0 .. Len(<<>>) -> 0 .. lo] /\ pos[0] = lo
  BY <1>1
<1> HIDE DEF pos
<1> QED BY <1>1, <1>2 DEF Stream

\* The sender's log may change beyond the stream, and the position of
\* signatures when there are none.
LEMMA StreamChange ==
    ASSUME NEW T, NEW q \in Seq(T), NEW lg, NEW lg2, NEW lo \in Nat, NEW hi \in Nat, NEW own, NEW own2,
           Stream(q, lg, lo, hi, own), \A i \in 1 .. hi : lg2[i] = lg[i],
           own2 = own \/ At(q, "commit_sig") = {}
    PROVE  Stream(q, lg2, lo, hi, own2)
<1>1. PICK f \in [0 .. Len(q) -> 0 .. hi] :
        /\ f[0] = lo /\ f[Len(q)] = hi
        /\ \A i \in 1 .. Len(q) :
              /\ q[i].type = "update" =>
                    f[i] = f[i - 1] + 1 /\ q[i].update = lg[f[i]]
              /\ q[i].type # "update" => f[i] = f[i - 1]
              /\ q[i].type = "commit_sig" => f[i] = own
  BY DEF Stream
<1>2. ASSUME NEW i \in 1 .. Len(q)
      PROVE  /\ q[i].type = "update" => f[i] = f[i - 1] + 1 /\ q[i].update = lg2[f[i]]
             /\ q[i].type # "update" => f[i] = f[i - 1]
             /\ q[i].type = "commit_sig" => f[i] = own2
  <2>1. CASE q[i].type = "update"
    <3>1. f[i] = f[i - 1] + 1 /\ q[i].update = lg[f[i]] /\ q[i].type # "commit_sig"
      BY <1>1, <2>1
    <3>2. i \in 0 .. Len(q) /\ i - 1 \in 0 .. Len(q)
      OBVIOUS
    <3>3. f[i] \in 0 .. hi /\ f[i - 1] \in 0 .. hi
      BY <3>2
    <3>4. f[i] \in 1 .. hi
      BY <3>1, <3>3
    <3> QED BY <3>1, <3>4, <2>1
  <2>2. CASE q[i].type # "update"
    BY <1>1, <2>2 DEF At
  <2> QED BY <2>1, <2>2
<1> QED BY <1>1, <1>2 DEF Stream
-----------------------------------------------------------------------------
\* What the recursion in Forwarded computes up to n.
KeepStep(f, s, i) ==
    IF i = 0 THEN <<>>
    ELSE IF s[i].kind = "fee" THEN f[i - 1] ELSE Append(f[i - 1], s[i])
IsKept(f, s, n) == f = [i \in 0 .. n |-> KeepStep(f, s, i)]

\* The recursion has a solution.
LEMMA KeptExists ==
    ASSUME NEW s, NEW N \in Nat
    PROVE  \E f : IsKept(f, s, N)
<1> DEFINE G == {n \in 0 .. N : \E f : IsKept(f, s, n)}
<1>1. 0 \in G
  <2> DEFINE f == [i \in 0 .. 0 |-> <<>>]
  <2>1. IsKept(f, s, 0)
    BY DEF IsKept, KeepStep
  <2> QED BY <2>1
<1>2. ASSUME NEW n \in 1 .. N, n - 1 \in G PROVE n \in G
  <2>1. PICK f : IsKept(f, s, n - 1)
    BY <1>2
  <2> DEFINE g == [i \in 0 .. n |-> IF i = n THEN KeepStep(f, s, n) ELSE f[i]]
  <2>2. ASSUME NEW i \in 0 .. n PROVE g[i] = KeepStep(g, s, i)
    <3>1. i # 0 => g[i - 1] = f[i - 1]
      OBVIOUS
    <3>2. KeepStep(g, s, i) = KeepStep(f, s, i)
      BY <3>1 DEF KeepStep
    <3>3. i # n => f[i] = KeepStep(f, s, i)
      BY <2>1 DEF IsKept
    <3> QED BY <3>2, <3>3
  <2>3. IsKept(g, s, n)
    <3> HIDE DEF g
    <3>1. g = [i \in 0 .. n |-> g[i]]
      BY DEF g
    <3> QED BY <2>2, <3>1 DEF IsKept
  <2> QED BY <2>3
<1> HIDE DEF G
<1>3. \A n \in 0 .. N : n \in G
  <2>1. G \in SUBSET (0 .. N)
    BY DEF G
  <2> QED BY <1>1, <1>2, <2>1, UpTo
<1> QED BY <1>3 DEF G

\* Forwarded is that solution, step by step.
LEMMA ForwardedKept ==
    ASSUME NEW s, Len(s) \in Nat
    PROVE  \E f : /\ Forwarded(s) = f[Len(s)] /\ f[0] = <<>>
                  /\ \A n \in 1 .. Len(s) :
                        f[n] = IF s[n].kind = "fee" THEN f[n - 1] ELSE Append(f[n - 1], s[n])
<1>1. \E f : IsKept(f, s, Len(s))
  BY KeptExists
<1> DEFINE kept == CHOOSE f : IsKept(f, s, Len(s))
<1>2. IsKept(kept, s, Len(s))
  BY <1>1
<1>3. Forwarded(s) = kept[Len(s)]
  BY DEF Forwarded, IsKept, KeepStep
<1> HIDE DEF kept
<1>4. \A n \in 0 .. Len(s) : kept[n] = KeepStep(kept, s, n)
  BY <1>2 DEF IsKept
<1>5. kept[0] = <<>>
  BY <1>4 DEF KeepStep
<1>6. \A n \in 1 .. Len(s) :
        kept[n] = IF s[n].kind = "fee" THEN kept[n - 1] ELSE Append(kept[n - 1], s[n])
  BY <1>4 DEF KeepStep
<1> QED BY <1>3, <1>5, <1>6

\* What is handed on comes from the log.
LEMMA ForwardedElements ==
    ASSUME NEW T, NEW s \in Seq(T)
    PROVE  /\ Forwarded(s) \in Seq(T)
           /\ \A i \in 1 .. Len(Forwarded(s)) : \E j \in 1 .. Len(s) : Forwarded(s)[i] = s[j]
<1>1. PICK f : /\ Forwarded(s) = f[Len(s)] /\ f[0] = <<>>
               /\ \A n \in 1 .. Len(s) :
                     f[n] = IF s[n].kind = "fee" THEN f[n - 1] ELSE Append(f[n - 1], s[n])
  BY ForwardedKept
<1> DEFINE P(n) == /\ f[n] \in Seq(T)
                   /\ \A i \in 1 .. Len(f[n]) : \E j \in 1 .. n : f[n][i] = s[j]
           G == {n \in 0 .. Len(s) : P(n)}
<1>2. 0 \in G
  <2>1. f[0] \in Seq(T) /\ Len(f[0]) = 0
    BY <1>1
  <2> QED BY <2>1
<1>3. ASSUME NEW n \in 1 .. Len(s), n - 1 \in G PROVE n \in G
  <2>1. s[n] \in T /\ n \in Nat
    OBVIOUS
  <2>2. P(n - 1)
    BY <1>3, Zenon
  <2> DEFINE g == f[n - 1]
  <2>3. CASE s[n].kind = "fee"
    <3>1. f[n] = g
      BY <1>1, <2>3
    <3>2. P(n)
      BY <2>1, <2>2, <3>1
    <3> QED BY <3>2
  <2>4. CASE s[n].kind # "fee"
    <3>1. f[n] = Append(g, s[n]) /\ g \in Seq(T)
      BY <1>1, <2>2, <2>4
    <3>2. ASSUME NEW i \in 1 .. Len(f[n]) PROVE \E j \in 1 .. n : f[n][i] = s[j]
      <4>1. CASE i \in 1 .. Len(g)
        <5>1. PICK j \in 1 .. n - 1 : g[i] = s[j]
          BY <2>2, <4>1
        <5>2. f[n][i] = g[i]
          BY <2>1, <3>1, <4>1
        <5> QED BY <5>1, <5>2
      <4>2. CASE i = Len(g) + 1
        BY <2>1, <3>1, <4>2
      <4> QED BY <3>1, <2>1, <4>1, <4>2
    <3>3. f[n] \in Seq(T)
      BY <2>1, <3>1
    <3> QED BY <3>2, <3>3
  <2> QED BY <2>3, <2>4
<1> HIDE DEF G
<1>4. \A n \in 0 .. Len(s) : n \in G
  <2>1. G \in SUBSET (0 .. Len(s)) /\ Len(s) \in Nat
    BY DEF G
  <2> QED BY <1>2, <1>3, <2>1, UpTo
<1>5. P(Len(s))
  BY <1>4 DEF G
<1> QED BY <1>1, <1>5

\* Appending to the second of two sequences.  The equation has a name, since
\* the provers do not find its instances.
Shifts(b, a, e) == Append(b \o a, e) = b \o Append(a, e)
\* The equation holds.
LEMMA AppendConcat ==
    ASSUME NEW T, NEW b \in Seq(T), NEW a \in Seq(T), NEW e \in T
    PROVE  Shifts(b, a, e)
<1> DEFINE c == Append(b \o a, e)
           d == b \o Append(a, e)
<1>1. /\ b \o a \in Seq(T) /\ Len(b \o a) = Len(b) + Len(a)
      /\ \A i \in 1 .. Len(b) : (b \o a)[i] = b[i]
      /\ \A i \in 1 .. Len(a) : (b \o a)[Len(b) + i] = a[i]
  BY ConcatFacts
<1>2. /\ Append(a, e) \in Seq(T) /\ Len(Append(a, e)) = Len(a) + 1
      /\ \A i \in 1 .. Len(a) : Append(a, e)[i] = a[i]
      /\ Append(a, e)[Len(a) + 1] = e
  BY AppendProperties
<1>3. /\ c \in Seq(T) /\ Len(c) = Len(b) + Len(a) + 1
      /\ \A i \in 1 .. Len(b) + Len(a) : c[i] = (b \o a)[i]
      /\ c[Len(b) + Len(a) + 1] = e
  BY <1>1, AppendProperties
<1>4. /\ d \in Seq(T) /\ Len(d) = Len(b) + Len(a) + 1
      /\ \A i \in 1 .. Len(b) : d[i] = b[i]
      /\ \A i \in 1 .. Len(a) + 1 : d[Len(b) + i] = Append(a, e)[i]
  BY <1>2, ConcatFacts
<1> HIDE DEF c, d
<1>5. ASSUME NEW i \in 1 .. Len(b) + Len(a) + 1 PROVE c[i] = d[i]
  <2>1. CASE i \in 1 .. Len(b)
    <3>1. i \in 1 .. Len(b) + Len(a)
      BY <1>1, <2>1
    <3>2. c[i] = (b \o a)[i]
      BY <1>3, <3>1
    <3> QED BY <1>1, <1>4, <2>1, <3>2
  <2>2. CASE i \in Len(b) + 1 .. Len(b) + Len(a)
    <3>1. PICK k \in 1 .. Len(a) : i = Len(b) + k
      <4>1. i - Len(b) \in 1 .. Len(a) /\ i = Len(b) + (i - Len(b))
        BY <2>2
      <4> QED BY <4>1
    <3>2. c[i] = (b \o a)[i]
      BY <1>3, <2>2
    <3>3. (b \o a)[i] = a[k]
      BY <1>1, <3>1
    <3>4. d[i] = a[k]
      BY <1>2, <1>4, <3>1
    <3> QED BY <3>2, <3>3, <3>4
  <2>3. CASE i = Len(b) + Len(a) + 1
    <3>1. d[Len(b) + (Len(a) + 1)] = e /\ i = Len(b) + (Len(a) + 1)
      BY <1>2, <1>4, <2>3
    <3> QED BY <1>3, <2>3, <3>1
  <2> QED BY <2>1, <2>2, <2>3
<1>6. c = d
  BY <1>3, <1>4, <1>5, SeqEqual
<1> QED BY <1>6 DEF c, d, Shifts

\* Handing on in two parts is handing on at once.
LEMMA ForwardedConcat ==
    ASSUME NEW T, NEW s \in Seq(T), NEW t \in Seq(T)
    PROVE  Forwarded(s \o t) = Forwarded(s) \o Forwarded(t)
<1> DEFINE w == s \o t
<1>0. /\ w \in Seq(T) /\ Len(w) = Len(s) + Len(t) /\ Len(s) \in Nat /\ Len(t) \in Nat
      /\ Len(w) \in Nat
      /\ \A i \in 1 .. Len(s) : w[i] = s[i]
      /\ \A i \in 1 .. Len(t) : w[Len(s) + i] = t[i]
  BY ConcatFacts
<1> HIDE DEF w
<1>1. PICK f : /\ Forwarded(w) = f[Len(w)] /\ f[0] = <<>>
               /\ \A n \in 1 .. Len(w) :
                     f[n] = IF w[n].kind = "fee" THEN f[n - 1] ELSE Append(f[n - 1], w[n])
  BY <1>0, ForwardedKept
<1>2. PICK g : /\ Forwarded(s) = g[Len(s)] /\ g[0] = <<>>
               /\ \A n \in 1 .. Len(s) :
                     g[n] = IF s[n].kind = "fee" THEN g[n - 1] ELSE Append(g[n - 1], s[n])
  BY <1>0, ForwardedKept
<1>3. PICK h : /\ Forwarded(t) = h[Len(t)] /\ h[0] = <<>>
               /\ \A n \in 1 .. Len(t) :
                     h[n] = IF t[n].kind = "fee" THEN h[n - 1] ELSE Append(h[n - 1], t[n])
  BY <1>0, ForwardedKept
<1>4. f[Len(s)] = g[Len(s)]
  <2> DEFINE G == {n \in 0 .. Len(s) : f[n] = g[n]}
  <2>1. 0 \in G
    BY <1>0, <1>1, <1>2
  <2>2. ASSUME NEW n \in 1 .. Len(s), n - 1 \in G PROVE n \in G
    <3>1. n \in 1 .. Len(w) /\ w[n] = s[n] /\ f[n - 1] = g[n - 1]
      BY <1>0, <2>2
    <3>2. f[n] = g[n]
      BY <1>1, <1>2, <3>1
    <3> QED BY <3>2
  <2> HIDE DEF G
  <2>3. \A n \in 0 .. Len(s) : n \in G
    <3>1. G \in SUBSET (0 .. Len(s))
      BY DEF G
    <3> QED BY <1>0, <2>1, <2>2, <3>1, UpTo
  <2>4. Len(s) \in G
    BY <1>0, <2>3
  <2> QED BY <2>4 DEF G
<1>5. f[Len(s)] \in Seq(T)
  BY <1>2, <1>4, ForwardedElements
<1>5b. PICK b : b = f[Len(s)]
  OBVIOUS
<1> DEFINE H == {n \in 0 .. Len(t) : h[n] \in Seq(T) /\ f[Len(s) + n] = b \o h[n]}
<1>5a. b \in Seq(T)
  BY <1>5, <1>5b
<1>6. 0 \in H
  <2>1. b \o <<>> = b
    BY <1>5a, ConcatEmptySeq
  <2>2. h[0] \in Seq(T) /\ h[0] = <<>>
    BY <1>3
  <2>3. Len(s) + 0 = Len(s) /\ 0 \in 0 .. Len(t)
    BY <1>0
  <2>4. f[Len(s) + 0] = b \o h[0]
    BY <2>1, <2>2, <2>3, <1>5b
  <2> QED BY <2>2, <2>3, <2>4
<1>7. ASSUME NEW n \in 1 .. Len(t), n - 1 \in H PROVE n \in H
  <2>1. /\ Len(s) + n \in 1 .. Len(w) /\ w[Len(s) + n] = t[n]
        /\ Len(s) + n - 1 = Len(s) + (n - 1) /\ t[n] \in T /\ n \in 0 .. Len(t)
    BY <1>0
  <2>2. h[n - 1] \in Seq(T) /\ f[Len(s) + (n - 1)] = b \o h[n - 1]
    BY <1>7
  <2>3. f[Len(s) + n] = IF t[n].kind = "fee" THEN b \o h[n - 1]
                                             ELSE Append(b \o h[n - 1], t[n])
    <3> DEFINE k == Len(s) + n
    <3>1. f[k] = IF w[k].kind = "fee" THEN f[k - 1] ELSE Append(f[k - 1], w[k])
      <4> HIDE DEF k
      <4>1. k \in 1 .. Len(w)
        BY <2>1 DEF k
      <4> QED BY <1>1, <4>1
    <3>2. f[k - 1] = b \o h[n - 1] /\ w[k] = t[n]
      BY <2>1, <2>2
    <3> HIDE DEF k
    <3>3. f[k] = IF t[n].kind = "fee" THEN b \o h[n - 1] ELSE Append(b \o h[n - 1], t[n])
      BY <3>1, <3>2, Zenon
    <3> QED BY <3>3, Zenon DEF k
  <2>4. h[n] = IF t[n].kind = "fee" THEN h[n - 1] ELSE Append(h[n - 1], t[n])
    BY <1>3
  <2>5. PICK e, a : e = t[n] /\ a = h[n - 1]
    OBVIOUS
  <2>6. a \in Seq(T) /\ e \in T
    BY <2>1, <2>2, <2>5
  <2>7. Append(a, e) \in Seq(T) /\ Append(b \o a, e) = b \o Append(a, e)
    <3>1. Shifts(b, a, e)
      BY <1>5a, <2>6, AppendConcat
    <3> QED BY <2>6, <3>1, AppendProperties DEF Shifts
  <2>8. h[n] \in Seq(T) /\ f[Len(s) + n] = b \o h[n]
    <3>1. CASE e.kind = "fee"
      BY <2>3, <2>4, <2>5, <2>6, <3>1
    <3>2. CASE e.kind # "fee"
      BY <2>3, <2>4, <2>5, <2>7, <3>2
    <3> QED BY <3>1, <3>2
  <2> QED BY <2>1, <2>8
<1> HIDE DEF H
<1>8. \A n \in 0 .. Len(t) : n \in H
  <2>1. H \in SUBSET (0 .. Len(t))
    BY DEF H
  <2> QED BY <1>0, <1>6, <1>7, <2>1, UpTo
<1>9. f[Len(w)] = b \o h[Len(t)]
  <2>1. Len(t) \in H
    BY <1>0, <1>8
  <2> QED BY <1>0, <2>1 DEF H
<1> QED BY <1>1, <1>2, <1>3, <1>4, <1>5b, <1>9 DEF w
-----------------------------------------------------------------------------
\* A queue without its first message: what that message was, and what the
\* others are.
LEMMA BoxTail ==
    ASSUME NEW T, NEW q \in Seq(T), q # <<>>, NEW sigs, NEW revs, NEW first \in BOOLEAN,
           Box(q, sigs, revs, first)
    PROVE  /\ q[1].type \notin {"commit_sig", "revoke_and_ack"} =>
                 Box(Tail(q), sigs, revs, first)
           /\ q[1].type = "commit_sig" =>
                 q[1] \in sigs /\ (revs # {} => first) /\ Box(Tail(q), {}, revs, first)
           /\ q[1].type = "revoke_and_ack" =>
                 q[1] \in revs /\ (sigs # {} => ~ first) /\ Box(Tail(q), sigs, {}, first)
<1>1. /\ Tail(q) \in Seq(T) /\ Len(Tail(q)) = Len(q) - 1 /\ Len(q) \in Nat /\ Len(q) > 0
      /\ \A i \in 1 .. Len(q) - 1 : Tail(q)[i] = q[i + 1]
  BY TailFacts
<1> DEFINE r == Tail(q)
<1> HIDE DEF r
<1>2. /\ Len(r) = Len(q) - 1
      /\ \A i \in 1 .. Len(r) : r[i] = q[i + 1] /\ i + 1 \in 1 .. Len(q)
  BY <1>1 DEF r
<1>3. \A t : \A i \in At(r, t) : i \in 1 .. Len(r) /\ i + 1 \in At(q, t) /\ r[i] = q[i + 1]
  BY <1>2 DEF At
<1>4. \A t : \A i \in At(q, t) : i \in 1 .. Len(q) /\ (i # 1 => i - 1 \in At(r, t))
  <2> SUFFICES ASSUME NEW t, NEW i \in At(q, t), i # 1 PROVE i - 1 \in At(r, t)
    BY DEF At
  <2>1. i \in 1 .. Len(q) /\ q[i].type = t
    BY DEF At
  <2>2. i - 1 \in 1 .. Len(r) /\ (i - 1) + 1 = i
    BY <1>2, <2>1
  <2> QED BY <1>2, <2>1, <2>2 DEF At
<1>5. \A t : 1 \in At(q, t) <=> q[1].type = t
  BY <1>1 DEF At
<1>6. CASE q[1].type \notin {"commit_sig", "revoke_and_ack"}
  <2>1. \A i \in At(r, "commit_sig") : r[i] \in sigs
    BY <1>3 DEF Box
  <2>2. \A i \in At(r, "revoke_and_ack") : r[i] \in revs
    BY <1>3 DEF Box
  <2>3. /\ At(q, "commit_sig") # {} => At(r, "commit_sig") # {}
        /\ At(q, "revoke_and_ack") # {} => At(r, "revoke_and_ack") # {}
    BY <1>4, <1>5, <1>6
  <2>4. \A t : (\A i, j \in At(q, t) : i = j) => \A i, j \in At(r, t) : i = j
    BY <1>3
  <2>5. ASSUME NEW i \in At(r, "commit_sig"), NEW j \in At(r, "revoke_and_ack")
        PROVE  i < j <=> first
    <3>1. i + 1 < j + 1 <=> first
      BY <1>3 DEF Box
    <3>2. i \in Int /\ j \in Int
      BY <1>3
    <3> QED BY <3>1, <3>2
  <2>6. Box(r, sigs, revs, first)
    BY <2>1, <2>2, <2>3, <2>4, <2>5 DEF Box
  <2> QED BY <1>6, <2>6 DEF r
<1>7. CASE q[1].type = "commit_sig"
  BY <1>3, <1>4, <1>5, <1>7 DEF Box, r
<1>8. CASE q[1].type = "revoke_and_ack"
  BY <1>3, <1>4, <1>5, <1>8 DEF Box, r
<1> QED BY <1>6, <1>7, <1>8

\* Two queues in a row, where at most one holds the signature and at most one
\* the revocation.
LEMMA BoxConcat ==
    ASSUME NEW T, NEW q \in Seq(T), NEW r \in Seq(T), NEW first \in BOOLEAN,
           NEW s1, NEW v1, NEW s2, NEW v2,
           Box(q, s1, v1, first), Box(r, s2, v2, first),
           s1 = {} \/ s2 = {}, v1 = {} \/ v2 = {},
           s1 # {} /\ v2 # {} => first, v1 # {} /\ s2 # {} => ~ first
    PROVE  Box(q \o r, s1 \cup s2, v1 \cup v2, first)
<1>1. /\ q \o r \in Seq(T) /\ Len(q \o r) = Len(q) + Len(r) /\ Len(q) \in Nat /\ Len(r) \in Nat
      /\ \A i \in 1 .. Len(q) : (q \o r)[i] = q[i]
      /\ \A i \in 1 .. Len(r) : (q \o r)[Len(q) + i] = r[i]
  BY ConcatFacts
<1> DEFINE w == q \o r
           N == Len(q)
<1> HIDE DEF w, N
<1>2. /\ Len(w) = N + Len(r) /\ N \in Nat /\ Len(r) \in Nat
      /\ \A i \in 1 .. N : w[i] = q[i]
      /\ \A i \in 1 .. Len(r) : w[N + i] = r[i]
  BY <1>1 DEF w, N
<1>3. \A t : \A i \in At(q, t) : i \in 1 .. N /\ i \in At(w, t) /\ w[i] = q[i]
  BY <1>2 DEF At, N
<1>4. \A t : \A i \in At(r, t) : i \in 1 .. Len(r) /\ N + i \in At(w, t) /\ w[N + i] = r[i]
  BY <1>2 DEF At
<1>5. \A t : \A i \in At(w, t) : \/ i \in At(q, t)
                                 \/ i - N \in At(r, t) /\ i = N + (i - N) /\ i \in Int
  <2> SUFFICES ASSUME NEW t, NEW i \in At(w, t), i \notin At(q, t)
               PROVE  i - N \in At(r, t) /\ i = N + (i - N) /\ i \in Int
    OBVIOUS
  <2>1. i \in 1 .. N + Len(r) /\ w[i].type = t
    BY <1>2 DEF At
  <2>2. i \notin 1 .. N
    BY <1>2, <2>1 DEF At, N
  <2>3. i - N \in 1 .. Len(r) /\ i = N + (i - N) /\ i \in Int
    BY <1>2, <2>1, <2>2
  <2> QED BY <1>2, <2>1, <2>3 DEF At
<1>6. \A t : At(q, t) = {} => \A i \in At(w, t) : i - N \in At(r, t) /\ i = N + (i - N)
  BY <1>5
<1>7. \A t : At(r, t) = {} => \A i \in At(w, t) : i \in At(q, t)
  BY <1>5
<1>8. (s1 = {} => At(q, "commit_sig") = {}) /\ (s2 = {} => At(r, "commit_sig") = {})
      /\ (v1 = {} => At(q, "revoke_and_ack") = {}) /\ (v2 = {} => At(r, "revoke_and_ack") = {})
  BY DEF Box
<1>9. \A i \in At(w, "commit_sig") : w[i] \in s1 \cup s2
  BY <1>3, <1>4, <1>5 DEF Box
<1>10. \A i \in At(w, "revoke_and_ack") : w[i] \in v1 \cup v2
  BY <1>3, <1>4, <1>5 DEF Box
<1>11. /\ s1 \cup s2 # {} => At(w, "commit_sig") # {}
       /\ v1 \cup v2 # {} => At(w, "revoke_and_ack") # {}
  BY <1>3, <1>4 DEF Box
<1>12. \A i, j \in At(w, "commit_sig") : i = j
  <2>1. CASE At(r, "commit_sig") = {}
    BY <1>7, <2>1 DEF Box
  <2>2. CASE At(q, "commit_sig") = {}
    <3> SUFFICES ASSUME NEW i \in At(w, "commit_sig"), NEW j \in At(w, "commit_sig") PROVE i = j
      OBVIOUS
    <3>1. i - N = j - N
      BY <1>6, <2>2 DEF Box
    <3>2. i = N + (i - N) /\ j = N + (j - N)
      BY <1>6, <2>2
    <3> QED BY <3>1, <3>2
  <2> QED BY <1>8, <2>1, <2>2
<1>13. \A i, j \in At(w, "revoke_and_ack") : i = j
  <2>1. CASE At(r, "revoke_and_ack") = {}
    BY <1>7, <2>1 DEF Box
  <2>2. CASE At(q, "revoke_and_ack") = {}
    <3> SUFFICES ASSUME NEW i \in At(w, "revoke_and_ack"), NEW j \in At(w, "revoke_and_ack") PROVE i = j
      OBVIOUS
    <3>1. i - N = j - N
      BY <1>6, <2>2 DEF Box
    <3>2. i = N + (i - N) /\ j = N + (j - N)
      BY <1>6, <2>2
    <3> QED BY <3>1, <3>2
  <2> QED BY <1>8, <2>1, <2>2
<1>14. ASSUME NEW i \in At(w, "commit_sig"), NEW j \in At(w, "revoke_and_ack")
       PROVE  i < j <=> first
  <2>1. CASE i \in At(q, "commit_sig") /\ j \in At(q, "revoke_and_ack")
    BY <2>1 DEF Box
  <2>2. CASE i \in At(q, "commit_sig") /\ j - N \in At(r, "revoke_and_ack") /\ j = N + (j - N)
    <3>1. i < j
      <4>1. i \in 1 .. N
        BY <1>3, <2>2
      <4>2. j - N \in 1 .. Len(r)
        BY <1>4, <2>2
      <4> QED BY <1>2, <2>2, <4>1, <4>2
    <3>2. s1 # {} /\ v2 # {}
      BY <1>8, <2>2
    <3> QED BY <3>1, <3>2
  <2>3. CASE i - N \in At(r, "commit_sig") /\ i = N + (i - N) /\ j \in At(q, "revoke_and_ack")
    <3>1. ~ (i < j)
      <4>1. j \in 1 .. N
        BY <1>3, <2>3
      <4>2. i - N \in 1 .. Len(r)
        BY <1>4, <2>3
      <4> QED BY <1>2, <2>3, <4>1, <4>2
    <3>2. s2 # {} /\ v1 # {}
      BY <1>8, <2>3
    <3> QED BY <3>1, <3>2
  <2>4. CASE /\ i - N \in At(r, "commit_sig") /\ i = N + (i - N)
             /\ j - N \in At(r, "revoke_and_ack") /\ j = N + (j - N)
    <3>1. i - N < j - N <=> first
      BY <2>4 DEF Box
    <3>2. i - N \in 1 .. Len(r) /\ j - N \in 1 .. Len(r) /\ i \in Int /\ j \in Int
      BY <1>4, <1>5, <2>4 DEF At
    <3>3. i - N < j - N <=> i < j
      BY <1>2, <3>2
    <3> QED BY <3>1, <3>3
  <2> QED BY <1>5, <2>1, <2>2, <2>3, <2>4
<1>15. Box(w, s1 \cup s2, v1 \cup v2, first)
  BY <1>9, <1>10, <1>11, <1>12, <1>13, <1>14 DEF Box
<1> QED BY <1>15 DEF w

\* Queues without signatures or revocations, with one of them, and in which
\* their order does not matter.
LEMMA BoxOther ==
    ASSUME NEW q, NEW first,
           \A i \in 1 .. Len(q) : q[i].type \notin {"commit_sig", "revoke_and_ack"}
    PROVE  Box(q, {}, {}, first)
<1>1. At(q, "commit_sig") = {} /\ At(q, "revoke_and_ack") = {}
  BY DEF At
<1> QED BY <1>1 DEF Box

\* A queue of one message.
LEMMA BoxOne ==
    ASSUME NEW m, NEW first
    PROVE  /\ m.type = "commit_sig" => Box(<<m>>, {m}, {}, first)
           /\ m.type = "revoke_and_ack" => Box(<<m>>, {}, {m}, first)
           /\ m.type \notin {"commit_sig", "revoke_and_ack"} => Box(<<m>>, {}, {}, first)
<1> DEFINE q == <<m>>
<1>1. Len(q) = 1 /\ q[1] = m
  OBVIOUS
<1> HIDE DEF q
<1>2. \A t : At(q, t) = IF m.type = t THEN {1} ELSE {}
  BY <1>1 DEF At
<1>3. CASE m.type = "commit_sig"
  <2>1. At(q, "commit_sig") = {1} /\ At(q, "revoke_and_ack") = {}
    BY <1>2, <1>3
  <2> QED BY <1>1, <1>3, <2>1 DEF Box, q
<1>4. CASE m.type = "revoke_and_ack"
  <2>1. At(q, "commit_sig") = {} /\ At(q, "revoke_and_ack") = {1}
    BY <1>2, <1>4
  <2> QED BY <1>1, <1>4, <2>1 DEF Box, q
<1>5. CASE m.type \notin {"commit_sig", "revoke_and_ack"}
  <2>1. At(q, "commit_sig") = {} /\ At(q, "revoke_and_ack") = {}
    BY <1>2, <1>5
  <2> QED BY <1>1, <1>5, <2>1 DEF Box, q
<1> QED BY <1>3, <1>4, <1>5

\* With one of the two missing, the order says nothing.
LEMMA BoxOrder ==
    ASSUME NEW q, NEW sigs, NEW revs, NEW first, NEW first2,
           Box(q, sigs, revs, first), sigs = {} \/ revs = {}
    PROVE  Box(q, sigs, revs, first2)
<1>1. sigs = {} => At(q, "commit_sig") = {}
  BY DEF Box
<1>2. revs = {} => At(q, "revoke_and_ack") = {}
  BY DEF Box
<1> QED BY <1>1, <1>2 DEF Box
-----------------------------------------------------------------------------
\* The beginning of a log.
LEMMA TakeFacts ==
    ASSUME NEW T, NEW s \in Seq(T), NEW k \in 0 .. Len(s)
    PROVE  /\ Take(s, k) \in Seq(T) /\ Len(Take(s, k)) = k
           /\ \A i \in 1 .. k : Take(s, k)[i] = s[i]
<1>1. k \in Int /\ 1 \in Int /\ \A i \in 1 .. k : s[i] \in T
  BY ElementOfSeq
<1>2. /\ SubSeq(s, 1, k) \in Seq(T)
      /\ Len(SubSeq(s, 1, k)) = IF 1 <= k THEN k - 1 + 1 ELSE 0
      /\ \A i \in 1 .. k - 1 + 1 : SubSeq(s, 1, k)[i] = s[1 + i - 1]
  BY <1>1, SubSeqProperties
<1>3. k - 1 + 1 = k /\ \A i \in 1 .. k : 1 + i - 1 = i
  BY <1>1
<1> QED BY <1>2, <1>3 DEF Take

\* Logs that agree have the same beginning.
LEMMA TakeAgree ==
    ASSUME NEW T, NEW s \in Seq(T), NEW t \in Seq(T),
           NEW k \in 0 .. Len(s), k <= Len(t), \A i \in 1 .. k : s[i] = t[i]
    PROVE  Take(s, k) = Take(t, k)
<1>1. k \in 0 .. Len(t) /\ k \in Nat
  OBVIOUS
<1>2. /\ Take(s, k) \in Seq(T) /\ Len(Take(s, k)) = k
      /\ \A i \in 1 .. k : Take(s, k)[i] = s[i]
  BY TakeFacts
<1>3. /\ Take(t, k) \in Seq(T) /\ Len(Take(t, k)) = k
      /\ \A i \in 1 .. k : Take(t, k)[i] = t[i]
  BY <1>1, TakeFacts
<1> DEFINE a == Take(s, k)
           b == Take(t, k)
<1>4. a \in Seq(T) /\ b \in Seq(T) /\ Len(a) = Len(b) /\ \A i \in 1 .. Len(a) : a[i] = b[i]
  BY <1>1, <1>2, <1>3
<1> HIDE DEF a, b
<1>5. a = b
  BY <1>4, SeqEqual
<1> QED BY <1>5 DEF a, b

\* The whole log.
LEMMA TakeAll ==
    ASSUME NEW T, NEW s \in Seq(T) PROVE Take(s, Len(s)) = s
BY SubSeqFull DEF Take

\* An appended update.
LEMMA AppendFacts ==
    ASSUME NEW T, NEW s \in Seq(T), NEW e \in T
    PROVE  /\ Append(s, e) \in Seq(T) /\ Len(Append(s, e)) = Len(s) + 1
           /\ \A i \in 1 .. Len(s) : Append(s, e)[i] = s[i]
           /\ Append(s, e)[Len(s) + 1] = e
           /\ \A k \in 0 .. Len(s) : Take(Append(s, e), k) = Take(s, k)
<1>1. /\ Append(s, e) \in Seq(T) /\ Len(Append(s, e)) = Len(s) + 1
      /\ \A i \in 1 .. Len(s) : Append(s, e)[i] = s[i]
      /\ Append(s, e)[Len(s) + 1] = e
  BY AppendProperties
<1> DEFINE t == Append(s, e)
<1>2. ASSUME NEW k \in 0 .. Len(s) PROVE Take(t, k) = Take(s, k)
  <2> HIDE DEF t
  <2>1. t \in Seq(T) /\ k <= Len(t) /\ \A i \in 1 .. k : s[i] = t[i]
    BY <1>1 DEF t
  <2>2. Take(s, k) = Take(t, k)
    BY <2>1, TakeAgree
  <2> QED BY <2>2
<1> QED BY <1>1, <1>2

\* The updates of a log from lo + 1 to hi as messages.
LEMMA StreamRange ==
    ASSUME NEW lg, NEW lo \in Nat, NEW hi \in Nat, NEW own, NEW r,
           lo <= hi, Len(r) = hi - lo,
           \A i \in 1 .. Len(r) : r[i].type = "update" /\ r[i].update = lg[lo + i]
    PROVE  Stream(r, lg, lo, hi, own)
<1> DEFINE pos == [i \in 0 .. hi - lo |-> lo + i]
<1>1. pos \in [0 .. Len(r) -> 0 .. hi] /\ pos[0] = lo /\ pos[Len(r)] = hi
  OBVIOUS
<1>2. ASSUME NEW i \in 1 .. Len(r)
      PROVE  pos[i] = pos[i - 1] + 1 /\ r[i].type = "update" /\ r[i].update = lg[pos[i]]
  <2>1. i \in 0 .. hi - lo /\ i - 1 \in 0 .. hi - lo /\ lo + i = lo + (i - 1) + 1
    OBVIOUS
  <2>2. pos[i] = lo + i /\ pos[i - 1] = lo + (i - 1)
    BY <2>1
  <2> QED BY <2>1, <2>2
<1> HIDE DEF pos
<1> QED BY <1>1, <1>2 DEF Stream

\* The same, for the part of a log that a commit diff adds.
AsMessages(s) == [i \in 1 .. Len(s) |-> Update(s[i])]
Between(s, lo, hi) == SubSeq(s, lo + 1, hi)
\* Its messages are the next part of the stream.
LEMMA StreamUpdates ==
    ASSUME NEW T, NEW lg \in Seq(T), NEW lo \in Nat, NEW hi \in Nat, NEW own,
           lo <= hi, hi <= Len(lg), NEW diff, diff = Between(lg, lo, hi),
           NEW r, r = AsMessages(diff)
    PROVE  /\ diff \in Seq(T) /\ Len(r) = Len(diff)
           /\ \A i \in 1 .. Len(r) : r[i] = Update(diff[i]) /\ r[i].type = "update"
           /\ Stream(r, lg, lo, hi, own)
<1>1. /\ diff \in Seq(T) /\ Len(diff) = hi - lo
      /\ \A i \in 1 .. Len(diff) : diff[i] = lg[lo + i]
  <2>1. lo + 1 \in Int /\ hi \in Int /\ \A i \in lo + 1 .. hi : lg[i] \in T
    BY ElementOfSeq
  <2>2. /\ diff \in Seq(T) /\ Len(diff) = IF lo + 1 <= hi THEN hi - (lo + 1) + 1 ELSE 0
        /\ \A i \in 1 .. hi - (lo + 1) + 1 : diff[i] = lg[(lo + 1) + i - 1]
    BY <2>1, SubSeqProperties DEF Between
  <2>3. (IF lo + 1 <= hi THEN hi - (lo + 1) + 1 ELSE 0) = hi - lo
        /\ hi - (lo + 1) + 1 = hi - lo /\ \A i \in 1 .. hi - lo : (lo + 1) + i - 1 = lo + i
    OBVIOUS
  <2> QED BY <2>2, <2>3
<1>2. Len(diff) \in Nat
  BY <1>1
<1>3. Len(r) = Len(diff) /\ \A i \in 1 .. Len(r) : r[i] = Update(diff[i])
  BY <1>2 DEF AsMessages
<1>4. ASSUME NEW i \in 1 .. Len(r) PROVE r[i].type = "update" /\ r[i].update = lg[lo + i]
  <2>1. PICK e : e = diff[i]
    OBVIOUS
  <2>2. r[i] = Update(e) /\ e = lg[lo + i]
    BY <1>1, <1>3, <2>1
  <2>3. Update(e).type = "update" /\ Update(e).update = e
    BY DEF Update
  <2> QED BY <2>2, <2>3
<1>5. Len(r) = hi - lo
  BY <1>1, <1>3
<1>6. Stream(r, lg, lo, hi, own)
  BY <1>4, <1>5, StreamRange
<1> QED BY <1>1, <1>3, <1>4, <1>6
-----------------------------------------------------------------------------
\* Messages and their fields.
LEMMA UpdateMsg ==
    ASSUME NEW u \in UpdateType
    PROVE  Update(u) \in MessageType /\ Update(u).type = "update" /\ Update(u).update = u
BY DEF Update, MessageType

\* A revocation.
LEMMA RevokeMsg ==
    ASSUME NEW h \in Nat
    PROVE  Revoke(h) \in MessageType /\ Revoke(h).type = "revoke_and_ack" /\ Revoke(h).height = h
BY DEF Revoke, MessageType

\* A commitment signature.
LEMMA SigMsg ==
    ASSUME NEW n, NEW c, c.height \in Nat, Take(log[n], c.own) \in Seq(UpdateType),
           Take(rlog[n], c.their) \in Seq(UpdateType)
    PROVE  /\ CommitSig(n, c) \in MessageType /\ CommitSig(n, c).type = "commit_sig"
           /\ CommitSig(n, c).height = c.height
           /\ CommitSig(n, c).offered = Take(log[n], c.own)
           /\ CommitSig(n, c).received = Take(rlog[n], c.their)
BY DEF CommitSig, MessageType

\* A reestablishment.
LEMMA SyncMsg ==
    ASSUME NEW n, local[n].height \in Nat, tail[n].height \in Nat
    PROVE  /\ Reestablish(n) \in MessageType /\ Reestablish(n).type = "channel_reestablish"
           /\ Reestablish(n).next = local[n].height + 1 /\ Reestablish(n).tail = tail[n].height
BY DEF Reestablish, MessageType

\* The types of what one end holds, and the order of its indices.
LEMMA EndFacts ==
    ASSUME IInv, NEW n \in Nodes
    PROVE  /\ log[n] \in Seq(UpdateType) /\ rlog[n] \in Seq(UpdateType)
           /\ Len(log[n]) \in Nat /\ Len(rlog[n]) \in Nat
           /\ fwd[n] \in Seq(UpdateType) /\ net[n] \in Seq(MessageType)
           /\ local[n] \in CommitType /\ tail[n] \in CommitType /\ Tip(n) \in CommitType
           /\ pending[n] # none => pending[n] \in CommitType
           /\ lastWasRevoke[n] \in BOOLEAN /\ synced[n] \in BOOLEAN /\ mustSign[n] \in BOOLEAN
           /\ local[n].own <= tail[n].own /\ tail[n].own <= Tip(n).own
           /\ Tip(n).own <= Len(log[n])
           /\ tail[n].their <= Tip(n).their /\ Tip(n).their <= local[n].their
           /\ local[n].their <= Len(rlog[n])
<1>1. TypeOK /\ ChainInv(n)
  BY DEF IInv, EndInv
<1>2. /\ log[n] \in Seq(UpdateType) /\ rlog[n] \in Seq(UpdateType)
      /\ fwd[n] \in Seq(UpdateType) /\ net[n] \in Seq(MessageType)
      /\ local[n] \in CommitType /\ tail[n] \in CommitType
      /\ pending[n] # none => pending[n] \in CommitType
  BY <1>1 DEF TypeOK
<1>3. Len(log[n]) \in Nat /\ Len(rlog[n]) \in Nat
  BY <1>2, LenProperties
<1>4. lastWasRevoke[n] \in BOOLEAN /\ synced[n] \in BOOLEAN /\ mustSign[n] \in BOOLEAN
  BY <1>1 DEF TypeOK
<1>5. Tip(n) \in CommitType
  BY <1>2 DEF Tip
<1>6. tail[n].own <= Tip(n).own /\ tail[n].their <= Tip(n).their
  BY <1>1, <1>2 DEF Tip, ChainInv, CommitType
<1>7. /\ local[n].own <= tail[n].own /\ Tip(n).own <= Len(log[n])
      /\ Tip(n).their <= local[n].their /\ local[n].their <= Len(rlog[n])
  BY <1>1 DEF TypeOK
<1> QED BY <1>2, <1>3, <1>4, <1>5, <1>6, <1>7

\* Numbers of a commitment.
LEMMA CommitFacts ==
    ASSUME NEW c \in CommitType
    PROVE  c.height \in Nat /\ c.own \in Nat /\ c.their \in Nat /\ c # none
BY NoneAssumption DEF CommitType

\* A new commitment.
LEMMA CommitMade ==
    ASSUME NEW h \in Nat, NEW own \in Nat, NEW their \in Nat
    PROVE  /\ Commit(h, own, their) \in CommitType /\ Commit(h, own, their).height = h
           /\ Commit(h, own, their).own = own /\ Commit(h, own, their).their = their
BY DEF Commit, CommitType

\* How far the peer is on its chain.
LEMMA ChainFacts ==
    ASSUME IInv, NEW n \in Nodes
    PROVE  LET p == Peer(n)
           IN  /\ RevDue(n) => /\ pending[n] # none /\ ~ SigDue(n)
                               /\ local[p].height = tail[n].height + 1
                               /\ local[p].their = pending[n].own /\ local[p].own = pending[n].their
               /\ ~ RevDue(n) => /\ local[p].height = tail[n].height
                                 /\ local[p].their = tail[n].own /\ local[p].own = tail[n].their
                                 /\ SigDue(n) <=> pending[n] # none
               /\ local[p].their <= Tip(n).own
               /\ pending[n] # none => Tip(n) = pending[n] /\ pending[n].height = tail[n].height + 1
               /\ pending[n] = none => Tip(n) = tail[n]
<1> DEFINE p == Peer(n)
<1>1. ChainInv(n) /\ p \in Nodes
  BY PeerFacts DEF IInv, EndInv
<1>2. /\ tail[n].height \in Nat /\ tail[n].own \in Nat /\ Tip(n).own \in Nat
      /\ tail[n].own <= Tip(n).own /\ local[p].height \in Nat
      /\ (pending[n] # none => pending[n].height \in Nat)
  BY <1>1, EndFacts, CommitFacts
<1>3. /\ pending[n] # none => Tip(n) = pending[n]
      /\ pending[n] = none => Tip(n) = tail[n]
  BY DEF Tip
<1> HIDE DEF p
<1>4. CASE RevDue(n)
  BY <1>1, <1>2, <1>3, <1>4 DEF ChainInv, RevDue, SigDue, Mirrors, p
<1>5. CASE ~ RevDue(n)
  BY <1>1, <1>2, <1>3, <1>5 DEF ChainInv, RevDue, SigDue, Mirrors, p
<1> QED BY <1>4, <1>5 DEF p

\* What n has received its peer has sent.
LEMMA LogFacts ==
    ASSUME IInv, NEW n \in Nodes, NEW k \in 0 .. Len(rlog[n])
    PROVE  /\ k <= Len(log[Peer(n)]) /\ Take(rlog[n], k) = Take(log[Peer(n)], k)
           /\ \A i \in 1 .. Len(rlog[n]) : i \in 1 .. Len(log[Peer(n)]) /\ rlog[n][i] = log[Peer(n)][i]
<1>1. PICK p : p = Peer(n) /\ p \in Nodes /\ Peer(p) = n
  BY PeerFacts
<1>2. LogInv(p)
  BY <1>1 DEF IInv, EndInv
<1>3. Len(rlog[n]) <= Len(log[p]) /\ \A i \in 1 .. Len(rlog[n]) : rlog[n][i] = log[p][i]
  BY <1>1, <1>2 DEF LogInv
<1>4. /\ rlog[n] \in Seq(UpdateType) /\ log[p] \in Seq(UpdateType)
      /\ Len(rlog[n]) \in Nat /\ Len(log[p]) \in Nat
  BY <1>1, EndFacts
<1>5. k <= Len(log[p]) /\ \A i \in 1 .. k : rlog[n][i] = log[p][i]
  BY <1>3, <1>4
<1>6. Take(rlog[n], k) = Take(log[p], k)
  BY <1>4, <1>5, TakeAgree
<1>7. \A i \in 1 .. Len(rlog[n]) : i \in 1 .. Len(log[p]) /\ rlog[n][i] = log[p][i]
  BY <1>3, <1>4
<1> QED BY <1>1, <1>5, <1>6, <1>7
\* The reestablishment stays first, and is gone once the first is taken.
LEMMA SyncConcat ==
    ASSUME NEW T, NEW q \in Seq(T), NEW r \in Seq(T),
           \A i \in 1 .. Len(r) : r[i].type # "channel_reestablish"
    PROVE  /\ At(q \o r, "channel_reestablish") = At(q, "channel_reestablish")
           /\ q # <<>> => q \o r # <<>> /\ (q \o r)[1] = q[1]
<1>1. /\ q \o r \in Seq(T) /\ Len(q \o r) = Len(q) + Len(r) /\ Len(q) \in Nat /\ Len(r) \in Nat
      /\ \A i \in 1 .. Len(q) : (q \o r)[i] = q[i]
      /\ \A i \in 1 .. Len(r) : (q \o r)[Len(q) + i] = r[i]
  BY ConcatFacts
<1> DEFINE w == q \o r
<1> HIDE DEF w
<1>2. /\ w \in Seq(T) /\ Len(w) = Len(q) + Len(r)
      /\ \A i \in 1 .. Len(q) : w[i] = q[i]
      /\ \A i \in 1 .. Len(r) : w[Len(q) + i] = r[i]
  BY <1>1 DEF w
<1>3. ASSUME NEW i \in 1 .. Len(w), w[i].type = "channel_reestablish" PROVE i \in 1 .. Len(q)
  <2> SUFFICES ASSUME i \notin 1 .. Len(q) PROVE FALSE
    OBVIOUS
  <2>1. i - Len(q) \in 1 .. Len(r) /\ i = Len(q) + (i - Len(q))
    BY <1>1, <1>2
  <2>2. w[Len(q) + (i - Len(q))] = r[i - Len(q)]
    BY <1>2, <2>1
  <2> QED BY <1>3, <2>1, <2>2
<1>4. At(w, "channel_reestablish") = At(q, "channel_reestablish")
  BY <1>1, <1>2, <1>3 DEF At
<1>5. q # <<>> => w # <<>> /\ w[1] = q[1]
  <2> SUFFICES ASSUME q # <<>> PROVE w # <<>> /\ w[1] = q[1]
    OBVIOUS
  <2>1. Len(q) > 0
    BY EmptySeq
  <2>2. 1 \in 1 .. Len(q) /\ Len(w) > 0
    BY <1>1, <1>2, <2>1
  <2> QED BY <1>2, <2>2
<1> QED BY <1>4, <1>5 DEF w

\* No second reestablishment follows.
LEMMA SyncTail ==
    ASSUME NEW T, NEW q \in Seq(T), q # <<>>,
           \A i \in At(q, "channel_reestablish") : i = 1
    PROVE  At(Tail(q), "channel_reestablish") = {}
<1>1. /\ Tail(q) \in Seq(T) /\ Len(Tail(q)) = Len(q) - 1 /\ Len(q) \in Nat /\ Len(q) > 0
      /\ \A i \in 1 .. Len(q) - 1 : Tail(q)[i] = q[i + 1]
  BY TailFacts
<1> SUFFICES ASSUME NEW i \in 1 .. Len(q) - 1, q[i + 1].type = "channel_reestablish" PROVE FALSE
  BY <1>1 DEF At
<1>2. i + 1 \in At(q, "channel_reestablish")
  BY <1>1 DEF At
<1> QED BY <1>2

-----------------------------------------------------------------------------
\* An end sends an update that is valid where it puts it.
LEMMA SendStep ==
    ASSUME IInv, NEW a \in Nodes, NEW u \in UpdateType, NEW now \in BOOLEAN,
           sendUpdate(a, u, now),
           u.kind = "add" => u.id = htlcCounter(log[a]),
           u.kind = "rm" => Offered(fwd[a], u.id) /\ ~ Removed(log[a], u.id),
           u.kind = "fee" => a = Initiator
    PROVE  IInv'
<1>1. PICK b : b = Peer(a) /\ b \in Nodes /\ b # a /\ Peer(b) = a /\ \A m \in Nodes : m = a \/ m = b
  BY PeerFacts
<1> DEFINE q == net[b]
           r == <<Update(u)>>
           L == Len(log[a])
<1>2. /\ TypeOK /\ NeverFails /\ DownInv /\ EndInv(a) /\ EndInv(b)
  BY <1>1 DEF IInv
<1>3. /\ log[a] \in Seq(UpdateType) /\ rlog[b] \in Seq(UpdateType) /\ q \in Seq(MessageType)
      /\ L \in Nat /\ Len(rlog[b]) \in Nat /\ Len(rlog[b]) <= L /\ Tip(a).own <= L
      /\ Tip(a).own \in Nat
  BY <1>1, <1>2, EndFacts, CommitFacts DEF EndInv, LogInv
<1>4. /\ log' = [log EXCEPT ![a] = Append(@, u)] /\ net' = [net EXCEPT ![b] = @ \o r]
      /\ mustSign' = [mustSign EXCEPT ![a] = now] /\ up /\ synced[a]
      /\ rlog' = rlog /\ local' = local /\ tail' = tail /\ pending' = pending
      /\ lastWasRevoke' = lastWasRevoke /\ fwd' = fwd /\ synced' = synced /\ up' = up
      /\ drops' = drops /\ failed' = failed
  BY <1>1 DEF sendUpdate, Send, Ready, disk
<1>5. /\ r \in Seq(MessageType) /\ q \o r \in Seq(MessageType) /\ Len(r) = 1
      /\ \A i \in 1 .. Len(r) : r[i].type = "update"
  <2>1. r \in Seq(MessageType) /\ Len(r) = 1 /\ r[1] = Update(u)
    BY UpdateMsg
  <2>2. \A i \in 1 .. Len(r) : i = 1
    BY <2>1
  <2> QED BY <1>3, <2>1, <2>2, ConcatFacts, UpdateMsg
<1>6. /\ log'[a] = Append(log[a], u) /\ log'[b] = log[b]
      /\ net'[b] = q \o r /\ net'[a] = net[a] /\ mustSign'[a] = now /\ mustSign'[b] = mustSign[b]
  BY <1>1, <1>2, <1>4 DEF TypeOK
<1> HIDE DEF r
<1>7. /\ log'[a] \in Seq(UpdateType) /\ Len(log'[a]) = L + 1
      /\ \A i \in 1 .. L : log'[a][i] = log[a][i]
      /\ log'[a][L + 1] = u
      /\ \A k \in 0 .. L : Take(log'[a], k) = Take(log[a], k)
  BY <1>3, <1>6, AppendFacts
<1>8. TypeOK'
  <2>1. log' \in [Nodes -> Seq(UpdateType)]
    BY <1>2, <1>4, <1>6, <1>7 DEF TypeOK
  <2>2. net' \in [Nodes -> Seq(MessageType)]
    BY <1>2, <1>4, <1>5, <1>6 DEF TypeOK
  <2>3. mustSign' \in [Nodes -> BOOLEAN]
    BY <1>2, <1>4 DEF TypeOK
  <2>4. \A n \in Nodes : Tip(n)' = Tip(n)
    BY <1>4 DEF Tip
  <2>5. Tip(a)'.own <= Len(log'[a]) /\ Tip(b)'.own <= Len(log'[b])
    BY <1>1, <1>2, <1>3, <1>6, <1>7, <2>4 DEF TypeOK
  <2> QED BY <1>1, <1>2, <1>4, <2>1, <2>2, <2>3, <2>4, <2>5 DEF TypeOK
<1>9. NeverFails' /\ DownInv'
  BY <1>2, <1>4 DEF NeverFails, DownInv
<1>10. ChainInv(a)' /\ ChainInv(b)'
  BY <1>2, <1>4 DEF EndInv, ChainInv, SigDue, RevDue, Mirrors
<1>11. LogInv(a)' /\ LogInv(b)'
  BY <1>1, <1>2, <1>3, <1>4, <1>6, <1>7 DEF EndInv, LogInv, Tip
<1>12. UpdateInv(a)' /\ UpdateInv(b)'
  <2>1. UpdateInv(b)'
    <3>1. UpdateInv(b)
      BY <1>2 DEF EndInv
    <3>2. log'[b] = log[b] /\ fwd' = fwd
      BY <1>4, <1>6
    <3> QED BY <3>1, <3>2 DEF UpdateInv
  <2>2. ASSUME NEW k \in 1 .. L + 1
        PROVE  LET v == log'[a][k]
               IN  /\ v.kind = "add" => v.id = htlcCounter(Take(log'[a], k - 1))
                   /\ v.kind = "rm" => /\ Offered(fwd'[a], v.id)
                                       /\ ~ Removed(Take(log'[a], k - 1), v.id)
                   /\ v.kind = "fee" => a = Initiator
    <3>1. CASE k \in 1 .. L
      <4>0. k - 1 \in 0 .. L
        BY <1>3, <3>1
      <4>1. log'[a][k] = log[a][k] /\ Take(log'[a], k - 1) = Take(log[a], k - 1)
        BY <1>7, <3>1, <4>0
      <4> QED BY <1>2, <1>4, <3>1, <4>1 DEF EndInv, UpdateInv
    <3>2. CASE k = L + 1
      <4>1. log'[a][k] = u /\ Take(log'[a], k - 1) = log[a]
        BY <1>3, <1>7, <3>2, TakeAll
      <4> QED BY <1>4, <4>1
    <3> QED BY <1>3, <3>1, <3>2
  <2>3. UpdateInv(a)'
    BY <1>7, <2>2 DEF UpdateInv
  <2> QED BY <2>1, <2>3
<1>13. StreamInv(a)' /\ StreamInv(b)'
  <2>1. StreamInv(b)'
    BY <1>1, <1>2, <1>4, <1>6 DEF EndInv, StreamInv, Tip
  <2>2. Stream(q, log[a], Len(rlog[b]), L, Tip(a).own)
    BY <1>1, <1>2, <1>4 DEF EndInv, StreamInv
  <2>3. Stream(q, log'[a], Len(rlog[b]), L, Tip(a).own)
    BY <1>3, <1>7, <2>2, StreamChange
  <2>4. Stream(r, log'[a], L, L + 1, Tip(a).own)
    BY <1>3, <1>7, StreamUpdate DEF r
  <2>5. Stream(q \o r, log'[a], Len(rlog[b]), L + 1, Tip(a).own)
    BY <1>3, <1>5, <2>3, <2>4, StreamConcat
  <2> QED BY <1>1, <1>4, <1>6, <1>7, <2>1, <2>5 DEF StreamInv, Tip
<1>14. BoxInv(a)' /\ BoxInv(b)'
  <2>1. SigsDue(a)' = SigsDue(a) /\ SigsDue(b)' = SigsDue(b)
    <3>1. pending[a] # none => /\ pending[a].own \in 0 .. L
                               /\ Take(log'[a], pending[a].own) = Take(log[a], pending[a].own)
      BY <1>3, <1>7 DEF Tip
    <3> QED BY <1>4, <1>6, <3>1 DEF SigsDue, SigDue, CommitSig
  <2>2. RevsDue(a)' = RevsDue(a) /\ RevsDue(b)' = RevsDue(b)
    BY <1>4 DEF RevsDue, RevDue
  <2>3. Box(q, SigsDue(a), RevsDue(a), lastWasRevoke[a]) /\ lastWasRevoke[a] \in BOOLEAN
    BY <1>1, <1>2, EndFacts DEF EndInv, BoxInv
  <2>4. Box(r, {}, {}, lastWasRevoke[a])
    BY <1>5, BoxOther
  <2>5. Box(q \o r, SigsDue(a) \cup {}, RevsDue(a) \cup {}, lastWasRevoke[a])
    BY <1>3, <1>5, <2>3, <2>4, BoxConcat
  <2>6. SigsDue(a) \cup {} = SigsDue(a) /\ RevsDue(a) \cup {} = RevsDue(a)
    OBVIOUS
  <2> QED BY <1>1, <1>2, <1>4, <1>6, <2>1, <2>2, <2>5, <2>6 DEF EndInv, BoxInv
<1>15. SyncInv(a)' /\ SyncInv(b)'
  <2>1. /\ At(q \o r, "channel_reestablish") = At(q, "channel_reestablish")
        /\ q # <<>> => q \o r # <<>> /\ (q \o r)[1] = q[1]
    BY <1>3, <1>5, SyncConcat
  <2> QED BY <1>1, <1>2, <1>4, <1>6, <2>1 DEF EndInv, SyncInv, Reestablish
<1>16. ForwardInv(a)' /\ ForwardInv(b)'
  BY <1>2, <1>4 DEF EndInv, ForwardInv
<1> QED BY <1>1, <1>8, <1>9, <1>10, <1>11, <1>12, <1>13, <1>14, <1>15, <1>16 DEF IInv, EndInv

\* An end signs: its pending tip is new, and due.
LEMMA SignChain ==
    ASSUME IInv, NEW a \in Nodes, NEW b \in Nodes, b = Peer(a), pending[a] = none,
           log' = log, rlog' = rlog, local' = local, tail' = tail, fwd' = fwd,
           pending' = [pending EXCEPT ![a] = NextCommit(a)],
           lastWasRevoke' = [lastWasRevoke EXCEPT ![a] = FALSE]
    PROVE  /\ NextCommit(a) \in CommitType /\ pending' \in [Nodes -> CommitType \cup {none}]
           /\ pending'[a] = NextCommit(a) /\ pending'[b] = pending[b]
           /\ lastWasRevoke' \in [Nodes -> BOOLEAN]
           /\ lastWasRevoke'[a] = FALSE /\ lastWasRevoke'[b] = lastWasRevoke[b]
           /\ Tip(a)' = NextCommit(a) /\ Tip(b)' = Tip(b) /\ Tip(a)'.own = Len(log[a])
           /\ Tip(a)'.their = local[a].their
           /\ SigDue(a)' /\ ~ RevDue(a)' /\ ~ RevDue(a) /\ ~ SigDue(a)
           /\ RevDue(b)' = RevDue(b) /\ SigDue(b)' = SigDue(b)
           /\ ChainInv(a)' /\ ChainInv(b)' /\ UpdateInv(a)' /\ UpdateInv(b)'
           /\ ForwardInv(a)' /\ ForwardInv(b)'
<1>1. b # a /\ Peer(b) = a /\ Peer(a) = b
  BY PeerFacts
<1>2. TypeOK /\ EndInv(a) /\ EndInv(b)
  BY DEF IInv
<1>3. /\ tail[a].height \in Nat /\ tail[a].own \in Nat /\ tail[a].their \in Nat
      /\ local[a].their \in Nat /\ Len(log[a]) \in Nat /\ tail[a].own <= Len(log[a])
      /\ tail[a].their <= local[a].their
  <2>1. Tip(a) = tail[a]
    BY DEF Tip
  <2> QED BY <2>1, EndFacts, CommitFacts
<1>4. /\ NextCommit(a).height = tail[a].height + 1 /\ NextCommit(a).own = Len(log[a])
      /\ NextCommit(a).their = local[a].their /\ NextCommit(a) \in CommitType
  BY <1>3 DEF NextCommit, Commit, CommitType
<1>5. NextCommit(a) # none
  BY <1>4, CommitFacts
<1>6. /\ pending' \in [Nodes -> CommitType \cup {none}] /\ lastWasRevoke' \in [Nodes -> BOOLEAN]
      /\ pending'[a] = NextCommit(a) /\ pending'[b] = pending[b]
      /\ lastWasRevoke'[a] = FALSE /\ lastWasRevoke'[b] = lastWasRevoke[b]
  BY <1>1, <1>2, <1>4 DEF TypeOK
<1>7. Tip(a)' = NextCommit(a) /\ Tip(b)' = Tip(b)
  BY <1>5, <1>6 DEF Tip
<1>8. /\ ~ RevDue(a) /\ ~ SigDue(a) /\ local[b].height = tail[a].height
      /\ local[b].own = tail[a].their /\ local[b].their = tail[a].own
  BY <1>1, ChainFacts DEF RevDue, SigDue
<1>9. SigDue(a)' /\ ~ RevDue(a)' /\ RevDue(b)' = RevDue(b) /\ SigDue(b)' = SigDue(b)
  BY <1>1, <1>3, <1>4, <1>5, <1>6, <1>8 DEF SigDue, RevDue
<1>10. local[a].their = IF RevDue(b) THEN pending[b].own ELSE tail[b].own
  BY <1>1, ChainFacts
<1>11. ChainInv(a)'
  <2>1. Mirrors(tail[a], local[b])'
    BY <1>8 DEF Mirrors
  <2>2. /\ pending'[a].height = tail'[a].height + 1
        /\ tail'[a].own <= pending'[a].own /\ tail'[a].their <= pending'[a].their
    BY <1>3, <1>4, <1>6
  <2>3. pending'[a].their = IF RevDue(b)' /\ ~ lastWasRevoke'[a]
                            THEN pending'[b].own ELSE tail'[b].own
    BY <1>4, <1>6, <1>9, <1>10
  <2> QED BY <1>1, <1>9, <2>1, <2>2, <2>3 DEF ChainInv
<1>12. ChainInv(b)'
  <2>1. ChainInv(b)
    BY <1>2 DEF EndInv
  <2>2. (IF RevDue(b) THEN Mirrors(pending[b], local[a]) ELSE Mirrors(tail[b], local[a]))'
    BY <1>1, <1>6, <1>9, <2>1 DEF ChainInv, Mirrors
  <2>3. pending'[b] # none =>
          /\ pending'[b].height = tail'[b].height + 1
          /\ tail'[b].own <= pending'[b].own /\ tail'[b].their <= pending'[b].their
    BY <1>6, <2>1 DEF ChainInv
  <2>4. SigDue(b)' => pending'[b].their = IF RevDue(a)' /\ ~ lastWasRevoke'[b]
                                          THEN pending'[a].own ELSE tail'[a].own
    BY <1>1, <1>6, <1>8, <1>9, <2>1 DEF ChainInv
  <2> QED BY <1>1, <2>2, <2>3, <2>4 DEF ChainInv
<1>13. UpdateInv(a)' /\ UpdateInv(b)' /\ ForwardInv(a)' /\ ForwardInv(b)'
  BY <1>2 DEF EndInv, UpdateInv, ForwardInv
<1> QED BY <1>4, <1>6, <1>7, <1>8, <1>9, <1>11, <1>12, <1>13

\* A link signs outside reestablishment.
LEMMA SignStep ==
    ASSUME IInv, NEW a \in Nodes, up, synced[a], signNextCommitment(a),
           mustSign' \in [Nodes -> BOOLEAN], \A n \in Nodes : mustSign'[n] => mustSign[n],
           UNCHANGED <<log, rlog, synced, up, drops, failed>>
    PROVE  IInv'
<1>1. PICK b : b = Peer(a) /\ b \in Nodes /\ b # a /\ Peer(b) = a /\ \A m \in Nodes : m = a \/ m = b
  BY PeerFacts
<1>2. PICK c : c = NextCommit(a)
  OBVIOUS
<1> DEFINE q == net[b]
           m == CommitSig(a, c)
           r == <<m>>
           L == Len(log[a])
<1>3. /\ TypeOK /\ NeverFails /\ DownInv /\ EndInv(a) /\ EndInv(b)
  BY <1>1 DEF IInv
<1>4. /\ net' = [net EXCEPT ![b] = @ \o r] /\ pending[a] = none
      /\ log' = log /\ rlog' = rlog /\ local' = local /\ tail' = tail /\ fwd' = fwd
      /\ pending' = [pending EXCEPT ![a] = NextCommit(a)]
      /\ lastWasRevoke' = [lastWasRevoke EXCEPT ![a] = FALSE]
      /\ synced' = synced /\ up' = up /\ drops' = drops /\ failed' = failed
  BY <1>1, <1>2 DEF signNextCommitment, Send
<1>5. /\ c \in CommitType /\ pending' \in [Nodes -> CommitType \cup {none}]
      /\ pending'[a] = c /\ pending'[b] = pending[b]
      /\ lastWasRevoke' \in [Nodes -> BOOLEAN]
      /\ lastWasRevoke'[a] = FALSE /\ lastWasRevoke'[b] = lastWasRevoke[b]
      /\ Tip(a)' = c /\ Tip(b)' = Tip(b) /\ Tip(a)'.own = Len(log[a])
      /\ Tip(a)'.their = local[a].their
      /\ SigDue(a)' /\ ~ RevDue(a)' /\ ~ RevDue(a) /\ ~ SigDue(a)
      /\ RevDue(b)' = RevDue(b) /\ SigDue(b)' = SigDue(b)
      /\ ChainInv(a)' /\ ChainInv(b)' /\ UpdateInv(a)' /\ UpdateInv(b)'
      /\ ForwardInv(a)' /\ ForwardInv(b)'
  BY <1>1, <1>2, <1>4, SignChain
<1>6. /\ log[a] \in Seq(UpdateType) /\ rlog[a] \in Seq(UpdateType) /\ q \in Seq(MessageType)
      /\ L \in Nat /\ Len(rlog[a]) \in Nat /\ Len(rlog[b]) \in Nat
      /\ local[a].their \in Nat /\ local[a].their <= Len(rlog[a])
      /\ c.height \in Nat /\ c.own = L /\ c.their = local[a].their
  BY <1>1, <1>5, EndFacts, CommitFacts
<1>7. m \in MessageType /\ m.type = "commit_sig"
  <2>1. L \in 0 .. Len(log[a]) /\ local[a].their \in 0 .. Len(rlog[a])
    BY <1>6
  <2>2. Take(log[a], c.own) \in Seq(UpdateType) /\ Take(rlog[a], c.their) \in Seq(UpdateType)
    BY <1>6, <2>1, TakeFacts
  <2> QED BY <1>6, <2>2, SigMsg
<1> HIDE DEF m
<1>8. /\ r \in Seq(MessageType) /\ Len(r) = 1 /\ r[1] = m /\ \A i \in 1 .. Len(r) : r[i] = m
  BY <1>7
<1>9. q \o r \in Seq(MessageType)
  <2> HIDE DEF r
  <2> QED BY <1>6, <1>8, ConcatFacts
<1>10. net'[b] = q \o r /\ net'[a] = net[a]
  BY <1>1, <1>3, <1>4 DEF TypeOK
<1> HIDE DEF r
<1>11. TypeOK'
  <2>1. net' \in [Nodes -> Seq(MessageType)]
    BY <1>3, <1>4, <1>9, <1>10 DEF TypeOK
  <2>2. \A n \in Nodes : /\ local'[n].own <= tail'[n].own /\ Tip(n)'.own <= Len(log'[n])
                         /\ Tip(n)'.their <= local'[n].their /\ local'[n].their <= Len(rlog'[n])
    <3>1. /\ local[a].own <= tail[a].own /\ local[b].own <= tail[b].own
          /\ Tip(b).own <= Len(log[b]) /\ Tip(b).their <= local[b].their
          /\ local[b].their <= Len(rlog[b])
      BY <1>1, EndFacts
    <3>2. L <= L /\ local[a].their <= local[a].their
      BY <1>6
    <3> QED BY <1>1, <1>4, <1>5, <1>6, <3>1, <3>2
  <2> QED BY <1>3, <1>4, <1>5, <2>1, <2>2 DEF TypeOK
<1>12. NeverFails' /\ DownInv'
  BY <1>3, <1>4 DEF NeverFails, DownInv
<1>13. LogInv(a)' /\ LogInv(b)'
  BY <1>1, <1>3, <1>4, <1>5 DEF EndInv, LogInv
<1>14. Box(q, {}, RevsDue(a), lastWasRevoke[a]) /\ RevsDue(a)' = RevsDue(a) /\ SigsDue(a)' = {m}
  <2>1. SigsDue(a) = {}
    BY <1>5 DEF SigsDue
  <2>2. Box(q, SigsDue(a), RevsDue(a), lastWasRevoke[a])
    BY <1>1, <1>3 DEF EndInv, BoxInv
  <2>3. RevsDue(a)' = RevsDue(a)
    BY <1>1, <1>4, <1>5 DEF RevsDue
  <2>4. SigsDue(a)' = {m}
    BY <1>4, <1>5 DEF SigsDue, CommitSig, m
  <2> QED BY <2>1, <2>2, <2>3, <2>4
<1>15. StreamInv(a)' /\ StreamInv(b)'
  <2>1. StreamInv(b)'
    BY <1>1, <1>3, <1>4, <1>5, <1>10 DEF EndInv, StreamInv
  <2>2. Stream(q, log[a], Len(rlog[b]), L, Tip(a).own)
    BY <1>1, <1>3 DEF EndInv, StreamInv
  <2>3. At(q, "commit_sig") = {}
    BY <1>14 DEF Box
  <2>4. Stream(q, log[a], Len(rlog[b]), L, L)
    BY <1>6, <2>2, <2>3, StreamChange
  <2>5. Stream(r, log[a], L, L, L)
    BY <1>6, <1>7, StreamOther DEF r
  <2>6. Stream(q \o r, log[a], Len(rlog[b]), L, L)
    BY <1>6, <1>8, <2>4, <2>5, StreamConcat
  <2>7. /\ net'[b] = q \o r /\ log' = log /\ rlog' = rlog /\ synced'[a] /\ Tip(a)'.own = L
    BY <1>4, <1>5, <1>10
  <2>8. StreamInv(a)'
    BY <1>1, <2>6, <2>7 DEF StreamInv
  <2> QED BY <2>1, <2>8
<1>16. BoxInv(a)' /\ BoxInv(b)'
  <2>1. SigsDue(b)' = SigsDue(b) /\ RevsDue(b)' = RevsDue(b)
    BY <1>1, <1>4, <1>5 DEF SigsDue, RevsDue, CommitSig
  <2>2. Box(q, {}, RevsDue(a), FALSE)
    BY <1>14, BoxOrder
  <2>3. Box(r, {m}, {}, FALSE)
    BY <1>7, BoxOne DEF r
  <2>4. Box(q \o r, {} \cup {m}, RevsDue(a) \cup {}, FALSE)
    BY <1>6, <1>8, <2>2, <2>3, BoxConcat
  <2>5. {} \cup {m} = {m} /\ RevsDue(a) \cup {} = RevsDue(a)
    OBVIOUS
  <2>6. BoxInv(a)'
    BY <1>1, <1>5, <1>10, <1>14, <2>4, <2>5 DEF BoxInv
  <2>7. BoxInv(b)'
    BY <1>1, <1>3, <1>5, <1>10, <2>1 DEF EndInv, BoxInv
  <2> QED BY <2>6, <2>7
<1>17. SyncInv(a)' /\ SyncInv(b)'
  <2>1. /\ At(q \o r, "channel_reestablish") = At(q, "channel_reestablish")
        /\ q # <<>> => q \o r # <<>> /\ (q \o r)[1] = q[1]
    BY <1>6, <1>7, <1>8, SyncConcat
  <2> QED BY <1>1, <1>3, <1>4, <1>10, <2>1 DEF EndInv, SyncInv, Reestablish
<1> QED BY <1>1, <1>5, <1>11, <1>12, <1>13, <1>15, <1>16, <1>17 DEF IInv, EndInv

\* An end receives an update: it is the next one of its peer's log, and valid.
LEMMA UpdateStep ==
    ASSUME IInv, NEW b \in Nodes, ReceiveUpdate(b)
    PROVE  IInv'
<1>1. PICK a : a = Peer(b) /\ a \in Nodes /\ b # a /\ Peer(a) = b /\ \A m \in Nodes : m = a \/ m = b
  BY PeerFacts
<1> DEFINE q == net[b]
           u == Head(q).update
           L == Len(rlog[b])
<1>2. /\ TypeOK /\ NeverFails /\ DownInv /\ EndInv(a) /\ EndInv(b)
  BY <1>1 DEF IInv
<1>3. up /\ synced[b] /\ q # <<>> /\ Head(q).type = "update"
  BY DEF ReceiveUpdate, Receives, Ready
<1>4. /\ log[a] \in Seq(UpdateType) /\ rlog[a] \in Seq(UpdateType) /\ log[b] \in Seq(UpdateType)
      /\ rlog[b] \in Seq(UpdateType) /\ q \in Seq(MessageType) /\ L \in Nat
      /\ Len(log[a]) \in Nat /\ synced[a] \in BOOLEAN /\ lastWasRevoke[a] \in BOOLEAN
  BY <1>1, EndFacts
<1>5. /\ Tail(q) \in Seq(MessageType) /\ Head(q) = q[1]
  BY <1>3, <1>4, TailFacts
<1> DEFINE hi == IF synced[a] THEN Len(log[a]) ELSE L
<1>6. /\ q[1].update = log[a][L + 1] /\ L < hi
      /\ Stream(Tail(q), log[a], L + 1, hi, Tip(a).own)
  <2>1. Stream(q, log[a], L, hi, Tip(a).own)
    BY <1>1, <1>2 DEF EndInv, StreamInv
  <2>2. hi \in Nat
    BY <1>4
  <2> HIDE DEF hi
  <2>3. /\ q[1].update = log[a][L + 1] /\ L < hi
        /\ Stream(Tail(q), log[a], L + 1, hi, Tip(a).own)
    BY <1>3, <1>4, <1>5, <2>1, <2>2, StreamTail
  <2> QED BY <2>3 DEF hi
<1>7. synced[a] /\ L < Len(log[a]) /\ u = log[a][L + 1] /\ L + 1 \in 1 .. Len(log[a])
      /\ u \in UpdateType
  <2>1. synced[a] /\ L < Len(log[a]) /\ u = log[a][L + 1]
    BY <1>4, <1>5, <1>6
  <2>2. L + 1 \in 1 .. Len(log[a])
    BY <1>4, <2>1
  <2> QED BY <1>4, <2>1, <2>2, ElementOfSeq
<1> HIDE DEF hi
<1>8. rlog[b] = Take(log[a], L)
  <2>1. L \in 0 .. L
    BY <1>4
  <2>2. Take(rlog[b], L) = Take(log[a], L)
    BY <1>1, <2>1, LogFacts
  <2> QED BY <1>4, <2>2, TakeAll
<1>9. ValidUpdate(b, u)
  <2>1. /\ u.kind = "add" => u.id = htlcCounter(rlog[b])
        /\ u.kind = "rm" => Offered(fwd[a], u.id) /\ ~ Removed(rlog[b], u.id)
        /\ u.kind = "fee" => a = Initiator
    <3>1. L + 1 - 1 = L
      BY <1>4
    <3> QED BY <1>2, <1>7, <1>8, <3>1 DEF EndInv, UpdateInv
  <2>2. ASSUME NEW id, Offered(fwd[a], id) PROVE Offered(log[b], id)
    <3> DEFINE k == tail[a].their
               s == Take(rlog[a], k)
    <3>1. k \in 0 .. Len(rlog[a])
      <4>1. /\ k \in Nat /\ Tip(a).their \in Nat /\ local[a].their \in Nat /\ Len(rlog[a]) \in Nat
            /\ k <= Tip(a).their /\ Tip(a).their <= local[a].their /\ local[a].their <= Len(rlog[a])
        BY <1>1, EndFacts, CommitFacts
      <4> QED BY <4>1
    <3>2. s \in Seq(UpdateType) /\ Len(s) = k /\ \A j \in 1 .. k : s[j] = rlog[a][j]
      BY <1>4, <3>1, TakeFacts
    <3>3. fwd[a] = Forwarded(s)
      BY <1>2 DEF EndInv, ForwardInv
    <3> HIDE DEF s
    <3>4. PICK i \in 1 .. Len(fwd[a]) : fwd[a][i].kind = "add" /\ fwd[a][i].id = id
      BY <2>2 DEF Offered
    <3>5. PICK j \in 1 .. Len(s) : fwd[a][i] = s[j]
      BY <3>2, <3>3, <3>4, ForwardedElements
    <3>6. j \in 1 .. Len(rlog[a]) /\ s[j] = rlog[a][j]
      BY <3>1, <3>2
    <3>7. j \in 1 .. Len(log[b]) /\ rlog[a][j] = log[b][j]
      BY <1>1, <3>1, <3>6, LogFacts
    <3> QED BY <3>4, <3>5, <3>6, <3>7 DEF Offered
  <2>3. u.kind \in {"add", "rm", "fee"}
    BY <1>7 DEF UpdateType
  <2> QED BY <1>1, <2>1, <2>2, <2>3 DEF ValidUpdate
<1>10. /\ rlog' = [rlog EXCEPT ![b] = Append(@, u)] /\ Reply(b, <<>>)
       /\ log' = log /\ local' = local /\ tail' = tail /\ pending' = pending
       /\ lastWasRevoke' = lastWasRevoke /\ fwd' = fwd /\ mustSign' = mustSign
       /\ synced' = synced /\ up' = up /\ drops' = drops /\ failed' = failed
  BY <1>9 DEF ReceiveUpdate, disk
<1>11. /\ net'[b] = Tail(q) /\ net'[a] = net[a] /\ net' \in [Nodes -> Seq(MessageType)]
  <2>1. net[a] \in Seq(MessageType)
    BY <1>1, EndFacts
  <2>2. net[a] \o <<>> = net[a]
    BY <2>1, ConcatEmptySeq
  <2>3. net' = [net EXCEPT ![b] = Tail(@), ![a] = @ \o <<>>]
    BY <1>1, <1>10 DEF Reply
  <2>4. net'[b] = Tail(q) /\ net'[a] = net[a]
    BY <1>1, <1>2, <2>2, <2>3 DEF TypeOK
  <2> QED BY <1>1, <1>2, <1>5, <2>1, <2>3, <2>4 DEF TypeOK
<1> HIDE DEF u
<1>12. rlog'[b] = Append(rlog[b], u) /\ rlog'[a] = rlog[a]
  BY <1>1, <1>2, <1>10 DEF TypeOK
<1>13. /\ rlog'[b] \in Seq(UpdateType) /\ Len(rlog'[b]) = L + 1
       /\ \A i \in 1 .. L : rlog'[b][i] = rlog[b][i]
       /\ rlog'[b][L + 1] = u
       /\ \A k \in 0 .. L : Take(rlog'[b], k) = Take(rlog[b], k)
  BY <1>4, <1>7, <1>12, AppendFacts
<1>14. Tip(a)' = Tip(a) /\ Tip(b)' = Tip(b)
  BY <1>10 DEF Tip
<1>15. /\ local[b].their \in 0 .. L /\ tail[b].their \in 0 .. L /\ Tip(b).their \in 0 .. L
  <2>1. /\ local[b].their \in Nat /\ local[b].their <= L /\ tail[b].their \in Nat /\ Tip(b).their \in Nat
        /\ tail[b].their <= Tip(b).their /\ Tip(b).their <= local[b].their
    BY EndFacts, CommitFacts
  <2> QED BY <1>4, <2>1
<1>16. TypeOK'
  <2>1. rlog' \in [Nodes -> Seq(UpdateType)]
    BY <1>2, <1>10, <1>12, <1>13 DEF TypeOK
  <2>2. local'[b].their <= Len(rlog'[b])
    BY <1>4, <1>10, <1>13, <1>15
  <2> QED BY <1>1, <1>2, <1>10, <1>11, <1>12, <1>14, <2>1, <2>2 DEF TypeOK
<1>17. NeverFails' /\ DownInv'
  BY <1>2, <1>3, <1>10 DEF NeverFails, DownInv
<1>18. ChainInv(a)' /\ ChainInv(b)'
  BY <1>2, <1>10 DEF EndInv, ChainInv, SigDue, RevDue, Mirrors
<1>19. LogInv(a)' /\ LogInv(b)'
  <2>1. LogInv(b)'
    BY <1>1, <1>2, <1>10, <1>12, <1>14 DEF EndInv, LogInv
  <2>2. \A i \in 1 .. L : rlog[b][i] = log[a][i]
    BY <1>1, <1>2 DEF EndInv, LogInv
  <2>3. \A i \in 1 .. L + 1 : rlog'[b][i] = log[a][i]
    <3> SUFFICES ASSUME NEW i \in 1 .. L + 1 PROVE rlog'[b][i] = log[a][i]
      OBVIOUS
    <3>1. i \in 1 .. L \/ i = L + 1
      BY <1>4
    <3> QED BY <1>7, <1>13, <2>2, <3>1
  <2>4. Len(rlog'[b]) = L + 1 /\ L + 1 <= Len(log[a]) /\ synced'[a] /\ log'[a] = log[a]
    BY <1>4, <1>7, <1>10, <1>13
  <2>5. LogInv(a)'
    BY <1>1, <2>3, <2>4 DEF LogInv
  <2> QED BY <2>1, <2>5
<1>20. UpdateInv(a)' /\ UpdateInv(b)'
  BY <1>2, <1>10 DEF EndInv, UpdateInv
<1>21. StreamInv(a)' /\ StreamInv(b)'
  <2>1. StreamInv(b)'
    BY <1>1, <1>2, <1>10, <1>11, <1>12, <1>14 DEF EndInv, StreamInv
  <2> QED BY <1>1, <1>6, <1>7, <1>10, <1>11, <1>13, <1>14, <2>1 DEF StreamInv, hi
<1>22. BoxInv(a)' /\ BoxInv(b)'
  <2>1. SigsDue(a)' = SigsDue(a) /\ SigsDue(b)' = SigsDue(b)
    <3>1. pending[b] # none => Take(rlog'[b], pending[b].their) = Take(rlog[b], pending[b].their)
      BY <1>13, <1>15 DEF Tip
    <3> QED BY <1>10, <1>12, <3>1 DEF SigsDue, SigDue, CommitSig
  <2>2. RevsDue(a)' = RevsDue(a) /\ RevsDue(b)' = RevsDue(b)
    BY <1>10 DEF RevsDue, RevDue
  <2>3. Box(q, SigsDue(a), RevsDue(a), lastWasRevoke[a])
    BY <1>1, <1>2 DEF EndInv, BoxInv
  <2>4. Box(Tail(q), SigsDue(a), RevsDue(a), lastWasRevoke[a])
    BY <1>3, <1>4, <1>5, <2>3, BoxTail
  <2> QED BY <1>1, <1>2, <1>10, <1>11, <2>1, <2>2, <2>4 DEF EndInv, BoxInv
<1>23. SyncInv(a)' /\ SyncInv(b)'
  <2>1. \A i \in At(q, "channel_reestablish") : i = 1
    BY <1>1, <1>2 DEF EndInv, SyncInv
  <2>2. At(Tail(q), "channel_reestablish") = {}
    BY <1>3, <1>4, <2>1, SyncTail
  <2> QED BY <1>1, <1>2, <1>3, <1>10, <1>11, <2>2 DEF EndInv, SyncInv, Reestablish
<1>24. ForwardInv(a)' /\ ForwardInv(b)'
  BY <1>2, <1>10, <1>12, <1>13, <1>15 DEF EndInv, ForwardInv
<1> QED BY <1>1, <1>16, <1>17, <1>18, <1>19, <1>20, <1>21, <1>22, <1>23, <1>24 DEF IInv, EndInv

\* The signature that comes next is the peer's pending one, over the contents
\* of the commitment that this end derives.
LEMMA SigContents ==
    ASSUME IInv, NEW b \in Nodes, NEW a, a = Peer(b), Receives(b, "commit_sig")
    PROVE  \E c :
             /\ c = pending[a] /\ c # none /\ c \in CommitType /\ Tip(a) = c
             /\ synced[a] /\ SigDue(a) /\ ~ RevDue(a)
             /\ local[b].height = tail[a].height /\ c.height = tail[a].height + 1
             /\ c.their = tail[b].own /\ c.own = Len(rlog[b])
             /\ RevsDue(a) # {} => lastWasRevoke[a]
             /\ Box(Tail(net[b]), {}, RevsDue(a), lastWasRevoke[a])
             /\ Stream(Tail(net[b]), log[a], Len(rlog[b]), Len(log[a]), c.own)
             /\ Head(net[b]).height = local[b].height + 1
             /\ Head(net[b]).offered = rlog[b]
             /\ Head(net[b]).received = Take(log[b], tail[b].own)
<1>1. a \in Nodes /\ b # a /\ Peer(a) = b /\ \A m \in Nodes : m = a \/ m = b
  BY PeerFacts
<1> DEFINE q == net[b]
           L == Len(rlog[b])
<1>2. /\ TypeOK /\ NeverFails /\ DownInv /\ EndInv(a) /\ EndInv(b)
  BY <1>1 DEF IInv
<1>3. up /\ synced[b] /\ q # <<>> /\ Head(q).type = "commit_sig"
  BY DEF Receives, Ready
<1>4. /\ log[a] \in Seq(UpdateType) /\ rlog[a] \in Seq(UpdateType) /\ log[b] \in Seq(UpdateType)
      /\ rlog[b] \in Seq(UpdateType) /\ q \in Seq(MessageType) /\ net[a] \in Seq(MessageType)
      /\ L \in Nat /\ Len(rlog[a]) \in Nat /\ Len(log[b]) \in Nat
      /\ Len(log[a]) \in Nat /\ synced[a] \in BOOLEAN
      /\ lastWasRevoke[a] \in BOOLEAN /\ lastWasRevoke[b] \in BOOLEAN
  BY <1>1, EndFacts
<1>5. /\ Tail(q) \in Seq(MessageType) /\ Head(q) = q[1]
  BY <1>3, <1>4, TailFacts
<1>6. /\ q[1] \in SigsDue(a) /\ (RevsDue(a) # {} => lastWasRevoke[a])
      /\ Box(Tail(q), {}, RevsDue(a), lastWasRevoke[a])
  <2>1. Box(q, SigsDue(a), RevsDue(a), lastWasRevoke[a])
    BY <1>1, <1>2 DEF EndInv, BoxInv
  <2> QED BY <1>3, <1>4, <1>5, <2>1, BoxTail
<1>7. PICK c : c = pending[a]
  OBVIOUS
<1>8. synced[a] /\ SigDue(a) /\ q[1] = CommitSig(a, c) /\ c # none
  BY <1>6, <1>7 DEF SigsDue, SigDue
<1>9. /\ c \in CommitType /\ c.height \in Nat /\ c.own \in Nat /\ c.their \in Nat /\ Tip(a) = c
       /\ tail[a].height \in Nat /\ local[b].height \in Nat /\ tail[b].own \in Nat
       /\ c.their <= local[a].their /\ local[a].their <= Len(rlog[a]) /\ local[a].their \in Nat
       /\ tail[b].own <= Tip(b).own /\ Tip(b).own <= Len(log[b]) /\ Tip(b).own \in Nat
       /\ local[b].their \in Nat /\ local[b].their <= L
       /\ Tip(b).their \in Nat /\ Tip(b).their <= local[b].their
  BY <1>1, <1>7, <1>8, EndFacts, CommitFacts DEF Tip
<1>10. /\ ~ RevDue(a) /\ local[b].height = tail[a].height /\ c.height = tail[a].height + 1
  <2>1. ~ RevDue(a)
    BY <1>8, ChainFacts, <1>1
  <2> QED BY <1>1, <1>7, <1>8, <2>1, ChainFacts
<1>11. c.their = tail[b].own
  <2>1. c.their = IF RevDue(b) /\ ~ lastWasRevoke[a] THEN pending[b].own ELSE tail[b].own
    BY <1>1, <1>2, <1>7, <1>8 DEF EndInv, ChainInv
  <2>2. RevDue(b) => lastWasRevoke[a]
    BY <1>1, <1>6, <1>8 DEF RevsDue
  <2> QED BY <2>1, <2>2
<1>12. /\ L = c.own
       /\ Stream(Tail(q), log[a], L, Len(log[a]), c.own)
  <2>1. Stream(q, log[a], L, Len(log[a]), c.own)
    BY <1>1, <1>2, <1>8, <1>9 DEF EndInv, StreamInv
  <2>2. q[1].type = "commit_sig" /\ q[1].type # "update"
    BY <1>3, <1>5
  <2>3. q # <<>>
    BY <1>3
  <2>4. PICK lg, lo, hi, own, r :
           lg = log[a] /\ lo = L /\ hi = Len(log[a]) /\ own = c.own /\ r = q
    OBVIOUS
  <2>5. /\ r \in Seq(MessageType) /\ r # <<>> /\ lo \in Nat /\ hi \in Nat
        /\ Stream(r, lg, lo, hi, own) /\ r[1].type = "commit_sig" /\ r[1].type # "update"
    BY <1>4, <2>1, <2>2, <2>3, <2>4
  <2>6. Stream(Tail(r), lg, lo, hi, own) /\ lo = own
    BY <2>5, StreamTail
  <2> QED BY <2>4, <2>6
<1>13. /\ Head(q).height = local[b].height + 1 /\ Head(q).offered = rlog[b]
       /\ Head(q).received = Take(log[b], tail[b].own)
  <2>1. Take(log[a], L) = rlog[b] /\ c.own \in 0 .. Len(log[a])
    <3>1. L \in 0 .. L
      BY <1>4
    <3>2. Take(rlog[b], L) = Take(log[a], L) /\ L <= Len(log[a])
      BY <1>1, <3>1, LogFacts
    <3> QED BY <1>4, <1>12, <3>2, TakeAll
  <2>2. c.their \in 0 .. Len(rlog[a])
    BY <1>4, <1>9
  <2>3. Take(rlog[a], c.their) = Take(log[b], c.their)
    BY <1>1, <2>2, LogFacts
  <2>4. Take(log[a], c.own) \in Seq(UpdateType) /\ Take(rlog[a], c.their) \in Seq(UpdateType)
    BY <1>4, <2>1, <2>2, TakeFacts
  <2>5. /\ CommitSig(a, c).height = c.height /\ CommitSig(a, c).offered = Take(log[a], c.own)
        /\ CommitSig(a, c).received = Take(rlog[a], c.their)
    BY <1>9, <2>4, SigMsg
  <2> QED BY <1>5, <1>8, <1>10, <1>11, <1>12, <2>1, <2>3, <2>5
<1> QED BY <1>6, <1>7, <1>8, <1>9, <1>10, <1>11, <1>12, <1>13

\* An end receives a signature: it is over the commitment the end derives.
LEMMA SigStep ==
    ASSUME IInv, NEW b \in Nodes, ReceiveCommitSig(b)
    PROVE  IInv'
<1>1. PICK a : a = Peer(b) /\ a \in Nodes /\ b # a /\ Peer(a) = b /\ \A m \in Nodes : m = a \/ m = b
  BY PeerFacts
<1>2. PICK next : next = Commit(local[b].height + 1, tail[b].own, Len(rlog[b]))
  OBVIOUS
<1> DEFINE q == net[b]
           m == Revoke(local[b].height)
           r == <<m>>
           L == Len(rlog[b])
<1>3. /\ TypeOK /\ NeverFails /\ DownInv /\ EndInv(a) /\ EndInv(b)
  BY <1>1 DEF IInv
<1>4. up /\ synced[b] /\ q # <<>> /\ Head(q).type = "commit_sig"
  BY DEF ReceiveCommitSig, Receives, Ready
<1>5. /\ log[a] \in Seq(UpdateType) /\ rlog[a] \in Seq(UpdateType) /\ log[b] \in Seq(UpdateType)
      /\ rlog[b] \in Seq(UpdateType) /\ q \in Seq(MessageType) /\ net[a] \in Seq(MessageType)
      /\ L \in Nat /\ Len(rlog[a]) \in Nat /\ Len(log[b]) \in Nat
      /\ Len(log[a]) \in Nat /\ synced[a] \in BOOLEAN
      /\ lastWasRevoke[a] \in BOOLEAN /\ lastWasRevoke[b] \in BOOLEAN
  BY <1>1, EndFacts
<1>6. /\ Tail(q) \in Seq(MessageType) /\ Head(q) = q[1]
  BY <1>4, <1>5, TailFacts
<1>7. Receives(b, "commit_sig")
  BY DEF ReceiveCommitSig
<1>8. PICK c :
             /\ c = pending[a] /\ c # none /\ c \in CommitType /\ Tip(a) = c
             /\ synced[a] /\ SigDue(a) /\ ~ RevDue(a)
             /\ local[b].height = tail[a].height /\ c.height = tail[a].height + 1
             /\ c.their = tail[b].own /\ c.own = Len(rlog[b])
             /\ RevsDue(a) # {} => lastWasRevoke[a]
             /\ Box(Tail(net[b]), {}, RevsDue(a), lastWasRevoke[a])
             /\ Stream(Tail(net[b]), log[a], Len(rlog[b]), Len(log[a]), c.own)
             /\ Head(net[b]).height = local[b].height + 1
             /\ Head(net[b]).offered = rlog[b]
             /\ Head(net[b]).received = Take(log[b], tail[b].own)
  BY <1>1, <1>7, SigContents
<1>9. /\ c.height \in Nat /\ c.own \in Nat /\ c.their \in Nat
       /\ tail[a].height \in Nat /\ local[b].height \in Nat /\ tail[b].own \in Nat
       /\ c.their <= local[a].their /\ local[a].their <= Len(rlog[a]) /\ local[a].their \in Nat
       /\ tail[b].own <= Tip(b).own /\ Tip(b).own <= Len(log[b]) /\ Tip(b).own \in Nat
       /\ local[b].their \in Nat /\ local[b].their <= L
       /\ Tip(b).their \in Nat /\ Tip(b).their <= local[b].their
  BY <1>1, <1>8, EndFacts, CommitFacts
<1>10. /\ next.height = local[b].height + 1 /\ next.own = tail[b].own /\ next.their = L
       /\ next \in CommitType
  <2>1. local[b].height + 1 \in Nat
    <3>1. local[b].height \in Nat
      BY <1>9
    <3> QED BY <3>1
  <2>2. tail[b].own \in Nat /\ Len(rlog[b]) \in Nat
    BY <1>5, <1>9
  <2>3. PICK h, own, their : h = local[b].height + 1 /\ own = tail[b].own /\ their = Len(rlog[b])
    OBVIOUS
  <2>4. next = Commit(h, own, their)
    BY <1>2, <2>3
  <2>5. h \in Nat /\ own \in Nat /\ their \in Nat
    BY <2>1, <2>2, <2>3
  <2>6. next \in CommitType /\ next.height = h /\ next.own = own /\ next.their = their
    BY <2>4, <2>5, CommitMade
  <2> QED BY <2>3, <2>6
<1>11. /\ Head(q).height = next.height /\ Head(q).offered = rlog[b]
       /\ Head(q).received = Take(log[b], next.own)
  BY <1>8, <1>10
<1>12. /\ local' = [local EXCEPT ![b] = next]
       /\ lastWasRevoke' = [lastWasRevoke EXCEPT ![b] = TRUE]
       /\ net' = [net EXCEPT ![b] = Tail(@), ![a] = @ \o r]
       /\ mustSign' = [mustSign EXCEPT ![b] = TRUE]
       /\ log' = log /\ rlog' = rlog /\ tail' = tail /\ pending' = pending /\ fwd' = fwd
       /\ synced' = synced /\ up' = up /\ drops' = drops /\ failed' = failed
  BY <1>1, <1>2, <1>11 DEF ReceiveCommitSig, Reply
<1>13. m \in MessageType /\ m.type = "revoke_and_ack"
  BY <1>9, RevokeMsg
<1> HIDE DEF m
<1>14. /\ r \in Seq(MessageType) /\ Len(r) = 1 /\ r[1] = m /\ \A i \in 1 .. Len(r) : r[i] = m
  BY <1>13
<1>15. net[a] \o r \in Seq(MessageType)
  <2> HIDE DEF r
  <2> QED BY <1>5, <1>14, ConcatFacts
<1>16. /\ net'[b] = Tail(q) /\ net'[a] = net[a] \o r /\ local'[b] = next /\ local'[a] = local[a]
       /\ lastWasRevoke'[b] = TRUE /\ lastWasRevoke'[a] = lastWasRevoke[a]
       /\ mustSign'[a] = mustSign[a]
  BY <1>1, <1>3, <1>12 DEF TypeOK
<1> HIDE DEF r
<1>17. Tip(a)' = Tip(a) /\ Tip(b)' = Tip(b)
  BY <1>12 DEF Tip
<1>18. TypeOK'
  <2>1. /\ net' \in [Nodes -> Seq(MessageType)] /\ local' \in [Nodes -> CommitType]
        /\ lastWasRevoke' \in [Nodes -> BOOLEAN] /\ mustSign' \in [Nodes -> BOOLEAN]
    BY <1>1, <1>3, <1>6, <1>10, <1>12, <1>15, <1>16 DEF TypeOK
  <2>2. /\ local'[b].own <= tail'[b].own /\ Tip(b)'.own <= Len(log'[b])
        /\ Tip(b)'.their <= local'[b].their /\ local'[b].their <= Len(rlog'[b])
    <3>0. /\ tail[b].own \in Nat /\ L \in Nat /\ Tip(b).their \in Nat /\ local[b].their \in Nat
          /\ Tip(b).their <= local[b].their /\ local[b].their <= L
      BY <1>5, <1>9
    <3>1. tail[b].own <= tail[b].own /\ L <= L /\ Tip(b).their <= L
      BY <3>0
    <3>2. local'[b].own = tail'[b].own /\ local'[b].their = L /\ rlog'[b] = rlog[b] /\ tail'[b] = tail[b]
      BY <1>10, <1>12, <1>16
    <3>3. log'[b] = log[b] /\ Tip(b).own <= Len(log[b])
      BY <1>9, <1>12
    <3> QED BY <1>17, <3>1, <3>2, <3>3
  <2>3. /\ local'[a].own <= tail'[a].own /\ Tip(a)'.own <= Len(log'[a])
        /\ Tip(a)'.their <= local'[a].their /\ local'[a].their <= Len(rlog'[a])
    BY <1>1, <1>12, <1>16, <1>17, EndFacts
  <2> QED BY <1>1, <1>3, <1>12, <2>1, <2>2, <2>3 DEF TypeOK
<1>19. NeverFails' /\ DownInv'
  BY <1>3, <1>4, <1>12 DEF NeverFails, DownInv
<1>20. RevDue(a)' /\ ~ SigDue(a)' /\ RevDue(b)' = RevDue(b) /\ SigDue(b)' = SigDue(b)
  <2>1. local'[b].height = c.height /\ c.height # tail[a].height
    BY <1>9, <1>8, <1>10, <1>16
  <2>2. RevDue(a)' /\ ~ SigDue(a)'
    BY <1>1, <1>8, <1>12, <2>1 DEF RevDue, SigDue
  <2>3. RevDue(b)' = RevDue(b) /\ SigDue(b)' = SigDue(b)
    BY <1>1, <1>12, <1>16 DEF RevDue, SigDue
  <2> QED BY <2>2, <2>3
<1>21. ChainInv(a)'
  <2>1. ChainInv(a)
    BY <1>3 DEF EndInv
  <2>2. Mirrors(pending[a], local[b])'
    BY <1>8, <1>10, <1>12, <1>16 DEF Mirrors
  <2> QED BY <1>1, <1>12, <1>20, <2>1, <2>2 DEF ChainInv
<1>22. ChainInv(b)'
  <2>1. ChainInv(b)
    BY <1>3 DEF EndInv
  <2>2. (IF RevDue(b) THEN Mirrors(pending[b], local[a]) ELSE Mirrors(tail[b], local[a]))'
    BY <1>1, <1>12, <1>16, <1>20, <2>1 DEF ChainInv, Mirrors
  <2>3. SigDue(b)' => pending'[b].their = IF RevDue(a)' /\ ~ lastWasRevoke'[b]
                                          THEN pending'[a].own ELSE tail'[a].own
    BY <1>1, <1>8, <1>12, <1>16, <1>20, <2>1 DEF ChainInv
  <2> QED BY <1>1, <1>12, <2>1, <2>2, <2>3 DEF ChainInv
<1>23. LogInv(a)' /\ LogInv(b)'
  BY <1>1, <1>3, <1>4, <1>8, <1>12 DEF EndInv, LogInv
<1>24. /\ UpdateInv(a)' /\ UpdateInv(b)' /\ ForwardInv(a)' /\ ForwardInv(b)'
  BY <1>3, <1>12 DEF EndInv, UpdateInv, ForwardInv
<1>25. StreamInv(a)' /\ StreamInv(b)'
  <2>1. StreamInv(a)'
    BY <1>1, <1>8, <1>9, <1>12, <1>16, <1>17 DEF StreamInv
  <2> DEFINE hi == Len(log[b])
  <2>2. Stream(net[a], log[b], Len(rlog[a]), hi, Tip(b).own)
    BY <1>1, <1>3, <1>4 DEF EndInv, StreamInv
  <2>3. Stream(r, log[b], hi, hi, Tip(b).own)
    BY <1>5, <1>13, StreamOther DEF r
  <2>4. Stream(net[a] \o r, log[b], Len(rlog[a]), hi, Tip(b).own)
    BY <1>5, <1>14, <2>2, <2>3, StreamConcat
  <2> QED BY <1>1, <1>4, <1>12, <1>16, <1>17, <2>1, <2>4 DEF StreamInv
<1>26. BoxInv(a)' /\ BoxInv(b)'
  <2>1. SigsDue(a)' = {} /\ RevsDue(a)' = RevsDue(a)
    BY <1>1, <1>12, <1>20 DEF SigsDue, RevsDue
  <2>2. SigsDue(b)' = SigsDue(b) /\ RevsDue(b) = {} /\ RevsDue(b)' = {m}
    BY <1>1, <1>4, <1>8, <1>12, <1>20 DEF SigsDue, RevsDue, CommitSig, m
  <2>3. Box(net[a], SigsDue(b), {}, lastWasRevoke[b])
    BY <1>1, <1>3, <2>2 DEF EndInv, BoxInv
  <2>4. Box(net[a], SigsDue(b), {}, TRUE)
    BY <2>3, BoxOrder
  <2>5. Box(r, {}, {m}, TRUE)
    BY <1>13, BoxOne DEF r
  <2>6. Box(net[a] \o r, SigsDue(b) \cup {}, {} \cup {m}, TRUE)
    BY <1>5, <1>14, <2>4, <2>5, BoxConcat
  <2>7. SigsDue(b) \cup {} = SigsDue(b) /\ {} \cup {m} = {m}
    OBVIOUS
  <2>8. BoxInv(b)'
    BY <1>1, <1>16, <2>2, <2>6, <2>7 DEF BoxInv
  <2>9. BoxInv(a)'
    BY <1>1, <1>8, <1>16, <2>1 DEF BoxInv
  <2> QED BY <2>8, <2>9
<1>27. SyncInv(a)' /\ SyncInv(b)'
  <2>1. \A i \in At(q, "channel_reestablish") : i = 1
    BY <1>1, <1>3 DEF EndInv, SyncInv
  <2>2. At(Tail(q), "channel_reestablish") = {}
    BY <1>4, <1>5, <2>1, SyncTail
  <2>3. At(net[a] \o r, "channel_reestablish") = At(net[a], "channel_reestablish")
    BY <1>5, <1>13, <1>14, SyncConcat
  <2>4. SyncInv(a)'
    BY <1>1, <1>3, <1>4, <1>8, <1>12, <1>16, <2>2 DEF SyncInv
  <2>5. SyncInv(b)'
    BY <1>1, <1>3, <1>4, <1>8, <1>12, <1>16, <2>3 DEF EndInv, SyncInv
  <2> QED BY <2>4, <2>5
<1> QED BY <1>1, <1>18, <1>19, <1>21, <1>22, <1>23, <1>24, <1>25, <1>26, <1>27 DEF IInv, EndInv

\* What a revocation locks in follows what was locked in before it.
LEMMA LockedFacts ==
    ASSUME IInv, NEW a \in Nodes, pending[a] # none
    PROVE  Forwarded(Take(rlog[a], pending[a].their))
               = Forwarded(Take(rlog[a], tail[a].their)) \o Forwarded(Locked(a))
<1>1. PICK s : s = rlog[a]
  OBVIOUS
<1>2. PICK k, m, n : k = tail[a].their /\ m = pending[a].their /\ n = local[a].their
  OBVIOUS
<1>3. /\ s \in Seq(UpdateType) /\ k \in Nat /\ m \in Nat /\ n \in Nat /\ Len(s) \in Nat
      /\ k <= m /\ m <= n /\ n <= Len(s)
  <2>1. Tip(a) = pending[a]
    BY DEF Tip
  <2> QED BY <1>1, <1>2, <2>1, EndFacts, CommitFacts
<1>4. PICK t : t = Take(s, n)
  OBVIOUS
<1>5. t \in Seq(UpdateType) /\ Len(t) = n /\ \A i \in 1 .. n : t[i] = s[i]
  <2>1. n \in 0 .. Len(s)
    BY <1>3
  <2> QED BY <1>3, <1>4, <2>1, TakeFacts
<1>6. PICK v, w : v = Take(t, k) /\ w = SubSeq(t, k + 1, m)
  OBVIOUS
<1>7. v \o w = SubSeq(t, 1, m)
  <2>1. 1 \in 1 .. Len(t) + 1 /\ k \in 1 - 1 .. Len(t) /\ m \in k .. Len(t)
    BY <1>3, <1>5
  <2>2. SubSeq(t, 1, k) \o SubSeq(t, k + 1, m) = SubSeq(t, 1, m)
    BY <1>5, <2>1, ConcatAdjacentSubSeq
  <2> QED BY <1>6, <2>2 DEF Take
<1>8. Take(t, m) = Take(s, m) /\ v = Take(s, k)
  <2>1. m \in 0 .. Len(t) /\ m <= Len(s) /\ \A i \in 1 .. m : t[i] = s[i]
    BY <1>3, <1>5
  <2>2. k \in 0 .. Len(t) /\ k <= Len(s) /\ \A i \in 1 .. k : t[i] = s[i]
    BY <1>3, <1>5
  <2>3. Take(t, m) = Take(s, m)
    BY <1>3, <1>5, <2>1, TakeAgree
  <2>4. Take(t, k) = Take(s, k)
    BY <1>3, <1>5, <2>2, TakeAgree
  <2> QED BY <1>6, <2>3, <2>4
<1>9. v \in Seq(UpdateType) /\ w \in Seq(UpdateType)
  <2>1. k \in 0 .. Len(t)
    BY <1>3, <1>5
  <2>2. k + 1 \in Int /\ m \in Int /\ \A i \in k + 1 .. m : t[i] \in UpdateType
    BY <1>3, <1>5, ElementOfSeq
  <2> QED BY <1>5, <1>6, <2>1, <2>2, TakeFacts, SubSeqProperties
<1>10. Locked(a) = w
  BY <1>1, <1>2, <1>4, <1>6 DEF Locked
<1>11. Forwarded(v \o w) = Forwarded(v) \o Forwarded(w)
  BY <1>9, ForwardedConcat
<1>12. v \o w = Take(s, m)
  BY <1>7, <1>8 DEF Take
<1> QED BY <1>1, <1>2, <1>8, <1>10, <1>11, <1>12

\* An end receives a revocation: it is of the tail, and its pending tip is on
\* the peer's chain.
LEMMA RevStep ==
    ASSUME IInv, NEW a \in Nodes, ReceiveRevocation(a)
    PROVE  IInv'
<1>1. PICK b : b = Peer(a) /\ b \in Nodes /\ b # a /\ Peer(b) = a /\ \A m \in Nodes : m = a \/ m = b
  BY PeerFacts
<1>2. PICK c : c = pending[a]
  OBVIOUS
<1> DEFINE q == net[a]
<1>3. /\ TypeOK /\ NeverFails /\ DownInv /\ EndInv(a) /\ EndInv(b)
  BY <1>1 DEF IInv
<1>4. up /\ synced[a] /\ q # <<>> /\ Head(q).type = "revoke_and_ack"
  BY DEF ReceiveRevocation, Receives, Ready
<1>5. /\ q \in Seq(MessageType) /\ net[b] \in Seq(MessageType)
      /\ Len(log[b]) \in Nat /\ Len(rlog[a]) \in Nat /\ rlog[a] \in Seq(UpdateType)
      /\ lastWasRevoke[b] \in BOOLEAN
  BY <1>1, EndFacts
<1>6. Tail(q) \in Seq(MessageType) /\ Head(q) = q[1]
  BY <1>4, <1>5, TailFacts
<1>7. /\ q[1] \in RevsDue(b) /\ (SigsDue(b) # {} => ~ lastWasRevoke[b])
      /\ Box(Tail(q), SigsDue(b), {}, lastWasRevoke[b])
  <2>1. Box(q, SigsDue(b), RevsDue(b), lastWasRevoke[b])
    BY <1>1, <1>3 DEF EndInv, BoxInv
  <2> QED BY <1>4, <1>5, <1>6, <2>1, BoxTail
<1>8. synced[b] /\ RevDue(a) /\ q[1] = Revoke(tail[a].height)
  BY <1>1, <1>7 DEF RevsDue
<1>9. /\ c # none /\ ~ SigDue(a) /\ Tip(a) = c /\ c.height = tail[a].height + 1
      /\ local[b].height = c.height /\ local[b].their = c.own /\ local[b].own = c.their
  BY <1>1, <1>2, <1>8, ChainFacts
<1>10. /\ c \in CommitType /\ c.own \in Nat /\ c.their \in Nat /\ c.height \in Nat
       /\ tail[a].height \in Nat /\ tail[a].own \in Nat /\ local[a].own \in Nat
       /\ local[a].own <= tail[a].own /\ tail[a].own <= c.own /\ c.own <= Len(log[a])
       /\ c.their <= local[a].their
  BY <1>2, <1>9, EndFacts, CommitFacts
<1>11. Head(q).height = tail[a].height
  BY <1>6, <1>8, <1>10, RevokeMsg
<1>12. /\ fwd' = [fwd EXCEPT ![a] = @ \o Forwarded(Locked(a))]
       /\ tail' = [tail EXCEPT ![a] = c] /\ pending' = [pending EXCEPT ![a] = none]
       /\ Reply(a, <<>>) /\ mustSign' = [mustSign EXCEPT ![a] = TRUE]
       /\ log' = log /\ rlog' = rlog /\ local' = local /\ lastWasRevoke' = lastWasRevoke
       /\ synced' = synced /\ up' = up /\ drops' = drops /\ failed' = failed
  BY <1>2, <1>9, <1>11 DEF ReceiveRevocation
<1>13. /\ net'[a] = Tail(q) /\ net'[b] = net[b] /\ net' \in [Nodes -> Seq(MessageType)]
  <2>1. net[b] \o <<>> = net[b]
    BY <1>5, ConcatEmptySeq
  <2>2. net' = [net EXCEPT ![a] = Tail(@), ![b] = @ \o <<>>]
    BY <1>1, <1>12 DEF Reply
  <2>3. net'[a] = Tail(q) /\ net'[b] = net[b]
    BY <1>1, <1>3, <2>1, <2>2 DEF TypeOK
  <2> QED BY <1>1, <1>3, <1>5, <1>6, <2>2, <2>3 DEF TypeOK
<1>14. /\ fwd'[a] = fwd[a] \o Forwarded(Locked(a)) /\ fwd'[b] = fwd[b]
       /\ tail'[a] = c /\ tail'[b] = tail[b] /\ pending'[a] = none /\ pending'[b] = pending[b]
       /\ mustSign'[b] = mustSign[b]
  BY <1>1, <1>3, <1>12 DEF TypeOK
<1>15. Tip(a)' = Tip(a) /\ Tip(b)' = Tip(b)
  BY <1>9, <1>14 DEF Tip
<1>16. ForwardInv(a)' /\ ForwardInv(b)'
  <2>1. fwd[a] = Forwarded(Take(rlog[a], tail[a].their)) /\ ForwardInv(b)
    BY <1>3 DEF EndInv, ForwardInv
  <2>2. Forwarded(Take(rlog[a], c.their)) = fwd[a] \o Forwarded(Locked(a))
    BY <1>2, <1>9, <2>1, LockedFacts
  <2> QED BY <1>12, <1>14, <2>1, <2>2 DEF ForwardInv
<1>17. fwd'[a] \in Seq(UpdateType)
  <2>1. c.their \in 0 .. Len(rlog[a])
    <3>1. local[a].their \in Nat /\ local[a].their <= Len(rlog[a])
      BY EndFacts, CommitFacts
    <3> QED BY <1>5, <1>10, <3>1
  <2>2. Take(rlog[a], c.their) \in Seq(UpdateType)
    BY <1>5, <2>1, TakeFacts
  <2>3. fwd'[a] = Forwarded(Take(rlog[a], c.their))
    BY <1>12, <1>14, <1>16 DEF ForwardInv
  <2> QED BY <2>2, <2>3, ForwardedElements
<1>18. TypeOK'
  <2>1. /\ fwd' \in [Nodes -> Seq(UpdateType)] /\ tail' \in [Nodes -> CommitType]
        /\ pending' \in [Nodes -> CommitType \cup {none}] /\ mustSign' \in [Nodes -> BOOLEAN]
    BY <1>1, <1>3, <1>10, <1>12, <1>14, <1>17 DEF TypeOK
  <2>2. /\ local'[a].own <= tail'[a].own /\ Tip(a)'.own <= Len(log'[a])
        /\ Tip(a)'.their <= local'[a].their /\ local'[a].their <= Len(rlog'[a])
    <3>1. local[a].own <= c.own /\ local[a].their <= Len(rlog[a])
      BY <1>10, EndFacts
    <3> QED BY <1>9, <1>10, <1>12, <1>14, <1>15, <3>1
  <2>3. /\ local'[b].own <= tail'[b].own /\ Tip(b)'.own <= Len(log'[b])
        /\ Tip(b)'.their <= local'[b].their /\ local'[b].their <= Len(rlog'[b])
    BY <1>1, <1>12, <1>14, <1>15, EndFacts
  <2> QED BY <1>1, <1>3, <1>12, <1>13, <2>1, <2>2, <2>3 DEF TypeOK
<1>19. NeverFails' /\ DownInv'
  BY <1>3, <1>4, <1>12 DEF NeverFails, DownInv
<1>20. /\ ~ RevDue(a)' /\ ~ SigDue(a)'
       /\ RevDue(b)' = RevDue(b) /\ SigDue(b)' = SigDue(b)
  BY <1>1, <1>12, <1>14 DEF RevDue, SigDue
<1>21. ChainInv(a)'
  <2>1. Mirrors(tail[a], local[b])'
    BY <1>9, <1>12, <1>14 DEF Mirrors
  <2> QED BY <1>1, <1>14, <1>20, <2>1 DEF ChainInv
<1>22. ChainInv(b)'
  <2>1. ChainInv(b)
    BY <1>3 DEF EndInv
  <2>2. (IF RevDue(b) THEN Mirrors(pending[b], local[a]) ELSE Mirrors(tail[b], local[a]))'
    BY <1>1, <1>12, <1>14, <1>20, <2>1 DEF ChainInv, Mirrors
  <2>3. SigDue(b) => ~ lastWasRevoke[b]
    BY <1>7, <1>8 DEF SigsDue
  <2>4. SigDue(b) => pending[b].their = c.own
    BY <1>1, <1>2, <1>8, <2>1, <2>3 DEF ChainInv
  <2>5. SigDue(b)' => pending'[b].their = IF RevDue(a)' /\ ~ lastWasRevoke'[b]
                                          THEN pending'[a].own ELSE tail'[a].own
    BY <1>14, <1>20, <2>4
  <2>6. pending'[b] # none =>
          /\ pending'[b].height = tail'[b].height + 1
          /\ tail'[b].own <= pending'[b].own /\ tail'[b].their <= pending'[b].their
    BY <1>14, <2>1 DEF ChainInv
  <2> QED BY <1>1, <2>2, <2>5, <2>6 DEF ChainInv
<1>23. LogInv(a)' /\ LogInv(b)'
  BY <1>1, <1>3, <1>4, <1>8, <1>12 DEF EndInv, LogInv
<1>24. UpdateInv(a)' /\ UpdateInv(b)'
  <2>1. ASSUME NEW id, Offered(fwd[a], id) PROVE Offered(fwd'[a], id)
    <3>1. PICK v : v = Forwarded(Locked(a))
      OBVIOUS
    <3>2. v \in Seq(UpdateType) /\ fwd[a] \in Seq(UpdateType)
      <4>1. PICK t : t = Take(rlog[a], local[a].their)
        OBVIOUS
      <4>2. t \in Seq(UpdateType) /\ Len(t) = local[a].their
        <5>1. local[a].their \in 0 .. Len(rlog[a])
          <6>1. local[a].their \in Nat /\ local[a].their <= Len(rlog[a])
            BY EndFacts, CommitFacts
          <6> QED BY <1>5, <6>1
        <5> QED BY <1>5, <4>1, <5>1, TakeFacts
      <4>3. tail[a].their \in Nat /\ c.their \in Nat /\ c.their <= Len(t)
        BY <1>10, <4>2, EndFacts, CommitFacts
      <4>4. tail[a].their + 1 \in Int /\ c.their \in Int
            /\ \A i \in tail[a].their + 1 .. c.their : i \in 1 .. Len(t)
        BY <4>2, <4>3
      <4>5. \A i \in tail[a].their + 1 .. c.their : t[i] \in UpdateType
        BY <4>2, <4>4, ElementOfSeq
      <4>6. SubSeq(t, tail[a].their + 1, c.their) \in Seq(UpdateType)
        BY <4>4, <4>5, SubSeqProperties
      <4>7. Locked(a) \in Seq(UpdateType)
        BY <1>2, <4>1, <4>6 DEF Locked
      <4> QED BY <3>1, <4>7, ForwardedElements, EndFacts
    <3>3. /\ fwd'[a] = fwd[a] \o v /\ Len(fwd[a] \o v) = Len(fwd[a]) + Len(v)
          /\ Len(fwd[a]) \in Nat /\ Len(v) \in Nat
          /\ \A i \in 1 .. Len(fwd[a]) : (fwd[a] \o v)[i] = fwd[a][i]
      BY <1>14, <3>1, <3>2, ConcatFacts
    <3>4. \A i \in 1 .. Len(fwd[a]) : i \in 1 .. Len(fwd'[a]) /\ fwd'[a][i] = fwd[a][i]
      BY <3>3
    <3> QED BY <2>1, <3>4 DEF Offered
  <2>2. UpdateInv(b)'
    BY <1>3, <1>12, <1>14 DEF EndInv, UpdateInv
  <2>3. UpdateInv(a)'
    BY <1>3, <1>12, <2>1 DEF EndInv, UpdateInv
  <2> QED BY <2>2, <2>3
<1>25. StreamInv(a)' /\ StreamInv(b)'
  <2>1. StreamInv(a)'
    BY <1>1, <1>3, <1>12, <1>13, <1>15 DEF EndInv, StreamInv
  <2>2. Stream(q, log[b], Len(rlog[a]), Len(log[b]), Tip(b).own)
    BY <1>1, <1>3, <1>8 DEF EndInv, StreamInv
  <2>3. q[1].type # "update" /\ q # <<>>
    BY <1>4, <1>6
  <2>4. Stream(Tail(q), log[b], Len(rlog[a]), Len(log[b]), Tip(b).own)
    BY <1>5, <2>2, <2>3, StreamTail
  <2> QED BY <1>1, <1>8, <1>12, <1>13, <1>15, <2>1, <2>4 DEF StreamInv
<1>26. BoxInv(a)' /\ BoxInv(b)'
  <2>1. SigsDue(a)' = {} /\ SigsDue(a) = {} /\ RevsDue(a)' = RevsDue(a)
    BY <1>1, <1>9, <1>12, <1>14, <1>20 DEF SigsDue, RevsDue
  <2>2. SigsDue(b)' = SigsDue(b) /\ RevsDue(b)' = {}
    BY <1>1, <1>12, <1>14, <1>20 DEF SigsDue, RevsDue, CommitSig
  <2>3. BoxInv(a)'
    BY <1>1, <1>3, <1>12, <1>13, <2>1 DEF EndInv, BoxInv
  <2>4. BoxInv(b)'
    BY <1>1, <1>7, <1>12, <1>13, <2>2 DEF BoxInv
  <2> QED BY <2>3, <2>4
<1>27. SyncInv(a)' /\ SyncInv(b)'
  <2>1. \A i \in At(q, "channel_reestablish") : i = 1
    BY <1>1, <1>3 DEF EndInv, SyncInv
  <2>2. At(Tail(q), "channel_reestablish") = {}
    BY <1>4, <1>5, <2>1, SyncTail
  <2>3. SyncInv(b)'
    BY <1>1, <1>3, <1>4, <1>8, <1>12, <1>13, <2>2 DEF SyncInv
  <2>4. SyncInv(a)'
    BY <1>1, <1>3, <1>4, <1>8, <1>12, <1>13 DEF EndInv, SyncInv
  <2> QED BY <2>3, <2>4
<1> QED BY <1>1, <1>16, <1>18, <1>19, <1>21, <1>22, <1>23, <1>24, <1>25, <1>26, <1>27 DEF IInv, EndInv

\* What an end sends again, or signs, when it reestablishes: the revocation
\* part, and the commitment with the updates it adds.
LEMMA OwedRevs ==
    ASSUME IInv, NEW a \in Nodes, NEW b \in Nodes, b = Peer(a), NEW revs,
           revs = IF RevDue(b) THEN <<OwedRevocation(a)>> ELSE <<>>
    PROVE  /\ revs \in Seq(MessageType)
           /\ \A i \in 1 .. Len(revs) : revs[i].type # "channel_reestablish"
           /\ \A x \in Nat : \A own : Stream(revs, log[a], x, x, own)
           /\ \A f : Box(revs, {}, IF RevDue(b) THEN {Revoke(tail[b].height)} ELSE {}, f)
<1>1. CASE RevDue(b)
  <2>1. local[a].height = tail[b].height + 1 /\ tail[b].height \in Nat /\ Peer(b) = a
    BY <1>1, PeerFacts, ChainFacts, EndFacts, CommitFacts
  <2>2. PICK h : h = tail[b].height
    OBVIOUS
  <2>3. local[a].height - 1 = h /\ h \in Nat
    BY <2>1, <2>2
  <2>4. PICK m : m = Revoke(h)
    OBVIOUS
  <2>5. revs = <<m>>
    BY <1>1, <2>3, <2>4 DEF OwedRevocation
  <2>6. m \in MessageType /\ m.type = "revoke_and_ack"
    BY <2>3, <2>4, RevokeMsg
  <2>7. revs \in Seq(MessageType) /\ \A i \in 1 .. Len(revs) : revs[i] = m
    BY <2>5, <2>6
  <2>8. \A x \in Nat : \A own : Stream(<<m>>, log[a], x, x, own)
    BY <2>6, StreamOther
  <2>9. \A f : Box(<<m>>, {}, {m}, f)
    BY <2>6, BoxOne
  <2> QED BY <1>1, <2>2, <2>4, <2>5, <2>6, <2>7, <2>8, <2>9
<1>2. CASE ~ RevDue(b)
  <2>1. revs = <<>> /\ Len(<<>>) = 0 /\ revs \in Seq(MessageType) /\ 1 .. 0 = {}
    BY <1>2
  <2>2. \A x \in Nat : \A own : Stream(<<>>, log[a], x, x, own)
    BY StreamEmpty
  <2>3. \A f : Box(<<>>, {}, {}, f)
    BY <2>1, BoxOther
  <2> QED BY <1>2, <2>1, <2>2, <2>3
<1> QED BY <1>1, <1>2

\* The commit diff, sent again: the updates it added, then its signature.
LEMMA OwedDiff ==
    ASSUME IInv, NEW a \in Nodes, pending[a] # none, NEW d, d = CommitDiff(a)
    PROVE  /\ d \in Seq(MessageType)
           /\ \A i \in 1 .. Len(d) : d[i].type # "channel_reestablish"
           /\ Stream(d, log[a], tail[a].own, pending[a].own, pending[a].own)
           /\ \A f \in BOOLEAN : Box(d, {CommitSig(a, pending[a])}, {}, f)
<1>1. PICK c, lg, lo, m : c = pending[a] /\ lg = log[a] /\ lo = tail[a].own /\ m = CommitSig(a, c)
  OBVIOUS
<1>2. /\ lg \in Seq(UpdateType) /\ rlog[a] \in Seq(UpdateType) /\ lo \in Nat /\ c.own \in Nat
      /\ c.height \in Nat /\ c.their \in Nat /\ lo <= c.own /\ c.own <= Len(lg) /\ Len(lg) \in Nat
      /\ c.their <= local[a].their /\ local[a].their \in Nat /\ local[a].their <= Len(rlog[a])
      /\ Len(rlog[a]) \in Nat
  <2>1. Tip(a) = c
    BY <1>1 DEF Tip
  <2> QED BY <1>1, <2>1, EndFacts, CommitFacts
<1>3. m \in MessageType /\ m.type = "commit_sig"
  <2>1. c.own \in 0 .. Len(lg) /\ c.their \in 0 .. Len(rlog[a])
    BY <1>2
  <2>2. Take(lg, c.own) \in Seq(UpdateType) /\ Take(rlog[a], c.their) \in Seq(UpdateType)
    BY <1>2, <2>1, TakeFacts
  <2> QED BY <1>1, <1>2, <2>2, SigMsg
<1>4. PICK diff : diff = Between(lg, lo, c.own)
  OBVIOUS
<1>5. PICK r : r = AsMessages(diff)
  OBVIOUS
<1>6. d = r \o <<m>>
  BY <1>1, <1>4, <1>5 DEF CommitDiff, AsMessages, Between
<1>7. /\ diff \in Seq(UpdateType) /\ Len(r) = Len(diff)
      /\ \A i \in 1 .. Len(r) : r[i] = Update(diff[i]) /\ r[i].type = "update"
      /\ Stream(r, lg, lo, c.own, c.own)
  <2>1. PICK hi : hi = c.own
    OBVIOUS
  <2>2. hi \in Nat /\ lo <= hi /\ hi <= Len(lg) /\ diff = Between(lg, lo, hi)
    BY <1>2, <1>4, <2>1
  <2>3. /\ diff \in Seq(UpdateType) /\ Len(r) = Len(diff)
        /\ \A i \in 1 .. Len(r) : r[i] = Update(diff[i]) /\ r[i].type = "update"
        /\ Stream(r, lg, lo, hi, c.own)
    BY <1>2, <1>5, <2>2, StreamUpdates
  <2> QED BY <2>1, <2>3
<1>8. r \in Seq(MessageType)
  <2>1. Len(diff) \in Nat /\ \A i \in 1 .. Len(diff) : Update(diff[i]) \in MessageType
    BY <1>7, LenProperties, ElementOfSeq, UpdateMsg
  <2> QED BY <1>5, <2>1 DEF AsMessages
<1>9. PICK w : w = <<m>>
  OBVIOUS
<1>10. w \in Seq(MessageType) /\ Len(w) = 1 /\ \A i \in 1 .. Len(w) : w[i] = m
  BY <1>3, <1>9
<1>11. /\ d \in Seq(MessageType) /\ Len(d) = Len(r) + Len(w)
       /\ \A i \in 1 .. Len(r) : d[i] = r[i]
       /\ \A i \in 1 .. Len(w) : d[Len(r) + i] = w[i]
  BY <1>6, <1>8, <1>9, <1>10, ConcatFacts
<1>12. ASSUME NEW i \in 1 .. Len(d) PROVE d[i].type # "channel_reestablish"
  <2>1. Len(r) \in Nat
    BY <1>8, LenProperties
  <2>2. CASE i \in 1 .. Len(r)
    BY <1>7, <1>11, <2>2
  <2>3. CASE i = Len(r) + 1
    <3>1. 1 \in 1 .. Len(w)
      BY <1>10
    <3>2. d[i] = m
      <4>1. \A j \in 1 .. Len(w) : d[Len(r) + j] = m
        BY <1>10, <1>11
      <4>2. d[Len(r) + 1] = m
        BY <3>1, <4>1
      <4> QED BY <2>3, <4>2
    <3> QED BY <1>3, <3>2
  <2> QED BY <1>10, <1>11, <2>1, <2>2, <2>3
<1>13. Stream(w, lg, c.own, c.own, c.own)
  BY <1>2, <1>3, <1>9, StreamOther
<1>14. Stream(d, lg, lo, c.own, c.own)
  <2>1. c.own \in Nat /\ lo \in Nat
    BY <1>2
  <2>2. c.own <= c.own
    BY <2>1
  <2>3. w \in Seq(MessageType) /\ r \in Seq(MessageType) /\ Stream(r, lg, lo, c.own, c.own)
    BY <1>7, <1>8, <1>10
  <2>4. Stream(r \o w, lg, lo, c.own, c.own)
    BY <1>13, <2>1, <2>2, <2>3, StreamConcat
  <2> QED BY <1>6, <1>9, <2>4
<1>15. ASSUME NEW f \in BOOLEAN PROVE Box(d, {m}, {}, f)
  <2>1. Box(r, {}, {}, f)
    BY <1>7, BoxOther
  <2>2. Box(w, {m}, {}, f)
    BY <1>3, <1>9, BoxOne
  <2>3. Box(r \o w, {} \cup {m}, {} \cup {}, f)
    BY <1>8, <1>10, <2>1, <2>2, BoxConcat
  <2>4. {} \cup {m} = {m} /\ {} \cup {} = {}
    OBVIOUS
  <2> QED BY <1>6, <1>9, <2>3, <2>4
<1> QED BY <1>1, <1>11, <1>12, <1>14, <1>15

\* A signature of a new commitment, sent when nothing else is pending.
LEMMA NewSig ==
    ASSUME IInv, NEW a \in Nodes, NEW c, c = NextCommit(a), pending[a] = none, NEW r, r = <<CommitSig(a, c)>>
    PROVE  /\ r \in Seq(MessageType)
           /\ \A i \in 1 .. Len(r) : r[i].type # "channel_reestablish"
           /\ Stream(r, log[a], Len(log[a]), Len(log[a]), Len(log[a]))
           /\ \A f : Box(r, {CommitSig(a, c)}, {}, f)
<1>1. PICK m : m = CommitSig(a, c)
  OBVIOUS
<1>2. /\ log[a] \in Seq(UpdateType) /\ rlog[a] \in Seq(UpdateType) /\ Len(log[a]) \in Nat
      /\ local[a].their \in Nat /\ local[a].their <= Len(rlog[a]) /\ tail[a].height + 1 \in Nat
      /\ Len(rlog[a]) \in Nat
  BY EndFacts, CommitFacts
<1>3. c.height \in Nat /\ c.own = Len(log[a]) /\ c.their = local[a].their
  BY <1>2 DEF NextCommit, Commit
<1>4. Take(log[a], c.own) \in Seq(UpdateType) /\ Take(rlog[a], c.their) \in Seq(UpdateType)
  <2>1. Len(log[a]) \in 0 .. Len(log[a]) /\ local[a].their \in 0 .. Len(rlog[a])
    BY <1>2
  <2> QED BY <1>2, <1>3, <2>1, TakeFacts
<1>5. m \in MessageType /\ m.type = "commit_sig"
  BY <1>1, <1>3, <1>4, SigMsg
<1>6. r = <<m>>
  BY <1>1
<1>7. r \in Seq(MessageType) /\ \A i \in 1 .. Len(r) : r[i] = m
  BY <1>5, <1>6
<1>8. Stream(<<m>>, log[a], Len(log[a]), Len(log[a]), Len(log[a]))
  BY <1>2, <1>5, StreamOther
<1>9. \A f : Box(<<m>>, {m}, {}, f)
  BY <1>5, BoxOne
<1> QED BY <1>1, <1>5, <1>6, <1>7, <1>8, <1>9

\* The three answers to a reestablishment: the pending commitment again, a new
\* one after the owed revocation, or that revocation alone.
LEMMA ReplyResent ==
    ASSUME IInv, NEW a \in Nodes, NEW b \in Nodes, b = Peer(a), ~ synced[a], SigDue(a), NEW revs,
           revs = IF RevDue(b) THEN <<OwedRevocation(a)>> ELSE <<>>,
           NEW w, w = Resent(a, revs, CommitDiff(a))
    PROVE  /\ w \in Seq(MessageType) /\ At(w, "channel_reestablish") = {}
           /\ Stream(w, log[a], Len(rlog[b]), Len(log[a]), Tip(a).own)
           /\ Box(w, {CommitSig(a, pending[a])},
                  IF RevDue(b) THEN {Revoke(tail[b].height)} ELSE {}, lastWasRevoke[a])
<1>1. PICK d, s, V, f : /\ d = CommitDiff(a) /\ s = CommitSig(a, pending[a]) /\ f = lastWasRevoke[a]
                        /\ V = IF RevDue(b) THEN {Revoke(tail[b].height)} ELSE {}
  OBVIOUS
<1>2. PICK lo, hi : lo = Len(rlog[b]) /\ hi = Len(log[a])
  OBVIOUS
<1>3. pending[a] # none /\ ~ RevDue(a)
  BY ChainFacts DEF SigDue
<1>4. lo \in Nat /\ hi \in Nat /\ f \in BOOLEAN /\ tail[a].own <= Tip(a).own
  BY <1>1, <1>2, EndFacts
<1>5. lo = tail[a].own /\ hi = pending[a].own /\ Tip(a).own = hi /\ lo <= hi /\ hi <= hi
  <2>1. hi = Tip(a).own /\ lo = local[b].their
    BY <1>2 DEF IInv, EndInv, LogInv
  <2>2. local[b].their = tail[a].own /\ Tip(a) = pending[a]
    BY <1>3, ChainFacts
  <2> QED BY <1>4, <2>1, <2>2
<1>6. /\ revs \in Seq(MessageType)
      /\ \A i \in 1 .. Len(revs) : revs[i].type # "channel_reestablish"
      /\ \A x \in Nat : \A own : Stream(revs, log[a], x, x, own)
      /\ Box(revs, {}, V, f)
  BY <1>1, OwedRevs
<1>7. /\ d \in Seq(MessageType)
      /\ \A i \in 1 .. Len(d) : d[i].type # "channel_reestablish"
      /\ Stream(d, log[a], lo, hi, hi) /\ Box(d, {s}, {}, f)
  BY <1>1, <1>3, <1>4, <1>5, OwedDiff
<1>8. /\ Stream(revs, log[a], lo, lo, hi) /\ Stream(revs, log[a], hi, hi, hi)
  BY <1>4, <1>6
<1>9. At(revs, "channel_reestablish") = {} /\ At(d, "channel_reestablish") = {}
  BY <1>6, <1>7 DEF At
<1>10. {} \cup {s} = {s} /\ {s} \cup {} = {s} /\ V \cup {} = V /\ {} \cup V = V
  OBVIOUS
<1>11. CASE f
  <2>1. w = d \o revs
    BY <1>1, <1>11 DEF Resent
  <2>2. w \in Seq(MessageType)
    <3>1. revs \in Seq(MessageType) /\ d \in Seq(MessageType)
      BY <1>6, <1>7
    <3> QED BY <2>1, <3>1, ConcatFacts
  <2>3. At(w, "channel_reestablish") = {}
    <3>1. At(d \o revs, "channel_reestablish") = {}
      BY <1>6, <1>7, <1>9, SyncConcat
    <3> QED BY <2>1, <3>1
  <2>4. Stream(w, log[a], lo, hi, hi)
    BY <1>4, <1>5, <1>6, <1>7, <1>8, <2>1, StreamConcat
  <2>5. Box(d \o revs, {s} \cup {}, {} \cup V, f)
    BY <1>4, <1>6, <1>7, <1>11, BoxConcat
  <2> QED BY <1>1, <1>2, <1>5, <1>10, <2>1, <2>2, <2>3, <2>4, <2>5
<1>12. CASE ~ f
  <2>1. w = revs \o d
    BY <1>1, <1>12 DEF Resent
  <2>2. w \in Seq(MessageType)
    <3>1. revs \in Seq(MessageType) /\ d \in Seq(MessageType)
      BY <1>6, <1>7
    <3> QED BY <2>1, <3>1, ConcatFacts
  <2>3. At(w, "channel_reestablish") = {}
    <3>1. At(revs \o d, "channel_reestablish") = {}
      BY <1>6, <1>7, <1>9, SyncConcat
    <3> QED BY <2>1, <3>1
  <2>4. Stream(w, log[a], lo, hi, hi)
    BY <1>4, <1>5, <1>6, <1>7, <1>8, <2>1, StreamConcat
  <2>5. Box(revs \o d, {} \cup {s}, V \cup {}, f)
    BY <1>4, <1>6, <1>7, <1>12, BoxConcat
  <2> QED BY <1>1, <1>2, <1>5, <1>10, <2>1, <2>2, <2>3, <2>4, <2>5
<1> QED BY <1>11, <1>12

\* Nothing pending: the owed revocation, with a new signature or alone.
LEMMA ReplyOther ==
    ASSUME IInv, NEW a \in Nodes, NEW b \in Nodes, b = Peer(a), ~ synced[a], ~ SigDue(a), NEW revs,
           revs = IF RevDue(b) THEN <<OwedRevocation(a)>> ELSE <<>>
    PROVE  LET V == IF RevDue(b) THEN {Revoke(tail[b].height)} ELSE {}
               w == revs \o <<CommitSig(a, NextCommit(a))>>
           IN  /\ revs \o <<>> \in Seq(MessageType) /\ At(revs \o <<>>, "channel_reestablish") = {}
               /\ Stream(revs \o <<>>, log[a], Len(rlog[b]), Len(log[a]), Tip(a).own)
               /\ Box(revs \o <<>>, {}, V, lastWasRevoke[a])
               /\ pending[a] = none =>
                     /\ w \in Seq(MessageType) /\ At(w, "channel_reestablish") = {}
                     /\ Stream(w, log[a], Len(rlog[b]), Len(log[a]), Len(log[a]))
                     /\ Box(w, {CommitSig(a, NextCommit(a))}, V, FALSE)
<1>1. PICK V, f, c, s, r, v :
        /\ f = lastWasRevoke[a] /\ c = NextCommit(a) /\ s = CommitSig(a, c) /\ r = <<s>>
        /\ V = (IF RevDue(b) THEN {Revoke(tail[b].height)} ELSE {}) /\ v = revs \o <<>>
  OBVIOUS
<1>2. PICK hi : hi = Len(log[a])
  OBVIOUS
<1>3. hi \in Nat /\ hi <= hi
  BY <1>2, EndFacts
<1>4. Len(rlog[b]) = hi
  <2>1. hi = Tip(a).own /\ Len(rlog[b]) = local[b].their
    BY <1>2 DEF IInv, EndInv, LogInv
  <2>2. local[b].their = Tip(a).own
    BY ChainFacts
  <2> QED BY <2>1, <2>2
<1>5. /\ revs \in Seq(MessageType)
      /\ \A i \in 1 .. Len(revs) : revs[i].type # "channel_reestablish"
      /\ \A x \in Nat : \A own : Stream(revs, log[a], x, x, own)
      /\ \A g : Box(revs, {}, V, g)
  BY <1>1, OwedRevs
<1>6. v = revs
  BY <1>1, <1>5, ConcatEmptySeq
<1>7. At(revs, "channel_reestablish") = {}
  BY <1>5 DEF At
<1>8. Stream(revs, log[a], hi, hi, Tip(a).own) /\ Stream(revs, log[a], hi, hi, hi)
  BY <1>3, <1>5
<1>9. ASSUME pending[a] = none
      PROVE  LET w == revs \o r
             IN  /\ w \in Seq(MessageType) /\ At(w, "channel_reestablish") = {}
                 /\ Stream(w, log[a], hi, hi, hi)
                 /\ Box(w, {s}, V, FALSE)
  <2>1. /\ r \in Seq(MessageType)
        /\ \A i \in 1 .. Len(r) : r[i].type # "channel_reestablish"
        /\ Stream(r, log[a], hi, hi, hi)
        /\ Box(r, {s}, {}, FALSE)
    BY <1>1, <1>2, <1>9, NewSig
  <2>2. revs \o r \in Seq(MessageType)
    BY <1>5, <2>1, ConcatFacts
  <2>3. At(revs \o r, "channel_reestablish") = {}
    BY <1>5, <1>7, <2>1, SyncConcat
  <2>4. Stream(revs \o r, log[a], hi, hi, hi)
    BY <1>3, <1>5, <1>8, <2>1, StreamConcat
  <2>5. Box(revs, {}, V, FALSE)
    BY <1>5
  <2>6. Box(revs \o r, {} \cup {s}, V \cup {}, FALSE)
    BY <1>5, <2>1, <2>5, BoxConcat
  <2>7. {} \cup {s} = {s} /\ V \cup {} = V
    OBVIOUS
  <2> QED BY <2>2, <2>3, <2>4, <2>6, <2>7
<1> QED BY <1>1, <1>2, <1>4, <1>5, <1>6, <1>7, <1>8, <1>9

\* An end reestablishes: what its peer lacks is what is due, and nothing else.
LEMMA SyncStep ==
    ASSUME IInv, NEW a \in Nodes, ProcessChanSyncMsg(a)
    PROVE  IInv'
<1>1. PICK b : b = Peer(a) /\ b \in Nodes /\ b # a /\ Peer(b) = a /\ \A m \in Nodes : m = a \/ m = b
  BY PeerFacts
<1>2. PICK revs, sig, c : /\ revs = IF RevDue(b) THEN <<OwedRevocation(a)>> ELSE <<>>
                          /\ c = NextCommit(a) /\ sig = CommitSig(a, c)
  OBVIOUS
<1> DEFINE q == net[a]
           signs == RevDue(b) /\ OweCommitment(a) /\ pending[a] = none
           new == IF signs THEN <<sig>> ELSE <<>>
           V == IF RevDue(b) THEN {Revoke(tail[b].height)} ELSE {}
<1>3. /\ TypeOK /\ NeverFails /\ DownInv /\ EndInv(a) /\ EndInv(b)
  BY <1>1 DEF IInv
<1>4. up /\ ~ synced[a] /\ q # <<>>
  BY DEF ProcessChanSyncMsg
<1>5. /\ q \in Seq(MessageType) /\ net[b] \in Seq(MessageType) /\ Len(log[b]) \in Nat
      /\ Len(rlog[a]) \in Nat /\ Len(log[a]) \in Nat /\ Len(rlog[b]) \in Nat
      /\ lastWasRevoke[a] \in BOOLEAN /\ lastWasRevoke[b] \in BOOLEAN /\ synced[b] \in BOOLEAN
  BY <1>1, EndFacts
<1>6. Tail(q) \in Seq(MessageType) /\ Head(q) = q[1]
  BY <1>4, <1>5, TailFacts
<1>7. /\ local[a].height \in Nat /\ tail[a].height \in Nat
      /\ local[b].height \in Nat /\ tail[b].height \in Nat
  BY <1>1, EndFacts, CommitFacts
<1>8. /\ Head(q).type = "channel_reestablish"
      /\ Head(q).next = local[b].height + 1 /\ Head(q).tail = tail[b].height
  <2>1. q[1] = Reestablish(b)
    BY <1>1, <1>3, <1>4 DEF EndInv, SyncInv
  <2> QED BY <1>6, <1>7, <2>1, SyncMsg
<1>9. local[a].height = IF RevDue(b) THEN tail[b].height + 1 ELSE tail[b].height
  BY <1>1, ChainFacts
<1>10. /\ Tip(a).height = IF pending[a] = none THEN tail[a].height ELSE tail[a].height + 1
       /\ local[b].height = IF RevDue(a) THEN tail[a].height + 1 ELSE tail[a].height
       /\ RevDue(a) => pending[a] # none
       /\ SigDue(a) <=> pending[a] # none /\ ~ RevDue(a)
  BY <1>1, ChainFacts
<1>11. SyncError(a, Head(q)) = none
  <2>1. ~ (Head(q).tail > local[a].height) /\ ~ (Head(q).tail + 1 < local[a].height)
    BY <1>7, <1>8, <1>9
  <2>2. ~ (Head(q).next > Tip(a).height + 1) /\ ~ (Head(q).next <= tail[a].height)
    BY <1>7, <1>8, <1>10
  <2> QED BY <2>1, <2>2 DEF SyncError
<1>12. Head(q).tail + 1 = local[a].height <=> RevDue(b)
  BY <1>7, <1>8, <1>9
<1>13. Head(q).next = Tip(a).height <=> SigDue(a)
  BY <1>7, <1>8, <1>10
<1>14. PICK w : w = IF SigDue(a) THEN Resent(a, revs, CommitDiff(a)) ELSE revs \o new
  OBVIOUS
<1>15. /\ synced' = [synced EXCEPT ![a] = TRUE]
       /\ net' = [net EXCEPT ![a] = Tail(@), ![b] = @ \o w]
       /\ IF signs
          THEN /\ pending' = [pending EXCEPT ![a] = c]
               /\ lastWasRevoke' = [lastWasRevoke EXCEPT ![a] = FALSE]
          ELSE pending' = pending /\ lastWasRevoke' = lastWasRevoke
       /\ log' = log /\ rlog' = rlog /\ local' = local /\ tail' = tail /\ fwd' = fwd
       /\ mustSign' = mustSign /\ up' = up /\ drops' = drops /\ failed' = failed
  BY <1>1, <1>2, <1>11, <1>12, <1>13, <1>14 DEF ProcessChanSyncMsg, Reply
<1> HIDE DEF V
<1>16. /\ pending' \in [Nodes -> CommitType \cup {none}] /\ pending'[b] = pending[b]
       /\ lastWasRevoke' \in [Nodes -> BOOLEAN] /\ lastWasRevoke'[b] = lastWasRevoke[b]
       /\ Tip(b)' = Tip(b) /\ Tip(a)'.own <= Len(log[a]) /\ Tip(a)'.their <= local[a].their
       /\ RevDue(b)' = RevDue(b) /\ SigDue(b)' = SigDue(b)
       /\ (RevDue(a)' <=> RevDue(a))
       /\ ChainInv(a)' /\ ChainInv(b)' /\ UpdateInv(a)' /\ UpdateInv(b)'
       /\ ForwardInv(a)' /\ ForwardInv(b)'
  <2>1. CASE signs
    <3>1. /\ pending' = [pending EXCEPT ![a] = NextCommit(a)] /\ pending[a] = none
          /\ lastWasRevoke' = [lastWasRevoke EXCEPT ![a] = FALSE]
      BY <1>2, <1>15, <2>1
    <3>2. /\ Len(log[a]) <= Len(log[a]) /\ local[a].their <= local[a].their
      BY <1>5, EndFacts, CommitFacts
    <3>3. log' = log /\ rlog' = rlog /\ local' = local /\ tail' = tail /\ fwd' = fwd
      BY <1>15
    <3> QED BY <1>1, <3>1, <3>2, <3>3, SignChain
  <2>2. CASE ~ signs
    <3>1. pending' = pending /\ lastWasRevoke' = lastWasRevoke
      BY <1>15, <2>2
    <3>2. Tip(a)' = Tip(a) /\ Tip(b)' = Tip(b)
      BY <1>15, <3>1 DEF Tip
    <3>3. Tip(a).own <= Len(log[a]) /\ Tip(a).their <= local[a].their
      BY EndFacts
    <3>4. /\ RevDue(b)' = RevDue(b) /\ SigDue(b)' = SigDue(b) /\ RevDue(a)' = RevDue(a)
      BY <1>15, <3>1 DEF RevDue, SigDue
    <3>5. ChainInv(a)' /\ ChainInv(b)'
      BY <1>3, <1>15, <3>1 DEF EndInv, ChainInv, SigDue, RevDue, Mirrors
    <3>6. UpdateInv(a)' /\ UpdateInv(b)' /\ ForwardInv(a)' /\ ForwardInv(b)'
      BY <1>3, <1>15 DEF EndInv, UpdateInv, ForwardInv
    <3> QED BY <1>3, <3>1, <3>2, <3>3, <3>4, <3>5, <3>6 DEF TypeOK
  <2> QED BY <2>1, <2>2
<1>17. synced'[a] /\ synced'[b] = synced[b] /\ synced' \in [Nodes -> BOOLEAN]
  BY <1>1, <1>3, <1>15 DEF TypeOK
<1>18. RevsDue(a)' = V /\ RevsDue(a) = {} /\ SigsDue(a) = {}
  BY <1>1, <1>4, <1>15, <1>16, <1>17 DEF RevsDue, SigsDue, V
<1>19. /\ w \in Seq(MessageType) /\ At(w, "channel_reestablish") = {}
       /\ Stream(w, log[a], Len(rlog[b]), Len(log[a]), Tip(a)'.own)
       /\ Box(w, SigsDue(a)', V, lastWasRevoke'[a])
  <2>1. CASE SigDue(a)
    <3>1. pending[a] # none /\ w = Resent(a, revs, CommitDiff(a))
      BY <1>10, <1>14, <2>1
    <3>2. pending' = pending /\ lastWasRevoke' = lastWasRevoke
      BY <1>15, <3>1
    <3>3. Tip(a)' = Tip(a)
      BY <1>15, <3>2 DEF Tip
    <3>4. SigsDue(a)' = {CommitSig(a, pending[a])}
      BY <1>1, <1>15, <1>17, <2>1, <3>2 DEF SigsDue, SigDue, CommitSig
    <3> QED BY <1>1, <1>2, <1>4, <2>1, <3>1, <3>2, <3>3, <3>4, ReplyResent DEF V
  <2>2. CASE ~ SigDue(a) /\ ~ signs
    <3>1. w = revs \o <<>>
      BY <1>14, <2>2
    <3>2. pending' = pending /\ lastWasRevoke' = lastWasRevoke
      BY <1>15, <2>2
    <3>3. Tip(a)' = Tip(a)
      BY <1>15, <3>2 DEF Tip
    <3>4. SigsDue(a)' = {}
      BY <1>1, <1>15, <2>2, <3>2 DEF SigsDue, SigDue
    <3>5. /\ revs \o <<>> \in Seq(MessageType) /\ At(revs \o <<>>, "channel_reestablish") = {}
          /\ Stream(revs \o <<>>, log[a], Len(rlog[b]), Len(log[a]), Tip(a).own)
          /\ Box(revs \o <<>>, {}, V, lastWasRevoke[a])
      BY <1>1, <1>2, <1>4, <2>2, ReplyOther DEF V
    <3> QED BY <3>1, <3>2, <3>3, <3>4, <3>5
  <2>3. CASE ~ SigDue(a) /\ signs
    <3>1. w = revs \o <<sig>>
      BY <1>14, <2>3
    <3>2. /\ pending' = [pending EXCEPT ![a] = NextCommit(a)] /\ pending[a] = none
          /\ lastWasRevoke' = [lastWasRevoke EXCEPT ![a] = FALSE]
      BY <1>2, <1>15, <2>3
    <3>3. /\ pending'[a] = c /\ lastWasRevoke'[a] = FALSE /\ Tip(a)'.own = Len(log[a]) /\ SigDue(a)'
      BY <1>1, <1>2, <1>15, <3>2, SignChain
    <3>4. SigsDue(a)' = {sig}
      BY <1>2, <1>15, <1>17, <3>3 DEF SigsDue, CommitSig
    <3>5. /\ revs \o <<sig>> \in Seq(MessageType) /\ At(revs \o <<sig>>, "channel_reestablish") = {}
          /\ Stream(revs \o <<sig>>, log[a], Len(rlog[b]), Len(log[a]), Len(log[a]))
          /\ Box(revs \o <<sig>>, {sig}, V, FALSE)
      BY <1>1, <1>2, <1>4, <2>3, ReplyOther DEF V
    <3> QED BY <3>1, <3>3, <3>4, <3>5
  <2> QED BY <2>1, <2>2, <2>3
<1> HIDE DEF signs, new
<1>20. net[b] \o w \in Seq(MessageType)
  BY <1>5, <1>19, ConcatFacts
<1>21. net'[a] = Tail(q) /\ net'[b] = net[b] \o w
  BY <1>1, <1>3, <1>15 DEF TypeOK
<1>22. TypeOK'
  <2>1. net' \in [Nodes -> Seq(MessageType)]
    BY <1>1, <1>3, <1>6, <1>15, <1>20, <1>21 DEF TypeOK
  <2>2. /\ local'[a].own <= tail'[a].own /\ Tip(a)'.own <= Len(log'[a])
        /\ Tip(a)'.their <= local'[a].their /\ local'[a].their <= Len(rlog'[a])
    BY <1>15, <1>16, EndFacts
  <2>3. /\ local'[b].own <= tail'[b].own /\ Tip(b)'.own <= Len(log'[b])
        /\ Tip(b)'.their <= local'[b].their /\ local'[b].their <= Len(rlog'[b])
    BY <1>1, <1>15, <1>16, EndFacts
  <2> QED BY <1>1, <1>3, <1>15, <1>16, <1>17, <2>1, <2>2, <2>3 DEF TypeOK
<1>23. NeverFails' /\ DownInv'
  BY <1>3, <1>4, <1>15 DEF NeverFails, DownInv
<1>24. LogInv(a)' /\ LogInv(b)'
  BY <1>1, <1>3, <1>15, <1>16, <1>17 DEF EndInv, LogInv
<1>25. StreamInv(a)' /\ StreamInv(b)'
  <2>1. /\ Stream(net[b], log[a], Len(rlog[b]), Len(rlog[b]), Tip(a).own)
        /\ At(net[b], "commit_sig") = {}
    <3>1. Box(net[b], {}, {}, lastWasRevoke[a])
      BY <1>1, <1>3, <1>18 DEF EndInv, BoxInv
    <3>2. Stream(net[b], log[a], Len(rlog[b]), Len(rlog[b]), Tip(a).own)
      BY <1>1, <1>3, <1>4 DEF EndInv, StreamInv
    <3> QED BY <3>1, <3>2 DEF Box
  <2>2. Stream(net[b], log[a], Len(rlog[b]), Len(rlog[b]), Tip(a)'.own)
    <3>1. PICK own : own = Tip(a)'.own
      OBVIOUS
    <3>2. Stream(net[b], log[a], Len(rlog[b]), Len(rlog[b]), own)
      BY <1>5, <2>1, StreamChange
    <3> QED BY <3>1, <3>2
  <2>3. Stream(net[b] \o w, log[a], Len(rlog[b]), Len(log[a]), Tip(a)'.own)
    <3>1. Len(rlog[b]) <= Len(log[a])
      BY <1>1, <1>3 DEF EndInv, LogInv
    <3> QED BY <1>5, <1>19, <2>2, <3>1, StreamConcat
  <2>4. StreamInv(a)'
    BY <1>1, <1>15, <1>17, <1>21, <2>3 DEF StreamInv
  <2> DEFINE hi == IF synced[b] THEN Len(log[b]) ELSE Len(rlog[a])
  <2>5. Stream(q, log[b], Len(rlog[a]), hi, Tip(b).own)
    BY <1>1, <1>3 DEF EndInv, StreamInv
  <2>6. hi \in Nat
    BY <1>5
  <2> HIDE DEF hi
  <2>7. q[1].type # "update" /\ q # <<>>
    BY <1>4, <1>6, <1>8
  <2>8. Stream(Tail(q), log[b], Len(rlog[a]), hi, Tip(b).own)
    BY <1>5, <2>5, <2>6, <2>7, StreamTail
  <2>9. StreamInv(b)'
    BY <1>1, <1>15, <1>16, <1>17, <1>21, <2>8 DEF StreamInv, hi
  <2> QED BY <2>4, <2>9
<1>26. BoxInv(a)' /\ BoxInv(b)'
  <2>1. PICK S, f : S = SigsDue(a)' /\ f = lastWasRevoke'[a]
    OBVIOUS
  <2>2. f \in BOOLEAN
    BY <1>16, <2>1
  <2>3. Box(net[b], {}, {}, f)
    <3>1. Box(net[b], {}, {}, lastWasRevoke[a])
      BY <1>1, <1>3, <1>18 DEF EndInv, BoxInv
    <3> QED BY <3>1, BoxOrder
  <2>4. Box(net[b] \o w, {} \cup S, {} \cup V, f)
    <3>1. Box(w, S, V, f) /\ w \in Seq(MessageType) /\ net[b] \in Seq(MessageType)
      BY <1>5, <1>19, <2>1
    <3> QED BY <2>2, <2>3, <3>1, BoxConcat
  <2>5. {} \cup S = S /\ {} \cup V = V
    OBVIOUS
  <2>6. BoxInv(a)'
    BY <1>1, <1>18, <1>21, <2>1, <2>4, <2>5 DEF BoxInv
  <2>7. SigsDue(b)' = SigsDue(b) /\ RevsDue(b)' = RevsDue(b)
    BY <1>1, <1>15, <1>16, <1>17 DEF SigsDue, RevsDue, CommitSig
  <2>8. Box(q, SigsDue(b), RevsDue(b), lastWasRevoke[b])
    BY <1>1, <1>3 DEF EndInv, BoxInv
  <2>9. q[1].type \notin {"commit_sig", "revoke_and_ack"} /\ q # <<>>
    BY <1>4, <1>6, <1>8
  <2>10. Box(Tail(q), SigsDue(b), RevsDue(b), lastWasRevoke[b])
    BY <1>5, <2>8, <2>9, BoxTail
  <2>11. BoxInv(b)'
    BY <1>1, <1>16, <1>21, <2>7, <2>10 DEF BoxInv
  <2> QED BY <2>6, <2>11
<1>27. SyncInv(a)' /\ SyncInv(b)'
  <2>1. \A i \in At(q, "channel_reestablish") : i = 1
    BY <1>1, <1>3 DEF EndInv, SyncInv
  <2>2. At(Tail(q), "channel_reestablish") = {}
    BY <1>4, <1>5, <2>1, SyncTail
  <2>3. SyncInv(b)'
    BY <1>1, <1>3, <1>15, <1>17, <1>21, <2>2 DEF EndInv, SyncInv
  <2>4. \A i \in 1 .. Len(w) : w[i].type # "channel_reestablish"
    BY <1>19 DEF At
  <2>5. /\ At(net[b] \o w, "channel_reestablish") = At(net[b], "channel_reestablish")
        /\ net[b] # <<>> => net[b] \o w # <<>> /\ (net[b] \o w)[1] = net[b][1]
    BY <1>5, <1>19, <2>4, SyncConcat
  <2>6. SyncInv(a)'
    <3>1. SyncInv(a)
      BY <1>3 DEF EndInv
    <3>2. /\ net'[b] = net[b] \o w /\ up' = up /\ mustSign' = mustSign
          /\ synced'[b] = synced[b] /\ synced'[a] /\ local' = local /\ tail' = tail
      BY <1>15, <1>17, <1>21
    <3>3. Reestablish(a)' = Reestablish(a)
      BY <3>2 DEF Reestablish
    <3> QED BY <1>1, <2>5, <3>1, <3>2, <3>3 DEF SyncInv
  <2> QED BY <2>3, <2>6
<1> QED BY <1>1, <1>16, <1>22, <1>23, <1>24, <1>25, <1>26, <1>27 DEF IInv, EndInv
-----------------------------------------------------------------------------
\* The connection drops: both ends keep what their commitments cover.
LEMMA DropStep ==
    ASSUME IInv, Disconnect
    PROVE  IInv'
<1>1. /\ TypeOK /\ NeverFails
  BY DEF IInv
<1>2. /\ log' = [n \in Nodes |-> Take(log[n], Tip(n).own)]
      /\ rlog' = [n \in Nodes |-> Take(rlog[n], local[n].their)]
      /\ mustSign' = [n \in Nodes |-> FALSE] /\ synced' = [n \in Nodes |-> FALSE]
      /\ net' = [n \in Nodes |-> <<>>] /\ up' = FALSE /\ drops' = drops + 1 /\ drops < MaxDrops
      /\ local' = local /\ tail' = tail /\ pending' = pending /\ lastWasRevoke' = lastWasRevoke
      /\ fwd' = fwd /\ failed' = failed
  BY DEF Disconnect, Restart, disk
<1>3. ASSUME NEW n \in Nodes
      PROVE  /\ log'[n] = Take(log[n], Tip(n).own) /\ rlog'[n] = Take(rlog[n], local[n].their)
             /\ log'[n] \in Seq(UpdateType) /\ Len(log'[n]) = Tip(n).own /\ Tip(n).own \in Nat
             /\ \A i \in 1 .. Tip(n).own : log'[n][i] = log[n][i]
             /\ rlog'[n] \in Seq(UpdateType) /\ Len(rlog'[n]) = local[n].their /\ local[n].their \in Nat
             /\ \A i \in 1 .. local[n].their : rlog'[n][i] = rlog[n][i]
             /\ Tip(n).own <= Len(log[n]) /\ local[n].their <= Len(rlog[n])
             /\ log[n] \in Seq(UpdateType) /\ rlog[n] \in Seq(UpdateType)
             /\ Len(log[n]) \in Nat /\ Len(rlog[n]) \in Nat
             /\ net'[n] = <<>> /\ ~ synced'[n] /\ ~ mustSign'[n] /\ Tip(n)' = Tip(n)
  <2>1. /\ log[n] \in Seq(UpdateType) /\ rlog[n] \in Seq(UpdateType)
        /\ Len(log[n]) \in Nat /\ Len(rlog[n]) \in Nat /\ Tip(n).own \in Nat /\ local[n].their \in Nat
        /\ Tip(n).own <= Len(log[n]) /\ local[n].their <= Len(rlog[n])
    BY EndFacts, CommitFacts
  <2>2. Tip(n).own \in 0 .. Len(log[n]) /\ local[n].their \in 0 .. Len(rlog[n])
    BY <2>1
  <2>3. log'[n] = Take(log[n], Tip(n).own) /\ rlog'[n] = Take(rlog[n], local[n].their)
    BY <1>2
  <2>4. /\ log'[n] \in Seq(UpdateType) /\ Len(log'[n]) = Tip(n).own
        /\ \A i \in 1 .. Tip(n).own : log'[n][i] = log[n][i]
    <3>1. PICK s, k : s = log[n] /\ k = Tip(n).own
      OBVIOUS
    <3>2. s \in Seq(UpdateType) /\ k \in 0 .. Len(s)
      BY <2>1, <2>2, <3>1
    <3>3. /\ Take(s, k) \in Seq(UpdateType) /\ Len(Take(s, k)) = k
          /\ \A i \in 1 .. k : Take(s, k)[i] = s[i]
      BY <3>2, TakeFacts
    <3> QED BY <2>3, <3>1, <3>3
  <2>5. /\ rlog'[n] \in Seq(UpdateType) /\ Len(rlog'[n]) = local[n].their
        /\ \A i \in 1 .. local[n].their : rlog'[n][i] = rlog[n][i]
    <3>1. PICK s, k : s = rlog[n] /\ k = local[n].their
      OBVIOUS
    <3>2. s \in Seq(UpdateType) /\ k \in 0 .. Len(s)
      BY <2>1, <2>2, <3>1
    <3>3. /\ Take(s, k) \in Seq(UpdateType) /\ Len(Take(s, k)) = k
          /\ \A i \in 1 .. k : Take(s, k)[i] = s[i]
      BY <3>2, TakeFacts
    <3> QED BY <2>3, <3>1, <3>3
  <2>6. net'[n] = <<>> /\ ~ synced'[n] /\ ~ mustSign'[n] /\ Tip(n)' = Tip(n)
    BY <1>2 DEF Tip
  <2> QED BY <2>1, <2>3, <2>4, <2>5, <2>6
<1>4. TypeOK'
  <2>1. log' \in [Nodes -> Seq(UpdateType)] /\ rlog' \in [Nodes -> Seq(UpdateType)]
    BY <1>2, <1>3
  <2>2. mustSign' \in [Nodes -> BOOLEAN] /\ synced' \in [Nodes -> BOOLEAN]
        /\ net' \in [Nodes -> Seq(MessageType)]
    BY <1>2
  <2>3. up' \in BOOLEAN /\ drops' \in 0 .. MaxDrops
    <3>1. drops \in 0 .. MaxDrops /\ MaxDrops \in Nat
      BY <1>1, BoundsAssumption DEF TypeOK
    <3>2. drops + 1 \in 0 .. MaxDrops
      BY <1>2, <3>1
    <3> QED BY <1>2, <3>2
  <2>4. ASSUME NEW n \in Nodes
        PROVE  /\ local'[n].own <= tail'[n].own /\ Tip(n)'.own <= Len(log'[n])
               /\ Tip(n)'.their <= local'[n].their /\ local'[n].their <= Len(rlog'[n])
    <3>1. Tip(n).own <= Tip(n).own /\ local[n].their <= local[n].their
      BY <1>3
    <3> QED BY <1>2, <1>3, <3>1, EndFacts
  <2> QED BY <1>1, <1>2, <2>1, <2>2, <2>3, <2>4 DEF TypeOK
<1>5. NeverFails' /\ DownInv'
  BY <1>1, <1>2, <1>3 DEF NeverFails, DownInv
<1>6. ASSUME NEW a \in Nodes PROVE EndInv(a)'
  <2>1. PICK b : b = Peer(a) /\ b \in Nodes /\ Peer(b) = a
    BY PeerFacts
  <2>2. EndInv(a)
    BY DEF IInv
  <2>3. ChainInv(a)'
    BY <1>2, <2>2 DEF EndInv, ChainInv, SigDue, RevDue, Mirrors
  <2>4. local[b].their <= Tip(a).own
    BY <2>1, ChainFacts
  <2>5. LogInv(a)'
    <3>1. \A i \in 1 .. Len(rlog[b]) : rlog[b][i] = log[a][i]
      BY <2>1, <2>2 DEF EndInv, LogInv
    <3>2. \A i \in 1 .. local[b].their : i \in 1 .. Len(rlog[b]) /\ i \in 1 .. Tip(a).own
      BY <1>3, <2>1, <2>4
    <3>3. \A i \in 1 .. local[b].their : rlog'[b][i] = log'[a][i]
      BY <1>3, <2>1, <3>1, <3>2
    <3> QED BY <1>2, <1>3, <2>1, <2>4, <3>3 DEF LogInv
  <2>6. UpdateInv(a)'
    <3>1. ASSUME NEW k \in 1 .. Len(log'[a])
          PROVE  k \in 1 .. Len(log[a]) /\ log'[a][k] = log[a][k]
                 /\ Take(log'[a], k - 1) = Take(log[a], k - 1)
      <4>1. k \in 1 .. Len(log[a]) /\ k \in 1 .. Tip(a).own
        BY <1>3
      <4>2. k - 1 \in 0 .. Len(log'[a]) /\ k - 1 <= Len(log[a])
            /\ \A i \in 1 .. k - 1 : i \in 1 .. Tip(a).own
        BY <1>3, <4>1
      <4>3. \A i \in 1 .. k - 1 : log'[a][i] = log[a][i]
        BY <1>3, <4>2
      <4>4. Take(log'[a], k - 1) = Take(log[a], k - 1)
        <5>1. PICK s, t, j : s = log'[a] /\ t = log[a] /\ j = k - 1
          OBVIOUS
        <5>2. s \in Seq(UpdateType) /\ t \in Seq(UpdateType)
          BY <1>3, <5>1
        <5>3. j \in 0 .. Len(s) /\ j <= Len(t) /\ \A i \in 1 .. j : s[i] = t[i]
          BY <4>2, <4>3, <5>1
        <5>4. Take(s, j) = Take(t, j)
          BY <5>2, <5>3, TakeAgree
        <5> QED BY <5>1, <5>4
      <4> QED BY <1>3, <4>1, <4>4
    <3>2. UpdateInv(a)
      BY <2>2 DEF EndInv
    <3> QED BY <1>2, <3>1, <3>2 DEF UpdateInv
  <2>7. StreamInv(a)'
    <3>1. Stream(<<>>, log'[a], local[b].their, local[b].their, Tip(a)'.own)
      BY <1>3, <2>1, StreamEmpty
    <3> QED BY <1>3, <2>1, <3>1 DEF StreamInv
  <2>8. BoxInv(a)'
    <3>1. SigsDue(a)' = {} /\ RevsDue(a)' = {}
      BY <1>3 DEF SigsDue, RevsDue
    <3>2. Len(<<>>) = 0 /\ 1 .. 0 = {}
      OBVIOUS
    <3>3. Box(<<>>, {}, {}, lastWasRevoke'[a])
      BY <3>2, BoxOther
    <3> QED BY <1>3, <2>1, <3>1, <3>3 DEF BoxInv
  <2>9. SyncInv(a)'
    <3>1. Len(<<>>) = 0 /\ 1 .. 0 = {}
      OBVIOUS
    <3> QED BY <1>2, <1>3, <2>1, <3>1 DEF SyncInv, At
  <2>10. ForwardInv(a)'
    <3>1. tail[a].their \in Nat /\ Tip(a).their \in Nat
          /\ tail[a].their <= Tip(a).their /\ Tip(a).their <= local[a].their
      BY EndFacts, CommitFacts
    <3>2. /\ tail[a].their \in 0 .. Len(rlog'[a]) /\ tail[a].their <= Len(rlog[a])
          /\ \A i \in 1 .. tail[a].their : i \in 1 .. local[a].their
      BY <1>3, <3>1
    <3>3. \A i \in 1 .. tail[a].their : rlog'[a][i] = rlog[a][i]
      BY <1>3, <3>2
    <3>4. Take(rlog'[a], tail[a].their) = Take(rlog[a], tail[a].their)
      <4>1. PICK s, t, k : s = rlog'[a] /\ t = rlog[a] /\ k = tail[a].their
        OBVIOUS
      <4>2. s \in Seq(UpdateType) /\ t \in Seq(UpdateType)
        BY <1>3, <4>1
      <4>3. k \in 0 .. Len(s) /\ k <= Len(t) /\ \A i \in 1 .. k : s[i] = t[i]
        BY <3>2, <3>3, <4>1
      <4>4. Take(s, k) = Take(t, k)
        BY <4>2, <4>3, TakeAgree
      <4> QED BY <4>1, <4>4
    <3> QED BY <1>2, <2>2, <3>4 DEF EndInv, ForwardInv
  <2> QED BY <2>3, <2>5, <2>6, <2>7, <2>8, <2>9, <2>10 DEF EndInv
<1> QED BY <1>4, <1>5, <1>6 DEF IInv

\* The ends connect again, each with its reestablishment first.
LEMMA ReconnectStep ==
    ASSUME IInv, Reconnect
    PROVE  IInv'
<1>1. TypeOK /\ NeverFails /\ DownInv
  BY DEF IInv
<1>2. /\ ~ up /\ up' = TRUE /\ net' = [n \in Nodes |-> <<Reestablish(Peer(n))>>]
      /\ log' = log /\ rlog' = rlog /\ local' = local /\ tail' = tail /\ pending' = pending
      /\ lastWasRevoke' = lastWasRevoke /\ fwd' = fwd /\ failed' = failed
      /\ mustSign' = mustSign /\ synced' = synced /\ drops' = drops
  BY DEF Reconnect, disk
<1>3. \A n \in Nodes : Reestablish(n) \in MessageType /\ Reestablish(n).type = "channel_reestablish"
  <2> SUFFICES ASSUME NEW n \in Nodes
               PROVE  Reestablish(n) \in MessageType /\ Reestablish(n).type = "channel_reestablish"
    OBVIOUS
  <2>1. local[n].height \in Nat /\ tail[n].height \in Nat
    BY EndFacts, CommitFacts
  <2> QED BY <2>1, SyncMsg
<1>4. net' \in [Nodes -> Seq(MessageType)]
  <2>1. \A n \in Nodes : Reestablish(Peer(n)) \in MessageType
    BY <1>3, PeerFacts
  <2>2. \A m \in MessageType : <<m>> \in Seq(MessageType)
    OBVIOUS
  <2> QED BY <1>2, <2>1, <2>2
<1>5. \A n \in Nodes : Tip(n)' = Tip(n)
  BY <1>2 DEF Tip
<1>6. TypeOK'
  BY <1>1, <1>2, <1>4, <1>5 DEF TypeOK
<1>7. NeverFails' /\ DownInv'
  BY <1>1, <1>2 DEF NeverFails, DownInv
<1>8. ASSUME NEW a \in Nodes PROVE EndInv(a)'
  <2>1. PICK b : b = Peer(a) /\ b \in Nodes /\ Peer(b) = a
    BY PeerFacts
  <2>2. EndInv(a)
    BY DEF IInv
  <2>3. PICK m, q : m = Reestablish(a) /\ q = <<m>>
    OBVIOUS
  <2>4. net'[b] = q /\ m.type = "channel_reestablish" /\ m = Reestablish(a)'
    BY <1>2, <1>3, <2>1, <2>3 DEF Reestablish
  <2>5. Len(q) = 1 /\ q[1] = m /\ q # <<>> /\ \A i \in 1 .. Len(q) : i = 1
    BY <2>3
  <2>6. ~ synced[a] /\ ~ synced[b]
    BY <1>1, <1>2, <2>1 DEF DownInv
  <2>7. ChainInv(a)'
    BY <1>2, <2>2 DEF EndInv, ChainInv, SigDue, RevDue, Mirrors
  <2>8. LogInv(a)' /\ UpdateInv(a)' /\ ForwardInv(a)'
    BY <1>2, <1>5, <2>2 DEF EndInv, LogInv, UpdateInv, ForwardInv
  <2>9. StreamInv(a)'
    <3>1. Len(rlog[b]) \in Nat
      BY <2>1, EndFacts
    <3>2. Stream(<<m>>, log[a], Len(rlog[b]), Len(rlog[b]), Tip(a).own)
      BY <2>4, <3>1, StreamOther
    <3> QED BY <1>2, <1>5, <2>1, <2>3, <2>4, <2>6, <3>2 DEF StreamInv
  <2>10. BoxInv(a)'
    <3>1. SigsDue(a)' = {} /\ RevsDue(a)' = {}
      BY <1>2, <2>6 DEF SigsDue, RevsDue
    <3>2. Box(<<m>>, {}, {}, lastWasRevoke'[a])
      BY <2>4, BoxOne
    <3> QED BY <2>1, <2>3, <2>4, <3>1, <3>2 DEF BoxInv
  <2>11. SyncInv(a)'
    <3>1. mustSign[a] => synced[a]
      BY <2>2 DEF EndInv, SyncInv
    <3>2. \A i \in At(q, "channel_reestablish") : i = 1
      BY <2>5 DEF At
    <3> QED BY <1>2, <2>1, <2>4, <2>5, <2>6, <3>1, <3>2 DEF SyncInv
  <2> QED BY <2>7, <2>8, <2>9, <2>10, <2>11 DEF EndInv
<1> QED BY <1>6, <1>7, <1>8 DEF IInv
-----------------------------------------------------------------------------
\* The number of HTLCs of a log is a number.
LEMMA CounterType ==
    ASSUME NEW s, Len(s) \in Nat PROVE htlcCounter(s) \in Nat
<1>1. IsFiniteSet(1 .. Len(s))
  BY FS_Interval
<1>2. IsFiniteSet({i \in 1 .. Len(s) : s[i].kind = "add"})
  BY <1>1, FS_Subset
<1> QED BY <1>2, FS_CardinalityType DEF htlcCounter

\* An empty channel is in step.
LEMMA InitInv == Init => IInv
<1> SUFFICES ASSUME Init PROVE IInv
  OBVIOUS
<1>1. PICK c : c = Commit(0, 0, 0)
  OBVIOUS
<1>2. c \in CommitType /\ c.height = 0 /\ c.own = 0 /\ c.their = 0
  BY <1>1, CommitMade
<1>3. ASSUME NEW n \in Nodes
      PROVE  /\ log[n] = <<>> /\ rlog[n] = <<>> /\ local[n] = c /\ tail[n] = c
             /\ pending[n] = none /\ fwd[n] = <<>> /\ ~ mustSign[n] /\ synced[n]
             /\ net[n] = <<>> /\ failed[n] = none /\ Tip(n) = c
  BY <1>1 DEF Init, Tip
<1>4. /\ Len(<<>>) = 0 /\ 1 .. 0 = {} /\ <<>> \in Seq(UpdateType) /\ <<>> \in Seq(MessageType)
  OBVIOUS
<1>5. TypeOK
  <2>1. /\ log \in [Nodes -> Seq(UpdateType)] /\ rlog \in [Nodes -> Seq(UpdateType)]
        /\ fwd \in [Nodes -> Seq(UpdateType)] /\ net \in [Nodes -> Seq(MessageType)]
    BY <1>4 DEF Init
  <2>2. /\ local \in [Nodes -> CommitType] /\ tail \in [Nodes -> CommitType]
        /\ pending \in [Nodes -> CommitType \cup {none}]
    BY <1>1, <1>2 DEF Init
  <2>3. /\ lastWasRevoke \in [Nodes -> BOOLEAN] /\ mustSign \in [Nodes -> BOOLEAN]
        /\ synced \in [Nodes -> BOOLEAN] /\ up \in BOOLEAN /\ DOMAIN failed = Nodes
    BY DEF Init
  <2>4. drops \in 0 .. MaxDrops
    BY BoundsAssumption DEF Init
  <2>5. ASSUME NEW n \in Nodes
        PROVE  /\ local[n].own <= tail[n].own /\ Tip(n).own <= Len(log[n])
               /\ Tip(n).their <= local[n].their /\ local[n].their <= Len(rlog[n])
    BY <1>2, <1>3, <1>4
  <2> QED BY <2>1, <2>2, <2>3, <2>4, <2>5 DEF TypeOK
<1>6. NeverFails /\ DownInv
  BY <1>3 DEF NeverFails, DownInv, Init
<1>7. ASSUME NEW a \in Nodes PROVE EndInv(a)
  <2>1. PICK b : b = Peer(a) /\ b \in Nodes
    BY PeerFacts
  <2>2. ~ SigDue(a) /\ ~ RevDue(a) /\ ~ RevDue(b)
    BY <1>3, <2>1 DEF SigDue, RevDue
  <2>3. ChainInv(a)
    BY <1>2, <1>3, <2>1, <2>2 DEF ChainInv, Mirrors
  <2>4. LogInv(a) /\ UpdateInv(a)
    BY <1>3, <1>4, <2>1 DEF LogInv, UpdateInv
  <2>5. StreamInv(a)
    <3>1. Stream(<<>>, log[a], 0, 0, Tip(a).own)
      BY StreamEmpty
    <3> QED BY <1>3, <1>4, <2>1, <3>1 DEF StreamInv
  <2>6. BoxInv(a)
    <3>1. SigsDue(a) = {} /\ RevsDue(a) = {}
      BY <2>1, <2>2 DEF SigsDue, RevsDue
    <3>2. Box(<<>>, {}, {}, lastWasRevoke[a])
      BY <1>4, BoxOther
    <3> QED BY <1>3, <2>1, <3>1, <3>2 DEF BoxInv
  <2>7. SyncInv(a)
    BY <1>3, <1>4, <2>1 DEF SyncInv, At
  <2>8. ForwardInv(a)
    <3>1. Take(<<>>, 0) = <<>>
      BY <1>4, TakeAll
    <3>2. Forwarded(<<>>) = <<>>
      BY <1>4, ForwardedKept
    <3> QED BY <1>2, <1>3, <3>1, <3>2 DEF ForwardInv
  <2> QED BY <2>3, <2>4, <2>5, <2>6, <2>7, <2>8 DEF EndInv
<1> QED BY <1>5, <1>6, <1>7 DEF IInv

\* The switch, the registry or the fee estimator asks for an update: it is
\* valid, and its handler may go on to sign.
LEMMA RequestStep ==
    ASSUME IInv, NEW a \in Nodes, Request(a)
    PROVE  IInv'
<1>1. Len(log[a]) \in Nat /\ Tip(a) \in CommitType
  BY EndFacts
<1>2. ASSUME NEW p \in Payloads, AddHTLC(a, p) PROVE IInv'
  <2>1. PICK u, now : /\ u = [kind |-> "add", id |-> htlcCounter(log[a]), payload |-> p]
                      /\ now = (NumPendingUpdates(a) + 1 >= BatchSize)
    OBVIOUS
  <2>2. sendUpdate(a, u, now)
    BY <1>2, <2>1 DEF AddHTLC
  <2>3. htlcCounter(log[a]) \in Nat
    BY <1>1, CounterType
  <2>4. u \in UpdateType /\ u.kind = "add" /\ u.id = htlcCounter(log[a])
    BY <2>1, <2>3 DEF UpdateType
  <2>5. now \in BOOLEAN
    BY <2>1
  <2> QED BY <2>2, <2>4, <2>5, SendStep
<1>3. ASSUME NEW id \in 0 .. MaxUpdates, NEW o \in Outcomes, RemoveHTLC(a, id, o) PROVE IInv'
  <2>1. PICK u : u = [kind |-> "rm", id |-> id, payload |-> o]
    OBVIOUS
  <2>2. sendUpdate(a, u, TRUE) /\ Offered(fwd[a], id) /\ ~ Removed(log[a], id)
    BY <1>3, <2>1 DEF RemoveHTLC
  <2>3. u \in UpdateType /\ u.kind = "rm" /\ u.id = id
    BY <2>1, BoundsAssumption DEF UpdateType
  <2> QED BY <2>2, <2>3, SendStep
<1>4. ASSUME NEW p \in Payloads, UpdateFee(a, p) PROVE IInv'
  <2>1. PICK u : u = [kind |-> "fee", id |-> 0, payload |-> p]
    OBVIOUS
  <2>2. sendUpdate(a, u, TRUE) /\ a = Initiator
    BY <1>4, <2>1 DEF UpdateFee
  <2>3. u \in UpdateType /\ u.kind = "fee"
    BY <2>1 DEF UpdateType
  <2> QED BY <2>2, <2>3, SendStep
<1> QED BY <1>2, <1>3, <1>4 DEF Request

\* A handler finishes: it signs, or has nothing to sign.
LEMMA FinishStep ==
    ASSUME IInv, NEW a \in Nodes, updateCommitTx(a)
    PROVE  IInv'
<1>1. /\ TypeOK /\ NeverFails /\ DownInv /\ \A n \in Nodes : EndInv(n)
  BY DEF IInv
<1>2. /\ up /\ mustSign[a] /\ mustSign' = [mustSign EXCEPT ![a] = FALSE]
      /\ log' = log /\ rlog' = rlog /\ synced' = synced /\ up' = up /\ drops' = drops
      /\ failed' = failed
  BY DEF updateCommitTx
<1>3. mustSign' \in [Nodes -> BOOLEAN] /\ \A n \in Nodes : mustSign'[n] => mustSign[n]
  BY <1>1, <1>2 DEF TypeOK
<1>4. synced[a]
  BY <1>1, <1>2 DEF EndInv, SyncInv
<1>5. CASE signNextCommitment(a)
  BY <1>2, <1>3, <1>4, <1>5, SignStep
<1>6. CASE UNCHANGED <<disk, net>>
  <2>1. /\ local' = local /\ tail' = tail /\ pending' = pending
        /\ lastWasRevoke' = lastWasRevoke /\ fwd' = fwd /\ net' = net
    BY <1>6 DEF disk
  <2>2. \A n \in Nodes : Tip(n)' = Tip(n)
    BY <2>1 DEF Tip
  <2>3. TypeOK' /\ NeverFails' /\ DownInv'
    BY <1>1, <1>2, <1>3, <2>1, <2>2 DEF TypeOK, NeverFails, DownInv
  <2>4. ASSUME NEW n \in Nodes PROVE EndInv(n)'
    <3>1. EndInv(n)
      BY <1>1
    <3>2. ChainInv(n)'
      BY <2>1, <3>1 DEF EndInv, ChainInv, SigDue, RevDue, Mirrors
    <3>3. LogInv(n)' /\ UpdateInv(n)' /\ ForwardInv(n)'
      BY <1>2, <2>1, <2>2, <3>1 DEF EndInv, LogInv, UpdateInv, ForwardInv
    <3>4. StreamInv(n)'
      BY <1>2, <2>1, <2>2, <3>1 DEF EndInv, StreamInv
    <3>5. BoxInv(n)'
      BY <1>2, <2>1, <3>1 DEF EndInv, BoxInv, SigsDue, RevsDue, SigDue, RevDue, CommitSig
    <3>6. SyncInv(n)'
      BY <1>2, <1>3, <2>1, <3>1 DEF EndInv, SyncInv, Reestablish
    <3> QED BY <3>2, <3>3, <3>4, <3>5, <3>6 DEF EndInv
  <2> QED BY <2>3, <2>4 DEF IInv
<1> QED BY <1>5, <1>6 DEF updateCommitTx

\* The batch ticker has a link sign.
LEMMA TickStep ==
    ASSUME IInv, NEW a \in Nodes, BatchTick(a)
    PROVE  IInv'
<1>1. /\ up /\ synced[a] /\ signNextCommitment(a)
      /\ UNCHANGED <<log, rlog, synced, up, drops, failed>> /\ mustSign' = mustSign
  BY DEF BatchTick, Ready
<1>2. mustSign \in [Nodes -> BOOLEAN]
  BY DEF IInv, TypeOK
<1> QED BY <1>1, <1>2, SignStep

\* Nothing happens.
LEMMA IdleStep == IInv /\ UNCHANGED vars => IInv'
<1> SUFFICES ASSUME IInv, UNCHANGED vars PROVE IInv'
  OBVIOUS
<1>1. /\ log' = log /\ rlog' = rlog /\ local' = local /\ tail' = tail /\ pending' = pending
      /\ lastWasRevoke' = lastWasRevoke /\ fwd' = fwd /\ mustSign' = mustSign
      /\ synced' = synced /\ net' = net /\ up' = up /\ drops' = drops /\ failed' = failed
  BY DEF vars
<1>2. /\ TypeOK /\ NeverFails /\ DownInv /\ \A n \in Nodes : EndInv(n)
  BY DEF IInv
<1>3. \A n \in Nodes : Tip(n)' = Tip(n)
  BY <1>1 DEF Tip
<1>4. TypeOK' /\ NeverFails' /\ DownInv'
  BY <1>1, <1>2, <1>3 DEF TypeOK, NeverFails, DownInv
<1>5. ASSUME NEW n \in Nodes PROVE EndInv(n)'
  <2>1. EndInv(n)
    BY <1>2
  <2>2. ChainInv(n)'
    BY <1>1, <2>1 DEF EndInv, ChainInv, SigDue, RevDue, Mirrors
  <2>3. LogInv(n)' /\ UpdateInv(n)' /\ ForwardInv(n)'
    BY <1>1, <1>3, <2>1 DEF EndInv, LogInv, UpdateInv, ForwardInv
  <2>4. StreamInv(n)'
    BY <1>1, <1>3, <2>1 DEF EndInv, StreamInv
  <2>5. BoxInv(n)'
    BY <1>1, <2>1 DEF EndInv, BoxInv, SigsDue, RevsDue, SigDue, RevDue, CommitSig
  <2>6. SyncInv(n)'
    BY <1>1, <2>1 DEF EndInv, SyncInv, Reestablish
  <2> QED BY <2>2, <2>3, <2>4, <2>5, <2>6 DEF EndInv
<1> QED BY <1>4, <1>5 DEF IInv

\* Every step keeps the two ends in step.
LEMMA NextInv == IInv /\ [Next]_vars => IInv'
<1> SUFFICES ASSUME IInv, [Next]_vars PROVE IInv'
  OBVIOUS
<1>1. ASSUME NEW n \in Nodes, Request(n) PROVE IInv'
  BY <1>1, RequestStep
<1>2. ASSUME NEW n \in Nodes, Handle(n) PROVE IInv'
  <2>1. CASE ReceiveUpdate(n)
    BY <2>1, UpdateStep
  <2>2. CASE ReceiveCommitSig(n)
    BY <2>2, SigStep
  <2>3. CASE ReceiveRevocation(n)
    BY <2>3, RevStep
  <2>4. CASE ProcessChanSyncMsg(n)
    BY <2>4, SyncStep
  <2> QED BY <1>2, <2>1, <2>2, <2>3, <2>4 DEF Handle
<1>3. ASSUME NEW n \in Nodes, updateCommitTx(n) PROVE IInv'
  BY <1>3, FinishStep
<1>4. ASSUME NEW n \in Nodes, BatchTick(n) PROVE IInv'
  BY <1>4, TickStep
<1>5. CASE Disconnect
  BY <1>5, DropStep
<1>6. CASE Reconnect
  BY <1>6, ReconnectStep
<1>7. CASE UNCHANGED vars
  BY <1>7, IdleStep
<1> QED BY <1>1, <1>2, <1>3, <1>4, <1>5, <1>6, <1>7 DEF Next
-----------------------------------------------------------------------------
\* The parts of the invariant hold in every reachable state.
THEOREM InStep == Spec => []IInv
BY InitInv, NextInv, PTL DEF Spec

\* The commitments of both ends are covered by their logs (the indices that
\* newCommitmentChain and SignNextCommitment read them with).
THEOREM CommitTyped == Spec => []TypeOK
<1>1. IInv => TypeOK
  BY DEF IInv
<1> QED BY <1>1, InStep, PTL

\* Two correct ends never fail a link: however many updates cross in flight
\* and however often and wherever the connection drops.
THEOREM LinkNeverFails == Spec => []NeverFails
<1>1. IInv => NeverFails
  BY DEF IInv
<1> QED BY <1>1, InStep, PTL

\* The peer's tail or tip mirrors the commitment an end could broadcast.
LEMMA Mirrored ==
    ASSUME IInv, NEW n \in Nodes, NEW p, p = Peer(n)
    PROVE  \E c \in {tail[p], Tip(p)} :
             /\ c.height = local[n].height
             /\ c.own = local[n].their /\ c.their = local[n].own
             /\ Take(log[p], c.own) = Take(rlog[n], local[n].their)
             /\ Take(rlog[p], c.their) = Take(log[n], local[n].own)
<1>1. p \in Nodes /\ Peer(p) = n
  BY PeerFacts
<1>2. PICK c \in {tail[p], Tip(p)} :
        c.height = local[n].height /\ c.own = local[n].their /\ c.their = local[n].own
                                   /\ c.their <= Tip(p).their
  <2>1. CASE RevDue(p)
    <3>1. /\ pending[p] # none /\ local[n].height = tail[p].height + 1
          /\ local[n].their = pending[p].own /\ local[n].own = pending[p].their
          /\ Tip(p) = pending[p] /\ pending[p].height = tail[p].height + 1
      BY <1>1, <2>1, ChainFacts
    <3>2. Tip(p).their <= Tip(p).their
      BY <1>1, EndFacts, CommitFacts
    <3> QED BY <3>1, <3>2
  <2>2. CASE ~ RevDue(p)
    <3>1. /\ local[n].height = tail[p].height
          /\ local[n].their = tail[p].own /\ local[n].own = tail[p].their
      BY <1>1, <2>2, ChainFacts
    <3> QED BY <1>1, <3>1, EndFacts
  <2> QED BY <2>1, <2>2
<1>3. /\ local[n].their \in 0 .. Len(rlog[n]) /\ local[n].own \in 0 .. Len(rlog[p])
  <2>1. /\ local[n].their \in Nat /\ local[n].own \in Nat /\ Tip(p).their \in Nat
        /\ local[p].their \in Nat /\ Len(rlog[n]) \in Nat /\ Len(rlog[p]) \in Nat
    BY <1>1, EndFacts, CommitFacts
  <2>2. /\ local[n].their <= Len(rlog[n]) /\ Tip(p).their <= local[p].their
        /\ local[p].their <= Len(rlog[p])
    BY <1>1, EndFacts
  <2>3. local[n].own <= Tip(p).their
    BY <1>2
  <2> QED BY <2>1, <2>2, <2>3
<1>4. Take(rlog[n], local[n].their) = Take(log[p], local[n].their)
  BY <1>1, <1>3, LogFacts
<1>5. Take(rlog[p], local[n].own) = Take(log[n], local[n].own)
  BY <1>1, <1>3, LogFacts
<1> QED BY <1>2, <1>4, <1>5

\* Whatever commitment an end could broadcast, its peer holds on disk with the
\* same contents.
THEOREM BroadcastKnown == Spec => []PeerKnowsCommitment
<1>1. IInv => PeerKnowsCommitment
  BY Mirrored DEF PeerKnowsCommitment
<1> QED BY <1>1, InStep, PTL

\* The secret of the commitment an end would broadcast never leaves it.
THEOREM SecretStays == Spec => []SecretKept
<1>1. IInv => SecretKept
  <2> SUFFICES ASSUME IInv, NEW n \in Nodes
               PROVE  /\ tail[Peer(n)].height <= local[n].height
                      /\ \A i \in 1 .. Len(net[Peer(n)]) :
                            net[Peer(n)][i].type = "revoke_and_ack" =>
                                net[Peer(n)][i].height < local[n].height
    BY DEF SecretKept
  <2>1. PICK p : p = Peer(n) /\ p \in Nodes /\ Peer(p) = n
    BY PeerFacts
  <2>2. tail[p].height \in Nat /\ local[n].height \in Nat
    BY <2>1, EndFacts, CommitFacts
  <2>3. /\ RevDue(p) => local[n].height = tail[p].height + 1
        /\ ~ RevDue(p) => local[n].height = tail[p].height
    BY <2>1, ChainFacts
  <2>4. ASSUME NEW i \in 1 .. Len(net[p]), net[p][i].type = "revoke_and_ack"
        PROVE  net[p][i].height < local[n].height
    <3>1. Box(net[p], SigsDue(n), RevsDue(n), lastWasRevoke[n])
      BY <2>1 DEF IInv, EndInv, BoxInv
    <3>2. net[p][i] \in RevsDue(n)
      BY <2>4, <3>1 DEF Box, At
    <3>3. RevDue(p) /\ net[p][i] = Revoke(tail[p].height)
      BY <2>1, <3>2 DEF RevsDue
    <3>4. net[p][i].height = tail[p].height
      BY <2>2, <3>3, RevokeMsg
    <3> QED BY <2>2, <2>3, <3>3, <3>4
  <2>5. tail[p].height <= local[n].height
    BY <2>2, <2>3
  <2> QED BY <2>1, <2>4, <2>5
<1> QED BY <1>1, InStep, PTL

\* A sequence begins with its first part.
LEMMA ConcatPrefix ==
    ASSUME NEW T, NEW s \in Seq(T), NEW t \in Seq(T) PROVE IsPrefix(s, s \o t)
<1>1. PICK w : w = s \o t
  OBVIOUS
<1>2. /\ w \in Seq(T) /\ Len(w) = Len(s) + Len(t) /\ Len(s) \in Nat /\ Len(t) \in Nat
      /\ \A i \in 1 .. Len(s) : w[i] = s[i]
  BY <1>1, ConcatFacts
<1>3. Len(s) <= Len(w) /\ Len(s) \in 0 .. Len(s)
  BY <1>2
<1>4. Take(s, Len(s)) = Take(w, Len(s))
  BY <1>2, <1>3, TakeAgree
<1> QED BY <1>1, <1>3, <1>4 DEF IsPrefix, Take

\* What a longer beginning of a log hands on begins with what a shorter one does.
LEMMA ForwardedPrefix ==
    ASSUME NEW T, NEW s \in Seq(T), NEW k \in 0 .. Len(s), NEW l \in 0 .. Len(s), k <= l
    PROVE  IsPrefix(Forwarded(Take(s, k)), Forwarded(Take(s, l)))
<1>1. PICK t, w, d : t = Take(s, k) /\ w = Take(s, l) /\ d = Between(s, k, l)
  OBVIOUS
<1>2. /\ t \in Seq(T) /\ Len(t) = k /\ \A i \in 1 .. k : t[i] = s[i]
  BY <1>1, TakeFacts
<1>3. /\ w \in Seq(T) /\ Len(w) = l /\ \A i \in 1 .. l : w[i] = s[i]
  BY <1>1, TakeFacts
<1>4. /\ d \in Seq(T) /\ Len(d) = l - k /\ \A i \in 1 .. l - k : d[i] = s[k + i]
  <2>1. k + 1 \in Int /\ l \in Int /\ \A i \in k + 1 .. l : s[i] \in T
    BY ElementOfSeq
  <2>2. /\ d \in Seq(T) /\ Len(d) = IF k + 1 <= l THEN l - (k + 1) + 1 ELSE 0
        /\ \A i \in 1 .. l - (k + 1) + 1 : d[i] = s[(k + 1) + i - 1]
    BY <1>1, <2>1, SubSeqProperties DEF Between
  <2>3. (IF k + 1 <= l THEN l - (k + 1) + 1 ELSE 0) = l - k
        /\ l - (k + 1) + 1 = l - k /\ \A i \in 1 .. l - k : (k + 1) + i - 1 = k + i
    OBVIOUS
  <2> QED BY <2>2, <2>3
<1>5. w = t \o d
  <2>0. t \in Seq(T) /\ d \in Seq(T)
    BY <1>2, <1>4
  <2>1. PICK x : x = t \o d
    OBVIOUS
  <2>2. /\ x \in Seq(T) /\ Len(x) = Len(t) + Len(d)
        /\ \A i \in 1 .. Len(t) : x[i] = t[i]
        /\ \A i \in 1 .. Len(d) : x[Len(t) + i] = d[i]
    BY <2>0, <2>1, ConcatFacts
  <2>3. Len(x) = l /\ Len(x) = Len(w)
    BY <1>2, <1>3, <1>4, <2>2
  <2>4. ASSUME NEW i \in 1 .. Len(w) PROVE w[i] = x[i]
    <3>1. CASE i <= k
      <4>1. i \in 1 .. k /\ i \in 1 .. l
        BY <1>3, <3>1
      <4> QED BY <1>2, <1>3, <2>2, <4>1
    <3>2. CASE i > k
      <4>1. i - k \in 1 .. l - k /\ k + (i - k) = i
        BY <1>3, <3>2
      <4>2. w[i] = s[i] /\ d[i - k] = s[k + (i - k)]
        BY <1>3, <1>4, <4>1
      <4>3. x[k + (i - k)] = d[i - k]
        BY <1>2, <1>4, <2>2, <4>1
      <4> QED BY <4>1, <4>2, <4>3
    <3> QED BY <1>3, <3>1, <3>2
  <2>5. w = x
    BY <1>3, <2>2, <2>3, <2>4, SeqEqual
  <2> QED BY <2>1, <2>5
<1>6. PICK f, g : f = Forwarded(t) /\ g = Forwarded(d)
  OBVIOUS
<1>7. f \in Seq(T) /\ g \in Seq(T) /\ Forwarded(w) = f \o g
  BY <1>2, <1>4, <1>5, <1>6, ForwardedConcat, ForwardedElements
<1>8. IsPrefix(f, f \o g)
  BY <1>7, ConcatPrefix
<1> QED BY <1>1, <1>6, <1>7, <1>8

\* An update is handed to the switch only when it is on the newest commitment
\* of both ends, in the offerer's order, and once.
THEOREM HandedOnLocked == Spec => []ForwardedLockedIn
<1>1. IInv => ForwardedLockedIn
  <2> SUFFICES ASSUME IInv, NEW n \in Nodes
               PROVE  /\ IsPrefix(fwd[n], Forwarded(Take(rlog[n], local[n].their)))
                      /\ IsPrefix(fwd[n], Forwarded(Take(log[Peer(n)], local[Peer(n)].own)))
    BY DEF ForwardedLockedIn
  <2>1. PICK p : p = Peer(n) /\ p \in Nodes /\ Peer(p) = n
    BY PeerFacts
  <2>2. fwd[n] = Forwarded(Take(rlog[n], tail[n].their))
    BY DEF IInv, EndInv, ForwardInv
  <2>3. /\ tail[n].their \in Nat /\ Tip(n).their \in Nat /\ local[n].their \in Nat
        /\ local[p].own \in Nat /\ Len(rlog[n]) \in Nat /\ rlog[n] \in Seq(UpdateType)
    BY <2>1, EndFacts, CommitFacts
  <2>4. /\ tail[n].their <= Tip(n).their /\ Tip(n).their <= local[n].their
        /\ local[n].their <= Len(rlog[n])
    BY EndFacts
  <2>5. local[p].own = tail[n].their \/ local[p].own = Tip(n).their
    BY <2>1, ChainFacts
  <2>6. /\ tail[n].their \in 0 .. Len(rlog[n]) /\ local[n].their \in 0 .. Len(rlog[n])
        /\ local[p].own \in 0 .. Len(rlog[n]) /\ tail[n].their <= local[n].their
        /\ tail[n].their <= local[p].own
    BY <2>3, <2>4, <2>5
  <2>7. IsPrefix(fwd[n], Forwarded(Take(rlog[n], local[n].their)))
    BY <2>2, <2>3, <2>6, ForwardedPrefix
  <2>8. IsPrefix(fwd[n], Forwarded(Take(rlog[n], local[p].own)))
    BY <2>2, <2>3, <2>6, ForwardedPrefix
  <2>9. Take(rlog[n], local[p].own) = Take(log[p], local[p].own)
    BY <2>1, <2>6, LogFacts
  <2> QED BY <2>1, <2>7, <2>8, <2>9
<1> QED BY <1>1, InStep, PTL

-----------------------------------------------------------------------------
\* The refinement.  Of the protocol's steps three move an update along: a
\* signature, its acceptance, and the acceptance of the revocation.  A log cut
\* at what is signed for, or a log that grows, leaves the rest where it was.
DeliveryState == <<signedUpdates, ackedUpdates, mutualUpdates, fwd>>

\* The two modules name the other end alike.
LEMMA OtherEndIsPeer == \A n \in Nodes : Dlv!OtherEnd(n) = Peer(n)
BY DEF Dlv!OtherEnd, Peer

\* And they mean the same by a beginning of a sequence.
LEMMA SamePrefix == \A s, t : IsPrefix(s, t) => Dlv!IsPrefix(s, t)
BY DEF Dlv!IsPrefix, IsPrefix

\* A log of which less or more is kept, but all that a commitment covers.
LEMMA KeptCovers ==
    ASSUME NEW s \in Seq(UpdateType), NEW t \in Seq(UpdateType), NEW k \in Nat,
           k <= Len(s), k <= Len(t), \A i \in 1 .. k : s[i] = t[i]
    PROVE  \A j \in 0 .. k : Take(s, j) = Take(t, j)
<1> SUFFICES ASSUME NEW j \in 0 .. k PROVE Take(s, j) = Take(t, j)
  OBVIOUS
<1>1. Len(s) \in Nat /\ Len(t) \in Nat
  OBVIOUS
<1>2. j \in 0 .. Len(s) /\ j <= Len(t) /\ \A i \in 1 .. j : s[i] = t[i]
  BY <1>1
<1> QED BY <1>2, TakeAgree

\* A step that keeps the commitments and all that they cover of the logs moves
\* no update along.
LEMMA KeepsDelivery ==
    ASSUME IInv, UNCHANGED <<local, fwd>>, \A n \in Nodes : Tip(n)' = Tip(n),
           \A n \in Nodes : \A j \in 0 .. Tip(n).own : Take(log'[n], j) = Take(log[n], j),
           \A n \in Nodes : \A j \in 0 .. local[n].their : Take(rlog'[n], j) = Take(rlog[n], j)
    PROVE  UNCHANGED DeliveryState
<1>1. ASSUME NEW n \in Nodes
      PROVE  /\ Take(log'[n], Tip(n)'.own) = Take(log[n], Tip(n).own)
             /\ Take(rlog'[n], local'[n].their) = Take(rlog[n], local[n].their)
             /\ Take(log'[n], local'[n].own) = Take(log[n], local[n].own)
  <2>1. /\ Tip(n).own \in Nat /\ local[n].their \in Nat /\ local[n].own \in Nat
        /\ tail[n].own \in Nat
    BY EndFacts, CommitFacts
  <2>2. local[n].own <= tail[n].own /\ tail[n].own <= Tip(n).own
    BY EndFacts
  <2>3. /\ Tip(n).own \in 0 .. Tip(n).own /\ local[n].their \in 0 .. local[n].their
        /\ local[n].own \in 0 .. Tip(n).own
    BY <2>1, <2>2
  <2> QED BY <2>3
<1>2. signedUpdates' = signedUpdates
  BY <1>1 DEF signedUpdates
<1>3. ackedUpdates' = ackedUpdates
  BY <1>1 DEF ackedUpdates
<1>4. mutualUpdates' = mutualUpdates
  BY <1>1 DEF mutualUpdates
<1> QED BY <1>2, <1>3, <1>4 DEF DeliveryState

\* An end makes an update of its own.
LEMMA SendKeeps ==
    ASSUME IInv, NEW a \in Nodes, NEW u \in UpdateType,
           log' = [log EXCEPT ![a] = Append(@, u)], UNCHANGED <<rlog, disk>>
    PROVE  UNCHANGED DeliveryState
<1>1. \A n \in Nodes : Tip(n)' = Tip(n)
  BY DEF disk, Tip
<1>2. local' = local /\ fwd' = fwd /\ rlog' = rlog /\ log \in [Nodes -> Seq(UpdateType)]
  BY DEF disk, IInv, TypeOK
<1>3. ASSUME NEW n \in Nodes, NEW j \in 0 .. Tip(n).own
      PROVE  Take(log'[n], j) = Take(log[n], j)
  <2>1. CASE n # a
    BY <1>2, <2>1
  <2>2. CASE n = a
    <3>1. log'[n] = Append(log[n], u)
      BY <1>2, <2>2
    <3>2. log[n] \in Seq(UpdateType) /\ Tip(n).own <= Len(log[n]) /\ Len(log[n]) \in Nat
          /\ Tip(n).own \in Nat
      BY EndFacts, CommitFacts
    <3>3. j \in 0 .. Len(log[n])
      BY <3>2
    <3>4. Take(Append(log[n], u), j) = Take(log[n], j)
      BY <3>2, <3>3, AppendFacts
    <3> QED BY <3>1, <3>4
  <2> QED BY <2>1, <2>2
<1> QED BY <1>1, <1>2, <1>3, KeepsDelivery

\* An end receives one.
LEMMA ReceiveKeeps ==
    ASSUME IInv, NEW a \in Nodes, NEW u \in UpdateType,
           rlog' = [rlog EXCEPT ![a] = Append(@, u)], UNCHANGED <<log, disk>>
    PROVE  UNCHANGED DeliveryState
<1>1. \A n \in Nodes : Tip(n)' = Tip(n)
  BY DEF disk, Tip
<1>2. local' = local /\ fwd' = fwd /\ log' = log /\ rlog \in [Nodes -> Seq(UpdateType)]
  BY DEF disk, IInv, TypeOK
<1>3. ASSUME NEW n \in Nodes, NEW j \in 0 .. local[n].their
      PROVE  Take(rlog'[n], j) = Take(rlog[n], j)
  <2>1. CASE n # a
    BY <1>2, <2>1
  <2>2. CASE n = a
    <3>1. rlog'[n] = Append(rlog[n], u)
      BY <1>2, <2>2
    <3>2. rlog[n] \in Seq(UpdateType) /\ local[n].their <= Len(rlog[n]) /\ Len(rlog[n]) \in Nat
          /\ local[n].their \in Nat
      BY EndFacts, CommitFacts
    <3>3. j \in 0 .. Len(rlog[n])
      BY <3>2
    <3>4. Take(Append(rlog[n], u), j) = Take(rlog[n], j)
      BY <3>2, <3>3, AppendFacts
    <3> QED BY <3>1, <3>4
  <2> QED BY <2>1, <2>2
<1> QED BY <1>1, <1>2, <1>3, KeepsDelivery

\* The connection drops, and each end restarts from disk.
LEMMA DropKeeps ==
    ASSUME IInv, Disconnect
    PROVE  UNCHANGED DeliveryState
<1>1. \A n \in Nodes : Tip(n)' = Tip(n)
  BY DEF Disconnect, disk, Tip
<1>2. /\ local' = local /\ fwd' = fwd
      /\ log' = [n \in Nodes |-> Take(log[n], Tip(n).own)]
      /\ rlog' = [n \in Nodes |-> Take(rlog[n], local[n].their)]
  BY DEF Disconnect, Restart, disk
<1>3. ASSUME NEW n \in Nodes, NEW j \in 0 .. Tip(n).own
      PROVE  Take(log'[n], j) = Take(log[n], j)
  <2>1. PICK s, k : s = log[n] /\ k = Tip(n).own
    OBVIOUS
  <2>2. s \in Seq(UpdateType) /\ k \in Nat /\ k <= Len(s) /\ Len(s) \in Nat
    BY <2>1, EndFacts, CommitFacts
  <2>3. PICK t : t = Take(s, k)
    OBVIOUS
  <2>4. t \in Seq(UpdateType) /\ Len(t) = k /\ \A i \in 1 .. k : t[i] = s[i]
    BY <2>2, <2>3, TakeFacts
  <2>5. \A i \in 0 .. k : Take(t, i) = Take(s, i)
    BY <2>2, <2>4, KeptCovers
  <2> QED BY <1>2, <2>1, <2>3, <2>5
<1>4. ASSUME NEW n \in Nodes, NEW j \in 0 .. local[n].their
      PROVE  Take(rlog'[n], j) = Take(rlog[n], j)
  <2>1. PICK s, k : s = rlog[n] /\ k = local[n].their
    OBVIOUS
  <2>2. s \in Seq(UpdateType) /\ k \in Nat /\ k <= Len(s) /\ Len(s) \in Nat
    BY <2>1, EndFacts, CommitFacts
  <2>3. PICK t : t = Take(s, k)
    OBVIOUS
  <2>4. t \in Seq(UpdateType) /\ Len(t) = k /\ \A i \in 1 .. k : t[i] = s[i]
    BY <2>2, <2>3, TakeFacts
  <2>5. \A i \in 0 .. k : Take(t, i) = Take(s, i)
    BY <2>2, <2>4, KeptCovers
  <2> QED BY <1>2, <2>1, <2>3, <2>5
<1> QED BY <1>1, <1>2, <1>3, <1>4, KeepsDelivery

\* A step that leaves the logs and the disk alone.
LEMMA IdleKeeps ==
    ASSUME IInv, UNCHANGED <<log, rlog, disk>>
    PROVE  UNCHANGED DeliveryState
<1>1. \A n \in Nodes : Tip(n)' = Tip(n)
  BY DEF disk, Tip
<1>2. local' = local /\ fwd' = fwd /\ log' = log /\ rlog' = rlog
  BY DEF disk
<1> QED BY <1>1, <1>2, KeepsDelivery

\* A signature: the peer has accepted the last one, and it covers more.
LEMMA SignDelivers ==
    ASSUME IInv, NEW a \in Nodes, pending[a] = none,
           pending' = [pending EXCEPT ![a] = NextCommit(a)],
           UNCHANGED <<log, rlog, local, tail, fwd>>
    PROVE  Dlv!SignMore(a)
<1>1. PICK b : b = Peer(a) /\ b \in Nodes /\ b # a /\ Peer(b) = a
  BY PeerFacts
<1>2. /\ log[a] \in Seq(UpdateType) /\ tail[a].own \in Nat /\ Len(log[a]) \in Nat
      /\ tail[a].own <= Len(log[a]) /\ Tip(a) = tail[a]
  <2>1. Tip(a) = tail[a]
    BY DEF Tip
  <2> QED BY <2>1, EndFacts, CommitFacts
<1>3. Tip(a)'.own = Len(log[a]) /\ \A n \in Nodes : n # a => Tip(n)' = Tip(n)
  <2>1. pending \in [Nodes -> CommitType \cup {none}]
    BY DEF IInv, TypeOK
  <2>2. NextCommit(a) \in CommitType /\ NextCommit(a).own = Len(log[a])
    <3>1. PICK h, o, t : h = tail[a].height + 1 /\ o = Len(log[a]) /\ t = local[a].their
      OBVIOUS
    <3>2. tail[a].height \in Nat /\ local[a].their \in Nat
      BY EndFacts, CommitFacts
    <3>3. h \in Nat /\ o \in Nat /\ t \in Nat /\ NextCommit(a) = Commit(h, o, t)
      BY <1>2, <3>1, <3>2 DEF NextCommit
    <3>4. Commit(h, o, t) \in CommitType /\ Commit(h, o, t).own = o
      BY <3>3, CommitMade
    <3> QED BY <3>1, <3>3, <3>4
  <2>3. pending'[a] = NextCommit(a) /\ \A n \in Nodes : n # a => pending'[n] = pending[n]
    BY <2>1
  <2>4. NextCommit(a) # none
    BY <2>2, NoneAssumption
  <2> QED BY <2>2, <2>3, <2>4 DEF Tip
<1>4. ackedUpdates[b] = signedUpdates[a]
  <2>1. local[b].their = tail[a].own
    <3>1. ~ RevDue(a)
      BY DEF RevDue
    <3> QED BY <1>1, <3>1, ChainFacts
  <2>2. /\ local[b].their \in Nat /\ local[b].their <= Len(rlog[b]) /\ Len(rlog[b]) \in Nat
    BY <1>1, EndFacts, CommitFacts
  <2>3. local[b].their \in 0 .. Len(rlog[b])
    BY <2>2
  <2>4. Take(rlog[b], local[b].their) = Take(log[a], local[b].their)
    BY <1>1, <2>3, LogFacts
  <2> QED BY <1>1, <1>2, <2>1, <2>4 DEF ackedUpdates, signedUpdates
<1>5. IsPrefix(signedUpdates[a], signedUpdates'[a])
  <2>1. signedUpdates[a] = Forwarded(Take(log[a], tail[a].own))
    BY <1>2 DEF signedUpdates
  <2>2. signedUpdates'[a] = Forwarded(Take(log[a], Len(log[a])))
    BY <1>3 DEF signedUpdates
  <2>3. tail[a].own \in 0 .. Len(log[a]) /\ Len(log[a]) \in 0 .. Len(log[a])
    BY <1>2
  <2> QED BY <1>2, <2>1, <2>2, <2>3, ForwardedPrefix
<1>6. signedUpdates' = [signedUpdates EXCEPT ![a] = signedUpdates'[a]]
  BY <1>3 DEF signedUpdates
<1>7. UNCHANGED <<ackedUpdates, mutualUpdates, fwd>>
  BY DEF ackedUpdates, mutualUpdates
<1>8. Dlv!OtherEnd(a) = b
  BY <1>1, OtherEndIsPeer
<1> QED BY <1>4, <1>5, <1>6, <1>7, <1>8, SamePrefix DEF Dlv!SignMore

\* A signature is accepted: the receiver has the signer's updates it covers, all
\* of them, and of its own those that the signer's commitment has.
LEMMA AcceptDelivers ==
    ASSUME IInv, NEW b \in Nodes, ReceiveCommitSig(b)
    PROVE  Dlv!Accept(b) \/ UNCHANGED DeliveryState
<1>1. PICK a : a = Peer(b) /\ a \in Nodes /\ b # a /\ Peer(a) = b
  BY PeerFacts
<1>2. PICK next : next = Commit(local[b].height + 1, tail[b].own, Len(rlog[b]))
  OBVIOUS
<1> DEFINE q == net[b]
           L == Len(rlog[b])
<1>3. EndInv(a) /\ local \in [Nodes -> CommitType]
  BY <1>1 DEF IInv, TypeOK
<1>4. q # <<>> /\ Head(q).type = "commit_sig"
  BY DEF ReceiveCommitSig, Receives
<1>5. /\ q \in Seq(MessageType) /\ rlog[b] \in Seq(UpdateType) /\ log[b] \in Seq(UpdateType)
      /\ L \in Nat /\ Len(log[a]) \in Nat /\ Len(log[b]) \in Nat /\ Len(rlog[a]) \in Nat
  BY <1>1, EndFacts
<1>6. Head(q) = q[1]
  BY <1>4, <1>5, TailFacts
<1>7. synced[a] /\ pending[a] # none
  <2>1. Box(q, SigsDue(a), RevsDue(a), lastWasRevoke[a])
    BY <1>1, <1>3 DEF EndInv, BoxInv
  <2>2. 1 \in 1 .. Len(q)
    BY <1>4, <1>5, TailFacts
  <2>3. q[1] \in SigsDue(a)
    BY <1>4, <1>6, <2>1, <2>2 DEF Box, At
  <2> QED BY <2>3 DEF SigsDue, SigDue
<1>8. L = Tip(a).own
  <2>1. Stream(q, log[a], L, Len(log[a]), Tip(a).own)
    BY <1>1, <1>3, <1>7 DEF EndInv, StreamInv
  <2>2. PICK own, lo, hi, lg, p : own = Tip(a).own /\ lo = L /\ hi = Len(log[a]) /\ lg = log[a] /\ p = q
    OBVIOUS
  <2>3. p \in Seq(MessageType) /\ p # <<>> /\ lo \in Nat /\ hi \in Nat
    BY <1>4, <1>5, <2>2
  <2>4. Stream(p, lg, lo, hi, own) /\ p[1].type = "commit_sig" /\ p[1].type # "update"
    BY <1>4, <1>6, <2>1, <2>2
  <2>5. Stream(Tail(p), lg, lo, hi, own) /\ lo = own
    BY <2>3, <2>4, StreamTail
  <2> QED BY <2>2, <2>5
<1>9. /\ local[b].own \in Nat /\ tail[b].own \in Nat /\ local[a].their \in Nat
      /\ local[b].own <= tail[b].own /\ Tip(b).own \in Nat
      /\ tail[b].own <= Tip(b).own /\ Tip(b).own <= Len(log[b])
      /\ local[a].their <= Len(rlog[a])
  BY <1>1, EndFacts, CommitFacts
<1>10. next.own = tail[b].own /\ next.their = L
  <2>1. local[b].height + 1 \in Nat
    <3>1. local[b].height \in Nat
      BY EndFacts, CommitFacts
    <3> QED BY <3>1
  <2>2. PICK h, own, their : h = local[b].height + 1 /\ own = tail[b].own /\ their = Len(rlog[b])
    OBVIOUS
  <2>3. next = Commit(h, own, their) /\ h \in Nat /\ own \in Nat /\ their \in Nat
    BY <1>2, <1>5, <1>9, <2>1, <2>2
  <2>4. Commit(h, own, their).own = own /\ Commit(h, own, their).their = their
    BY <2>3, CommitMade
  <2> QED BY <2>2, <2>3, <2>4
<1>11. CASE Fail(b, "ErrInvalidCommitment")
  <2>1. UNCHANGED <<log, rlog, disk>>
    BY <1>11 DEF Fail
  <2> QED BY <2>1, IdleKeeps
<1>12. CASE local' = [local EXCEPT ![b] = next] /\ UNCHANGED <<log, rlog, tail, pending, fwd>>
  <2>1. local'[b] = next /\ \A n \in Nodes : n # b => local'[n] = local[n]
    BY <1>3, <1>12
  <2>2. \A n \in Nodes : Tip(n)' = Tip(n)
    BY <1>12 DEF Tip
  <2>3. UNCHANGED <<signedUpdates, fwd>>
    BY <1>12, <2>2 DEF signedUpdates
  <2>4. ackedUpdates'[b] = signedUpdates[a]
    <3>1. L \in 0 .. L
      BY <1>5
    <3>2. Take(rlog[b], L) = Take(log[a], L)
      BY <1>1, <3>1, LogFacts
    <3>3. ackedUpdates'[b] = Forwarded(Take(rlog[b], L))
      BY <1>10, <1>12, <2>1 DEF ackedUpdates
    <3>4. signedUpdates[a] = Forwarded(Take(log[a], L))
      BY <1>1, <1>8 DEF signedUpdates
    <3> QED BY <3>2, <3>3, <3>4
  <2>5. ackedUpdates' = [ackedUpdates EXCEPT ![b] = signedUpdates[a]]
    <3>1. \A n \in Nodes : n # b => ackedUpdates'[n] = ackedUpdates[n]
      BY <1>12, <2>1 DEF ackedUpdates
    <3>2. DOMAIN ackedUpdates = Nodes /\ ackedUpdates' = [n \in Nodes |-> ackedUpdates'[n]]
      BY DEF ackedUpdates
    <3>3. ackedUpdates = [n \in Nodes |-> ackedUpdates[n]]
      BY DEF ackedUpdates
    <3> QED BY <2>4, <3>1, <3>2, <3>3
  <2>6. mutualUpdates'[b] = Forwarded(Take(log[b], tail[b].own))
    BY <1>10, <1>12, <2>1 DEF mutualUpdates
  <2>7. IsPrefix(mutualUpdates[b], mutualUpdates'[b])
    <3>1. mutualUpdates[b] = Forwarded(Take(log[b], local[b].own))
      BY DEF mutualUpdates
    <3>2. local[b].own \in 0 .. Len(log[b]) /\ tail[b].own \in 0 .. Len(log[b])
      BY <1>5, <1>9
    <3> QED BY <1>5, <1>9, <2>6, <3>1, <3>2, ForwardedPrefix
  <2>8. IsPrefix(mutualUpdates'[b], ackedUpdates[a])
    <3>1. local[a].their \in 0 .. Len(rlog[a])
      BY <1>5, <1>9
    <3>2. Take(rlog[a], local[a].their) = Take(log[b], local[a].their) /\ local[a].their <= Len(log[b])
      BY <1>1, <3>1, LogFacts
    <3>3. ackedUpdates[a] = Forwarded(Take(log[b], local[a].their))
      BY <1>1, <3>2 DEF ackedUpdates
    <3>4. tail[b].own <= local[a].their
      <4>1. RevDue(b) => local[a].their = pending[b].own /\ Tip(b) = pending[b]
        BY <1>1, ChainFacts
      <4>2. ~ RevDue(b) => local[a].their = tail[b].own
        BY <1>1, ChainFacts
      <4> QED BY <1>9, <4>1, <4>2
    <3>5. tail[b].own \in 0 .. Len(log[b]) /\ local[a].their \in 0 .. Len(log[b])
      BY <1>5, <1>9, <3>2
    <3> QED BY <1>5, <2>6, <3>3, <3>4, <3>5, ForwardedPrefix
  <2>9. mutualUpdates' = [mutualUpdates EXCEPT ![b] = mutualUpdates'[b]]
    <3>1. \A n \in Nodes : n # b => mutualUpdates'[n] = mutualUpdates[n]
      BY <1>12, <2>1 DEF mutualUpdates
    <3>2. mutualUpdates' = [n \in Nodes |-> mutualUpdates'[n]]
      BY DEF mutualUpdates
    <3>3. mutualUpdates = [n \in Nodes |-> mutualUpdates[n]]
      BY DEF mutualUpdates
    <3> QED BY <3>1, <3>2, <3>3
  <2>10. Dlv!OtherEnd(b) = a
    BY <1>1, OtherEndIsPeer
  <2>11. Dlv!Accept(b)
    BY <2>3, <2>5, <2>7, <2>8, <2>9, <2>10, SamePrefix DEF Dlv!Accept
  <2> QED BY <2>11
<1> QED BY <1>2, <1>11, <1>12 DEF ReceiveCommitSig

\* A revocation is accepted: what the revoking end's new commitment has of its
\* own updates goes to the switch.
LEMMA HandOnDelivers ==
    ASSUME IInv, NEW a \in Nodes, ReceiveRevocation(a)
    PROVE  Dlv!HandOn(a) \/ UNCHANGED DeliveryState
<1>1. PICK b : b = Peer(a) /\ b \in Nodes /\ b # a /\ Peer(b) = a
  BY PeerFacts
<1> DEFINE q == net[a]
<1>2. EndInv(b) /\ EndInv(a) /\ fwd \in [Nodes -> Seq(UpdateType)]
      /\ tail \in [Nodes -> CommitType] /\ pending \in [Nodes -> CommitType \cup {none}]
  BY <1>1 DEF IInv, TypeOK
<1>3. q # <<>> /\ Head(q).type = "revoke_and_ack"
  BY DEF ReceiveRevocation, Receives
<1>4. q \in Seq(MessageType) /\ rlog[a] \in Seq(UpdateType) /\ Len(rlog[a]) \in Nat
  BY EndFacts
<1>5. RevDue(a)
  <2>1. Box(q, SigsDue(b), RevsDue(b), lastWasRevoke[b])
    BY <1>1, <1>2 DEF EndInv, BoxInv
  <2>2. 1 \in 1 .. Len(q) /\ Head(q) = q[1]
    BY <1>3, <1>4, TailFacts
  <2>3. q[1] \in RevsDue(b)
    BY <1>3, <2>1, <2>2 DEF Box, At
  <2> QED BY <1>1, <2>3 DEF RevsDue
<1>6. /\ pending[a] # none /\ Tip(a) = pending[a] /\ local[b].own = pending[a].their
  BY <1>1, <1>5, ChainFacts
<1>7. CASE Fail(a, "ErrInvalidRevocation")
  <2>1. UNCHANGED <<log, rlog, disk>>
    BY <1>7 DEF Fail
  <2> QED BY <2>1, IdleKeeps
<1>8. CASE /\ fwd' = [fwd EXCEPT ![a] = @ \o Forwarded(Locked(a))]
           /\ tail' = [tail EXCEPT ![a] = pending[a]]
           /\ pending' = [pending EXCEPT ![a] = none]
           /\ UNCHANGED <<log, rlog, local>>
  <2>1. /\ tail'[a] = pending[a] /\ pending'[a] = none
        /\ \A n \in Nodes : n # a => tail'[n] = tail[n] /\ pending'[n] = pending[n]
    BY <1>2, <1>8
  <2>2. \A n \in Nodes : Tip(n)' = Tip(n)
    BY <1>6, <2>1 DEF Tip
  <2>3. UNCHANGED <<signedUpdates, ackedUpdates, mutualUpdates>>
    BY <1>8, <2>2 DEF signedUpdates, ackedUpdates, mutualUpdates
  <2>4. /\ tail[a].their \in Nat /\ Tip(a).their \in Nat /\ local[a].their \in Nat
        /\ tail[a].their <= Tip(a).their /\ Tip(a).their <= local[a].their
        /\ local[a].their <= Len(rlog[a])
    BY EndFacts, CommitFacts
  <2>5. tail[a].their \in 0 .. Len(rlog[a]) /\ pending[a].their \in 0 .. Len(rlog[a])
        /\ tail[a].their <= pending[a].their
    BY <1>4, <1>6, <2>4
  <2>6. fwd[a] = Forwarded(Take(rlog[a], tail[a].their))
    BY <1>2 DEF EndInv, ForwardInv
  <2>7. Forwarded(Take(rlog[a], pending[a].their)) = fwd[a] \o Forwarded(Locked(a))
    BY <1>6, <2>6, LockedFacts
  <2>8. Take(rlog[a], pending[a].their) = Take(log[b], pending[a].their)
    BY <1>1, <2>5, LogFacts
  <2>9. mutualUpdates[b] = Forwarded(Take(rlog[a], pending[a].their))
    BY <1>1, <1>6, <2>8 DEF mutualUpdates
  <2>10. fwd' = [fwd EXCEPT ![a] = mutualUpdates[b]]
    BY <1>2, <1>8, <2>7, <2>9
  <2>11. IsPrefix(fwd[a], mutualUpdates[b])
    BY <1>4, <2>5, <2>6, <2>9, ForwardedPrefix
  <2>12. Dlv!OtherEnd(a) = b
    BY <1>1, OtherEndIsPeer
  <2>13. Dlv!HandOn(a)
    BY <2>3, <2>10, <2>11, <2>12, SamePrefix DEF Dlv!HandOn
  <2> QED BY <2>13
<1> QED BY <1>7, <1>8 DEF ReceiveRevocation

\* A link's request adds an update of the right type to its log.
LEMMA RequestAppends ==
    ASSUME IInv, NEW a \in Nodes, Request(a)
    PROVE  /\ \E u \in UpdateType : log' = [log EXCEPT ![a] = Append(@, u)]
           /\ UNCHANGED <<rlog, disk>>
<1>1. htlcCounter(log[a]) \in Nat
  BY EndFacts, CounterType
<1>2. ASSUME NEW u \in UpdateType, NEW now, sendUpdate(a, u, now)
      PROVE  /\ \E v \in UpdateType : log' = [log EXCEPT ![a] = Append(@, v)]
             /\ UNCHANGED <<rlog, disk>>
  BY <1>2 DEF sendUpdate
<1>3. ASSUME NEW p \in Payloads, AddHTLC(a, p)
      PROVE  /\ \E v \in UpdateType : log' = [log EXCEPT ![a] = Append(@, v)]
             /\ UNCHANGED <<rlog, disk>>
  <2>1. [kind |-> "add", id |-> htlcCounter(log[a]), payload |-> p] \in UpdateType
    BY <1>1 DEF UpdateType
  <2> QED BY <1>2, <1>3, <2>1 DEF AddHTLC
<1>4. ASSUME NEW id \in 0 .. MaxUpdates, NEW o \in Outcomes, RemoveHTLC(a, id, o)
      PROVE  /\ \E v \in UpdateType : log' = [log EXCEPT ![a] = Append(@, v)]
             /\ UNCHANGED <<rlog, disk>>
  <2>1. [kind |-> "rm", id |-> id, payload |-> o] \in UpdateType
    BY BoundsAssumption DEF UpdateType
  <2> QED BY <1>2, <1>4, <2>1 DEF RemoveHTLC
<1>5. ASSUME NEW p \in Payloads, UpdateFee(a, p)
      PROVE  /\ \E v \in UpdateType : log' = [log EXCEPT ![a] = Append(@, v)]
             /\ UNCHANGED <<rlog, disk>>
  <2>1. [kind |-> "fee", id |-> 0, payload |-> p] \in UpdateType
    BY DEF UpdateType
  <2> QED BY <1>2, <1>5, <2>1 DEF UpdateFee
<1> QED BY <1>3, <1>4, <1>5 DEF Request

\* Every step of the protocol is a step of the delivery, or leaves it as it is.
LEMMA DeliverySimulated ==
    IInv /\ [Next]_vars => [Dlv!DeliveryNext]_DeliveryState
<1> SUFFICES ASSUME IInv, [Next]_vars
             PROVE  Dlv!DeliveryNext \/ UNCHANGED DeliveryState
  OBVIOUS
<1>1. ASSUME NEW n \in Nodes, Request(n) PROVE UNCHANGED DeliveryState
  BY <1>1, RequestAppends, SendKeeps
<1>2. ASSUME NEW n \in Nodes, signNextCommitment(n), UNCHANGED <<log, rlog>>
      PROVE  Dlv!SignMore(n)
  BY <1>2, SignDelivers DEF signNextCommitment
<1>3. ASSUME NEW n \in Nodes, updateCommitTx(n) \/ BatchTick(n)
      PROVE  Dlv!SignMore(n) \/ UNCHANGED DeliveryState
  <2>1. UNCHANGED <<log, rlog>> /\ (signNextCommitment(n) \/ UNCHANGED disk)
    BY <1>3 DEF updateCommitTx, BatchTick
  <2> QED BY <1>2, <2>1, IdleKeeps
<1>4. ASSUME NEW n \in Nodes, ReceiveUpdate(n) PROVE UNCHANGED DeliveryState
  <2>1. net[n] \in Seq(MessageType) /\ net[n] # <<>> /\ Head(net[n]).type = "update"
    BY <1>4, EndFacts DEF ReceiveUpdate, Receives
  <2>2. PICK msg \in MessageType : msg = Head(net[n])
    BY <2>1, TailFacts
  <2>3. msg.update \in UpdateType
    BY <2>1, <2>2 DEF MessageType
  <2>4. CASE UNCHANGED <<log, rlog, disk>>
    BY <2>4, IdleKeeps
  <2>5. CASE /\ rlog' = [rlog EXCEPT ![n] = Append(@, msg.update)]
             /\ UNCHANGED <<log, disk>>
    BY <2>3, <2>5, ReceiveKeeps
  <2> QED BY <1>4, <2>2, <2>4, <2>5 DEF ReceiveUpdate, Fail
<1>5. ASSUME NEW n \in Nodes, ProcessChanSyncMsg(n)
      PROVE  Dlv!SignMore(n) \/ UNCHANGED DeliveryState
  <2>1. \/ UNCHANGED <<log, rlog, disk>>
        \/ /\ pending[n] = none /\ pending' = [pending EXCEPT ![n] = NextCommit(n)]
           /\ UNCHANGED <<log, rlog, local, tail, fwd>>
    BY <1>5 DEF ProcessChanSyncMsg, Fail, disk
  <2> QED BY <2>1, IdleKeeps, SignDelivers
<1>6. CASE Disconnect
  BY <1>6, DropKeeps
<1>7. CASE Reconnect \/ UNCHANGED vars
  <2>1. UNCHANGED <<log, rlog, disk>>
    BY <1>7 DEF Reconnect, vars, disk
  <2> QED BY <2>1, IdleKeeps
<1>8. ASSUME NEW n \in Nodes, Handle(n)
      PROVE  Dlv!SignMore(n) \/ Dlv!Accept(n) \/ Dlv!HandOn(n) \/ UNCHANGED DeliveryState
  BY <1>4, <1>5, <1>8, AcceptDelivers, HandOnDelivers DEF Handle
<1> QED BY <1>1, <1>3, <1>6, <1>7, <1>8 DEF Next, Dlv!DeliveryNext

\* The protocol implements the delivery of updates between the two switches, for
\* any number of updates and of lost connections.
THEOREM DeliveryImplemented == Spec => ImplementsDelivery
<1>1. Init => Dlv!DeliveryInit
  <2> SUFFICES ASSUME Init PROVE Dlv!DeliveryInit
    OBVIOUS
  <2>1. \A n \in Nodes : /\ log[n] = <<>> /\ rlog[n] = <<>> /\ Tip(n).own = 0
                         /\ local[n].own = 0 /\ local[n].their = 0
    BY DEF Init, Tip, Commit
  <2>2. Take(<<>>, 0) = <<>> /\ Forwarded(<<>>) = <<>>
    <3>1. Take(<<>>, 0) = <<>>
      BY DEF Take
    <3>2. Len(<<>>) \in Nat /\ Len(<<>>) = 0
      OBVIOUS
    <3>3. PICK f : Forwarded(<<>>) = f[Len(<<>>)] /\ f[0] = <<>>
      BY <3>2, ForwardedKept
    <3> QED BY <3>1, <3>2, <3>3
  <2>3. signedUpdates = [n \in Nodes |-> <<>>]
    BY <2>1, <2>2 DEF signedUpdates
  <2>4. ackedUpdates = [n \in Nodes |-> <<>>] /\ mutualUpdates = [n \in Nodes |-> <<>>]
    BY <2>1, <2>2 DEF ackedUpdates, mutualUpdates
  <2> QED BY <2>3, <2>4 DEF Init, Dlv!DeliveryInit
<1>2. IInv /\ [Next]_vars => [Dlv!DeliveryNext]_DeliveryState
  BY DeliverySimulated
<1> QED BY <1>1, <1>2, InStep, PTL
        DEF Spec, ImplementsDelivery, Dlv!DeliverySpec, Dlv!deliveryVars, DeliveryState
=============================================================================
