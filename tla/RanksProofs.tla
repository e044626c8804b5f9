----------------------------- MODULE RanksProofs ------------------------------
(***************************************************************************)
(* As long as the clocks of the ranks lead to the same decisions, every    *)
(* rank processes the same messages in the same iterations and runs the    *)
(* same batches; for any number of followers and requests.                 *)
(*                                                                         *)
(* The state of a rank between two iterations is a function of what it has *)
(* heard and of what its clock has decided; and the messages that rank 0   *)
(* publishes are one stream, which its counts cut into iterations.         *)
(***************************************************************************)
EXTENDS Ranks, SequenceTheorems, WellFoundedInduction, TLAPS

(* The state of a rank, as a value.                                        *)
StateOf(r) == [pending |-> pending[r], running |-> running[r], left |-> left[r], got |-> got[r],
               current |-> current[r], last |-> last[r]]
First == [pending |-> {}, running |-> {}, left |-> MaxTokens, got |-> [u \in Uids |-> 0],
          current |-> NoBatch, last |-> NoBatch]
Blocks(s) == s.pending = {} /\ s.running = {} /\ s.last = NoBatch

(* What an iteration does to it: messages ms, urgent requests now.         *)
ListsAfter(s, ms) == Received([pending |-> s.pending, running |-> s.running], ms)
BatchOf(s, ms, now) == NextBatch(ListsAfter(s, ms), now)
LeftAfter(s, batch) == [u \in Uids |-> s.left[u] - (IF u \in InBatch(batch) THEN 1 ELSE 0)]
Scheduled(s, ms, now) ==
  LET lists == ListsAfter(s, ms)
      batch == BatchOf(s, ms, now)
  IN [pending |-> lists.pending \ InBatch(batch),
      running |-> IF batch.decode = {} THEN lists.running
                  ELSE Decodable(lists.running, LeftAfter(s, batch)),
      left |-> LeftAfter(s, batch), got |-> s.got, current |-> batch, last |-> s.last]
Results(s) == IF Overlap THEN s.last ELSE s.current
GotAfter(s) == [u \in Uids |-> s.got[u] + (IF u \in InBatch(Results(s)) THEN 1 ELSE 0)]
Finishes(s) == {u \in InBatch(Results(s)) : s.left[u] = 0 \/ GotAfter(s)[u] = EosAt[u]}
Finish(s) ==
  [pending |-> s.pending, running |-> (s.running \cup Range(Results(s).prefill)) \ Finishes(s),
   left |-> s.left, got |-> GotAfter(s), current |-> NoBatch,
   last |-> IF Overlap THEN s.current ELSE NoBatch]
After(s, ms, now) == Finish(Scheduled(s, ms, now))

(* T is the trace of rank r: its states between the iterations.            *)
Listed(s, n) == n \in Nat /\ s = [i \in 1..n |-> s[i]]
Heard(r) == Len(heard[r])
Iterates(T, r, i) ==
  /\ T[i] = After(T[i - 1], heard[r][i], urgent[r][i])
  /\ batches[r][i] = BatchOf(T[i - 1], heard[r][i], urgent[r][i])
Now(T, r) ==
  IF pc[r] = "processing"
  THEN Heard(r) > 0
       /\ StateOf(r) = Scheduled(T[Heard(r) - 1], heard[r][Heard(r)], urgent[r][Heard(r)])
  ELSE StateOf(r) = T[Heard(r)]
Trace(T, r) ==
  /\ Listed(heard[r], Heard(r)) /\ Listed(urgent[r], Heard(r)) /\ Listed(batches[r], Heard(r))
  /\ T = [i \in 0..Heard(r) |-> T[i]] /\ T[0] = First
  /\ \A i \in 1..Heard(r) : Iterates(T, r, i)
  /\ Now(T, r)

(* P is the stream: all messages that rank 0 has taken from its queue; the *)
(* iterations that it has cut off end at c[1], c[2], ...                   *)
Piece(P, i, j) == SubSeq(P, i + 1, j)
One(b) == IF b THEN 1 ELSE 0
CutsNext(r) == pc[r] \in {"receiving", "scheduling"}
Cut(r) == Heard(r) + One(CutsNext(r))
Published(P) == Len(P) - Len(raws)
CutOK(T, P, c) ==
  /\ P \in Seq(Message)
  /\ c \in [0..Cut(Root) -> Nat] /\ c[0] = 0
  /\ \A i \in 1..Cut(Root) : c[i - 1] + One(Blocks(T[i - 1])) <= c[i]
  /\ \A i \in 0..Cut(Root) : c[i] <= c[Cut(Root)]
  /\ Len(P) = c[Cut(Root)] + One(pc[Root] = "counting")
  /\ \A i \in 1..Heard(Root) : heard[Root][i] = Piece(P, c[i - 1], c[i])
RootOK(T, P, c) ==
  LET k == Heard(Root)
  IN /\ pc[Root] \in {"begin", "processing"} => msgs[Root] = <<>> /\ raws = <<>>
     /\ pc[Root] = "counting" =>
          Blocks(T[k]) /\ msgs[Root] = Piece(P, c[k], Len(P)) /\ raws = <<>>
     /\ pc[Root] = "receiving" =>
          /\ msgs[Root] = Piece(P, c[k], c[k] + One(Blocks(T[k])))
          /\ raws = Piece(P, c[k] + One(Blocks(T[k])), Len(P))
     /\ pc[Root] = "scheduling" => msgs[Root] = Piece(P, c[k], Len(P)) /\ raws = <<>>

(* A follower is somewhere in the same stream; k is at most Cut(Root).     *)
TakenOf(f, T, c, k) ==
  IF pc[f] \in {"begin", "processing"} THEN c[k]
  ELSE IF pc[f] = "scheduling" THEN c[k + 1]
  ELSE c[k] + One(Blocks(T[k]))
FollowerOK(f, T, P, c) ==
  LET k == Heard(f)
      taken == TakenOf(f, T, c, k)
  IN /\ Cut(f) <= Cut(Root)
     /\ \A i \in 1..k : heard[f][i] = Piece(P, c[i - 1], c[i])
     /\ taken <= Published(P)
     /\ feed[f] = Piece(P, taken, Published(P))
     /\ counts[f] = [i \in 1..Cut(Root) - Cut(f) |->
          c[Cut(f) + i] - c[Cut(f) + i - 1] - One(Blocks(T[Cut(f) + i - 1]))]
     /\ msgs[f] = Piece(P, c[k], taken)
     /\ pc[f] = "counting" => k <= Heard(Root) /\ Blocks(T[k])
     /\ pc[f] = "receiving" => due[f] = c[k + 1] - taken

Phases == {"begin", "counting", "receiving", "scheduling", "processing"}
Shapes ==
  /\ inbox \in Seq(Message)
  /\ pc \in [Ranks -> Phases]
  /\ feed = [f \in Followers |-> feed[f]] /\ counts = [f \in Followers |-> counts[f]]
  /\ due = [f \in Followers |-> due[f]] /\ msgs = [r \in Ranks |-> msgs[r]]
  /\ pending = [r \in Ranks |-> pending[r]] /\ running = [r \in Ranks |-> running[r]]
  /\ left = [r \in Ranks |-> left[r]] /\ got = [r \in Ranks |-> got[r]]
  /\ current = [r \in Ranks |-> current[r]] /\ last = [r \in Ranks |-> last[r]]
  /\ heard = [r \in Ranks |-> heard[r]] /\ urgent = [r \in Ranks |-> urgent[r]]
  /\ batches = [r \in Ranks |-> batches[r]]

FollowerInv(f, T, P, c) == Agree(urgent[f], urgent[Root]) => FollowerOK(f, T, P, c)
StreamInv(T, P, c) ==
  /\ Trace(T, Root) /\ CutOK(T, P, c) /\ RootOK(T, P, c)
  /\ \A f \in Followers : FollowerInv(f, T, P, c)
RanksInv ==
  /\ Shapes
  /\ \A f \in Followers : \E T : Trace(T, f)
  /\ \E T, P, c : StreamInv(T, P, c)

----------------------------------------------------------------------------
(* A set of natural numbers has a least element.                           *)
LEMMA LeastNumber ==
  ASSUME NEW N \in SUBSET Nat, N # {}
  PROVE  \E m \in N : \A k \in N : m <= k
<1> DEFINE R == OpToRel(<, Nat)
<1>1. IsWellFoundedOn(R, Nat) BY NatLessThanWellFounded
<1>2. \A x, y \in Nat : y < x => <<y, x>> \in R BY DEF OpToRel
<1> HIDE DEF R
<1>3. PICK m \in N : \A k \in N : ~ (<<k, m>> \in R) BY <1>1, WFMin
<1>4. ASSUME NEW k \in N PROVE m <= k
  <2>1. m \in Nat /\ k \in Nat OBVIOUS
  <2>2. ~(k < m) BY <1>2, <1>3, <2>1
  <2>3. QED BY <2>1, <2>2
<1>5. QED BY <1>4

(* Pieces of a sequence.                                                   *)
Rest(s, d) == SubSeq(s, d + 1, Len(s))

LEMMA PieceType ==
  ASSUME NEW M, NEW P \in Seq(M), NEW i \in Nat, NEW j \in Nat, i <= j, j <= Len(P)
  PROVE  /\ Piece(P, i, j) \in Seq(M) /\ Len(Piece(P, i, j)) = j - i
         /\ \A n \in 1..(j - i) : Piece(P, i, j)[n] = P[i + n]
<1>1. \A n \in (i + 1)..j : P[n] \in M BY ElementOfSeq
<1>2. i + 1 \in Int /\ j \in Int OBVIOUS
<1>3. /\ Piece(P, i, j) \in Seq(M)
      /\ Len(Piece(P, i, j)) = IF i + 1 <= j THEN j - (i + 1) + 1 ELSE 0
      /\ \A n \in 1..(j - (i + 1) + 1) : Piece(P, i, j)[n] = P[(i + 1) + n - 1]
  BY <1>1, <1>2, SubSeqProperties DEF Piece
<1>4. QED BY <1>3

LEMMA PieceEmpty ==
  ASSUME NEW P, NEW i \in Nat PROVE Piece(P, i, i) = <<>>
BY SubSeqEmpty DEF Piece

Joins(P, i, j, k) == Piece(P, i, j) \o Piece(P, j, k) = Piece(P, i, k)

LEMMA PieceJoin ==
  ASSUME NEW M, NEW P \in Seq(M), NEW i \in Nat, NEW j \in Nat, NEW k \in Nat,
         i <= j, j <= k, k <= Len(P)
  PROVE  Joins(P, i, j, k)
BY ConcatAdjacentSubSeq DEF Piece, Joins

LEMMA PieceCut ==
  ASSUME NEW M, NEW P \in Seq(M), NEW i \in Nat, NEW k \in Nat, NEW d \in Nat,
         i + d <= k, k <= Len(P)
  PROVE  /\ SubSeq(Piece(P, i, k), 1, d) = Piece(P, i, i + d)
         /\ Rest(Piece(P, i, k), d) = Piece(P, i + d, k)
<1> DEFINE A == Piece(P, i, i + d)
           B == Piece(P, i + d, k)
<1>1. A \in Seq(M) /\ B \in Seq(M) /\ Len(A) = d /\ Len(B) = k - i - d
  <2>1. i + d \in Nat /\ i <= i + d /\ i + d <= Len(P) /\ (i + d) - i = d /\ k - (i + d) = k - i - d
    BY LenProperties
  <2>2. Piece(P, i, i + d) \in Seq(M) /\ Len(Piece(P, i, i + d)) = (i + d) - i
    BY <2>1, PieceType
  <2>3. Piece(P, i + d, k) \in Seq(M) /\ Len(Piece(P, i + d, k)) = k - (i + d)
    BY <2>1, PieceType
  <2>4. QED BY <2>1, <2>2, <2>3
<1>2. Piece(P, i, k) = A \o B
  <2>1. i + d \in Nat /\ i <= i + d OBVIOUS
  <2>2. Joins(P, i, i + d, k) BY <2>1, PieceJoin
  <2>3. QED BY <2>2 DEF Joins
<1> HIDE DEF A, B
<1>3. A \o B \in Seq(M) /\ Len(A \o B) = Len(A) + Len(B) BY <1>1, ConcatProperties
<1>4. \A n \in 1..d : (A \o B)[n] = A[n] BY <1>1, ConcatProperties
<1>5. \A n \in 1..Len(B) : (A \o B)[d + n] = B[n] BY <1>1, ConcatProperties
<1>6. SubSeq(A \o B, 1, d) = A
  <2>1. SubSeq(A \o B, 1, d) \in Seq(M) /\ Len(SubSeq(A \o B, 1, d)) = d
        /\ \A n \in 1..d : SubSeq(A \o B, 1, d)[n] = (A \o B)[n]
    BY <1>1, <1>3
  <2>2. QED BY <1>1, <1>4, <2>1, SeqEqual
<1>7. SubSeq(A \o B, d + 1, Len(A \o B)) = B
  <2>1. SubSeq(A \o B, d + 1, Len(A \o B)) \in Seq(M)
        /\ Len(SubSeq(A \o B, d + 1, Len(A \o B))) = Len(B)
        /\ \A n \in 1..Len(B) : SubSeq(A \o B, d + 1, Len(A \o B))[n] = (A \o B)[d + n]
    BY <1>1, <1>3
  <2>2. QED BY <1>1, <1>5, <2>1, SeqEqual
<1>8. QED BY <1>2, <1>6, <1>7 DEF A, B, Rest

LEMMA PieceHead ==
  ASSUME NEW M, NEW P \in Seq(M), NEW i \in Nat, NEW k \in Nat, i < k, k <= Len(P)
  PROVE  /\ <<Head(Piece(P, i, k))>> = Piece(P, i, i + 1)
         /\ Tail(Piece(P, i, k)) = Piece(P, i + 1, k)
<1> DEFINE A == Piece(P, i, k)
<1>1. A \in Seq(M) /\ Len(A) = k - i
  <2>1. i <= k OBVIOUS
  <2>2. QED BY <2>1, PieceType
<1>2. SubSeq(A, 1, 1) = Piece(P, i, i + 1) /\ SubSeq(A, 2, Len(A)) = Piece(P, i + 1, k)
  <2>1. 1 \in Nat /\ i + 1 <= k OBVIOUS
  <2>2. ASSUME NEW d \in Nat, i + d <= k
        PROVE  SubSeq(A, 1, d) = Piece(P, i, i + d) /\ Rest(A, d) = Piece(P, i + d, k)
    BY <2>2, PieceCut
  <2> HIDE DEF A
  <2>3. SubSeq(A, 1, 1) = Piece(P, i, i + 1) /\ Rest(A, 1) = Piece(P, i + 1, k) BY <2>1, <2>2
  <2>4. QED BY <2>3 DEF Rest
<1> HIDE DEF A
<1>3. A # <<>> /\ 1 \in 1..Len(A) BY <1>1
<1>4. SubSeq(A, 1, 1) = <<Head(A)>>
  <2>1. SubSeq(A, 1, 1) \in Seq(M) /\ Len(SubSeq(A, 1, 1)) = 1 /\ SubSeq(A, 1, 1)[1] = A[1]
        /\ A[1] \in M /\ Head(A) = A[1]
    BY <1>1, <1>3
  <2>2. <<Head(A)>> \in Seq(M) /\ Len(<<Head(A)>>) = 1 /\ <<Head(A)>>[1] = A[1] BY <2>1
  <2>3. \A n \in 1..1 : SubSeq(A, 1, 1)[n] = <<Head(A)>>[n] BY <2>1, <2>2
  <2>4. QED BY <2>1, <2>2, <2>3, SeqEqual
<1>5. Tail(A) = SubSeq(A, 2, Len(A)) BY <1>1, <1>3, TailIsSubSeq
<1>6. QED BY <1>2, <1>4, <1>5 DEF A

LEMMA PieceGrows ==
  ASSUME NEW M, NEW P \in Seq(M), NEW q \in Seq(M), NEW i \in Nat, NEW j \in Nat,
         i <= j, j <= Len(P)
  PROVE  /\ P \o q \in Seq(M) /\ Len(P \o q) = Len(P) + Len(q)
         /\ Piece(P \o q, i, j) = Piece(P, i, j)
         /\ Piece(P \o q, i, Len(P \o q)) = Piece(P, i, Len(P)) \o q
<1>1. /\ P \o q \in Seq(M) /\ Len(P \o q) = Len(P) + Len(q)
      /\ \A n \in 1..Len(P) : (P \o q)[n] = P[n]
      /\ \A n \in 1..Len(q) : (P \o q)[Len(P) + n] = q[n]
  BY ConcatProperties
<1> DEFINE R == P \o q
<1> HIDE DEF R
<1>2. /\ R \in Seq(M) /\ Len(R) = Len(P) + Len(q)
      /\ \A n \in 1..Len(P) : R[n] = P[n]
      /\ \A n \in 1..Len(q) : R[Len(P) + n] = q[n]
  BY <1>1 DEF R
<1>3. ASSUME NEW m \in Nat, i <= m, m <= Len(P) PROVE Piece(R, i, m) = Piece(P, i, m)
  <2>1. Piece(P, i, m) \in Seq(M) /\ Len(Piece(P, i, m)) = m - i
        /\ \A n \in 1..(m - i) : Piece(P, i, m)[n] = P[i + n]
    BY <1>3, PieceType
  <2>2. m <= Len(R) BY <1>2, <1>3
  <2>3. Piece(R, i, m) \in Seq(M) /\ Len(Piece(R, i, m)) = m - i
        /\ \A n \in 1..(m - i) : Piece(R, i, m)[n] = R[i + n]
    <3>1. \A Q \in Seq(M) : m <= Len(Q) =>
            /\ Piece(Q, i, m) \in Seq(M) /\ Len(Piece(Q, i, m)) = m - i
            /\ \A n \in 1..(m - i) : Piece(Q, i, m)[n] = Q[i + n]
      BY <1>3, PieceType
    <3>2. QED BY <1>2, <2>2, <3>1
  <2>4. ASSUME NEW n \in 1..(m - i) PROVE R[i + n] = P[i + n]
    <3>1. i + n \in 1..Len(P) BY <1>3
    <3>2. QED BY <1>2, <3>1
  <2>5. QED BY <1>3, <2>1, <2>3, <2>4, SeqEqual
<1>4. Piece(R, Len(P), Len(R)) = q
  <2>1. Piece(R, Len(P), Len(R)) \in Seq(M) /\ Len(Piece(R, Len(P), Len(R))) = Len(q)
        /\ \A n \in 1..Len(q) : Piece(R, Len(P), Len(R))[n] = R[Len(P) + n]
    <3>1. Len(P) \in Nat /\ Len(R) \in Nat /\ Len(P) <= Len(R) /\ Len(R) - Len(P) = Len(q) BY <1>2
    <3>2. Len(R) <= Len(R) BY <3>1
    <3>3. R \in Seq(M) BY <1>2
    <3>4. Piece(R, Len(P), Len(R)) \in Seq(M) /\ Len(Piece(R, Len(P), Len(R))) = Len(R) - Len(P)
          /\ \A n \in 1..(Len(R) - Len(P)) : Piece(R, Len(P), Len(R))[n] = R[Len(P) + n]
      BY <3>1, <3>2, <3>3, PieceType
    <3>5. QED BY <3>1, <3>4
  <2>2. ASSUME NEW n \in 1..Len(q) PROVE Piece(R, Len(P), Len(R))[n] = q[n]
    <3>1. Piece(R, Len(P), Len(R))[n] = R[Len(P) + n] BY <2>1
    <3>2. R[Len(P) + n] = q[n] BY <1>2
    <3>3. QED BY <3>1, <3>2
  <2>3. QED BY <2>1, <2>2, SeqEqual
<1>5. Len(P) \in Nat /\ Len(R) \in Nat /\ Len(P) <= Len(R) /\ i <= Len(P) BY <1>2
<1>6. Piece(R, i, Len(P)) \o Piece(R, Len(P), Len(R)) = Piece(R, i, Len(R))
  <2>1. Len(R) <= Len(R) BY <1>5
  <2>2. Joins(R, i, Len(P), Len(R)) BY <1>2, <1>5, <2>1, PieceJoin
  <2>3. QED BY <2>2 DEF Joins
<1>7. Piece(R, i, j) = Piece(P, i, j) /\ Piece(R, i, Len(P)) = Piece(P, i, Len(P))
  BY <1>3, <1>5
<1>8. Piece(R, i, Len(R)) = Piece(P, i, Len(P)) \o q BY <1>4, <1>6, <1>7
<1>9. QED BY <1>2, <1>7, <1>8 DEF R

(* A list that grows.                                                      *)
LEMMA AppendListed ==
  ASSUME NEW s, NEW n, Listed(s, n), NEW e
  PROVE  /\ Len(s) = n /\ Listed(Append(s, e), n + 1) /\ Len(Append(s, e)) = n + 1
         /\ \A i \in 1..n : Append(s, e)[i] = s[i]
         /\ Append(s, e)[n + 1] = e
<1> DEFINE M == {s[i] : i \in 1..n} \cup {e}
<1>1. n \in Nat /\ s \in [1..n -> M] BY DEF Listed
<1>2. s \in Seq(M) /\ Len(s) = n /\ e \in M BY <1>1
<1> HIDE DEF M
<1>3. /\ Append(s, e) \in Seq(M) /\ Len(Append(s, e)) = n + 1
      /\ \A i \in 1..n : Append(s, e)[i] = s[i]
      /\ Append(s, e)[n + 1] = e
  BY <1>2, AppendProperties
<1>4. Append(s, e) \in [1..n + 1 -> M] BY <1>3, LenProperties
<1>5. QED BY <1>1, <1>2, <1>3, <1>4 DEF Listed

(* The list h is s with e behind it.                                       *)
Grown(h, s, n, e) ==
  /\ Listed(h, n + 1) /\ Len(h) = n + 1 /\ h[n + 1] = e
  /\ \A i \in 1..n : h[i] = s[i]

LEMMA AppendGrows ==
  ASSUME NEW s, NEW n, NEW e, Listed(s, n)
  PROVE  Grown(Append(s, e), s, n, e)
BY AppendListed DEF Grown

(* What a step does to a rank.                                             *)
Idle(r) ==
  /\ UNCHANGED <<heard[r], urgent[r], batches[r]>> /\ UNCHANGED StateOf(r)
  /\ pc[r] = "processing" <=> pc'[r] = "processing"
Schedules(r, now) ==
  /\ pc[r] = "scheduling" /\ pc'[r] = "processing"
  /\ StateOf(r)' = Scheduled(StateOf(r), msgs[r], now)
  /\ heard'[r] = Append(heard[r], msgs[r]) /\ urgent'[r] = Append(urgent[r], now)
  /\ batches'[r] = Append(batches[r], BatchOf(StateOf(r), msgs[r], now))
Processes(r) ==
  /\ pc[r] = "processing" /\ pc'[r] = "begin"
  /\ StateOf(r)' = Finish(StateOf(r)) /\ UNCHANGED <<heard[r], urgent[r], batches[r]>>

LEMMA IsScheduled ==
  ASSUME Shapes, NEW r \in Ranks, NEW now, Schedule(r, now)
  PROVE  Schedules(r, now)
<1>1. Lists(r) = ListsAfter(StateOf(r), msgs[r]) BY DEF Lists, ListsAfter, StateOf
<1>2. NextBatch(Lists(r), now) = BatchOf(StateOf(r), msgs[r], now) BY <1>1 DEF BatchOf
<1> DEFINE b == BatchOf(StateOf(r), msgs[r], now)
           l == ListsAfter(StateOf(r), msgs[r])
           a == LeftAfter(StateOf(r), b)
<1>3. a = [u \in Uids |-> left[r][u] - (IF u \in InBatch(b) THEN 1 ELSE 0)]
  BY DEF LeftAfter, StateOf
<1> HIDE DEF b, l, a
<1>4. /\ pc[r] = "scheduling"
      /\ pending' = [pending EXCEPT ![r] = l.pending \ InBatch(b)]
      /\ running' = [running EXCEPT ![r] = IF b.decode = {} THEN l.running ELSE Decodable(l.running, a)]
      /\ left' = [left EXCEPT ![r] = a]
      /\ current' = [current EXCEPT ![r] = b]
      /\ heard' = [heard EXCEPT ![r] = Append(@, msgs[r])]
      /\ urgent' = [urgent EXCEPT ![r] = Append(@, now)]
      /\ batches' = [batches EXCEPT ![r] = Append(@, b)]
      /\ pc' = [pc EXCEPT ![r] = "processing"]
      /\ UNCHANGED <<got, last>>
  BY <1>1, <1>2, <1>3 DEF Schedule, b, l
<1>5. StateOf(r)' =
        [pending |-> l.pending \ InBatch(b),
         running |-> IF b.decode = {} THEN l.running ELSE Decodable(l.running, a),
         left |-> a, got |-> got[r], current |-> b, last |-> last[r]]
  BY <1>4 DEF StateOf, Shapes
<1>6. StateOf(r).got = got[r] /\ StateOf(r).last = last[r] BY DEF StateOf
<1>7. StateOf(r)' = Scheduled(StateOf(r), msgs[r], now)
  BY <1>5, <1>6 DEF Scheduled, b, l, a
<1>8. /\ heard'[r] = Append(heard[r], msgs[r]) /\ urgent'[r] = Append(urgent[r], now)
      /\ batches'[r] = Append(batches[r], b) /\ pc'[r] = "processing"
  BY <1>4 DEF Shapes
<1>9. QED BY <1>4, <1>7, <1>8 DEF Schedules, b

LEMMA IsProcessed ==
  ASSUME Shapes, NEW r \in Ranks, Process(r)
  PROVE  Processes(r)
<1> DEFINE s == StateOf(r)
<1>1. /\ s.pending = pending[r] /\ s.running = running[r] /\ s.left = left[r]
      /\ s.got = got[r] /\ s.current = current[r] /\ s.last = last[r]
  BY DEF StateOf
<1>2. Processed(r) = Results(s) BY <1>1 DEF Processed, Results
<1>3. GotAfter(s) = [u \in Uids |-> got[r][u] + (IF u \in InBatch(Processed(r)) THEN 1 ELSE 0)]
  BY <1>1, <1>2 DEF GotAfter
<1>4. Finishes(s) = {u \in InBatch(Processed(r)) : left[r][u] = 0 \/ GotAfter(s)[u] = EosAt[u]}
  BY <1>1, <1>2 DEF Finishes
<1> DEFINE g == GotAfter(s)
           f == Finishes(s)
<1> HIDE DEF g, f
<1>5. /\ pc[r] = "processing"
      /\ got' = [got EXCEPT ![r] = g]
      /\ running' = [running EXCEPT ![r] = (@ \cup Range(Processed(r).prefill)) \ f]
      /\ last' = [last EXCEPT ![r] = IF Overlap THEN current[r] ELSE NoBatch]
      /\ current' = [current EXCEPT ![r] = NoBatch]
      /\ pc' = [pc EXCEPT ![r] = "begin"]
      /\ UNCHANGED <<pending, left, heard, urgent, batches>>
  BY <1>3, <1>4 DEF Process, g, f
<1>6. StateOf(r)' =
        [pending |-> pending[r], running |-> (running[r] \cup Range(Processed(r).prefill)) \ f,
         left |-> left[r], got |-> g, current |-> NoBatch,
         last |-> IF Overlap THEN current[r] ELSE NoBatch]
  BY <1>5 DEF StateOf, Shapes
<1> HIDE DEF s
<1>7. StateOf(r)' = Finish(s) BY <1>1, <1>2, <1>6 DEF Finish, g, f
<1>8. pc'[r] = "begin" BY <1>5 DEF Shapes
<1>9. QED BY <1>5, <1>7, <1>8 DEF Processes, s

(* A step of another rank.                                                 *)
LEMMA OthersIdle ==
  ASSUME Shapes, NEW q \in Ranks, NEW r \in Ranks, q # r, Works(q)
  PROVE  Idle(r) /\ pc'[r] = pc[r] /\ msgs'[r] = msgs[r]
<1>1. ASSUME NEW now, Schedule(q, now)
      PROVE  Idle(r) /\ pc'[r] = pc[r] /\ msgs'[r] = msgs[r]
  BY <1>1 DEF Schedule, Shapes, Idle, StateOf
<1>2. CASE Process(q)
  BY <1>2 DEF Process, Shapes, Idle, StateOf, ioVars
<1>3. QED BY <1>1, <1>2 DEF Works

LEMMA RankSteps ==
  ASSUME Shapes, [Next]_vars, NEW r \in Ranks
  PROVE  Idle(r) \/ Processes(r) \/ \E now : Schedules(r, now)
<1> USE DEF reqVars, loopVars, ioVars
<1>1. CASE UNCHANGED vars BY <1>1 DEF vars, Idle, StateOf
<1>2. ASSUME NEW m \in Message, Ask(m) PROVE Idle(r) BY <1>2 DEF Ask, Idle, StateOf
<1>3. CASE RootFirst BY <1>3 DEF RootFirst, Idle, StateOf, Shapes
<1>4. CASE RootCount BY <1>4 DEF RootCount, Ready, Idle, StateOf, Shapes
<1>5. CASE RootRest BY <1>5 DEF RootRest, Idle, StateOf, Shapes
<1>6. ASSUME NEW f \in Followers, FollowerReceives(f) PROVE Idle(r)
  BY <1>6 DEF FollowerReceives, FollowerFirst, FollowerCount, FollowerRest, Ready, Idle, StateOf, Shapes, Ranks
<1>7. ASSUME NEW q \in Ranks, Works(q) PROVE Idle(r) \/ Processes(r) \/ \E now : Schedules(r, now)
  <2>1. CASE q = r BY <1>7, <2>1, IsScheduled, IsProcessed DEF Works
  <2>2. CASE q # r BY <1>7, <2>2, OthersIdle
  <2>3. QED BY <2>1, <2>2
<1>8. QED BY <1>1, <1>2, <1>3, <1>4, <1>5, <1>6, <1>7 DEF Next, RootReceives

----------------------------------------------------------------------------
(* Every rank has a trace, and two that have heard the same and decided the*)
(* same have the same.                                                     *)
LEMMA TraceInit == ASSUME Init, NEW r \in Ranks PROVE Trace([i \in 0..0 |-> First], r)
<1> DEFINE T == [i \in 0..0 |-> First]
<1>1. heard[r] = <<>> /\ urgent[r] = <<>> /\ batches[r] = <<>> /\ pc[r] = "begin"
      /\ StateOf(r) = First
  BY DEF Init, StateOf, First
<1>2. Heard(r) = 0 BY <1>1 DEF Heard
<1>3. Listed(<<>>, 0) BY DEF Listed
<1>4. QED BY <1>1, <1>2, <1>3 DEF Trace, Now

LEMMA TraceIdle ==
  ASSUME NEW T, NEW r \in Ranks, Trace(T, r), Idle(r)
  PROVE  Trace(T, r)' /\ Heard(r)' = Heard(r)
BY DEF Trace, Idle, Heard, Now, Iterates, Listed

LEMMA TraceProcess ==
  ASSUME NEW T, NEW r \in Ranks, Trace(T, r), Processes(r)
  PROVE  Trace(T, r)' /\ Heard(r)' = Heard(r)
<1>1. Heard(r)' = Heard(r) BY DEF Processes, Heard
<1> DEFINE n == Heard(r)
<1>2. n \in Nat /\ n > 0 /\ StateOf(r) = Scheduled(T[n - 1], heard[r][n], urgent[r][n])
  BY DEF Trace, Now, Processes, Listed
<1>3. Iterates(T, r, n) BY <1>2 DEF Trace
<1>4. StateOf(r)' = T[n] BY <1>2, <1>3 DEF Processes, Iterates, After
<1>5. Now(T, r)' BY <1>1, <1>4 DEF Now, Processes
<1>6. QED BY <1>1, <1>5 DEF Trace, Processes, Iterates

LEMMA TraceGrows ==
  ASSUME NEW T, NEW r \in Ranks, Trace(T, r), NEW now, Schedules(r, now)
  PROVE  /\ Heard(r) \in Nat /\ Heard(r)' = Heard(r) + 1
         /\ \E U : Trace(U, r)' /\ \A i \in 0..Heard(r) : U[i] = T[i]
<1>1. PICK n : n = Heard(r) OBVIOUS
<1>2. /\ n \in Nat /\ T = [i \in 0..n |-> T[i]] /\ T[0] = First /\ StateOf(r) = T[n]
      /\ Listed(heard[r], n) /\ Listed(urgent[r], n) /\ Listed(batches[r], n)
      /\ \A i \in 1..n : Iterates(T, r, i)
  BY <1>1 DEF Trace, Now, Schedules, Listed
<1> /\ heard'[r] = Append(heard[r], msgs[r]) /\ urgent'[r] = Append(urgent[r], now)
    /\ batches'[r] = Append(batches[r], BatchOf(T[n], msgs[r], now))
  BY <1>2 DEF Schedules
<1>3. PICK h : h = heard'[r] OBVIOUS
<1>4. PICK u : u = urgent'[r] OBVIOUS
<1>5. PICK b : b = batches'[r] OBVIOUS
<1>6. Grown(h, heard[r], n, msgs[r]) BY <1>2, <1>3, AppendGrows
<1>7. Grown(u, urgent[r], n, now) BY <1>2, <1>4, AppendGrows
<1>8. Grown(b, batches[r], n, BatchOf(T[n], msgs[r], now)) BY <1>2, <1>5, AppendGrows
<1>9. PICK U : U = [i \in 0..n + 1 |-> IF i = n + 1 THEN After(T[n], h[n + 1], u[n + 1]) ELSE T[i]]
  OBVIOUS
<1>10. /\ U = [i \in 0..n + 1 |-> U[i]] /\ U[n + 1] = After(T[n], h[n + 1], u[n + 1])
       /\ \A i \in 0..n : U[i] = T[i]
  BY <1>2, <1>9
<1>11. ASSUME NEW i \in 1..n + 1
       PROVE U[i] = After(U[i - 1], h[i], u[i]) /\ b[i] = BatchOf(U[i - 1], h[i], u[i])
  <2>1. CASE i = n + 1
    <3>1. i - 1 = n /\ n \in 0..n BY <1>2, <2>1
    <3>2. QED BY <1>6, <1>7, <1>8, <1>10, <2>1, <3>1 DEF Grown
  <2>2. CASE i # n + 1
    <3>1. i \in 1..n /\ i \in 0..n /\ i - 1 \in 0..n BY <1>2, <2>2
    <3>2. Iterates(T, r, i) BY <1>2, <3>1
    <3>3. QED BY <1>6, <1>7, <1>8, <1>10, <3>1, <3>2 DEF Iterates, Grown
  <2>3. QED BY <2>1, <2>2
<1>12. Heard(r)' = n + 1 BY <1>3, <1>6 DEF Heard, Grown
<1>13. \A i \in 1..n + 1 : Iterates(U, r, i)' BY <1>3, <1>4, <1>5, <1>11 DEF Iterates
<1>14. StateOf(r)' = Scheduled(U[n], h[n + 1], u[n + 1])
  <2>1. n \in 0..n BY <1>2
  <2> U[n] = T[n] BY <1>10, <2>1
  <2>2. StateOf(r)' = Scheduled(T[n], msgs[r], now) BY <1>2 DEF Schedules
  <2>3. QED BY <1>6, <1>7, <2>1, <2>2 DEF Grown
<1>15. Now(U, r)'
  <2>1. (n + 1) - 1 = n /\ n + 1 > 0 BY <1>2
  <2>2. QED BY <1>3, <1>4, <1>12, <1>14, <2>1 DEF Now, Schedules
<1>16. U[0] = First
  <2>1. 0 \in 0..n BY <1>2
  <2>2. QED BY <1>2, <1>10, <2>1
<1>17. Trace(U, r)'
  BY <1>3, <1>4, <1>5, <1>6, <1>7, <1>8, <1>10, <1>12, <1>13, <1>15, <1>16 DEF Trace, Grown
<1>18. QED BY <1>1, <1>2, <1>10, <1>12, <1>17

LEMMA TracesAgree ==
  ASSUME NEW q \in Ranks, NEW r \in Ranks, NEW T, NEW U, Trace(T, q), Trace(U, r),
         NEW m \in Nat, m <= Heard(q), m <= Heard(r),
         \A i \in 1..m : heard[q][i] = heard[r][i] /\ urgent[q][i] = urgent[r][i]
  PROVE  /\ \A i \in 0..m : T[i] = U[i]
         /\ \A i \in 1..m : batches[q][i] = batches[r][i]
<1> DEFINE N == {i \in 0..m : T[i] # U[i]}
<1>1. Heard(q) \in Nat /\ Heard(r) \in Nat BY DEF Trace, Listed
<1>2. ASSUME N # {} PROVE FALSE
  <2>1. PICK i \in N : \A k \in N : i <= k
    <3>1. N \in SUBSET Nat OBVIOUS
    <3>2. QED BY <1>2, <3>1, LeastNumber
  <2>2. i # 0 BY DEF Trace
  <2>3. i \in 1..m /\ i - 1 \in 0..m /\ ~(i <= i - 1) BY <2>2
  <2>4. T[i - 1] = U[i - 1] BY <2>1, <2>3
  <2>5. i \in 1..Heard(q) /\ i \in 1..Heard(r) BY <1>1, <2>3
  <2>6. Iterates(T, q, i) /\ Iterates(U, r, i) BY <2>5 DEF Trace
  <2>7. T[i] = U[i] BY <2>3, <2>4, <2>6 DEF Iterates
  <2>8. QED BY <2>7
<1>3. \A i \in 0..m : T[i] = U[i] BY <1>2
<1>4. ASSUME NEW i \in 1..m PROVE batches[q][i] = batches[r][i]
  <2>1. i \in 1..Heard(q) /\ i \in 1..Heard(r) /\ i - 1 \in 0..m BY <1>1
  <2>2. Iterates(T, q, i) /\ Iterates(U, r, i) BY <2>1 DEF Trace
  <2>3. QED BY <1>3, <2>1, <2>2 DEF Iterates
<1>5. QED BY <1>3, <1>4

----------------------------------------------------------------------------
(* What is known of the stream at a cut.                                   *)
CutAt(T, P, c, k) ==
  /\ c[k] \in Nat /\ c[k] <= Len(P)
  /\ k < Cut(Root) => /\ c[k + 1] \in Nat /\ c[k + 1] <= Len(P)
                      /\ c[k] + One(Blocks(T[k])) <= c[k + 1]

LEMMA OneType == ASSUME NEW b PROVE One(b) \in {0, 1}
BY DEF One

LEMMA CutType ==
  ASSUME NEW r, NEW n \in Nat, n = Heard(r)
  PROVE  Cut(r) \in Nat /\ n <= Cut(r) /\ Cut(r) <= n + 1
BY OneType DEF Cut

LEMMA CutFacts ==
  ASSUME NEW T, NEW P, NEW c, CutOK(T, P, c), Cut(Root) \in Nat, NEW k \in 0..Cut(Root)
  PROVE  CutAt(T, P, c, k) /\ P \in Seq(Message) /\ Len(P) \in Nat
<1>1. P \in Seq(Message) /\ Len(P) \in Nat BY DEF CutOK
<1>2. One(pc[Root] = "counting") \in {0, 1} BY OneType
<1>3. c[Cut(Root)] \in Nat /\ c[Cut(Root)] <= Len(P) BY <1>1, <1>2 DEF CutOK
<1>4. ASSUME NEW i \in 0..Cut(Root) PROVE c[i] \in Nat /\ c[i] <= Len(P)
  BY <1>1, <1>3, <1>4 DEF CutOK
<1>5. ASSUME k < Cut(Root) PROVE c[k] + One(Blocks(T[k])) <= c[k + 1]
  <2>1. k + 1 \in 1..Cut(Root) /\ (k + 1) - 1 = k BY <1>5
  <2>2. \A i \in 1..Cut(Root) : c[i - 1] + One(Blocks(T[i - 1])) <= c[i] BY DEF CutOK
  <2>3. c[(k + 1) - 1] + One(Blocks(T[(k + 1) - 1])) <= c[k + 1] BY <2>1, <2>2
  <2>4. QED BY <2>1, <2>3
<1>6. k < Cut(Root) => k + 1 \in 0..Cut(Root) OBVIOUS
<1>7. QED BY <1>1, <1>4, <1>5, <1>6 DEF CutAt

(* The parts of the invariant of a follower.                               *)
TheCounts(f, T, c) ==
  [i \in 1..Cut(Root) - Cut(f) |->
     c[Cut(f) + i] - c[Cut(f) + i - 1] - One(Blocks(T[Cut(f) + i - 1]))]

LEMMA CountsSame ==
  ASSUME NEW f, NEW T, NEW U, NEW c, NEW n \in Nat, n = Heard(Root), Heard(f) \in Nat,
         Cut(f)' = Cut(f), Cut(Root)' = Cut(Root), \A i \in 0..n : U[i] = T[i]
  PROVE  TheCounts(f, U, c)' = TheCounts(f, T, c)
<1>1. Cut(Root) \in Nat /\ Cut(Root) <= n + 1 BY CutType
<1>2. Cut(f) \in Nat BY CutType
<1>3. ASSUME NEW i \in 1..Cut(Root) - Cut(f) PROVE U[Cut(f) + i - 1] = T[Cut(f) + i - 1]
  <2>1. Cut(f) + i - 1 \in 0..n BY <1>1, <1>2
  <2>2. QED BY <2>1
<1>4. TheCounts(f, U, c)' = [i \in 1..Cut(Root) - Cut(f) |->
        c[Cut(f) + i] - c[Cut(f) + i - 1] - One(Blocks(U[Cut(f) + i - 1]))]
  BY DEF TheCounts
<1>5. QED BY <1>3, <1>4 DEF TheCounts

SameFollower(f) ==
  UNCHANGED <<pc[f], heard[f], msgs[f], due[f], feed[f], counts[f]>>

(* Whatever leaves the follower and the stream as they are.                *)
LEMMA FollowerSame ==
  ASSUME NEW f, NEW T, NEW U, NEW P, NEW c, FollowerOK(f, T, P, c),
         NEW n \in Nat, n = Heard(Root), Heard(f) \in Nat, pc[f] \in Phases,
         SameFollower(f), raws' = raws,
         Cut(Root)' = Cut(Root), Heard(Root)' \in Nat, n <= Heard(Root)',
         \A i \in 0..n : U[i] = T[i]
  PROVE  FollowerOK(f, U, P, c)'
<1>1. PICK k : k = Heard(f) OBVIOUS
<1>2. k \in Nat /\ Heard(f)' = k /\ Cut(f)' = Cut(f) /\ Cut(f) \in Nat /\ k <= Cut(f)
  BY <1>1, CutType DEF SameFollower, Heard, Cut, CutsNext
<1>3. Cut(Root) \in Nat /\ Cut(Root) <= n + 1 /\ Cut(f) <= Cut(Root)
  BY CutType DEF FollowerOK
<1>4. TheCounts(f, U, c)' = TheCounts(f, T, c) BY <1>2, CountsSame
<1>5. TakenOf(f, U, c, k)' = TakenOf(f, T, c, k)
  <2>1. CASE pc[f] \in {"begin", "processing"} BY <2>1 DEF TakenOf, SameFollower
  <2>2. CASE pc[f] = "scheduling" BY <2>2 DEF TakenOf, SameFollower
  <2>3. CASE pc[f] \in {"receiving", "counting"}
    <3>1. CASE k \in 0..n BY <2>3, <3>1 DEF TakenOf, SameFollower
    <3>2. CASE pc[f] = "counting"
      <4>1. k \in 0..n BY <1>1, <1>2, <3>2 DEF FollowerOK
      <4>2. QED BY <3>1, <4>1
    <3>3. CASE pc[f] = "receiving"
      <4>1. Cut(f) = k + 1 BY <1>1, <3>3 DEF Cut, CutsNext, One
      <4>2. k \in 0..n BY <1>2, <1>3, <4>1
      <4>3. QED BY <3>1, <4>2
    <3>4. QED BY <2>3, <3>2, <3>3
  <2>4. QED BY <2>1, <2>2, <2>3 DEF Phases
<1>6. Published(P)' = Published(P) BY DEF Published
<1>7. pc[f] = "counting" => k <= Heard(Root)' /\ Blocks(U[k])
  BY <1>1, <1>2 DEF FollowerOK
<1>8. counts[f] = TheCounts(f, T, c) BY DEF FollowerOK, TheCounts
<1>9. counts'[f] = TheCounts(f, U, c)' BY <1>4, <1>8 DEF SameFollower
<1>10. QED
  BY <1>1, <1>2, <1>5, <1>6, <1>7, <1>9 DEF FollowerOK, SameFollower, TheCounts

(* Where a follower is in the stream.                                      *)
LEMMA TakenRange ==
  ASSUME NEW f, NEW T, NEW P, NEW c, FollowerOK(f, T, P, c), CutOK(T, P, c),
         Cut(Root) \in Nat, NEW k \in Nat, k = Heard(f), pc[f] \in Phases
  PROVE  /\ TakenOf(f, T, c, k) \in Nat /\ c[k] \in Nat /\ c[k] <= TakenOf(f, T, c, k)
         /\ TakenOf(f, T, c, k) <= Published(P)
         /\ Cut(f) \in Nat /\ k <= Cut(f) /\ Cut(f) <= Cut(Root) /\ k \in 0..Cut(Root)
         /\ pc[f] \in {"receiving", "scheduling"} => Cut(f) = k + 1 /\ k < Cut(Root)
<1>1. Cut(f) \in Nat /\ k <= Cut(f) BY CutType
<1>2. Cut(f) <= Cut(Root) BY DEF FollowerOK
<1>3. k \in 0..Cut(Root) BY <1>1, <1>2
<1>4. CutAt(T, P, c, k) BY <1>3, CutFacts
<1>5. pc[f] \in {"receiving", "scheduling"} => Cut(f) = k + 1 BY DEF Cut, CutsNext, One
<1>6. pc[f] \in {"receiving", "scheduling"} => k < Cut(Root) BY <1>1, <1>2, <1>5
<1>7. One(Blocks(T[k])) \in {0, 1} BY OneType
<1>8. TakenOf(f, T, c, k) \in Nat /\ c[k] <= TakenOf(f, T, c, k) /\ c[k] \in Nat
  BY <1>4, <1>6, <1>7 DEF TakenOf, CutAt, Phases
<1>9. TakenOf(f, T, c, k) <= Published(P) BY DEF FollowerOK
<1>10. QED BY <1>1, <1>2, <1>3, <1>5, <1>6, <1>8, <1>9

(* A longer stream, and more of its cuts.                                  *)
Extends(P, Q) ==
  /\ P \in Seq(Message) /\ Q \in Seq(Message) /\ Len(P) <= Len(Q)
  /\ \A i, j \in Nat : i <= j /\ j <= Len(P) => Piece(Q, i, j) = Piece(P, i, j)

LEMMA ExtendsConcat ==
  ASSUME NEW P \in Seq(Message), NEW q \in Seq(Message)
  PROVE  /\ Extends(P, P \o q) /\ Len(P \o q) = Len(P) + Len(q)
         /\ Piece(P \o q, Len(P), Len(P \o q)) = q
<1>1. P \o q \in Seq(Message) /\ Len(P \o q) = Len(P) + Len(q) /\ Len(P) \in Nat /\ Len(q) \in Nat
  BY ConcatProperties
<1>2. ASSUME NEW i \in Nat, NEW j \in Nat, i <= j, j <= Len(P)
      PROVE  Piece(P \o q, i, j) = Piece(P, i, j)
  BY <1>2, PieceGrows
<1>3. Len(P) <= Len(P) BY <1>1
<1>4. Piece(P \o q, Len(P), Len(P \o q)) = Piece(P, Len(P), Len(P)) \o q BY <1>1, <1>3, PieceGrows
<1>5. Piece(P, Len(P), Len(P)) = <<>> BY <1>1, PieceEmpty
<1>6. <<>> \o q = q BY ConcatEmptySeq
<1>7. QED BY <1>1, <1>2, <1>4, <1>5, <1>6 DEF Extends

LEMMA ExtendsSelf == ASSUME NEW P \in Seq(Message) PROVE Extends(P, P)
BY DEF Extends

CutBy(h, m, P, c) == \A i \in 1..m : h[i] = Piece(P, c[i - 1], c[i])

LEMMA HeardKept ==
  ASSUME NEW T, NEW P, NEW Q, NEW c, NEW d, CutOK(T, P, c), Cut(Root) \in Nat, Extends(P, Q),
         \A i \in 0..Cut(Root) : d[i] = c[i],
         NEW h, NEW m \in Nat, m <= Cut(Root), CutBy(h, m, P, c)
  PROVE  CutBy(h, m, Q, d)
<1>1. ASSUME NEW i \in 1..m PROVE h[i] = Piece(Q, d[i - 1], d[i])
  <2>1. PICK j : j = i - 1 OBVIOUS
  <2>2. j \in 0..Cut(Root) /\ j < Cut(Root) /\ j + 1 = i /\ i \in 0..Cut(Root) BY <2>1
  <2>3. CutAt(T, P, c, j) BY <2>2, CutFacts
  <2>4. One(Blocks(T[j])) \in {0, 1} BY OneType
  <2>5. c[j] \in Nat /\ c[i] \in Nat /\ c[j] <= c[i] /\ c[i] <= Len(P) BY <2>2, <2>3, <2>4 DEF CutAt
  <2>6. Piece(Q, c[j], c[i]) = Piece(P, c[j], c[i]) BY <2>5 DEF Extends
  <2>7. h[i] = Piece(P, c[j], c[i]) BY <2>1 DEF CutBy
  <2>8. d[j] = c[j] /\ d[i] = c[i] BY <2>2
  <2>9. QED BY <2>1, <2>6, <2>7, <2>8
<1>2. QED BY <1>1 DEF CutBy

(* Rank 0 publishes.                                                       *)
LEMMA FollowerPublished ==
  ASSUME NEW f, NEW T, NEW P, NEW Q, NEW c, NEW d, FollowerOK(f, T, P, c), CutOK(T, P, c),
         Heard(Root) \in Nat, Heard(Root)' = Heard(Root), Heard(f) \in Nat, pc[f] \in Phases,
         UNCHANGED <<pc[f], heard[f], msgs[f], due[f]>>,
         Extends(P, Q), \A i \in 0..Cut(Root) : d[i] = c[i],
         Cut(Root)' \in Nat, Cut(Root) <= Cut(Root)',
         NEW a \in Nat, a = Published(P), a <= Len(P),
         NEW b \in Nat, b = Published(Q)', a <= b, b <= Len(Q),
         feed'[f] = feed[f] \o Piece(Q, a, b),
         counts'[f] = TheCounts(f, T, d)'
  PROVE  FollowerOK(f, T, Q, d)'
<1>1. PICK k : k = Heard(f) OBVIOUS
<1>2. k \in Nat /\ Heard(f)' = k /\ Cut(f)' = Cut(f) BY <1>1 DEF Heard, Cut, CutsNext
<1>3. Cut(Root) \in Nat BY CutType
<1>4. PICK t : t = TakenOf(f, T, c, k) OBVIOUS
<1>5. /\ t \in Nat /\ c[k] \in Nat /\ c[k] <= t /\ t <= a
      /\ Cut(f) \in Nat /\ k <= Cut(f) /\ Cut(f) <= Cut(Root) /\ k \in 0..Cut(Root)
      /\ pc[f] \in {"receiving", "scheduling"} => Cut(f) = k + 1 /\ k < Cut(Root)
  BY <1>1, <1>3, <1>4, TakenRange
<1>6. d[k] = c[k] /\ (pc[f] \in {"receiving", "scheduling"} => d[k + 1] = c[k + 1])
  <2>1. k < Cut(Root) => k + 1 \in 0..Cut(Root) BY <1>3, <1>5
  <2>2. QED BY <1>5, <2>1
<1>7. TakenOf(f, T, d, k)' = t BY <1>4, <1>6 DEF TakenOf
<1>8. CutBy(heard[f], k, Q, d)
  <2>1. k <= Cut(Root) BY <1>5
  <2>2. CutBy(heard[f], k, P, c) BY <1>1 DEF FollowerOK, CutBy
  <2>3. QED BY <1>2, <1>3, <2>1, <2>2, HeardKept
<1>9. feed'[f] = Piece(Q, t, b)
  <2>1. feed[f] = Piece(P, t, a) BY <1>1, <1>4 DEF FollowerOK
  <2>2. Piece(P, t, a) = Piece(Q, t, a) BY <1>5 DEF Extends
  <2>3. Q \in Seq(Message) /\ t \in Nat /\ t <= a BY <1>5 DEF Extends
  <2>4. Joins(Q, t, a, b) BY <2>3, PieceJoin
  <2>5. QED BY <2>1, <2>2, <2>4 DEF Joins
<1>10. msgs'[f] = Piece(Q, d[k], t)
  <2>1. msgs[f] = Piece(P, c[k], t) BY <1>1, <1>4 DEF FollowerOK
  <2>2. t <= Len(P) BY <1>5 DEF Extends
  <2>3. Piece(P, c[k], t) = Piece(Q, c[k], t) BY <1>5, <2>2 DEF Extends
  <2>4. QED BY <1>6, <2>1, <2>3
<1>11. pc'[f] = "counting" => k <= Heard(Root)' /\ Blocks(T[k]) BY <1>1 DEF FollowerOK
<1>12. pc'[f] = "receiving" => due'[f] = d[k + 1] - t BY <1>1, <1>4, <1>6 DEF FollowerOK
<1>13. Cut(f)' <= Cut(Root)' BY <1>2, <1>5, <1>3
<1>14. CutBy(heard'[f], k, Q, d) BY <1>8
<1>15. QED
  BY <1>2, <1>5, <1>7, <1>9, <1>10, <1>11, <1>12, <1>13, <1>14 DEF FollowerOK, TheCounts, CutBy

----------------------------------------------------------------------------
(* The steps of rank 0.                                                    *)
Stream(T, P, c) ==
  /\ CutOK(T, P, c) /\ RootOK(T, P, c)
  /\ \A f \in Followers : FollowerInv(f, T, P, c)
Traced == \A r \in Ranks : Heard(r) \in Nat

LEMMA RootBlocks ==
  ASSUME NEW T, Trace(T, Root), pc[Root] # "processing"
  PROVE  Blocking(Root) <=> Blocks(T[Heard(Root)])
<1>1. StateOf(Root) = T[Heard(Root)] BY DEF Trace, Now
<1>2. Blocking(Root) <=> Blocks(StateOf(Root)) BY DEF Blocking, Blocks, StateOf
<1>3. QED BY <1>1, <1>2

(* The invariants of the followers, when rank 0 does something with the    *)
(* stream.                                                                 *)
Publishes(T, P, Q, c, d, a, b) ==
  /\ CutOK(T, P, c) /\ \A f \in Followers : FollowerInv(f, T, P, c)
  /\ UNCHANGED <<heard, urgent, due>>
  /\ \A f \in Followers : pc'[f] = pc[f] /\ msgs'[f] = msgs[f]
  /\ Extends(P, Q) /\ \A i \in 0..Cut(Root) : d[i] = c[i]
  /\ Cut(Root)' \in Nat /\ Cut(Root) <= Cut(Root)'
  /\ a \in Nat /\ a = Published(P) /\ a <= Len(P)
  /\ b \in Nat /\ b = Published(Q)' /\ a <= b /\ b <= Len(Q)
  /\ \A f \in Followers : FollowerOK(f, T, P, c) =>
       feed'[f] = feed[f] \o Piece(Q, a, b) /\ counts'[f] = TheCounts(f, T, d)'

LEMMA Publishing ==
  ASSUME Shapes, Traced, NEW T, NEW P, NEW Q, NEW c, NEW d, NEW a, NEW b,
         Publishes(T, P, Q, c, d, a, b), NEW f \in Followers
  PROVE  FollowerInv(f, T, Q, d)'
<1> USE DEF Publishes
<1>1. SUFFICES ASSUME Agree(urgent[f], urgent[Root])' PROVE FollowerOK(f, T, Q, d)'
  BY DEF FollowerInv
<1>2. FollowerOK(f, T, P, c) BY <1>1 DEF FollowerInv, Agree
<1>3. Heard(Root) \in Nat /\ Heard(f) \in Nat /\ Heard(Root)' = Heard(Root)
  BY DEF Traced, Ranks, Heard
<1>4. pc[f] \in Phases BY DEF Shapes, Ranks
<1>6. counts'[f] = TheCounts(f, T, d)' BY <1>2
<1>7. UNCHANGED <<pc[f], heard[f], msgs[f], due[f]>> OBVIOUS
<1>8. feed'[f] = feed[f] \o Piece(Q, a, b) BY <1>2
<1>9. QED BY <1>2, <1>3, <1>4, <1>6, <1>7, <1>8, FollowerPublished

LEMMA RootFirstStep ==
  ASSUME Shapes, Traced, NEW T, NEW P, NEW c, Trace(T, Root), Stream(T, P, c), RootFirst
  PROVE  \E Q : Stream(T, Q, c)'
<1>1. PICK m : m = Head(inbox) OBVIOUS
<1>2. m \in Message /\ <<m>> \in Seq(Message) /\ Len(<<m>>) = 1
  BY <1>1, HeadTailProperties DEF RootFirst, Shapes
<1>3. PICK Q : Q = P \o <<m>> OBVIOUS
<1>4. PICK k : k = Heard(Root) OBVIOUS
<1>5. k \in Nat /\ Heard(Root)' = k /\ Cut(Root) = k /\ Cut(Root)' = k
  BY <1>4 DEF Traced, Ranks, Heard, Cut, CutsNext, One, RootFirst, Shapes, loopVars
<1>6. Blocks(T[k]) BY <1>4, RootBlocks DEF RootFirst
<1>7. P \in Seq(Message) /\ Len(P) \in Nat /\ c[k] \in Nat /\ Len(P) = c[k]
  BY <1>4, <1>5 DEF CutOK, Stream, RootFirst, One
<1>8. Extends(P, Q) /\ Len(Q) = Len(P) + 1 /\ Piece(Q, Len(P), Len(Q)) = <<m>>
  BY <1>2, <1>3, <1>7, ExtendsConcat
<1>9. raws = <<>> /\ raws' = <<>> BY DEF Stream, RootOK, RootFirst
<1>10. Published(P) = Len(P) /\ Published(Q)' = Len(Q)
  BY <1>7, <1>8, <1>9 DEF Published
<1>11. CutOK(T, Q, c)'
  <2>1. CutBy(heard[Root], k, P, c) BY <1>4 DEF Stream, CutOK, CutBy
  <2>2. CutBy(heard[Root], k, Q, c)
    <3>1. k <= Cut(Root) BY <1>5
    <3>2. Cut(Root) \in Nat BY <1>5
    <3>3. QED BY <1>5, <1>8, <2>1, <3>1, <3>2, HeardKept DEF Stream
  <2>3. heard'[Root] = heard[Root] /\ pc'[Root] = "counting"
    BY DEF RootFirst, loopVars, Shapes, Ranks
  <2>4. Len(Q) = c[k] + One(pc'[Root] = "counting") BY <1>7, <1>8, <2>3 DEF One
  <2>5. QED BY <1>5, <1>8, <2>2, <2>3, <2>4 DEF CutOK, Stream, CutBy, Extends
<1>12. RootOK(T, Q, c)'
  <2>1. msgs'[Root] = <<m>> /\ pc'[Root] = "counting"
    BY <1>1 DEF RootFirst, Shapes, Ranks
  <2>2. QED BY <1>5, <1>6, <1>7, <1>8, <1>9, <2>1 DEF RootOK
<1>13. ASSUME NEW f \in Followers PROVE FollowerInv(f, T, Q, c)'
  <2>1. CutOK(T, P, c) /\ \A g \in Followers : FollowerInv(g, T, P, c) BY DEF Stream
  <2>2. UNCHANGED <<heard, urgent, due>> BY DEF RootFirst, loopVars
  <2>3. \A g \in Followers : pc'[g] = pc[g] /\ msgs'[g] = msgs[g]
    BY RanksAssumption DEF RootFirst, Shapes, Ranks
  <2>4. \A g \in Followers : feed'[g] = feed[g] \o Piece(Q, Len(P), Len(Q))
    BY <1>1, <1>8 DEF RootFirst, Publish
  <2>5. ASSUME NEW g \in Followers, FollowerOK(g, T, P, c) PROVE counts'[g] = TheCounts(g, T, c)'
    <3>1. Cut(g)' = Cut(g) BY <2>2, <2>3 DEF Cut, CutsNext, Heard
    <3> counts[g] = TheCounts(g, T, c) BY <2>5 DEF FollowerOK, TheCounts
    <3>2. QED BY <1>5, <3>1 DEF TheCounts, RootFirst
  <2>6. Cut(Root)' \in Nat /\ Cut(Root) <= Cut(Root)' BY <1>5
  <2>7. Len(P) <= Len(P) /\ Len(Q) <= Len(Q) /\ Len(Q) \in Nat /\ Len(P) <= Len(Q) BY <1>7, <1>8
  <2>8. Publishes(T, P, Q, c, c, Len(P), Len(Q))
    BY <1>7, <1>8, <1>10, <2>1, <2>2, <2>3, <2>4, <2>5, <2>6, <2>7 DEF Publishes
  <2>9. QED BY <2>8, Publishing
<1>14. QED BY <1>11, <1>12, <1>13 DEF Stream

LEMMA RootRestStep ==
  ASSUME Shapes, Traced, NEW T, NEW P, NEW c, Trace(T, Root), Stream(T, P, c), RootRest
  PROVE  Stream(T, P, c)'
<1>1. PICK k : k = Heard(Root) OBVIOUS
<1>2. k \in Nat /\ Heard(Root)' = k /\ Cut(Root) = k + 1 /\ Cut(Root)' = k + 1
  BY <1>1 DEF Traced, Ranks, Heard, Cut, CutsNext, One, RootRest, Shapes, loopVars
<1>3. /\ P \in Seq(Message) /\ Len(P) \in Nat /\ CutAt(T, P, c, k)
      /\ c[k + 1] = Len(P) /\ c[k] \in Nat
  <2>1. k \in 0..Cut(Root) BY <1>2
  <2>2. CutAt(T, P, c, k) /\ P \in Seq(Message) /\ Len(P) \in Nat
    BY <1>2, <2>1, CutFacts DEF Stream
  <2>3. Len(P) = c[k + 1] + 0 BY <1>2 DEF Stream, CutOK, RootRest, One
  <2>4. QED BY <1>2, <2>2, <2>3 DEF CutAt
<1>4. PICK a : a = c[k] + One(Blocks(T[k])) OBVIOUS
<1>5. a \in Nat /\ c[k] <= a /\ a <= Len(P)
  BY <1>2, <1>3, <1>4, OneType DEF CutAt
<1>6. msgs[Root] = Piece(P, c[k], a) /\ raws = Piece(P, a, Len(P))
  BY <1>1, <1>4 DEF Stream, RootOK, RootRest
<1>7. raws' = <<>> /\ msgs'[Root] = msgs[Root] \o raws /\ pc'[Root] = "scheduling"
      /\ heard'[Root] = heard[Root]
  BY DEF RootRest, Shapes, Ranks, loopVars
<1>8. Len(P) <= Len(P) BY <1>3
<1>9. Published(P) = a /\ Published(P)' = Len(P)
  <2>1. Len(raws) = Len(P) - a BY <1>3, <1>5, <1>6, <1>8, PieceType
  <2>2. QED BY <1>3, <1>5, <1>7, <2>1 DEF Published
<1>10. msgs'[Root] = Piece(P, c[k], Len(P))
  <2>1. Joins(P, c[k], a, Len(P)) BY <1>3, <1>5, <1>8, PieceJoin
  <2>2. QED BY <1>6, <1>7, <2>1 DEF Joins
<1>11. CutOK(T, P, c)'
  <2>1. pc[Root] # "counting" /\ pc'[Root] # "counting" BY <1>7 DEF RootRest
  <2>2. One(pc[Root] = "counting") = 0 /\ One(pc'[Root] = "counting") = 0 BY <2>1 DEF One
  <2>3. QED BY <1>1, <1>2, <1>7, <2>2 DEF CutOK, Stream
<1>12. RootOK(T, P, c)' BY <1>2, <1>7, <1>10 DEF RootOK
<1>13. ASSUME NEW f \in Followers PROVE FollowerInv(f, T, P, c)'
  <2>1. CutOK(T, P, c) /\ \A g \in Followers : FollowerInv(g, T, P, c) BY DEF Stream
  <2>2. UNCHANGED <<heard, urgent, due>> BY DEF RootRest, loopVars
  <2>3. \A g \in Followers : pc'[g] = pc[g] /\ msgs'[g] = msgs[g]
    BY RanksAssumption DEF RootRest, Shapes, Ranks
  <2>4. \A g \in Followers : feed'[g] = feed[g] \o Piece(P, a, Len(P))
    BY <1>6 DEF RootRest, Publish
  <2>5. ASSUME NEW g \in Followers, FollowerOK(g, T, P, c) PROVE counts'[g] = TheCounts(g, T, c)'
    <3>1. Cut(g)' = Cut(g) BY <2>2, <2>3 DEF Cut, CutsNext, Heard
    <3> counts[g] = TheCounts(g, T, c) BY <2>5 DEF FollowerOK, TheCounts
    <3>2. QED BY <1>2, <3>1 DEF TheCounts, RootRest
  <2>6. Cut(Root)' \in Nat /\ Cut(Root) <= Cut(Root)' BY <1>2
  <2>7. Extends(P, P) BY <1>3, ExtendsSelf
  <2>8. Publishes(T, P, P, c, c, a, Len(P))
    BY <1>3, <1>5, <1>8, <1>9, <2>1, <2>2, <2>3, <2>4, <2>5, <2>6, <2>7 DEF Publishes
  <2>9. QED BY <2>8, Publishing
<1>14. QED BY <1>11, <1>12, <1>13 DEF Stream

LEMMA CountsGrow ==
  ASSUME NEW f, NEW T, NEW c, NEW d, NEW k \in Nat, Cut(Root) = k, Cut(Root)' = k + 1,
         Cut(f) \in Nat, Cut(f) <= k, Cut(f)' = Cut(f), \A i \in 0..k : d[i] = c[i]
  PROVE  TheCounts(f, T, d)' = Append(TheCounts(f, T, c), d[k + 1] - d[k] - One(Blocks(T[k])))
<1> DEFINE x == d[k + 1] - d[k] - One(Blocks(T[k]))
<1>1. PICK n : n = k - Cut(f) OBVIOUS
<1>2. n \in Nat /\ (k + 1) - Cut(f) = n + 1 /\ Cut(f) + (n + 1) = k + 1 /\ Cut(f) + (n + 1) - 1 = k
  BY <1>1
<1>3. PICK s : s = TheCounts(f, T, c) OBVIOUS
<1>4. PICK t : t = TheCounts(f, T, d)' OBVIOUS
<1>5. s = [i \in 1..n |-> c[Cut(f) + i] - c[Cut(f) + i - 1] - One(Blocks(T[Cut(f) + i - 1]))]
  BY <1>1, <1>3 DEF TheCounts
<1>6. t = [i \in 1..n + 1 |-> d[Cut(f) + i] - d[Cut(f) + i - 1] - One(Blocks(T[Cut(f) + i - 1]))]
  BY <1>2, <1>4 DEF TheCounts
<1>7. Listed(s, n) BY <1>2, <1>5 DEF Listed
<1> HIDE DEF x
<1>8. PICK g : g = Append(s, x) OBVIOUS
<1>9. Grown(g, s, n, x) BY <1>7, <1>8, AppendGrows
<1>10. t[n + 1] = x
  <2>1. n + 1 \in 1..n + 1 BY <1>2
  <2>2. t[n + 1] = d[Cut(f) + (n + 1)] - d[Cut(f) + (n + 1) - 1] - One(Blocks(T[Cut(f) + (n + 1) - 1]))
    BY <1>6, <2>1
  <2>3. QED BY <1>2, <2>2 DEF x
<1>11. ASSUME NEW i \in 1..n PROVE t[i] = s[i]
  <2>1. i \in 1..n + 1 /\ Cut(f) + i \in 0..k /\ Cut(f) + i - 1 \in 0..k BY <1>1, <1>2
  <2>2. d[Cut(f) + i] = c[Cut(f) + i] /\ d[Cut(f) + i - 1] = c[Cut(f) + i - 1] BY <2>1
  <2>3. QED BY <1>5, <1>6, <2>1, <2>2
<1>12. ASSUME NEW i \in 1..n + 1 PROVE t[i] = g[i]
  <2>1. CASE i = n + 1 BY <1>9, <1>10, <2>1 DEF Grown
  <2>2. CASE i # n + 1
    <3>1. i \in 1..n BY <1>2, <2>2
    <3>2. QED BY <1>9, <1>11, <3>1 DEF Grown
  <2>3. QED BY <2>1, <2>2
<1>13. g = [i \in 1..n + 1 |-> g[i]] BY <1>9 DEF Grown, Listed
<1>14. t = [i \in 1..n + 1 |-> t[i]] BY <1>6
<1>15. t = g BY <1>12, <1>13, <1>14
<1>16. QED BY <1>3, <1>4, <1>8, <1>15 DEF x

LEMMA RootCountStep ==
  ASSUME Shapes, Traced, NEW T, NEW P, NEW c, Trace(T, Root), Stream(T, P, c), RootCount
  PROVE  \E Q, d : Stream(T, Q, d)'
<1>1. PICK k : k = Heard(Root) OBVIOUS
<1>2. k \in Nat /\ Heard(Root)' = k /\ Cut(Root) = k /\ Cut(Root)' = k + 1
  BY <1>1 DEF Traced, Ranks, Heard, Cut, CutsNext, One, RootCount, Ready, Shapes, loopVars
<1>3. One(pc[Root] = "counting") = One(Blocks(T[k]))
  <2>1. CASE pc[Root] = "counting" BY <1>1, <2>1 DEF Stream, RootOK, One
  <2>2. CASE pc[Root] = "begin" /\ ~Blocking(Root)
    <3>1. ~Blocks(T[k]) BY <1>1, <2>2, RootBlocks
    <3>2. QED BY <2>2, <3>1 DEF One
  <2>3. QED BY <2>1, <2>2 DEF RootCount, Ready
<1>4. PICK B : B = One(Blocks(T[k])) OBVIOUS
<1>5. /\ P \in Seq(Message) /\ Len(P) \in Nat /\ c[k] \in Nat /\ Len(P) = c[k] + B /\ B \in {0, 1}
  BY <1>1, <1>2, <1>3, <1>4, OneType DEF CutOK, Stream
<1>6. PICK Q : Q = P \o inbox OBVIOUS
<1>7. inbox \in Seq(Message) /\ Len(inbox) \in Nat BY DEF Shapes
<1>8. Extends(P, Q) /\ Len(Q) = Len(P) + Len(inbox) /\ Piece(Q, Len(P), Len(Q)) = inbox
  BY <1>5, <1>6, <1>7, ExtendsConcat
<1>9. PICK d : d = [i \in 0..k + 1 |-> IF i = k + 1 THEN Len(Q) ELSE c[i]] OBVIOUS
<1>10. /\ \A i \in 0..k : d[i] = c[i]
       /\ d[k + 1] = Len(Q)
  BY <1>2, <1>9
<1>11. raws = <<>> /\ msgs[Root] = Piece(P, c[k], Len(P))
  <2>1. CASE pc[Root] = "counting" BY <1>1, <2>1 DEF Stream, RootOK
  <2>2. CASE pc[Root] = "begin"
    <3>1. B = 0 BY <1>3, <1>4, <2>2 DEF One
    <3>2. Len(P) = c[k] BY <1>5, <3>1
    <3>3. Piece(P, c[k], Len(P)) = <<>> BY <1>5, <3>2, PieceEmpty
    <3>4. QED BY <2>2, <3>3 DEF Stream, RootOK
  <2>3. QED BY <2>1, <2>2 DEF RootCount, Ready
<1>12. /\ raws' = inbox /\ msgs' = msgs /\ pc'[Root] = "receiving" /\ heard' = heard /\ feed' = feed
  BY DEF RootCount, Shapes, Ranks, loopVars
<1>13. Published(P) = Len(P) /\ Published(Q)' = Len(P)
  BY <1>5, <1>7, <1>8, <1>11, <1>12 DEF Published
<1>14. Len(Q) \in Nat /\ Len(P) <= Len(Q) BY <1>5, <1>7, <1>8
<1>15. CutOK(T, Q, d)'
  <2>1. CutBy(heard[Root], k, P, c) BY <1>1 DEF Stream, CutOK, CutBy
  <2>2. CutBy(heard[Root], k, Q, d)
    <3>1. k <= Cut(Root) BY <1>2
    <3>2. Cut(Root) \in Nat BY <1>2
    <3>3. QED BY <1>2, <1>8, <1>10, <2>1, <3>1, <3>2, HeardKept DEF Stream
  <2>3. d \in [0..k + 1 -> Nat] /\ d[0] = 0
    <3>1. c \in [0..k -> Nat] /\ c[0] = 0 BY <1>2 DEF Stream, CutOK
    <3>2. QED BY <1>2, <1>9, <1>14, <3>1
  <2>4. ASSUME NEW i \in 1..k + 1 PROVE d[i - 1] + One(Blocks(T[i - 1])) <= d[i]
    <3>1. CASE i = k + 1
      <4>1. i - 1 = k /\ k \in 0..k BY <1>2, <3>1
      <4>2. d[i - 1] = c[k] /\ d[i] = Len(Q) BY <1>10, <3>1, <4>1
      <4>3. One(Blocks(T[i - 1])) = B BY <1>4, <4>1
      <4>4. QED BY <1>5, <1>14, <4>2, <4>3
    <3>2. CASE i # k + 1
      <4>1. i \in 1..k /\ i \in 0..k /\ i - 1 \in 0..k BY <1>2, <3>2
      <4>2. c[i - 1] + One(Blocks(T[i - 1])) <= c[i] BY <1>2, <4>1 DEF Stream, CutOK
      <4>3. QED BY <1>10, <4>1, <4>2
    <3>3. QED BY <3>1, <3>2
  <2>5. ASSUME NEW i \in 0..k + 1 PROVE d[i] <= d[k + 1]
    <3>1. CASE i = k + 1 BY <1>10, <1>14, <3>1
    <3>2. CASE i # k + 1
      <4>1. i \in 0..k BY <1>2, <3>2
      <4>2. c[i] \in Nat /\ c[i] <= c[k] BY <1>2, <4>1 DEF Stream, CutOK
      <4>3. d[i] = c[i] BY <1>10, <4>1
      <4>4. c[k] <= Len(Q) BY <1>5, <1>14
      <4>5. QED BY <1>5, <1>10, <1>14, <4>2, <4>3, <4>4
    <3>3. QED BY <3>1, <3>2
  <2>6. One(pc'[Root] = "counting") = 0 BY <1>12 DEF One
  <2>7. Len(Q) = d[k + 1] + One(pc'[Root] = "counting") BY <1>10, <1>14, <2>6
  <2>8. Q \in Seq(Message) BY <1>8 DEF Extends
  <2>9. CutBy(heard'[Root], k, Q, d) BY <1>12, <2>2
  <2>10. QED BY <1>2, <2>3, <2>4, <2>5, <2>7, <2>8, <2>9 DEF CutOK, CutBy
<1>16. RootOK(T, Q, d)'
  <2>1. d[k] + One(Blocks(T[k])) = Len(P)
    <3>1. k \in 0..k BY <1>2
    <3>2. d[k] = c[k] BY <1>10, <3>1
    <3>3. QED BY <1>4, <1>5, <3>2
  <2>2. msgs'[Root] = Piece(Q, d[k], Len(P))
    <3>1. k \in 0..k BY <1>2
    <3>2. d[k] = c[k] BY <1>10, <3>1
    <3>3. c[k] <= Len(P) /\ Len(P) <= Len(P) BY <1>5
    <3>4. Piece(Q, c[k], Len(P)) = Piece(P, c[k], Len(P)) BY <1>5, <1>8, <3>3 DEF Extends
    <3>5. QED BY <1>11, <1>12, <3>2, <3>4
  <2>3. raws' = Piece(Q, Len(P), Len(Q)) BY <1>8, <1>12
  <2>4. QED BY <1>2, <1>12, <2>1, <2>2, <2>3 DEF RootOK
<1>17. ASSUME NEW f \in Followers PROVE FollowerInv(f, T, Q, d)'
  <2>1. CutOK(T, P, c) /\ \A g \in Followers : FollowerInv(g, T, P, c) BY DEF Stream
  <2>2. UNCHANGED <<heard, urgent, due>> BY DEF RootCount, loopVars
  <2>3. \A g \in Followers : pc'[g] = pc[g] /\ msgs'[g] = msgs[g]
    BY RanksAssumption DEF RootCount, Shapes, Ranks
  <2>4. ASSUME NEW g \in Followers, FollowerOK(g, T, P, c)
        PROVE  feed'[g] = feed[g] \o Piece(Q, Len(P), Len(P)) /\ counts'[g] = TheCounts(g, T, d)'
    <3>1. Heard(g) \in Nat /\ pc[g] \in Phases BY DEF Traced, Shapes, Ranks
    <3>2. PICK j : j = Heard(g) OBVIOUS
    <3>3. PICK t : t = TakenOf(g, T, c, j) OBVIOUS
    <3>4. t \in Nat /\ t <= Published(P) /\ Cut(g) \in Nat /\ Cut(g) <= Cut(Root)
      BY <1>2, <2>1, <2>4, <3>1, <3>2, <3>3, TakenRange
    <3>5. feed[g] = Piece(P, t, Len(P)) BY <1>13, <2>4, <3>2, <3>3 DEF FollowerOK
    <3>6. t <= Len(P) /\ Len(P) <= Len(P) BY <1>5, <1>13, <3>4
    <3>7. feed[g] \in Seq(Message) BY <1>5, <3>4, <3>5, <3>6, PieceType
    <3>8. Piece(Q, Len(P), Len(P)) = <<>> BY <1>5, PieceEmpty
    <3>9. feed[g] \o <<>> = feed[g] BY <3>7, ConcatEmptySeq
    <3>10. feed'[g] = feed[g] \o Piece(Q, Len(P), Len(P)) BY <1>12, <3>8, <3>9
    <3>11. Cut(g)' = Cut(g) BY <2>2, <2>3 DEF Cut, CutsNext, Heard
    <3>12. counts'[g] = Append(counts[g], Len(inbox)) BY DEF RootCount, Counted
    <3>13. counts[g] = TheCounts(g, T, c) BY <2>4 DEF FollowerOK, TheCounts
    <3>14. TheCounts(g, T, d)' = Append(TheCounts(g, T, c), d[k + 1] - d[k] - One(Blocks(T[k])))
      BY <1>2, <1>10, <3>4, <3>11, CountsGrow
    <3>15. d[k + 1] - d[k] - One(Blocks(T[k])) = Len(inbox)
      <4>1. k \in 0..k BY <1>2
      <4>2. d[k] = c[k] /\ d[k + 1] = Len(Q) BY <1>10, <4>1
      <4>3. QED BY <1>4, <1>5, <1>7, <1>8, <4>2
    <3>16. QED BY <3>10, <3>12, <3>13, <3>14, <3>15
  <2>5. Cut(Root)' \in Nat /\ Cut(Root) <= Cut(Root)' BY <1>2
  <2>6. Len(P) <= Len(P) BY <1>5
  <2>7. \A i \in 0..Cut(Root) : d[i] = c[i] BY <1>2, <1>10
  <2>8. Publishes(T, P, Q, c, d, Len(P), Len(P))
    BY <1>5, <1>8, <1>13, <1>14, <2>1, <2>2, <2>3, <2>4, <2>5, <2>6, <2>7 DEF Publishes
  <2>9. QED BY <2>8, Publishing
<1>18. QED BY <1>15, <1>16, <1>17 DEF Stream

LEMMA PublishedRange ==
  ASSUME Shapes, Traced, NEW T, NEW P, NEW c, Stream(T, P, c)
  PROVE  Published(P) \in Nat /\ Published(P) <= Len(P)
<1>1. PICK k : k = Heard(Root) OBVIOUS
<1>2. k \in Nat /\ Cut(Root) \in Nat /\ k \in 0..Cut(Root) BY <1>1, CutType DEF Traced, Ranks
<1>3. /\ P \in Seq(Message) /\ Len(P) \in Nat /\ CutAt(T, P, c, k)
  BY <1>2, CutFacts DEF Stream
<1>4. CASE pc[Root] = "receiving"
  <2>1. PICK a : a = c[k] + One(Blocks(T[k])) OBVIOUS
  <2>2. k < Cut(Root) BY <1>1, <1>2, <1>4 DEF Cut, CutsNext, One
  <2>3. a \in Nat /\ a <= Len(P) /\ Len(P) <= Len(P) BY <1>3, <2>1, <2>2, OneType DEF CutAt
  <2>4. raws = Piece(P, a, Len(P)) BY <1>1, <1>4, <2>1 DEF Stream, RootOK
  <2>5. Len(raws) = Len(P) - a BY <1>3, <2>3, <2>4, PieceType
  <2>6. QED BY <1>3, <2>3, <2>5 DEF Published
<1>5. CASE pc[Root] # "receiving"
  <2>1. pc[Root] \in Phases BY DEF Shapes, Ranks
  <2>2. raws = <<>> BY <1>5, <2>1 DEF Stream, RootOK, Phases
  <2>3. QED BY <1>3, <2>2 DEF Published
<1>6. QED BY <1>4, <1>5

(* A follower that has decided like rank 0 has been in the same states.    *)
LEMMA SameStates ==
  ASSUME NEW f \in Followers, NEW T, NEW F, NEW P, NEW c, Trace(F, f), Trace(T, Root),
         CutOK(T, P, c), FollowerOK(f, T, P, c), Agree(urgent[f], urgent[Root]),
         NEW m \in Nat, m <= Heard(f), m <= Heard(Root)
  PROVE  /\ \A i \in 0..m : F[i] = T[i]
         /\ \A i \in 1..m : batches[f][i] = batches[Root][i] /\ heard[f][i] = heard[Root][i]
<1>1. f \in Ranks /\ Root \in Ranks BY DEF Ranks
<1>2. Heard(f) \in Nat /\ Heard(Root) \in Nat BY DEF Trace, Listed
<1>3. Len(urgent[f]) = Heard(f) /\ Len(urgent[Root]) = Heard(Root)
  <2>1. Listed(urgent[f], Heard(f)) /\ Listed(urgent[Root], Heard(Root)) BY DEF Trace
  <2>2. \A s, n : Listed(s, n) => Len(s) = n BY AppendListed
  <2>3. QED BY <2>1, <2>2
<1>4. ASSUME NEW i \in 1..m PROVE heard[f][i] = heard[Root][i] /\ urgent[f][i] = urgent[Root][i]
  <2>1. i \in 1..Heard(f) /\ i \in 1..Heard(Root) /\ i <= Len(urgent[Root]) BY <1>2, <1>3
  <2>2. heard[f][i] = Piece(P, c[i - 1], c[i]) BY <2>1 DEF FollowerOK
  <2>3. heard[Root][i] = Piece(P, c[i - 1], c[i]) BY <2>1 DEF CutOK
  <2>4. urgent[f][i] = urgent[Root][i] BY <1>3, <2>1 DEF Agree
  <2>5. QED BY <2>2, <2>3, <2>4
<1>5. QED BY <1>1, <1>4, TracesAgree

----------------------------------------------------------------------------
(* The steps of a follower.                                                *)
RootSame == UNCHANGED <<pc[Root], heard[Root], urgent[Root], msgs[Root], raws>>

(* What a follower knows when it steps.                                    *)
Knows(f, F, T, P, c, k) ==
  /\ Shapes /\ Traced /\ RootSame /\ Trace(F, f) /\ Trace(T, Root) /\ Stream(T, P, c)
  /\ FollowerOK(f, T, P, c) /\ Agree(urgent[f], urgent[Root])
  /\ k = Heard(f)

LEMMA KnownFacts ==
  ASSUME NEW f \in Followers, NEW F, NEW T, NEW P, NEW c, NEW k, Knows(f, F, T, P, c, k)
  PROVE  /\ k \in Nat /\ Cut(Root) \in Nat /\ Cut(Root)' = Cut(Root)
         /\ Heard(Root) \in Nat /\ Heard(Root)' = Heard(Root) /\ Cut(Root) <= Heard(Root) + 1
         /\ P \in Seq(Message) /\ Len(P) \in Nat /\ CutAt(T, P, c, k)
         /\ Published(P) \in Nat /\ Published(P) <= Len(P) /\ Published(P)' = Published(P)
         /\ pc[f] \in Phases
<1>1. k \in Nat /\ Heard(Root) \in Nat /\ pc[f] \in Phases
  BY DEF Knows, Traced, Ranks, Shapes
<1>2. /\ Cut(Root) \in Nat /\ Cut(Root) <= Heard(Root) + 1
      /\ Cut(Root)' = Cut(Root) /\ Heard(Root)' = Heard(Root)
  BY <1>1, CutType DEF Knows, RootSame, Cut, CutsNext, Heard
<1>3. k \in 0..Cut(Root) BY <1>1, <1>2, TakenRange DEF Knows, Stream
<1>4. CutAt(T, P, c, k) /\ P \in Seq(Message) /\ Len(P) \in Nat
  BY <1>2, <1>3, CutFacts DEF Knows, Stream
<1>5. Published(P) \in Nat /\ Published(P) <= Len(P) BY PublishedRange DEF Knows
<1>6. Published(P)' = Published(P) BY DEF Knows, RootSame, Published
<1>7. QED BY <1>1, <1>2, <1>4, <1>5, <1>6

LEMMA FollowerFirstStep ==
  ASSUME NEW f \in Followers, NEW F, NEW T, NEW P, NEW c, NEW k, Knows(f, F, T, P, c, k),
         FollowerFirst(f)
  PROVE  FollowerOK(f, T, P, c)'
<1>1. /\ k \in Nat /\ Cut(Root) \in Nat /\ Cut(Root)' = Cut(Root)
      /\ Heard(Root) \in Nat /\ Heard(Root)' = Heard(Root) /\ Cut(Root) <= Heard(Root) + 1
      /\ P \in Seq(Message) /\ Len(P) \in Nat /\ CutAt(T, P, c, k)
      /\ Published(P) \in Nat /\ Published(P) <= Len(P) /\ Published(P)' = Published(P)
  BY KnownFacts
<1>2. /\ pc[f] = "begin" /\ pc'[f] = "counting" /\ heard' = heard /\ counts' = counts
      /\ feed[f] # <<>> /\ feed'[f] = Tail(feed[f]) /\ msgs'[f] = <<Head(feed[f])>>
  BY DEF FollowerFirst, Knows, Shapes, Ranks, loopVars
<1>3. Heard(f) = k /\ Heard(f)' = k /\ Cut(f) = k /\ Cut(f)' = k /\ k <= Cut(Root)
  <2>1. Heard(f) = k /\ Heard(f)' = k BY <1>2 DEF Knows, Heard
  <2>2. Cut(f) = k /\ Cut(f)' = k BY <1>1, <1>2, <2>1 DEF Cut, CutsNext, One
  <2>3. Cut(f) <= Cut(Root) BY DEF Knows, FollowerOK
  <2>4. QED BY <2>1, <2>2, <2>3
<1>4. feed[f] = Piece(P, c[k], Published(P)) /\ c[k] \in Nat /\ c[k] <= Published(P)
  BY <1>1, <1>2, <1>3 DEF Knows, FollowerOK, TakenOf, CutAt
<1>5. c[k] < Published(P)
  <2>1. CASE c[k] = Published(P)
    <3>1. feed[f] = <<>> BY <1>1, <1>4, <2>1, PieceEmpty
    <3>2. QED BY <1>2, <3>1
  <2>2. QED BY <1>1, <1>4, <2>1
<1>6. k <= Heard(Root)
  <2>1. SUFFICES ASSUME ~(k <= Heard(Root)) PROVE FALSE OBVIOUS
  <2>2. Cut(Root) = k /\ Cut(Root) = Heard(Root) + 1 BY <1>1, <1>3, <2>1
  <2>3. CutsNext(Root) BY <1>1, <2>2 DEF Cut, One
  <2>4. One(pc[Root] = "counting") = 0 BY <2>3 DEF CutsNext, One
  <2>5. Len(P) = c[k] + 0 BY <2>2, <2>4 DEF Knows, Stream, CutOK
  <2>6. QED BY <1>1, <1>4, <1>5, <2>5
<1>7. F[k] = T[k]
  <2>1. k <= Heard(f) /\ k \in 0..k BY <1>1, <1>3
  <2>2. QED BY <1>1, <1>6, <2>1, SameStates DEF Knows, Stream
<1>8. Blocks(T[k])
  <2>1. StateOf(f) = F[k] BY <1>2 DEF Knows, Trace, Now
  <2>2. Blocks(StateOf(f)) BY DEF FollowerFirst, Blocking, Blocks, StateOf
  <2>3. QED BY <1>7, <2>1, <2>2
<1>9. TakenOf(f, T, c, k)' = c[k] + 1 BY <1>2, <1>8 DEF TakenOf, One
<1>10. /\ <<Head(Piece(P, c[k], Published(P)))>> = Piece(P, c[k], c[k] + 1)
       /\ Tail(Piece(P, c[k], Published(P))) = Piece(P, c[k] + 1, Published(P))
  BY <1>1, <1>4, <1>5, PieceHead
<1>11. feed'[f] = Piece(P, c[k] + 1, Published(P)) /\ msgs'[f] = Piece(P, c[k], c[k] + 1)
  BY <1>2, <1>4, <1>10
<1>12. c[k] + 1 <= Published(P) BY <1>1, <1>4, <1>5
<1>13. counts'[f] = TheCounts(f, T, c)'
  BY <1>1, <1>2, <1>3 DEF TheCounts, Knows, FollowerOK
<1>14. CutBy(heard'[f], k, P, c) BY <1>2, <1>3 DEF Knows, FollowerOK, CutBy
<1>15. QED
  BY <1>1, <1>2, <1>3, <1>6, <1>8, <1>9, <1>11, <1>12, <1>13, <1>14
  DEF FollowerOK, TheCounts, CutBy

(* The first d messages of a piece, and the rest.                          *)
CutsOff(P, i, k, d) ==
  /\ SubSeq(Piece(P, i, k), 1, d) = Piece(P, i, i + d)
  /\ Rest(Piece(P, i, k), d) = Piece(P, i + d, k)

LEMMA PieceCutsOff ==
  ASSUME NEW P \in Seq(Message), NEW i \in Nat, NEW k \in Nat, NEW d \in Nat,
         i + d <= k, k <= Len(P)
  PROVE  CutsOff(P, i, k, d)
BY PieceCut DEF CutsOff

LEMMA PieceLen ==
  ASSUME NEW P \in Seq(Message), NEW i \in Nat, NEW k \in Nat, i <= k, k <= Len(P)
  PROVE  Len(Piece(P, i, k)) = k - i
BY PieceType

LEMMA FollowerCountStep ==
  ASSUME NEW f \in Followers, NEW F, NEW T, NEW P, NEW c, NEW k, Knows(f, F, T, P, c, k),
         FollowerCount(f)
  PROVE  FollowerOK(f, T, P, c)'
<1>1. /\ k \in Nat /\ Cut(Root) \in Nat /\ Cut(Root)' = Cut(Root)
      /\ Heard(Root) \in Nat /\ Heard(Root)' = Heard(Root) /\ Cut(Root) <= Heard(Root) + 1
      /\ P \in Seq(Message) /\ Len(P) \in Nat /\ CutAt(T, P, c, k)
      /\ Published(P) \in Nat /\ Published(P) <= Len(P) /\ Published(P)' = Published(P)
  BY KnownFacts
<1>2. /\ pc[f] = "counting" \/ (pc[f] = "begin" /\ ~Blocking(f))
      /\ pc'[f] = "receiving" /\ heard' = heard /\ msgs' = msgs /\ feed' = feed
      /\ counts[f] # <<>> /\ due'[f] = Head(counts[f]) /\ counts'[f] = Tail(counts[f])
  BY DEF FollowerCount, Ready, Knows, Shapes, Ranks, loopVars
<1>3. Heard(f) = k /\ Heard(f)' = k BY <1>2 DEF Knows, Heard
<1>4. Cut(f) = k /\ Cut(f)' = k + 1 BY <1>1, <1>2, <1>3 DEF Cut, CutsNext, One
<1>5. k <= Cut(Root) BY <1>4 DEF Knows, FollowerOK
<1>6. counts[f] = [i \in 1..Cut(Root) - k |-> c[k + i] - c[k + i - 1] - One(Blocks(T[k + i - 1]))]
  BY <1>4 DEF Knows, FollowerOK
<1>7. k < Cut(Root)
  <2>1. CASE k = Cut(Root)
    <3>1. Cut(Root) - k = 0 BY <1>1, <2>1
    <3>2. counts[f] = <<>> BY <1>6, <3>1
    <3>3. QED BY <1>2, <3>2
  <2>2. QED BY <1>1, <1>5, <2>1
<1>8. k <= Heard(Root) BY <1>1, <1>7
<1>9. TakenOf(f, T, c, k) = c[k] + One(Blocks(T[k]))
  <2>1. CASE pc[f] = "counting" BY <2>1 DEF TakenOf
  <2>2. CASE pc[f] = "begin" /\ ~Blocking(f)
    <3>1. F[k] = T[k]
      <4>1. k <= Heard(f) /\ k \in 0..k BY <1>1, <1>3
      <4>2. QED BY <1>1, <1>8, <4>1, SameStates DEF Knows, Stream
    <3>2. StateOf(f) = F[k] BY <2>2 DEF Knows, Trace, Now
    <3>3. ~Blocks(StateOf(f)) BY <2>2 DEF Blocking, Blocks, StateOf
    <3>4. One(Blocks(T[k])) = 0 BY <3>1, <3>2, <3>3 DEF One
    <3>5. c[k] \in Nat BY <1>1 DEF CutAt
    <3>6. QED BY <2>2, <3>4, <3>5 DEF TakenOf
  <2>3. QED BY <1>2, <2>1, <2>2
<1>10. TakenOf(f, T, c, k)' = c[k] + One(Blocks(T[k])) BY <1>2 DEF TakenOf
<1>11. Head(counts[f]) = c[k + 1] - c[k] - One(Blocks(T[k])) /\ Tail(counts[f]) = TheCounts(f, T, c)'
  <2>1. PICK n : n = Cut(Root) - (k + 1) OBVIOUS
  <2>2. n \in Nat /\ Cut(Root) - k = n + 1 BY <1>1, <1>7, <2>1
  <2>3. PICK s : s = counts[f] OBVIOUS
  <2>4. s = [i \in 1..n + 1 |-> c[k + i] - c[k + i - 1] - One(Blocks(T[k + i - 1]))]
    BY <1>6, <2>2, <2>3
  <2>5. s \in Seq(Range(s)) /\ Len(s) = n + 1
    <3>1. s \in [1..n + 1 -> Range(s)] BY <2>4 DEF Range
    <3>2. QED BY <2>2, <3>1
  <2>6. s # <<>> BY <2>2, <2>5
  <2>7. Head(s) = s[1] BY <2>5, <2>6
  <2>8. s[1] = c[k + 1] - c[k] - One(Blocks(T[k]))
    <3>1. 1 \in 1..n + 1 /\ k + 1 - 1 = k BY <1>1, <2>2
    <3>2. s[1] = c[k + 1] - c[k + 1 - 1] - One(Blocks(T[k + 1 - 1])) BY <2>4, <3>1
    <3>3. QED BY <3>1, <3>2
  <2>9. PICK t : t = Tail(s) OBVIOUS
  <2>10. t \in Seq(Range(s)) /\ Len(t) = n /\ \A i \in 1..n : t[i] = s[i + 1]
    BY <2>2, <2>5, <2>6, <2>9, HeadTailProperties
  <2>11. t = [i \in 1..n |-> t[i]] BY <2>10, LenProperties
  <2>12. TheCounts(f, T, c)' =
           [i \in 1..n |-> c[(k + 1) + i] - c[(k + 1) + i - 1] - One(Blocks(T[(k + 1) + i - 1]))]
    BY <1>1, <1>4, <2>1 DEF TheCounts
  <2>13. ASSUME NEW i \in 1..n
         PROVE t[i] = c[(k + 1) + i] - c[(k + 1) + i - 1] - One(Blocks(T[(k + 1) + i - 1]))
    <3>1. i + 1 \in 1..n + 1 /\ k + (i + 1) = (k + 1) + i BY <1>1, <2>2
    <3>2. s[i + 1] = c[k + (i + 1)] - c[k + (i + 1) - 1] - One(Blocks(T[k + (i + 1) - 1]))
      BY <2>4, <3>1
    <3>3. t[i] = s[i + 1] BY <2>10
    <3>4. k + (i + 1) - 1 = (k + 1) + i - 1 BY <1>1, <2>2
    <3>5. PICK a : a = k + (i + 1) OBVIOUS
    <3>6. PICK b : b = k + (i + 1) - 1 OBVIOUS
    <3>7. a = (k + 1) + i /\ b = (k + 1) + i - 1 BY <3>1, <3>4, <3>5, <3>6
    <3>8. s[i + 1] = c[a] - c[b] - One(Blocks(T[b])) BY <3>2, <3>5, <3>6
    <3>9. QED BY <3>3, <3>7, <3>8
  <2>14. t = TheCounts(f, T, c)' BY <2>11, <2>12, <2>13
  <2>15. QED BY <2>3, <2>7, <2>8, <2>9, <2>14
<1>12. due'[f] = c[k + 1] - (c[k] + One(Blocks(T[k])))
  <2>1. c[k + 1] \in Nat /\ c[k] \in Nat /\ One(Blocks(T[k])) \in {0, 1}
    BY <1>1, <1>7, OneType DEF CutAt
  <2>2. QED BY <1>2, <1>11, <2>1
<1>13. counts'[f] = TheCounts(f, T, c)' BY <1>2, <1>11
<1>14. CutBy(heard'[f], k, P, c) BY <1>2, <1>3 DEF Knows, FollowerOK, CutBy
<1>15. k + 1 <= Cut(Root) BY <1>1, <1>7
<1>16. /\ feed[f] = Piece(P, TakenOf(f, T, c, k), Published(P))
       /\ msgs[f] = Piece(P, c[k], TakenOf(f, T, c, k))
       /\ TakenOf(f, T, c, k) <= Published(P)
  BY <1>3 DEF Knows, FollowerOK
<1>17. QED
  BY <1>1, <1>2, <1>3, <1>4, <1>9, <1>10, <1>12, <1>13, <1>14, <1>15, <1>16
  DEF FollowerOK, TheCounts, CutBy

LEMMA FollowerRestStep ==
  ASSUME NEW f \in Followers, NEW F, NEW T, NEW P, NEW c, NEW k, Knows(f, F, T, P, c, k),
         FollowerRest(f)
  PROVE  FollowerOK(f, T, P, c)'
<1>1. /\ k \in Nat /\ Cut(Root) \in Nat /\ Cut(Root)' = Cut(Root)
      /\ Heard(Root) \in Nat /\ Heard(Root)' = Heard(Root)
      /\ P \in Seq(Message) /\ Len(P) \in Nat /\ CutAt(T, P, c, k)
      /\ Published(P) \in Nat /\ Published(P) <= Len(P) /\ Published(P)' = Published(P)
  BY KnownFacts
<1>2. /\ pc[f] = "receiving" /\ due[f] <= Len(feed[f])
      /\ pc'[f] = "scheduling" /\ heard' = heard /\ counts' = counts
      /\ msgs'[f] = msgs[f] \o SubSeq(feed[f], 1, due[f])
      /\ feed'[f] = Rest(feed[f], due[f])
  BY DEF FollowerRest, Share, Knows, Shapes, Ranks, loopVars, Rest
<1>3. Heard(f) = k /\ Heard(f)' = k BY <1>2 DEF Knows, Heard
<1>4. Cut(f) = k + 1 /\ Cut(f)' = k + 1 BY <1>1, <1>2, <1>3 DEF Cut, CutsNext, One
<1>5. k + 1 <= Cut(Root) BY <1>4 DEF Knows, FollowerOK
<1>6. PICK t : t = TakenOf(f, T, c, k) OBVIOUS
<1>7. /\ feed[f] = Piece(P, t, Published(P)) /\ msgs[f] = Piece(P, c[k], t)
      /\ t <= Published(P) /\ due[f] = c[k + 1] - t
  BY <1>2, <1>3, <1>6 DEF Knows, FollowerOK
<1>8. t = c[k] + One(Blocks(T[k])) BY <1>2, <1>6 DEF TakenOf
<1>9. /\ t \in Nat /\ c[k] \in Nat /\ c[k] <= t /\ c[k + 1] \in Nat /\ c[k + 1] <= Len(P)
      /\ t <= c[k + 1]
  BY <1>1, <1>5, <1>8, OneType DEF CutAt
<1>10. t <= Len(P) BY <1>1, <1>7, <1>9
<1>11. Len(feed[f]) = Published(P) - t
  <2>1. P \in Seq(Message) /\ t \in Nat /\ Published(P) \in Nat BY <1>1, <1>9
  <2>2. t <= Published(P) /\ Published(P) <= Len(P) BY <1>1, <1>7
  <2>3. Len(Piece(P, t, Published(P))) = Published(P) - t BY <2>1, <2>2, PieceLen
  <2>4. QED BY <1>7, <2>3
<1>12. c[k + 1] <= Published(P) /\ due[f] \in Nat /\ t + due[f] = c[k + 1]
  <2>1. due[f] = c[k + 1] - t /\ due[f] <= Published(P) - t BY <1>2, <1>7, <1>11
  <2>2. t \in Nat /\ c[k + 1] \in Nat /\ t <= c[k + 1] /\ Published(P) \in Nat BY <1>1, <1>9
  <2>3. PICK d : d = due[f] OBVIOUS
  <2>4. PICK e : e = c[k + 1] OBVIOUS
  <2>5. PICK p : p = Published(P) OBVIOUS
  <2>6. d = e - t /\ d <= p - t /\ t \in Nat /\ e \in Nat /\ t <= e /\ p \in Nat
    BY <2>1, <2>2, <2>3, <2>4, <2>5
  <2>7. e <= p /\ d \in Nat /\ t + d = e BY <2>6
  <2>8. QED BY <2>3, <2>4, <2>5, <2>7
<1>13. t + due[f] <= Published(P) BY <1>12
<1>14. PICK d : d = due[f] OBVIOUS
<1>15. d \in Nat /\ t + d = c[k + 1] /\ t + d <= Published(P) BY <1>12, <1>13, <1>14
<1>16. SubSeq(Piece(P, t, Published(P)), 1, d) = Piece(P, t, t + d)
       /\ Rest(Piece(P, t, Published(P)), d) = Piece(P, t + d, Published(P))
  <2>1. P \in Seq(Message) /\ t \in Nat /\ Published(P) \in Nat BY <1>1, <1>9
  <2>2. d \in Nat /\ t + d <= Published(P) /\ Published(P) <= Len(P) BY <1>1, <1>15
  <2>3. CutsOff(P, t, Published(P), d) BY <2>1, <2>2, PieceCutsOff
  <2>4. QED BY <2>3 DEF CutsOff
<1>17. Joins(P, c[k], t, c[k + 1]) BY <1>1, <1>9, PieceJoin
<1>18. msgs'[f] = Piece(P, c[k], c[k + 1]) /\ feed'[f] = Piece(P, c[k + 1], Published(P))
  BY <1>2, <1>7, <1>14, <1>15, <1>16, <1>17 DEF Joins
<1>19. TakenOf(f, T, c, k)' = c[k + 1] BY <1>2 DEF TakenOf
<1>20. counts'[f] = TheCounts(f, T, c)'
  BY <1>1, <1>2, <1>3, <1>4 DEF TheCounts, Knows, FollowerOK
<1>21. CutBy(heard'[f], k, P, c) BY <1>2, <1>3 DEF Knows, FollowerOK, CutBy
<1>22. QED
  BY <1>1, <1>2, <1>3, <1>4, <1>5, <1>12, <1>18, <1>19, <1>20, <1>21
  DEF FollowerOK, TheCounts, CutBy

LEMMA FollowerScheduleStep ==
  ASSUME NEW f \in Followers, NEW F, NEW T, NEW P, NEW c, NEW k, Knows(f, F, T, P, c, k),
         NEW now, Schedule(f, now)
  PROVE  FollowerOK(f, T, P, c)'
<1>1. /\ k \in Nat /\ Cut(Root) \in Nat /\ Cut(Root)' = Cut(Root)
      /\ Heard(Root) \in Nat /\ Heard(Root)' = Heard(Root)
      /\ P \in Seq(Message) /\ Len(P) \in Nat /\ CutAt(T, P, c, k)
      /\ Published(P) \in Nat /\ Published(P) <= Len(P) /\ Published(P)' = Published(P)
  BY KnownFacts
<1>2. /\ pc[f] = "scheduling" /\ pc'[f] = "processing" /\ counts' = counts /\ feed' = feed
      /\ heard'[f] = Append(heard[f], msgs[f]) /\ msgs'[f] = <<>>
  BY DEF Schedule, Knows, Shapes, Ranks
<1>3. Heard(f) = k /\ Listed(heard[f], k) BY DEF Knows, Trace
<1>4. Grown(heard'[f], heard[f], k, msgs[f]) BY <1>2, <1>3, AppendGrows
<1>5. Heard(f)' = k + 1 BY <1>4 DEF Heard, Grown
<1>6. Cut(f) = k + 1 /\ Cut(f)' = k + 1 BY <1>1, <1>2, <1>3, <1>5 DEF Cut, CutsNext, One
<1>7. k + 1 <= Cut(Root) BY <1>6 DEF Knows, FollowerOK
<1>8. TakenOf(f, T, c, k) = c[k + 1] BY <1>2 DEF TakenOf
<1>9. TakenOf(f, T, c, k + 1)' = c[k + 1] BY <1>2 DEF TakenOf
<1>10. /\ feed[f] = Piece(P, c[k + 1], Published(P)) /\ msgs[f] = Piece(P, c[k], c[k + 1])
       /\ c[k + 1] <= Published(P) /\ CutBy(heard[f], k, P, c)
  BY <1>3, <1>8 DEF Knows, FollowerOK, CutBy
<1>11. CutBy(heard'[f], k + 1, P, c)
  <2>1. ASSUME NEW i \in 1..k + 1 PROVE heard'[f][i] = Piece(P, c[i - 1], c[i])
    <3>1. CASE i = k + 1
      <4>1. i - 1 = k BY <1>1, <3>1
      <4>2. QED BY <1>4, <1>10, <3>1, <4>1 DEF Grown
    <3>2. CASE i # k + 1
      <4>1. i \in 1..k BY <1>1, <3>2
      <4>2. QED BY <1>4, <1>10, <4>1 DEF Grown, CutBy
    <3>3. QED BY <3>1, <3>2
  <2>2. QED BY <2>1 DEF CutBy
<1>12. counts'[f] = TheCounts(f, T, c)'
  BY <1>1, <1>2, <1>6 DEF TheCounts, Knows, FollowerOK
<1>13. Piece(P, c[k + 1], c[k + 1]) = <<>>
  <2>1. c[k + 1] \in Nat BY <1>1, <1>7 DEF CutAt
  <2>2. QED BY <2>1, PieceEmpty
<1>14. QED
  BY <1>1, <1>2, <1>5, <1>6, <1>7, <1>9, <1>10, <1>11, <1>12, <1>13
  DEF FollowerOK, TheCounts, CutBy

LEMMA FollowerProcessStep ==
  ASSUME NEW f \in Followers, NEW F, NEW T, NEW P, NEW c, NEW k, Knows(f, F, T, P, c, k),
         Process(f)
  PROVE  FollowerOK(f, T, P, c)'
<1>1. /\ k \in Nat /\ Cut(Root)' = Cut(Root) /\ Heard(Root)' = Heard(Root)
      /\ Published(P)' = Published(P)
  BY KnownFacts
<1>2. /\ pc[f] = "processing" /\ pc'[f] = "begin" /\ counts' = counts /\ feed' = feed
      /\ heard' = heard /\ msgs' = msgs
  BY DEF Process, Knows, Shapes, Ranks, ioVars
<1>3. Heard(f) = k /\ Heard(f)' = k BY <1>2 DEF Knows, Heard
<1>4. Cut(f)' = Cut(f) BY <1>2, <1>3 DEF Cut, CutsNext
<1>5. TakenOf(f, T, c, k)' = TakenOf(f, T, c, k) BY <1>2 DEF TakenOf
<1>6. counts'[f] = TheCounts(f, T, c)'
  BY <1>1, <1>2, <1>4 DEF TheCounts, Knows, FollowerOK
<1>7. QED BY <1>1, <1>2, <1>3, <1>4, <1>5, <1>6 DEF Knows, FollowerOK, TheCounts

----------------------------------------------------------------------------
(* Whatever a step does to a rank, it has a trace afterwards; and what its *)
(* clock has decided stays.                                                *)
LEMMA TraceStep ==
  ASSUME Shapes, [Next]_vars, NEW r \in Ranks, NEW T, Trace(T, r)
  PROVE  \E U : Trace(U, r)'
BY RankSteps, TraceIdle, TraceProcess, TraceGrows

LEMMA TraceKept ==
  ASSUME Shapes, [Next]_vars, NEW r \in Ranks, NEW T, Trace(T, r),
         ~(pc[r] = "scheduling" /\ pc'[r] = "processing")
  PROVE  Trace(T, r)' /\ Heard(r)' = Heard(r)
BY RankSteps, TraceIdle, TraceProcess DEF Schedules

Lengthens(s, t) == Len(s) \in Nat /\ Len(t) \in Nat /\ Len(s) <= Len(t)
                   /\ \A i \in 1..Len(s) : t[i] = s[i]

LEMMA UrgentGrows ==
  ASSUME Shapes, [Next]_vars, NEW r \in Ranks, NEW T, Trace(T, r)
  PROVE  Lengthens(urgent[r], urgent'[r])
<1>1. PICK n : n = Heard(r) OBVIOUS
<1>2. Listed(urgent[r], n) BY <1>1 DEF Trace
<1>3. Len(urgent[r]) = n /\ n \in Nat BY <1>2, AppendListed DEF Listed
<1>4. CASE urgent'[r] = urgent[r] BY <1>3, <1>4 DEF Lengthens
<1>5. ASSUME NEW now, Schedules(r, now) PROVE Lengthens(urgent[r], urgent'[r])
  <2>1. Grown(urgent'[r], urgent[r], n, now) BY <1>2, <1>5, AppendGrows DEF Schedules
  <2>2. QED BY <1>3, <2>1 DEF Grown, Lengthens
<1>6. QED BY <1>4, <1>5, RankSteps DEF Idle, Processes

LEMMA AgreedBefore ==
  ASSUME Shapes, [Next]_vars, NEW f \in Followers, NEW F, NEW T, Trace(F, f), Trace(T, Root),
         Agree(urgent[f], urgent[Root])'
  PROVE  Agree(urgent[f], urgent[Root])
<1>1. Lengthens(urgent[f], urgent'[f]) /\ Lengthens(urgent[Root], urgent'[Root])
  BY UrgentGrows DEF Ranks
<1>2. ASSUME NEW i \in 1..Len(urgent[f]), i <= Len(urgent[Root])
      PROVE  urgent[f][i] = urgent[Root][i]
  <2>1. i \in 1..Len(urgent'[f]) /\ i <= Len(urgent'[Root]) /\ i \in 1..Len(urgent[Root])
    BY <1>1, <1>2 DEF Lengthens
  <2>2. urgent'[f][i] = urgent'[Root][i] BY <2>1 DEF Agree
  <2>3. QED BY <1>1, <2>1, <2>2 DEF Lengthens
<1>3. QED BY <1>2 DEF Agree

(* The invariant of a follower, when it does nothing.                      *)
LEMMA FollowerKept ==
  ASSUME Shapes, Traced, [Next]_vars, NEW f \in Followers, NEW F, NEW T, NEW U, NEW P, NEW c,
         Trace(F, f), Trace(T, Root), FollowerInv(f, T, P, c), SameFollower(f), raws' = raws,
         Cut(Root)' = Cut(Root), Heard(Root)' \in Nat, Heard(Root) <= Heard(Root)',
         \A i \in 0..Heard(Root) : U[i] = T[i]
  PROVE  FollowerInv(f, U, P, c)'
<1>1. SUFFICES ASSUME Agree(urgent[f], urgent[Root])' PROVE FollowerOK(f, U, P, c)'
  BY DEF FollowerInv
<1>2. FollowerOK(f, T, P, c) BY <1>1, AgreedBefore DEF FollowerInv
<1>3. Heard(Root) \in Nat /\ Heard(f) \in Nat /\ pc[f] \in Phases BY DEF Traced, Ranks, Shapes
<1>4. QED BY <1>2, <1>3, FollowerSame

(* And when it steps.                                                      *)
LEMMA FollowerStep ==
  ASSUME Shapes, Traced, [Next]_vars, RootSame, NEW f \in Followers, NEW F, NEW T, NEW P, NEW c,
         Trace(F, f), Trace(T, Root), Stream(T, P, c), FollowerReceives(f) \/ Works(f)
  PROVE  FollowerInv(f, T, P, c)'
<1>1. SUFFICES ASSUME Agree(urgent[f], urgent[Root])' PROVE FollowerOK(f, T, P, c)'
  BY DEF FollowerInv
<1>2. Agree(urgent[f], urgent[Root]) BY <1>1, AgreedBefore
<1>3. FollowerOK(f, T, P, c) BY <1>2 DEF FollowerInv, Stream
<1>4. PICK k : k = Heard(f) OBVIOUS
<1>5. Knows(f, F, T, P, c, k) BY <1>2, <1>3, <1>4 DEF Knows
<1>6. CASE FollowerFirst(f) BY <1>5, <1>6, FollowerFirstStep
<1>7. CASE FollowerCount(f) BY <1>5, <1>7, FollowerCountStep
<1>8. CASE FollowerRest(f) BY <1>5, <1>8, FollowerRestStep
<1>9. ASSUME NEW now, Schedule(f, now) PROVE FollowerOK(f, T, P, c)'
  BY <1>5, <1>9, FollowerScheduleStep
<1>10. CASE Process(f) BY <1>5, <1>10, FollowerProcessStep
<1>11. QED BY <1>6, <1>7, <1>8, <1>9, <1>10 DEF FollowerReceives, Works

(* Rank 0, when it does nothing.                                           *)
LEMMA RootKept ==
  ASSUME NEW T, NEW P, NEW c, Stream(T, P, c), RootSame
  PROVE  CutOK(T, P, c)' /\ RootOK(T, P, c)' /\ Cut(Root)' = Cut(Root) /\ Heard(Root)' = Heard(Root)
<1>1. Heard(Root)' = Heard(Root) BY DEF RootSame, Heard
<1>2. Cut(Root)' = Cut(Root) BY <1>1 DEF RootSame, Cut, CutsNext
<1>3. CutOK(T, P, c)' BY <1>1, <1>2 DEF RootSame, Stream, CutOK
<1>4. RootOK(T, P, c)' BY <1>1 DEF RootSame, Stream, RootOK
<1>5. QED BY <1>1, <1>2, <1>3, <1>4

FollowersTraced == \A f \in Followers : \E F : Trace(F, f)

LEMMA OneFollowerStep ==
  ASSUME Shapes, Traced, FollowersTraced, [Next]_vars, NEW T, NEW P, NEW c, Trace(T, Root),
         Stream(T, P, c), NEW f \in Followers, FollowerReceives(f) \/ Works(f)
  PROVE  StreamInv(T, P, c)'
<1>1. f # Root /\ f \in Ranks /\ Root \in Ranks BY RanksAssumption DEF Ranks
<1>2. RootSame /\ \A g \in Followers : g # f => SameFollower(g)
  <2>1. CASE FollowerFirst(f) BY <1>1, <2>1 DEF FollowerFirst, Shapes, RootSame, SameFollower, loopVars, Ranks
  <2>2. CASE FollowerCount(f) BY <1>1, <2>2 DEF FollowerCount, Shapes, RootSame, SameFollower, loopVars, Ranks
  <2>3. CASE FollowerRest(f) BY <1>1, <2>3 DEF FollowerRest, Shapes, RootSame, SameFollower, loopVars, Ranks
  <2>4. ASSUME NEW now, Schedule(f, now) PROVE RootSame /\ \A g \in Followers : g # f => SameFollower(g)
    BY <1>1, <2>4 DEF Schedule, Shapes, RootSame, SameFollower, Ranks
  <2>5. CASE Process(f) BY <1>1, <2>5 DEF Process, Shapes, RootSame, SameFollower, ioVars, Ranks
  <2>6. QED BY <2>1, <2>2, <2>3, <2>4, <2>5 DEF FollowerReceives, Works
<1>3. /\ CutOK(T, P, c)' /\ RootOK(T, P, c)' /\ Cut(Root)' = Cut(Root) /\ Heard(Root)' = Heard(Root)
      /\ raws' = raws
  BY <1>2, RootKept DEF RootSame
<1>4. Trace(T, Root)' BY <1>1, <1>2, TraceKept DEF RootSame
<1>5. ASSUME NEW g \in Followers PROVE FollowerInv(g, T, P, c)'
  <2>1. PICK F : Trace(F, g) BY DEF FollowersTraced
  <2>2. CASE g = f BY <1>2, <2>1, <2>2, FollowerStep
  <2>3. CASE g # f
    <3>1. Heard(Root) \in Nat /\ Heard(Root) <= Heard(Root) BY <1>1 DEF Traced
    <3>2. FollowerInv(g, T, P, c) /\ SameFollower(g) BY <1>2, <2>3 DEF Stream
    <3>3. QED BY <1>3, <2>1, <3>1, <3>2, FollowerKept
  <2>4. QED BY <2>2, <2>3
<1>6. QED BY <1>3, <1>4, <1>5 DEF StreamInv

LEMMA QuietStep ==
  ASSUME Shapes, Traced, FollowersTraced, [Next]_vars, NEW T, NEW P, NEW c, Trace(T, Root),
         Stream(T, P, c), UNCHANGED <<ioVars, pc, reqVars, loopVars>>
  PROVE  StreamInv(T, P, c)'
<1>1. Root \in Ranks BY DEF Ranks
<1>2. RootSame /\ \A g \in Followers : SameFollower(g)
  BY DEF RootSame, SameFollower, ioVars, loopVars
<1>3. /\ CutOK(T, P, c)' /\ RootOK(T, P, c)' /\ Cut(Root)' = Cut(Root) /\ Heard(Root)' = Heard(Root)
      /\ raws' = raws
  BY <1>2, RootKept DEF RootSame
<1>4. Trace(T, Root)' BY <1>1, <1>2, TraceKept DEF RootSame
<1>5. ASSUME NEW g \in Followers PROVE FollowerInv(g, T, P, c)'
  <2>1. PICK F : Trace(F, g) BY DEF FollowersTraced
  <2>2. Heard(Root) \in Nat /\ Heard(Root) <= Heard(Root) BY <1>1 DEF Traced
  <2>3. FollowerInv(g, T, P, c) /\ SameFollower(g) BY <1>2 DEF Stream
  <2>4. QED BY <1>3, <2>1, <2>2, <2>3, FollowerKept
<1>6. QED BY <1>3, <1>4, <1>5 DEF StreamInv

LEMMA RootScheduleStep ==
  ASSUME Shapes, Traced, FollowersTraced, [Next]_vars, NEW T, NEW P, NEW c, Trace(T, Root),
         Stream(T, P, c), NEW now, Schedule(Root, now)
  PROVE  \E U : StreamInv(U, P, c)'
<1>1. Root \in Ranks BY DEF Ranks
<1>2. Schedules(Root, now) BY <1>1, IsScheduled
<1>3. PICK n : n = Heard(Root) OBVIOUS
<1>4. n \in Nat /\ Heard(Root)' = n + 1 BY <1>1, <1>2, <1>3, TraceGrows
<1>5. PICK U : Trace(U, Root)' /\ \A i \in 0..n : U[i] = T[i] BY <1>1, <1>2, <1>3, TraceGrows
<1>6. Cut(Root) = n + 1 /\ Cut(Root)' = n + 1
  BY <1>2, <1>3, <1>4 DEF Schedules, Cut, CutsNext, One
<1>7. /\ pc[Root] = "scheduling" /\ pc'[Root] = "processing" /\ msgs'[Root] = <<>>
      /\ raws' = raws /\ heard'[Root] = Append(heard[Root], msgs[Root])
  BY <1>1, <1>2 DEF Schedules, Schedule, Shapes
<1>8. One(pc[Root] = "counting") = 0 /\ One(pc'[Root] = "counting") = 0 BY <1>7 DEF One
<1>9. Len(P) = c[n + 1]
  <2>1. Len(P) = c[n + 1] + 0 BY <1>6, <1>8 DEF Stream, CutOK
  <2>2. c[n + 1] \in Nat
    <3>1. n + 1 \in 0..n + 1 BY <1>4
    <3>2. c \in [0..n + 1 -> Nat] BY <1>6 DEF Stream, CutOK
    <3>3. QED BY <3>1, <3>2
  <2>3. QED BY <2>1, <2>2
<1>10. msgs[Root] = Piece(P, c[n], c[n + 1]) /\ raws = <<>>
  BY <1>3, <1>7, <1>9 DEF Stream, RootOK
<1>11. Grown(heard'[Root], heard[Root], n, Piece(P, c[n], c[n + 1]))
  <2>1. Listed(heard[Root], n) BY <1>3 DEF Trace
  <2>2. QED BY <1>7, <1>10, <2>1, AppendGrows
<1>12. ASSUME NEW i \in 1..n + 1
       PROVE  /\ c[i - 1] + One(Blocks(U[i - 1])) <= c[i]
              /\ heard'[Root][i] = Piece(P, c[i - 1], c[i])
  <2>1. i - 1 \in 0..n BY <1>4
  <2>2. c[i - 1] + One(Blocks(T[i - 1])) <= c[i] BY <1>6 DEF Stream, CutOK
  <2>3. c[i - 1] + One(Blocks(U[i - 1])) <= c[i] BY <1>5, <2>1, <2>2
  <2>4. CASE i = n + 1
    <3>1. i - 1 = n BY <1>4, <2>4
    <3>2. QED BY <1>11, <2>3, <2>4, <3>1 DEF Grown
  <2>5. CASE i # n + 1
    <3>1. i \in 1..n BY <1>4, <2>5
    <3>2. heard[Root][i] = Piece(P, c[i - 1], c[i]) BY <1>3, <3>1 DEF Stream, CutOK
    <3>3. QED BY <1>11, <2>3, <3>1, <3>2 DEF Grown
  <2>6. QED BY <2>4, <2>5
<1>13. CutOK(U, P, c)' BY <1>4, <1>6, <1>8, <1>12 DEF Stream, CutOK
<1>14. RootOK(U, P, c)' BY <1>7, <1>10 DEF RootOK
<1>15. ASSUME NEW g \in Followers PROVE FollowerInv(g, U, P, c)'
  <2>1. PICK F : Trace(F, g) BY DEF FollowersTraced
  <2>2. g # Root BY RanksAssumption
  <2>3. SameFollower(g)
    BY <1>1, <2>2 DEF Schedule, Shapes, SameFollower, Ranks
  <2>4. Heard(Root)' \in Nat /\ Heard(Root) <= Heard(Root)' BY <1>3, <1>4
  <2>5. \A i \in 0..Heard(Root) : U[i] = T[i] BY <1>3, <1>5
  <2>6. FollowerInv(g, T, P, c) BY DEF Stream
  <2>7. Cut(Root)' = Cut(Root) /\ raws' = raws BY <1>6, <1>7
  <2>8. QED BY <2>1, <2>3, <2>4, <2>5, <2>6, <2>7, FollowerKept
<1>16. QED BY <1>5, <1>13, <1>14, <1>15 DEF StreamInv

LEMMA RootProcessStep ==
  ASSUME Shapes, Traced, FollowersTraced, [Next]_vars, NEW T, NEW P, NEW c, Trace(T, Root),
         Stream(T, P, c), Process(Root)
  PROVE  StreamInv(T, P, c)'
<1>1. Root \in Ranks BY DEF Ranks
<1>2. /\ pc[Root] = "processing" /\ pc'[Root] = "begin" /\ msgs' = msgs
      /\ raws' = raws /\ heard' = heard
  BY <1>1 DEF Process, Shapes, ioVars
<1>3. Heard(Root)' = Heard(Root) /\ Cut(Root)' = Cut(Root) BY <1>2 DEF Heard, Cut, CutsNext
<1>4. One(pc[Root] = "counting") = 0 /\ One(pc'[Root] = "counting") = 0 BY <1>2 DEF One
<1>5. CutOK(T, P, c)' BY <1>2, <1>3, <1>4 DEF Stream, CutOK
<1>6. RootOK(T, P, c)' BY <1>2 DEF Stream, RootOK
<1>7. Trace(T, Root)' BY <1>1, <1>2, TraceKept
<1>8. ASSUME NEW g \in Followers PROVE FollowerInv(g, T, P, c)'
  <2>1. PICK F : Trace(F, g) BY DEF FollowersTraced
  <2>2. g # Root BY RanksAssumption
  <2>3. SameFollower(g) BY <1>1, <2>2 DEF Process, Shapes, SameFollower, Ranks, ioVars
  <2>4. Heard(Root)' \in Nat /\ Heard(Root) <= Heard(Root)' BY <1>1, <1>3 DEF Traced
  <2>5. FollowerInv(g, T, P, c) BY DEF Stream
  <2>6. QED BY <1>2, <1>3, <2>1, <2>3, <2>4, <2>5, FollowerKept
<1>9. QED BY <1>5, <1>6, <1>7, <1>8 DEF StreamInv

----------------------------------------------------------------------------
LEMMA ShapesStep ==
  ASSUME Shapes, [Next]_vars PROVE Shapes'
<1> USE DEF ioVars, reqVars, loopVars
<1>1. CASE UNCHANGED vars BY <1>1 DEF vars, Shapes
<1>2. ASSUME NEW m \in Message, Ask(m) PROVE Shapes' BY <1>2 DEF Ask, Shapes
<1>3. CASE RootFirst
  <2>1. inbox' \in Seq(Message) BY <1>3 DEF RootFirst, Shapes
  <2>2. QED BY <1>3, <2>1 DEF RootFirst, Publish, Shapes, Phases
<1>4. CASE RootCount
  <2>1. inbox' \in Seq(Message)
    <3>1. inbox' = <<>> BY <1>4 DEF RootCount
    <3>2. <<>> \in Seq(Message) OBVIOUS
    <3>3. QED BY <3>1, <3>2
  <2>2. UNCHANGED <<feed, due, msgs, reqVars, loopVars>> BY <1>4 DEF RootCount
  <2>3. counts' = [f \in Followers |-> Append(counts[f], Counted(inbox))]
        /\ pc' = [pc EXCEPT ![Root] = "receiving"]
    BY <1>4 DEF RootCount
  <2>4. pc' \in [Ranks -> Phases] BY <2>3 DEF Shapes, Phases
  <2>5. QED BY <2>1, <2>2, <2>3, <2>4 DEF Shapes
<1>5. CASE RootRest BY <1>5 DEF RootRest, Publish, Shapes, Phases
<1>6. ASSUME NEW f \in Followers, FollowerReceives(f) PROVE Shapes'
  BY <1>6 DEF FollowerReceives, FollowerFirst, FollowerCount, FollowerRest, Shapes, Phases
<1>7. ASSUME NEW r \in Ranks, NEW now, Schedule(r, now) PROVE Shapes'
  BY <1>7 DEF Schedule, Shapes, Phases
<1>8. ASSUME NEW r \in Ranks, Process(r) PROVE Shapes' BY <1>8 DEF Process, Shapes, Phases
<1>9. QED BY <1>1, <1>2, <1>3, <1>4, <1>5, <1>6, <1>7, <1>8 DEF Next, RootReceives, Works

LEMMA StreamStep ==
  ASSUME Shapes, Traced, FollowersTraced, [Next]_vars, NEW T, NEW P, NEW c, StreamInv(T, P, c)
  PROVE  \E U, Q, d : StreamInv(U, Q, d)'
<1>1. Trace(T, Root) /\ Stream(T, P, c) BY DEF StreamInv, Stream
<1>2. Root \in Ranks BY DEF Ranks
<1>3. ASSUME NEW Q, NEW d, Stream(T, Q, d)', pc'[Root] # "processing"
      PROVE  \E U, R, e : StreamInv(U, R, e)'
  <2>1. Trace(T, Root)' BY <1>1, <1>2, <1>3, TraceKept
  <2>2. StreamInv(T, Q, d)' BY <1>3, <2>1 DEF StreamInv, Stream
  <2>3. QED BY <2>2
<1>4. CASE UNCHANGED vars
  <2>1. UNCHANGED <<ioVars, pc, reqVars, loopVars>> BY <1>4 DEF vars
  <2>2. QED BY <1>1, <2>1, QuietStep
<1>5. ASSUME NEW m \in Message, Ask(m) PROVE \E U, Q, d : StreamInv(U, Q, d)'
  <2>1. UNCHANGED <<ioVars, pc, reqVars, loopVars>> BY <1>5 DEF Ask
  <2>2. QED BY <1>1, <2>1, QuietStep
<1>6. CASE RootFirst
  <2>1. PICK Q : Stream(T, Q, c)' BY <1>1, <1>6, RootFirstStep
  <2>2. pc'[Root] # "processing" BY <1>2, <1>6 DEF RootFirst, Shapes
  <2>3. QED BY <1>3, <2>1, <2>2
<1>7. CASE RootCount
  <2>1. PICK Q, d : Stream(T, Q, d)' BY <1>1, <1>7, RootCountStep
  <2>2. pc'[Root] # "processing" BY <1>2, <1>7 DEF RootCount, Shapes
  <2>3. QED BY <1>3, <2>1, <2>2
<1>8. CASE RootRest
  <2>1. Stream(T, P, c)' BY <1>1, <1>8, RootRestStep
  <2>2. pc'[Root] # "processing" BY <1>2, <1>8 DEF RootRest, Shapes
  <2>3. QED BY <1>3, <2>1, <2>2
<1>9. ASSUME NEW f \in Followers, FollowerReceives(f) \/ Works(f)
      PROVE  \E U, Q, d : StreamInv(U, Q, d)'
  BY <1>1, <1>9, OneFollowerStep
<1>10. ASSUME NEW now, Schedule(Root, now) PROVE \E U, Q, d : StreamInv(U, Q, d)'
  BY <1>1, <1>10, RootScheduleStep
<1>11. CASE Process(Root) BY <1>1, <1>11, RootProcessStep
<1>12. QED
  BY <1>4, <1>5, <1>6, <1>7, <1>8, <1>9, <1>10, <1>11 DEF Next, RootReceives, Works, Ranks

LEMMA RanksInit == Init => RanksInv
<1> SUFFICES ASSUME Init PROVE RanksInv OBVIOUS
<1>1. Shapes
  <2>1. <<>> \in Seq(Message) OBVIOUS
  <2>2. QED BY <2>1 DEF Init, Shapes, Phases
<1>2. PICK T : T = [i \in 0..0 |-> First] OBVIOUS
<1>3. \A r \in Ranks : Trace(T, r) BY <1>2, TraceInit
<1>4. PICK c : c = [i \in 0..0 |-> 0] OBVIOUS
<1>5. c[0] = 0 /\ c \in [0..0 -> Nat] BY <1>4
<1>6. ASSUME NEW r \in Ranks PROVE Heard(r) = 0 /\ Cut(r) = 0 /\ pc[r] = "begin" /\ msgs[r] = <<>>
  <2>1. pc[r] = "begin" /\ heard[r] = <<>> /\ msgs[r] = <<>> BY DEF Init
  <2>2. QED BY <2>1 DEF Heard, Cut, CutsNext, One
<1>7. Root \in Ranks BY DEF Ranks
<1>8. CutOK(T, <<>>, c) BY <1>5, <1>6, <1>7 DEF CutOK, One
<1>9. RootOK(T, <<>>, c) BY <1>6, <1>7 DEF RootOK, Init
<1>10. ASSUME NEW f \in Followers PROVE FollowerInv(f, T, <<>>, c)
  <2>1. f \in Ranks BY DEF Ranks
  <2>2. TakenOf(f, T, c, 0) = 0 BY <1>5, <1>6, <2>1 DEF TakenOf
  <2>3. Published(<<>>) = 0 BY DEF Published, Init
  <2>4. Piece(<<>>, 0, 0) = <<>> BY PieceEmpty
  <2>5. feed[f] = <<>> /\ counts[f] = <<>> BY DEF Init
  <2>6. counts[f] = [i \in 1..0 - 0 |-> c[0 + i] - c[0 + i - 1] - One(Blocks(T[0 + i - 1]))]
    BY <2>5
  <2>7. FollowerOK(f, T, <<>>, c)
    BY <1>5, <1>6, <1>7, <2>1, <2>2, <2>3, <2>4, <2>5, <2>6 DEF FollowerOK
  <2>8. QED BY <2>7 DEF FollowerInv
<1>11. StreamInv(T, <<>>, c) BY <1>3, <1>7, <1>8, <1>9, <1>10 DEF StreamInv
<1>12. \A f \in Followers : \E F : Trace(F, f) BY <1>3 DEF Ranks
<1>13. QED BY <1>1, <1>11, <1>12 DEF RanksInv

LEMMA RanksStep == RanksInv /\ [Next]_vars => RanksInv'
<1> SUFFICES ASSUME RanksInv, [Next]_vars PROVE RanksInv' OBVIOUS
<1>1. Shapes /\ FollowersTraced BY DEF RanksInv, FollowersTraced
<1>2. PICK T, P, c : StreamInv(T, P, c) BY DEF RanksInv
<1>3. Traced
  <2>1. \A r \in Ranks : \E F : Trace(F, r) BY <1>1, <1>2 DEF FollowersTraced, StreamInv, Ranks
  <2>2. QED BY <2>1 DEF Trace, Listed, Traced
<1>4. Shapes' BY <1>1, ShapesStep
<1>5. \A f \in Followers : (\E F : Trace(F, f)')
  BY <1>1, TraceStep DEF FollowersTraced, Ranks
<1>6. \E U, Q, d : StreamInv(U, Q, d)' BY <1>1, <1>2, <1>3, StreamStep
<1>7. QED BY <1>4, <1>5, <1>6 DEF RanksInv

LEMMA RanksFollows == RanksInv => RanksAgree
<1> SUFFICES ASSUME RanksInv, ClocksAgree, NEW f \in Followers
             PROVE  Agree(heard[f], heard[Root]) /\ Agree(batches[f], batches[Root])
  BY DEF RanksAgree
<1>1. PICK T, P, c : StreamInv(T, P, c) BY DEF RanksInv
<1>2. PICK F : Trace(F, f) BY DEF RanksInv
<1>3. Trace(T, Root) /\ CutOK(T, P, c) BY <1>1 DEF StreamInv
<1>4. Agree(urgent[f], urgent[Root]) BY DEF ClocksAgree
<1>5. FollowerOK(f, T, P, c) BY <1>1, <1>4 DEF StreamInv, FollowerInv
<1>6. Heard(f) \in Nat /\ Heard(Root) \in Nat BY <1>2, <1>3 DEF Trace, Listed
<1>7. Len(batches[f]) = Heard(f) /\ Len(batches[Root]) = Heard(Root)
  <2>1. Listed(batches[f], Heard(f)) /\ Listed(batches[Root], Heard(Root)) BY <1>2, <1>3 DEF Trace
  <2>2. \A s, n : Listed(s, n) => Len(s) = n BY AppendListed
  <2>3. QED BY <2>1, <2>2
<1>8. ASSUME NEW i \in 1..Heard(f), i <= Heard(Root)
      PROVE  heard[f][i] = heard[Root][i] /\ batches[f][i] = batches[Root][i]
  <2>1. i \in Nat /\ i <= Heard(f) /\ i \in 1..i BY <1>6
  <2>2. \A j \in 1..i : batches[f][j] = batches[Root][j] /\ heard[f][j] = heard[Root][j]
    BY <1>2, <1>3, <1>4, <1>5, <1>8, <2>1, SameStates
  <2>3. QED BY <2>1, <2>2
<1>9. Agree(heard[f], heard[Root]) BY <1>8 DEF Agree, Heard
<1>10. Agree(batches[f], batches[Root]) BY <1>7, <1>8 DEF Agree
<1>11. QED BY <1>9, <1>10

(* However many ranks there are, and at whatever pace they go: as long as  *)
(* their clocks have led to the same decisions, every rank has processed   *)
(* the same messages in the same iterations as rank 0 and has run the same *)
(* batches (overlap_loop, normal_loop and _recv_msg_multi_rank* of         *)
(* scheduler/io.py).                                                       *)
THEOREM RanksAgreeHolds == Spec => []RanksAgree
BY RanksInit, RanksStep, RanksFollows, PTL DEF Spec
=============================================================================
