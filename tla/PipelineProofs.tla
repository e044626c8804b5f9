---------------------------- MODULE PipelineProofs ----------------------------
(***************************************************************************)
(* Invariants of the pipeline, for any number of requests and workers, any *)
(* lengths of replies, with and without overlap; and that Text refines the *)
(* pipeline, so that they are invariants of Text.                          *)
(***************************************************************************)
EXTENDS Text, SequenceTheorems, WellFoundedInduction, TLAPS

(* A message that goes from the head of one queue to the end of the next   *)
(* changes nothing of the two in a row.                                    *)
LEMMA PassOn ==
  ASSUME NEW M, NEW a \in Seq(M), NEW b \in Seq(M), b # <<>>
  PROVE  Append(a, Head(b)) \o Tail(b) = a \o b
<1>1. /\ Head(b) \in M /\ Tail(b) \in Seq(M) /\ Len(Tail(b)) = Len(b) - 1
      /\ \A i \in 1..Len(Tail(b)) : Tail(b)[i] = b[i + 1]
      /\ Head(b) = b[1] /\ Len(b) \in Nat \ {0} /\ Len(a) \in Nat
  BY HeadTailProperties, EmptySeq
<1>2. /\ Append(a, Head(b)) \in Seq(M) /\ Len(Append(a, Head(b))) = Len(a) + 1
      /\ \A i \in 1..Len(a) : Append(a, Head(b))[i] = a[i]
      /\ Append(a, Head(b))[Len(a) + 1] = Head(b)
  BY <1>1
<1> DEFINE x == Append(a, Head(b)) \o Tail(b)
           y == a \o b
<1>3. /\ x \in Seq(M) /\ Len(x) = Len(a) + Len(b)
      /\ \A i \in 1..(Len(a) + Len(b)) :
           x[i] = IF i <= Len(a) + 1 THEN Append(a, Head(b))[i] ELSE Tail(b)[i - (Len(a) + 1)]
  BY <1>1, <1>2, ConcatProperties
<1>4. /\ y \in Seq(M) /\ Len(y) = Len(a) + Len(b)
      /\ \A i \in 1..(Len(a) + Len(b)) : y[i] = IF i <= Len(a) THEN a[i] ELSE b[i - Len(a)]
  BY ConcatProperties
<1> HIDE DEF x, y
<1>5. ASSUME NEW i \in 1..Len(x) PROVE x[i] = y[i]
  <2>1. CASE i <= Len(a) BY <2>1, <1>1, <1>2, <1>3, <1>4
  <2>2. CASE i = Len(a) + 1 BY <2>2, <1>1, <1>2, <1>3, <1>4
  <2>3. CASE i > Len(a) + 1
    <3>1. /\ i - (Len(a) + 1) \in 1..Len(Tail(b))
          /\ (i - (Len(a) + 1)) + 1 = i - Len(a)
      BY <2>3, <1>1, <1>3
    <3>2. Tail(b)[i - (Len(a) + 1)] = b[i - Len(a)] BY <3>1, <1>1
    <3>3. x[i] = Tail(b)[i - (Len(a) + 1)] BY <2>3, <1>1, <1>3
    <3>4. y[i] = b[i - Len(a)] BY <2>3, <1>1, <1>3, <1>4
    <3>5. QED BY <3>2, <3>3, <3>4
  <2>4. QED BY <2>1, <2>2, <2>3, <1>1, <1>3
<1>6. x = y BY <1>3, <1>4, <1>5, SeqEqual
<1>7. QED BY <1>6 DEF x, y

(* The same for the tokens on the way of a request, behind others.         *)
LEMMA TokenPasses ==
  ASSUME NEW p \in Seq(Token), NEW a \in Seq(Token), NEW b \in Seq(Token), b # <<>>
  PROVE  (p \o Append(a, Head(b))) \o Tail(b) = (p \o a) \o b
<1> DEFINE c == Append(a, Head(b))
           d == Tail(b)
<1>1. c \in Seq(Token) /\ d \in Seq(Token) BY HeadTailProperties
<1>2. c \o d = a \o b BY PassOn
<1> HIDE DEF c, d
<1>3. (p \o c) \o d = p \o (c \o d) BY <1>1, ConcatAssociative
<1>4. (p \o a) \o b = p \o (a \o b) BY ConcatAssociative
<1>5. (p \o c) \o d = (p \o a) \o b BY <1>2, <1>3, <1>4
<1>6. QED BY <1>5 DEF c, d

LEMMA TokenDelivered ==
  ASSUME NEW d \in Seq(Token), NEW t \in Seq(Token), NEW x \in Seq(Token), t # <<>>
  PROVE  Append(d, Head(t)) \o (Tail(t) \o x) = d \o (t \o x)
<1> DEFINE e == Append(d, Head(t))
           y == Tail(t)
<1>1. e \in Seq(Token) /\ y \in Seq(Token) BY HeadTailProperties
<1>2. e \o y = d \o t BY PassOn
<1> HIDE DEF e, y
<1>3. (e \o y) \o x = e \o (y \o x) BY <1>1, ConcatAssociative
<1>4. (d \o t) \o x = d \o (t \o x) BY ConcatAssociative
<1>5. e \o (y \o x) = d \o (t \o x) BY <1>2, <1>3, <1>4
<1>6. QED BY <1>5 DEF e, y

LEMMA TokensInARow ==
  ASSUME NEW t \in Seq(Token), NEW x \in Seq(Token), NEW k \in Seq(Token)
  PROVE  (t \o x) \o k = t \o (x \o k) /\ t \o x \in Seq(Token)
BY ConcatAssociative, ConcatProperties

(* What is put at the end of the last queue is at the end of the whole.    *)
LEMMA PutLast ==
  ASSUME NEW M, NEW a \in Seq(M), NEW b \in Seq(M), NEW e \in M
  PROVE  a \o Append(b, e) = Append(a \o b, e)
<1> DEFINE c == Append(b, e)
           z == a \o b
           x == a \o c
           y == Append(z, e)
<1>1. /\ c \in Seq(M) /\ Len(c) = Len(b) + 1 /\ c[Len(b) + 1] = e
      /\ Len(a) \in Nat /\ Len(b) \in Nat
      /\ \A i \in 1..Len(b) : c[i] = b[i]
  OBVIOUS
<1>3. /\ z \in Seq(M) /\ Len(z) = Len(a) + Len(b)
      /\ \A i \in 1..(Len(a) + Len(b)) : z[i] = IF i <= Len(a) THEN a[i] ELSE b[i - Len(a)]
  BY ConcatProperties
<1> HIDE DEF c, z
<1>2. /\ x \in Seq(M) /\ Len(x) = Len(a) + (Len(b) + 1)
      /\ \A i \in 1..(Len(a) + (Len(b) + 1)) : x[i] = IF i <= Len(a) THEN a[i] ELSE c[i - Len(a)]
  BY <1>1, ConcatProperties
<1>4. /\ y \in Seq(M) /\ Len(y) = Len(z) + 1 /\ y[Len(z) + 1] = e
      /\ \A i \in 1..Len(z) : y[i] = z[i]
  BY <1>3
<1> HIDE DEF x, y
<1>5. ASSUME NEW i \in 1..Len(x) PROVE x[i] = y[i]
  <2>0. i \in Nat /\ 1 <= i /\ i <= Len(a) + (Len(b) + 1) BY <1>1, <1>2
  <2>1. CASE i <= Len(a)
    <3>1. i \in 1..(Len(a) + Len(b)) /\ i \in 1..Len(z) BY <2>0, <2>1, <1>1, <1>3
    <3>2. x[i] = a[i] BY <2>1, <1>2
    <3>3. z[i] = a[i] BY <2>1, <3>1, <1>3
    <3>4. QED BY <3>1, <3>2, <3>3, <1>4
  <2>2. CASE i > Len(a) /\ i <= Len(a) + Len(b)
    <3>1. i - Len(a) \in 1..Len(b) /\ i \in 1..(Len(a) + Len(b)) /\ i \in 1..Len(z)
      BY <2>0, <2>2, <1>1, <1>3
    <3>2. ~(i <= Len(a)) BY <2>0, <2>2, <1>1
    <3>3. x[i] = b[i - Len(a)] BY <3>1, <3>2, <1>1, <1>2
    <3>4. z[i] = b[i - Len(a)] BY <3>1, <3>2, <1>3
    <3>5. QED BY <3>1, <3>3, <3>4, <1>4
  <2>3. CASE i = Len(a) + Len(b) + 1
    <3>1. i - Len(a) = Len(b) + 1 /\ ~(i <= Len(a)) /\ i = Len(z) + 1
      BY <2>0, <2>3, <1>1, <1>3
    <3>2. x[i] = e BY <3>1, <1>1, <1>2
    <3>3. QED BY <3>1, <3>2, <1>4
  <2>4. QED BY <2>0, <2>1, <2>2, <2>3, <1>1
<1>6. Len(x) = Len(y) BY <1>1, <1>2, <1>3, <1>4
<1>7. x = y BY <1>2, <1>4, <1>5, <1>6, SeqEqual
<1>8. QED BY <1>7 DEF x, y, c, z

----------------------------------------------------------------------------
LEMMA RequestsTyped ==
  ASSUME TypeOK, NEW m \in Request, SendOne(m)
  PROVE  requests' \in [Encoders -> Seq(Request)]
BY DEF TypeOK, SendOne, Enqueue

LEMMA TypeOKInit == Init => TypeOK
BY DEF Init, TypeOK

LEMMA TypeOKStep == TypeOK /\ [Next]_vars => TypeOK'
<1> SUFFICES ASSUME TypeOK, [Next]_vars PROVE TypeOK'
  OBVIOUS
<1> USE DEF TypeOK
<1>1. ASSUME NEW u \in Uids, Generate(u) PROVE TypeOK'
  <2>1. [kind |-> "user", uid |-> u] \in Request BY DEF Request
  <2>2. requests' \in [Encoders -> Seq(Request)] BY <1>1, <2>1, RequestsTyped DEF Generate
  <2>3. QED BY <1>1, <2>2 DEF Generate, schedVars
<1>2. ASSUME NEW u \in Uids, Disconnect(u) PROVE TypeOK'
  BY <1>2 DEF Disconnect, workVars, schedVars
<1>3. ASSUME NEW u \in Uids, Listen(u) PROVE TypeOK'
  <2>1. Head(replies[u]) \in Token /\ Tail(replies[u]) \in Seq(Token)
    BY <1>3, HeadTailProperties DEF Listen
  <2>2. replies' \in [Uids -> Seq(Token)] BY <1>3, <2>1 DEF Listen
  <2>3. CASE u \in entries
    <3>1. /\ acks' = [acks EXCEPT ![u] = Append(@, Head(replies[u]))]
          /\ events' = events \cup {u}
      BY <1>3, <2>3 DEF Listen
    <3>2. acks' \in [Uids -> Seq(Token)] BY <2>1, <3>1
    <3>3. QED BY <1>3, <2>2, <2>3, <3>1, <3>2 DEF Listen, workVars, schedVars
  <2>4. CASE u \notin entries BY <1>3, <2>2, <2>4 DEF Listen, workVars, schedVars
  <2>5. QED BY <2>3, <2>4
<1>4. ASSUME NEW u \in Uids, WakeUp(u) PROVE TypeOK'
  BY <1>4 DEF WakeUp, Taken, workVars, schedVars
<1>5. ASSUME NEW u \in Uids, Deliver(u) PROVE TypeOK'
  <2>1. Head(taken[u]) \in Token BY <1>5 DEF Deliver
  <2>2. QED BY <1>5, <2>1 DEF Deliver, After, EventAfter, workVars, schedVars
<1>6. ASSUME NEW u \in Uids, Close(u) PROVE TypeOK'
  BY <1>6 DEF Close, workVars, schedVars
<1>7. ASSUME NEW u \in Uids, Cancel(u) PROVE TypeOK'
  BY <1>7 DEF Cancel, workVars, schedVars
<1>8. ASSUME NEW u \in Uids, AbortUser(u) PROVE TypeOK'
  <2>1. [kind |-> "abort", uid |-> u] \in Request BY DEF Request
  <2>2. requests' \in [Encoders -> Seq(Request)] BY <1>8, <2>1, RequestsTyped DEF AbortUser
  <2>3. QED BY <1>8, <2>2 DEF AbortUser, Forget, schedVars
<1>9. ASSUME NEW w \in Encoders, Encode(w) PROVE TypeOK'
  <2>1. Head(requests[w]) \in Request BY <1>9 DEF Encode
  <2>2. QED BY <1>9, <2>1 DEF Encode, frontVars, schedVars
<1>10. ASSUME NEW u \in Uids, Detokenize(u) PROVE TypeOK'
  <2>1. Head(tokens[u]) \in Token BY <1>10 DEF Detokenize
  <2>2. QED BY <1>10, <2>1 DEF Detokenize, frontVars, schedVars
<1>11. ASSUME NEW w \in Encoders, TakeUser(w) PROVE TypeOK'
  <2> DEFINE u == Head(backend[w]).uid
  <2>1. Head(backend[w]) \in Request /\ Tail(backend[w]) \in Seq(Request)
    BY <1>11, HeadTailProperties DEF TakeUser
  <2>2. u \in Uids BY <2>1 DEF Request
  <2>3. phase' \in [Uids -> {"unknown", "running", "ended"}] BY <1>11, <2>2 DEF TakeUser
  <2>4. QED BY <1>11, <2>1, <2>3 DEF TakeUser, frontVars
<1>12. ASSUME NEW w \in Encoders, TakeAbort(w) PROVE TypeOK'
  <2> DEFINE u == Head(backend[w]).uid
  <2>1. Head(backend[w]) \in Request /\ Tail(backend[w]) \in Seq(Request)
    BY <1>12, HeadTailProperties DEF TakeAbort
  <2>2. u \in Uids BY <2>1 DEF Request
  <2> HIDE DEF u
  <2>3. \/ phase' = [phase EXCEPT ![u] = "ended"] /\ ahead' \in {ahead, ahead \cup {u}}
        \/ UNCHANGED <<phase, ahead>>
    BY <1>12 DEF TakeAbort, u
  <2>4. phase' \in [Uids -> {"unknown", "running", "ended"}] /\ ahead' \subseteq Uids
    BY <2>2, <2>3
  <2>5. QED BY <1>12, <2>1, <2>4 DEF TakeAbort, frontVars
<1>13. ASSUME NEW u \in Uids, SchedulerReplies(u) PROVE TypeOK'
  <2>1. ASSUME NEW b \in BOOLEAN, Send(u, b)
        PROVE  sent' \in [Uids -> Seq(Token)] /\ tokens' \in [Uids -> Seq(Token)]
    <3>1. [last |-> b, n |-> Len(sent[u]) + 1] \in Token BY DEF Token
    <3>2. QED BY <2>1, <3>1 DEF Send
  <2>2. ASSUME NEW eos \in BOOLEAN, NEW inFlight \in BOOLEAN, Reply(u, eos, inFlight)
        PROVE  TypeOK'
    <3> DEFINE n == Len(sent[u]) + 1
               b == eos \/ n = MaxTokens[u] \/ (inFlight /\ n + 1 = MaxTokens[u])
    <3>1. /\ Send(u, b) /\ b \in BOOLEAN
          /\ phase' = IF b THEN [phase EXCEPT ![u] = "ended"] ELSE phase
          /\ ahead' = IF b /\ inFlight THEN ahead \cup {u} ELSE ahead
      BY <2>2 DEF Reply
    <3> HIDE DEF b
    <3>2. QED BY <2>1, <2>2, <3>1 DEF frontVars, workVars, Reply
  <2>3. ASSUME NEW eos \in BOOLEAN, Trail(u, eos) PROVE TypeOK'
    <3>1. PICK b \in BOOLEAN : Send(u, b) BY <2>3 DEF Trail
    <3>2. QED BY <2>1, <2>3, <3>1 DEF Trail, frontVars, workVars
  <2>4. QED BY <1>13, <2>2, <2>3 DEF SchedulerReplies
<1>14. CASE UNCHANGED vars
  BY <1>14 DEF vars, frontVars, workVars, schedVars
<1>15. QED
  BY <1>1, <1>2, <1>3, <1>4, <1>5, <1>6, <1>7, <1>8, <1>9, <1>10, <1>11, <1>12, <1>13, <1>14
     DEF Next, Front, Worker, SchedulerTakes

(* Every variable keeps its type.                                          *)
THEOREM TypeOKHolds == Spec => []TypeOK
<1>1. Init => TypeOK BY TypeOKInit
<1>2. TypeOK /\ [Next]_vars => TypeOK' BY TypeOKStep
<1>3. QED BY <1>1, <1>2, PTL DEF Spec

----------------------------------------------------------------------------
(* What holds of each request, whatever the others do.                     *)
Fresh(u) ==
  stream[u] = "new" =>
    /\ phase[u] = "unknown" /\ u \notin ahead /\ u \notin entries
    /\ taken[u] = <<>> /\ acks[u] = <<>> /\ replies[u] = <<>> /\ tokens[u] = <<>>
    /\ sent[u] = <<>> /\ delivered[u] = <<>>

Kept(u) == /\ u \in aborting => stream[u] = "cancelled"
           /\ Open(u) => u \in entries

Woken(u) == stream[u] \in {"waiting", "delivering"} => (acks[u] # <<>> <=> u \in events)

Ended(u) ==
  /\ stream[u] \in {"waiting", "delivering"} =>
       \A i \in 1..Len(delivered[u]) : ~delivered[u][i].last
  /\ \A i \in 1..Len(delivered[u]) : delivered[u][i].last => i = Len(delivered[u])
  /\ stream[u] \in {"closing", "done"} =>
       delivered[u] # <<>> /\ delivered[u][Len(delivered[u])].last

Faithful(u) ==
  /\ Open(u) => delivered[u] \o OnItsWay(u) = sent[u]
  /\ Len(delivered[u]) <= Len(sent[u])
  /\ \A i \in 1..Len(delivered[u]) : delivered[u][i] = sent[u][i]

RequestInv(u) ==
  /\ Fresh(u) /\ Kept(u) /\ Woken(u) /\ Ended(u) /\ Faithful(u)
  /\ stream[u] = "waiting" => taken[u] = <<>>

(* No message of a request is on its way before it was made.               *)
Asked ==
  \A w \in Encoders :
    /\ \A i \in 1..Len(requests[w]) : stream[requests[w][i].uid] # "new"
    /\ \A i \in 1..Len(backend[w]) : stream[backend[w][i].uid] # "new"

PipelineInv == TypeOK /\ Asked /\ \A u \in Uids : RequestInv(u)

(* A step that leaves everything of request u as it is.                    *)
Same(u) ==
  /\ stream'[u] = stream[u] /\ taken'[u] = taken[u] /\ acks'[u] = acks[u]
  /\ replies'[u] = replies[u] /\ tokens'[u] = tokens[u] /\ phase'[u] = phase[u]
  /\ sent'[u] = sent[u] /\ delivered'[u] = delivered[u]
  /\ u \in entries' <=> u \in entries
  /\ u \in events' <=> u \in events
  /\ u \in aborting' <=> u \in aborting
  /\ u \in ahead' <=> u \in ahead

OnlyThis(u) == \A v \in Uids \ {u} : Same(v)

LEMMA Frame == ASSUME NEW u \in Uids, RequestInv(u), Same(u) PROVE RequestInv(u)'
BY DEF RequestInv, Same, Fresh, Kept, Woken, Ended, Faithful, Open, OnItsWay

----------------------------------------------------------------------------
(* What the client has is the beginning of what was sent.                  *)
LEMMA Beginning ==
  ASSUME NEW M, NEW d \in Seq(M), NEW x \in Seq(M), NEW s, d \o x = s
  PROVE  Len(d) <= Len(s) /\ \A i \in 1..Len(d) : d[i] = s[i]
<1> DEFINE y == d \o x
<1>1. /\ Len(y) = Len(d) + Len(x) /\ Len(d) \in Nat /\ Len(x) \in Nat
      /\ \A i \in 1..(Len(d) + Len(x)) : y[i] = IF i <= Len(d) THEN d[i] ELSE x[i - Len(d)]
  BY ConcatProperties
<1> HIDE DEF y
<1>2. Len(d) <= Len(y) /\ \A i \in 1..Len(d) : y[i] = d[i] BY <1>1
<1>3. QED BY <1>2 DEF y

LEMMA NotEmpty ==
  ASSUME NEW M, NEW q \in Seq(M), NEW e \in M
  PROVE  Append(q, e) # <<>>
<1>1. Len(Append(q, e)) = Len(q) + 1 /\ Len(q) \in Nat OBVIOUS
<1>2. Len(<<>>) = 0 OBVIOUS
<1>3. QED BY <1>1, <1>2

LEMMA OnItsWayTyped ==
  ASSUME TypeOK, NEW u \in Uids
  PROVE  /\ taken[u] \in Seq(Token) /\ acks[u] \in Seq(Token) /\ replies[u] \in Seq(Token)
         /\ tokens[u] \in Seq(Token) /\ sent[u] \in Seq(Token) /\ delivered[u] \in Seq(Token)
         /\ OnItsWay(u) \in Seq(Token)
<1>1. /\ taken[u] \in Seq(Token) /\ acks[u] \in Seq(Token) /\ replies[u] \in Seq(Token)
      /\ tokens[u] \in Seq(Token) /\ sent[u] \in Seq(Token) /\ delivered[u] \in Seq(Token)
  BY DEF TypeOK
<1>2. QED BY <1>1, ConcatProperties DEF OnItsWay

LEMMA GenerateInv ==
  ASSUME TypeOK, NEW u \in Uids, RequestInv(u), Generate(u)
  PROVE  RequestInv(u)' /\ OnlyThis(u)
<1>1. OnlyThis(u) BY DEF Generate, TypeOK, OnlyThis, Same, schedVars
<1>2. /\ stream[u] = "new" /\ stream'[u] = "waiting" /\ u \in entries'
      /\ Fresh(u)
      /\ UNCHANGED <<acks, events, taken, aborting, delivered, sent, ahead, phase, replies, tokens>>
  BY DEF Generate, TypeOK, RequestInv, schedVars
<1>3. u \notin events /\ u \notin aborting BY <1>2 DEF TypeOK, RequestInv, Kept, Fresh
<1>4. Len(<<>>) = 0 /\ <<>> \o <<>> = <<>> OBVIOUS
<1>5. Fresh(u)' /\ Kept(u)' /\ Woken(u)' BY <1>2, <1>3 DEF Fresh, Kept, Woken, Open
<1>6. Ended(u)' BY <1>2, <1>4 DEF Fresh, Ended
<1>7. Faithful(u)'
  <2>1. /\ taken'[u] = <<>> /\ acks'[u] = <<>> /\ replies'[u] = <<>> /\ tokens'[u] = <<>>
        /\ sent'[u] = <<>> /\ delivered'[u] = <<>>
    BY <1>2 DEF Fresh
  <2>2. OnItsWay(u)' = <<>> BY <1>4, <2>1 DEF OnItsWay
  <2>3. QED BY <1>4, <2>1, <2>2 DEF Faithful
<1>8. QED BY <1>1, <1>2, <1>5, <1>6, <1>7 DEF RequestInv, Fresh

LEMMA ListenInv ==
  ASSUME TypeOK, NEW u \in Uids, RequestInv(u), Listen(u)
  PROVE  RequestInv(u)' /\ OnlyThis(u)
<1>1. OnlyThis(u)
  <2>1. CASE u \in entries BY <2>1 DEF Listen, TypeOK, OnlyThis, Same, schedVars
  <2>2. CASE u \notin entries BY <2>2 DEF Listen, TypeOK, OnlyThis, Same, schedVars
  <2>3. QED BY <2>1, <2>2
<1>2. /\ replies[u] # <<>> /\ replies'[u] = Tail(replies[u])
      /\ UNCHANGED <<stream, entries, taken, aborting, delivered, sent, ahead, phase, tokens>>
      /\ stream[u] # "new"
  BY DEF Listen, TypeOK, RequestInv, Fresh, schedVars
<1>3. Fresh(u)' /\ Kept(u)' /\ Ended(u)' /\ (stream[u] = "waiting" => taken[u] = <<>>)'
  BY <1>2 DEF RequestInv, Fresh, Kept, Ended, Open
<1>4. CASE u \notin entries
  <2>1. ~Open(u) /\ UNCHANGED <<acks, events>> BY <1>4 DEF RequestInv, Kept, Listen
  <2>2. Woken(u)' /\ Faithful(u)'
    BY <1>2, <2>1 DEF RequestInv, Woken, Faithful, Open, OnItsWay
  <2>3. QED BY <1>1, <1>3, <2>2 DEF RequestInv
<1>5. CASE u \in entries
  <2>1. acks'[u] = Append(acks[u], Head(replies[u])) /\ u \in events'
    BY <1>5 DEF Listen, TypeOK
  <2> DEFINE t == taken[u]
             a == acks[u]
             r == replies[u]
  <2>0. t \in Seq(Token) /\ a \in Seq(Token) /\ r \in Seq(Token) /\ r # <<>>
    BY <1>2, OnItsWayTyped
  <2> HIDE DEF t, a, r
  <2>2. acks'[u] # <<>>
    <3>1. Append(a, Head(r)) # <<>> BY <2>0, HeadTailProperties, NotEmpty
    <3>2. QED BY <2>1, <3>1 DEF a, r
  <2>3. Woken(u)' BY <2>1, <2>2 DEF Woken
  <2>4. (taken[u] \o acks'[u]) \o replies'[u] = (taken[u] \o acks[u]) \o replies[u]
    <3>1. (t \o Append(a, Head(r))) \o Tail(r) = (t \o a) \o r BY <2>0, TokenPasses
    <3>2. QED BY <1>2, <2>1, <3>1 DEF t, a, r
  <2>5. OnItsWay(u)' = OnItsWay(u) BY <1>2, <2>4 DEF OnItsWay
  <2>6. Faithful(u)' BY <1>2, <2>5 DEF RequestInv, Faithful, Open
  <2>7. QED BY <1>1, <1>3, <2>3, <2>6 DEF RequestInv
<1>6. QED BY <1>4, <1>5

LEMMA WakeUpInv ==
  ASSUME TypeOK, NEW u \in Uids, RequestInv(u), WakeUp(u)
  PROVE  RequestInv(u)' /\ OnlyThis(u)
<1>1. OnlyThis(u) BY DEF WakeUp, TypeOK, OnlyThis, Same, schedVars
<1>2. /\ stream[u] = "waiting" /\ stream'[u] = "delivering" /\ u \notin events'
      /\ taken'[u] = acks[u] /\ acks'[u] = <<>>
      /\ UNCHANGED <<entries, aborting, delivered, sent, ahead, phase, replies, tokens>>
  BY DEF WakeUp, Taken, TypeOK, schedVars
<1>3. Fresh(u)' /\ Kept(u)' /\ Woken(u)' /\ Ended(u)'
  BY <1>2 DEF RequestInv, Fresh, Kept, Woken, Ended, Open
<1>4. Faithful(u)'
  <2> DEFINE a == acks[u]
  <2>1. taken[u] = <<>> BY <1>2 DEF RequestInv
  <2>2. a \in Seq(Token) BY OnItsWayTyped
  <2>3. <<>> \o a = a /\ a \o <<>> = a BY <2>2, ConcatEmptySeq
  <2>4. OnItsWay(u)' = OnItsWay(u) BY <1>2, <2>1, <2>3 DEF OnItsWay
  <2>5. QED BY <1>2, <2>4 DEF RequestInv, Faithful, Open
<1>5. QED BY <1>1, <1>2, <1>3, <1>4 DEF RequestInv

LEMMA DeliverInv ==
  ASSUME TypeOK, NEW u \in Uids, RequestInv(u), Deliver(u)
  PROVE  RequestInv(u)' /\ OnlyThis(u)
<1> DEFINE d == delivered[u]
           t == taken[u]
           a == acks[u]
           r == replies[u]
           k == tokens[u]
<1>1. OnlyThis(u) BY DEF Deliver, EventAfter, TypeOK, OnlyThis, Same, schedVars
<1>2. /\ stream[u] = "delivering" /\ t # <<>>
      /\ delivered'[u] = Append(d, Head(t)) /\ taken'[u] = Tail(t)
      /\ stream'[u] = IF Head(t).last THEN "closing"
                      ELSE IF Tail(t) = <<>> THEN "waiting" ELSE "delivering"
      /\ UNCHANGED <<entries, events, acks, aborting, sent, ahead, phase, replies, tokens>>
  BY DEF Deliver, EventAfter, After, TypeOK, schedVars
<1>3. /\ d \in Seq(Token) /\ t \in Seq(Token) /\ a \in Seq(Token)
      /\ r \in Seq(Token) /\ k \in Seq(Token)
  BY OnItsWayTyped
<1>4. Open(u) /\ Open(u)' BY <1>2 DEF Open
<1>5. /\ Head(t) \in Token /\ Tail(t) \in Seq(Token)
      /\ Append(d, Head(t)) \in Seq(Token)
  BY <1>2, <1>3, HeadTailProperties, AppendProperties
<1>6. Fresh(u)' /\ Kept(u)' /\ Woken(u)' /\ (stream[u] = "waiting" => taken[u] = <<>>)'
  BY <1>2, <1>4 DEF RequestInv, Fresh, Kept, Woken, Open
<1>7. Ended(u)'
  <2> HIDE DEF d, t
  <2>1. /\ Len(Append(d, Head(t))) = Len(d) + 1 /\ Len(d) \in Nat
        /\ Append(d, Head(t))[Len(d) + 1] = Head(t)
        /\ \A i \in 1..Len(d) : Append(d, Head(t))[i] = d[i]
        /\ Append(d, Head(t)) # <<>>
    BY <1>3, <1>5, NotEmpty
  <2>2. \A i \in 1..Len(d) : ~d[i].last BY <1>2 DEF RequestInv, Ended, d
  <2> DEFINE e == Append(d, Head(t))
  <2>3. /\ \A i \in 1..Len(e) : e[i].last => i = Len(e)
        /\ ~Head(t).last => \A i \in 1..Len(e) : ~e[i].last
        /\ e # <<>> /\ e[Len(e)] = Head(t)
    BY <2>1, <2>2
  <2> HIDE DEF e
  <2>4. delivered'[u] = e BY <1>2 DEF e
  <2>5. CASE Head(t).last BY <1>2, <2>3, <2>4, <2>5 DEF Ended
  <2>6. CASE ~Head(t).last BY <1>2, <2>3, <2>4, <2>6 DEF Ended
  <2>7. QED BY <2>5, <2>6
<1>8. Faithful(u)'
  <2> DEFINE e == Append(d, Head(t))
             z == ((Tail(t) \o a) \o r) \o k
             w == ((t \o a) \o r) \o k
  <2> DEFINE x == a \o r
             v == x \o k
             y == Tail(t)
  <2>0. t # <<>> /\ y \in Seq(Token) BY <1>2, <1>5
  <2>1. e \o z = d \o w
    <3> HIDE DEF d, t, a, r, k, y
    <3>1. (t \o a) \o r = t \o x /\ x \in Seq(Token) BY <1>3, TokensInARow
    <3>2. (y \o a) \o r = y \o x BY <1>3, <2>0, TokensInARow
    <3> HIDE DEF x
    <3>3. (t \o x) \o k = t \o v /\ v \in Seq(Token)
      <4>1. t \in Seq(Token) /\ x \in Seq(Token) /\ k \in Seq(Token) BY <1>3, <3>1
      <4>2. v \in Seq(Token) BY <4>1, ConcatProperties
      <4>3. QED BY <4>1, <4>2, TokensInARow
    <3>4. (y \o x) \o k = y \o v
      <4>1. x \in Seq(Token) /\ y \in Seq(Token) /\ k \in Seq(Token) BY <1>3, <2>0, <3>1
      <4>2. QED BY <4>1, TokensInARow
    <3> HIDE DEF v
    <3>5. Append(d, Head(t)) \o (Tail(t) \o v) = d \o (t \o v)
      BY <1>3, <2>0, <3>3, TokenDelivered
    <3>6. QED BY <3>1, <3>2, <3>3, <3>4, <3>5 DEF y
  <2>2. d \o w = sent[u] BY <1>4 DEF RequestInv, Faithful, OnItsWay, d, t, a, r, k
  <2> HIDE DEF d, t, a, r, k, x, v
  <2>3. z \in Seq(Token) /\ e \in Seq(Token) BY <1>3, <1>5, TokensInARow
  <2>4. OnItsWay(u)' = z BY <1>2 DEF OnItsWay, a, r, k
  <2>5. delivered'[u] = e /\ sent'[u] = sent[u] BY <1>2 DEF e
  <2> HIDE DEF e, z, w
  <2>6. e \o z = sent[u] BY <2>1, <2>2
  <2>7. Len(e) <= Len(sent[u]) /\ \A i \in 1..Len(e) : e[i] = sent[u][i]
    BY <2>3, <2>6, Beginning
  <2>8. QED BY <2>4, <2>5, <2>6, <2>7 DEF Faithful
<1>9. QED BY <1>1, <1>6, <1>7, <1>8 DEF RequestInv

LEMMA LeaveInv ==
  ASSUME TypeOK, NEW u \in Uids, RequestInv(u), Close(u) \/ Cancel(u)
  PROVE  RequestInv(u)' /\ OnlyThis(u)
<1>1. OnlyThis(u) BY DEF Close, Cancel, TypeOK, OnlyThis, Same, workVars, schedVars
<1>2. /\ \/ stream[u] = "closing" /\ stream'[u] = "done" /\ aborting' = aborting
         \/ stream'[u] = "cancelled"
      /\ Open(u)
      /\ UNCHANGED <<entries, events, acks, taken, delivered, sent, ahead, phase, replies, tokens>>
  BY DEF Close, Cancel, Open, TypeOK, schedVars
<1>3. ~Open(u)' /\ stream'[u] \notin {"new", "waiting", "delivering"} BY <1>2 DEF Open
<1>4. Fresh(u)' /\ Woken(u)' /\ (stream[u] = "waiting" => taken[u] = <<>>)'
  BY <1>3 DEF Fresh, Woken
<1>5. Kept(u)' BY <1>2, <1>3 DEF RequestInv, Kept
<1>6. Ended(u)' BY <1>2, <1>3 DEF RequestInv, Ended
<1>7. Faithful(u)' BY <1>2, <1>3 DEF RequestInv, Faithful
<1>8. QED BY <1>1, <1>4, <1>5, <1>6, <1>7 DEF RequestInv

LEMMA AbortUserInv ==
  ASSUME TypeOK, NEW u \in Uids, RequestInv(u), AbortUser(u)
  PROVE  RequestInv(u)' /\ OnlyThis(u)
<1>1. OnlyThis(u) BY DEF AbortUser, Forget, TypeOK, OnlyThis, Same, schedVars
<1>2. /\ stream[u] = "cancelled" /\ u \notin aborting'
      /\ UNCHANGED <<stream, taken, delivered, sent, ahead, phase, replies, tokens>>
  BY DEF AbortUser, RequestInv, Kept, schedVars
<1>3. Fresh(u)' /\ Kept(u)' /\ Woken(u)' /\ (stream[u] = "waiting" => taken[u] = <<>>)'
  BY <1>2 DEF Fresh, Kept, Woken, Open
<1>4. Ended(u)' /\ Faithful(u)' BY <1>2 DEF RequestInv, Ended, Faithful, Open
<1>5. QED BY <1>1, <1>3, <1>4 DEF RequestInv

LEMMA DetokenizeInv ==
  ASSUME TypeOK, NEW u \in Uids, RequestInv(u), Detokenize(u)
  PROVE  RequestInv(u)' /\ OnlyThis(u)
<1> DEFINE p == taken[u] \o acks[u]
           r == replies[u]
           k == tokens[u]
<1>1. OnlyThis(u) BY DEF Detokenize, TypeOK, OnlyThis, Same, frontVars, schedVars
<1>2. /\ k # <<>> /\ replies'[u] = Append(r, Head(k)) /\ tokens'[u] = Tail(k)
      /\ UNCHANGED <<stream, entries, events, taken, acks, aborting, delivered, sent, ahead, phase>>
  BY DEF Detokenize, TypeOK, frontVars, schedVars
<1>3. stream[u] # "new" BY <1>2 DEF RequestInv, Fresh
<1>4. /\ Fresh(u)' /\ Kept(u)' /\ Woken(u)' /\ Ended(u)'
      /\ (stream[u] = "waiting" => taken[u] = <<>>)'
  BY <1>2, <1>3 DEF RequestInv, Fresh, Kept, Woken, Ended, Open
<1>5. p \in Seq(Token) /\ r \in Seq(Token) /\ k \in Seq(Token)
  BY OnItsWayTyped, ConcatProperties
<1> HIDE DEF p, r, k
<1>6. (p \o Append(r, Head(k))) \o Tail(k) = (p \o r) \o k
  BY <1>2, <1>5, TokenPasses
<1>7. OnItsWay(u)' = OnItsWay(u) BY <1>2, <1>6 DEF OnItsWay, p, r, k
<1>8. Faithful(u)' BY <1>2, <1>7 DEF RequestInv, Faithful, Open
<1>9. QED BY <1>1, <1>4, <1>8 DEF RequestInv

LEMMA SendInv ==
  ASSUME TypeOK, NEW u \in Uids, RequestInv(u), NEW b \in BOOLEAN, Send(u, b),
         stream[u] # "new", UNCHANGED <<frontVars, replies>>
  PROVE  /\ RequestInv(u)'
         /\ \A v \in Uids \ {u} : sent'[v] = sent[v] /\ tokens'[v] = tokens[v]
<1> DEFINE e == [last |-> b, n |-> Len(sent[u]) + 1]
           d == delivered[u]
           p == (taken[u] \o acks[u]) \o replies[u]
           k == tokens[u]
           h == sent[u]
<1>0. /\ d \in Seq(Token) /\ p \in Seq(Token) /\ k \in Seq(Token) /\ h \in Seq(Token)
      /\ p \o k \in Seq(Token)
  BY OnItsWayTyped, TokensInARow
<1>1. Len(h) \in Nat BY <1>0
<1>2. e \in Token BY <1>1 DEF Token
<1>3. sent' = [sent EXCEPT ![u] = Append(h, e)] /\ tokens' = [tokens EXCEPT ![u] = Append(k, e)]
  BY DEF Send
<1> HIDE DEF e
<1>4. /\ sent'[u] = Append(h, e) /\ tokens'[u] = Append(k, e)
      /\ \A v \in Uids \ {u} : sent'[v] = sent[v] /\ tokens'[v] = tokens[v]
  BY <1>3 DEF TypeOK
<1>5. UNCHANGED <<stream, entries, events, taken, acks, aborting, delivered, replies>>
  BY DEF frontVars
<1>6. /\ Fresh(u)' /\ Kept(u)' /\ Woken(u)' /\ Ended(u)'
      /\ (stream[u] = "waiting" => taken[u] = <<>>)'
  BY <1>5 DEF RequestInv, Fresh, Kept, Woken, Ended, Open
<1>7. Faithful(u)'
  <2>1. OnItsWay(u)' = p \o Append(k, e) BY <1>4, <1>5 DEF OnItsWay
  <2>2. OnItsWay(u) = p \o k BY DEF OnItsWay
  <2>3. Faithful(u) BY DEF RequestInv
  <2> HIDE DEF d, p, k, h
  <2> DEFINE q == p \o k
  <2>4. p \o Append(k, e) = Append(q, e) BY <1>0, <1>2, PutLast
  <2> HIDE DEF q
  <2>5. d \o Append(q, e) = Append(d \o q, e) BY <1>0, <1>2, PutLast DEF q
  <2>6. Open(u) => d \o q = h BY <2>2, <2>3 DEF Faithful, d, q, h
  <2>7. Open(u)' => d \o OnItsWay(u)' = Append(h, e)
    BY <1>5, <2>1, <2>4, <2>5, <2>6 DEF Open
  <2>8. /\ Len(Append(h, e)) = Len(h) + 1 /\ Len(h) \in Nat /\ Len(d) \in Nat
        /\ \A i \in 1..Len(h) : Append(h, e)[i] = h[i]
    BY <1>0, <1>2
  <2>9. Len(d) <= Len(h) /\ \A i \in 1..Len(d) : d[i] = h[i] BY <2>3 DEF Faithful, d, h
  <2>10. Len(d) <= Len(Append(h, e)) /\ \A i \in 1..Len(d) : d[i] = Append(h, e)[i]
    BY <2>8, <2>9
  <2>11. delivered'[u] = d BY <1>5 DEF d
  <2>12. QED BY <1>4, <2>7, <2>10, <2>11 DEF Faithful
<1>8. QED BY <1>4, <1>6, <1>7 DEF RequestInv

LEMMA RepliesInv ==
  ASSUME TypeOK, NEW u \in Uids, RequestInv(u), SchedulerReplies(u)
  PROVE  RequestInv(u)' /\ OnlyThis(u)
<1>1. ASSUME NEW eos \in BOOLEAN, NEW inFlight \in BOOLEAN, Reply(u, eos, inFlight)
      PROVE  RequestInv(u)' /\ OnlyThis(u)
  <2> DEFINE n == Len(sent[u]) + 1
             b == eos \/ n = MaxTokens[u] \/ (inFlight /\ n + 1 = MaxTokens[u])
  <2>1. /\ Send(u, b) /\ b \in BOOLEAN /\ phase[u] = "running"
        /\ phase' = IF b THEN [phase EXCEPT ![u] = "ended"] ELSE phase
        /\ ahead' = IF b /\ inFlight THEN ahead \cup {u} ELSE ahead
        /\ UNCHANGED <<frontVars, replies>>
    BY <1>1 DEF Reply
  <2> HIDE DEF b
  <2>2. stream[u] # "new" BY <2>1 DEF RequestInv, Fresh
  <2>3. /\ RequestInv(u)'
        /\ \A v \in Uids \ {u} : sent'[v] = sent[v] /\ tokens'[v] = tokens[v]
    BY <2>1, <2>2, SendInv
  <2>4. QED BY <2>1, <2>3 DEF TypeOK, OnlyThis, Same, frontVars
<1>2. ASSUME NEW eos \in BOOLEAN, Trail(u, eos)
      PROVE  RequestInv(u)' /\ OnlyThis(u)
  <2> DEFINE b == eos \/ Len(sent[u]) + 1 = MaxTokens[u]
  <2>1. /\ Send(u, b) /\ b \in BOOLEAN /\ u \in ahead /\ ahead' = ahead \ {u}
        /\ UNCHANGED <<frontVars, phase, replies>>
    BY <1>2 DEF Trail
  <2> HIDE DEF b
  <2>2. stream[u] # "new" BY <2>1 DEF RequestInv, Fresh
  <2>3. /\ RequestInv(u)'
        /\ \A v \in Uids \ {u} : sent'[v] = sent[v] /\ tokens'[v] = tokens[v]
    BY <2>1, <2>2, SendInv
  <2>4. QED BY <2>1, <2>3 DEF TypeOK, OnlyThis, Same, frontVars
<1>3. QED BY <1>1, <1>2 DEF SchedulerReplies

(* The scheduler takes a message: the request it names was made.           *)
LEMMA FrameMade ==
  ASSUME NEW u \in Uids, RequestInv(u), stream[u] # "new",
         UNCHANGED <<frontVars, sent, replies, tokens>>
  PROVE  RequestInv(u)'
<1>1. UNCHANGED <<stream, entries, events, taken, acks, aborting, delivered>> BY DEF frontVars
<1>2. /\ Fresh(u)' /\ Kept(u)' /\ Woken(u)' /\ Ended(u)'
      /\ (stream[u] = "waiting" => taken[u] = <<>>)'
  BY <1>1 DEF RequestInv, Fresh, Kept, Woken, Ended, Open
<1>3. Faithful(u)' BY <1>1 DEF RequestInv, Faithful, Open, OnItsWay
<1>4. QED BY <1>2, <1>3 DEF RequestInv

LEMMA TakesInv ==
  ASSUME TypeOK, Asked, \A u \in Uids : RequestInv(u), NEW w \in Encoders, SchedulerTakes(w)
  PROVE  \A u \in Uids : RequestInv(u)'
<1>1. backend[w] # <<>> /\ backend[w] \in Seq(Request)
  BY DEF TypeOK, SchedulerTakes, TakeUser, TakeAbort
<1>2. Head(backend[w]) = backend[w][1] /\ Head(backend[w]) \in Request /\ 1 \in 1..Len(backend[w])
  BY <1>1, HeadTailProperties, EmptySeq
<1>3. PICK x \in Uids : x = Head(backend[w]).uid /\ stream[x] # "new"
  BY <1>2 DEF Asked, Request
<1>4. /\ phase' = phase \/ \E y : phase' = [phase EXCEPT ![x] = y]
      /\ ahead' \in {ahead, ahead \cup {x}}
      /\ UNCHANGED <<frontVars, sent, tokens, replies>>
  BY <1>3 DEF SchedulerTakes, TakeUser, TakeAbort
<1>5. OnlyThis(x) BY <1>3, <1>4 DEF TypeOK, OnlyThis, Same, frontVars
<1>6. RequestInv(x)' BY <1>3, <1>4, FrameMade
<1>7. ASSUME NEW v \in Uids, v # x PROVE RequestInv(v)'
  <2>1. RequestInv(v) /\ Same(v) BY <1>5, <1>7 DEF OnlyThis
  <2>2. QED BY <2>1, Frame
<1>8. QED BY <1>6, <1>7

----------------------------------------------------------------------------
LEMMA AskedSends ==
  ASSUME TypeOK, Asked, NEW m \in Request, SendOne(m), UNCHANGED backend,
         stream'[m.uid] # "new",
         \A u \in Uids : stream[u] # "new" => stream'[u] # "new"
  PROVE  Asked'
<1>1. PICK w \in Encoders : requests' = [requests EXCEPT ![w] = Append(@, m)]
  BY DEF SendOne, Enqueue
<1>2. ASSUME NEW x \in Encoders, NEW i \in 1..Len(requests'[x])
      PROVE  stream'[requests'[x][i].uid] # "new"
  <2>1. CASE x = w
    <3>1. /\ requests[w] \in Seq(Request) /\ requests'[x] = Append(requests[w], m)
      BY <1>1, <2>1 DEF TypeOK
    <3>2. /\ Len(requests'[x]) = Len(requests[w]) + 1 /\ Len(requests[w]) \in Nat
          /\ requests'[x][Len(requests[w]) + 1] = m
          /\ \A j \in 1..Len(requests[w]) : /\ requests'[x][j] = requests[w][j]
                                          /\ requests[w][j] \in Request
      BY <3>1
    <3>3. CASE i = Len(requests[w]) + 1 BY <3>2, <3>3
    <3>4. CASE i \in 1..Len(requests[w]) BY <3>2, <3>4 DEF Asked, Request
    <3>5. QED BY <3>2, <3>3, <3>4
  <2>2. CASE x # w
    <3>1. requests'[x] = requests[x] /\ requests[x] \in Seq(Request) BY <1>1, <2>2 DEF TypeOK
    <3>2. requests[x][i] \in Request BY <3>1
    <3>3. QED BY <3>1, <3>2 DEF Asked, Request
  <2>3. QED BY <2>1, <2>2
<1>3. ASSUME NEW x \in Encoders, NEW i \in 1..Len(backend[x])
      PROVE  stream'[backend[x][i].uid] # "new"
  <2>1. backend[x][i] \in Request BY DEF TypeOK
  <2>2. QED BY <2>1 DEF Asked, Request
<1>4. QED BY <1>2, <1>3 DEF Asked

(* A message that is taken from a queue leaves the others.                 *)
LEMMA AskedTail ==
  ASSUME NEW q \in Seq(Request), q # <<>>,
         \A i \in 1..Len(q) : stream'[q[i].uid] # "new"
  PROVE  /\ Tail(q) \in Seq(Request)
         /\ \A i \in 1..Len(Tail(q)) : stream'[Tail(q)[i].uid] # "new"
         /\ Head(q) \in Request /\ stream'[Head(q).uid] # "new"
<1>1. /\ Tail(q) \in Seq(Request) /\ Len(Tail(q)) = Len(q) - 1 /\ Len(q) \in Nat /\ Len(q) >= 1
      /\ \A i \in 1..Len(Tail(q)) : Tail(q)[i] = q[i + 1]
      /\ Head(q) = q[1] /\ Head(q) \in Request
  BY HeadTailProperties, EmptySeq
<1>2. \A i \in 1..Len(Tail(q)) : i + 1 \in 1..Len(q) BY <1>1
<1>3. QED BY <1>1, <1>2

LEMMA AskedMoves ==
  ASSUME TypeOK, Asked, NEW w \in Encoders, Encode(w) \/ SchedulerTakes(w)
  PROVE  Asked'
<1>1. UNCHANGED stream
  BY DEF Encode, SchedulerTakes, TakeUser, TakeAbort, frontVars
<1>2. CASE Encode(w)
  <2> DEFINE q == requests[w]
             b == backend[w]
  <2>1. /\ q # <<>> /\ requests' = [requests EXCEPT ![w] = Tail(q)]
        /\ backend' = [backend EXCEPT ![w] = Append(b, Head(q))]
        /\ q \in Seq(Request) /\ b \in Seq(Request)
    BY <1>2 DEF Encode, TypeOK
  <2>2. /\ \A i \in 1..Len(q) : stream'[q[i].uid] # "new"
        /\ \A i \in 1..Len(b) : stream'[b[i].uid] # "new"
    BY <1>1 DEF Asked
  <2> HIDE DEF q, b
  <2>3. /\ \A i \in 1..Len(Tail(q)) : stream'[Tail(q)[i].uid] # "new"
        /\ Head(q) \in Request /\ stream'[Head(q).uid] # "new"
    BY <2>1, <2>2, AskedTail
  <2> DEFINE c == Append(b, Head(q))
  <2>4. /\ Len(c) = Len(b) + 1 /\ Len(b) \in Nat /\ c[Len(b) + 1] = Head(q)
        /\ \A i \in 1..Len(b) : c[i] = b[i]
    BY <2>1, <2>3
  <2> HIDE DEF c
  <2>5. \A i \in 1..Len(c) : stream'[c[i].uid] # "new" BY <2>2, <2>3, <2>4
  <2>6. /\ requests'[w] = Tail(q) /\ backend'[w] = c
        /\ \A x \in Encoders \ {w} : requests'[x] = requests[x] /\ backend'[x] = backend[x]
    BY <2>1 DEF TypeOK, c
  <2>7. ASSUME NEW x \in Encoders
        PROVE  /\ \A i \in 1..Len(requests'[x]) : stream'[requests'[x][i].uid] # "new"
               /\ \A i \in 1..Len(backend'[x]) : stream'[backend'[x][i].uid] # "new"
    <3>1. CASE x = w BY <2>3, <2>5, <2>6, <3>1
    <3>2. CASE x # w
      <4>1. requests'[x] = requests[x] /\ backend'[x] = backend[x] BY <2>6, <3>2
      <4>2. QED BY <1>1, <4>1 DEF Asked
    <3>3. QED BY <3>1, <3>2
  <2>8. QED BY <2>7 DEF Asked
<1>3. CASE SchedulerTakes(w)
  <2> DEFINE b == backend[w]
  <2>1. /\ b # <<>> /\ backend' = [backend EXCEPT ![w] = Tail(b)] /\ UNCHANGED requests
        /\ b \in Seq(Request)
    BY <1>3 DEF SchedulerTakes, TakeUser, TakeAbort, TypeOK
  <2>2. \A i \in 1..Len(b) : stream'[b[i].uid] # "new" BY <1>1 DEF Asked
  <2> HIDE DEF b
  <2>3. \A i \in 1..Len(Tail(b)) : stream'[Tail(b)[i].uid] # "new"
    BY <2>1, <2>2, AskedTail
  <2>4. backend'[w] = Tail(b) /\ \A x \in Encoders \ {w} : backend'[x] = backend[x]
    BY <2>1 DEF TypeOK
  <2>5. QED BY <1>1, <2>1, <2>3, <2>4 DEF Asked
<1>4. QED BY <1>2, <1>3

----------------------------------------------------------------------------
LEMMA PipelineInvInit == Init => PipelineInv
<1> SUFFICES ASSUME Init PROVE PipelineInv
  OBVIOUS
<1>1. TypeOK BY TypeOKInit
<1>2. Len(<<>>) = 0 /\ <<>> \o <<>> = <<>> OBVIOUS
<1>3. Asked BY <1>2 DEF Init, Asked
<1>4. ASSUME NEW u \in Uids PROVE RequestInv(u)
  BY <1>2 DEF Init, RequestInv, Fresh, Kept, Woken, Ended, Faithful, Open
<1>5. QED BY <1>1, <1>3, <1>4 DEF PipelineInv

LEMMA PipelineInvStep == PipelineInv /\ [Next]_vars => PipelineInv'
<1> SUFFICES ASSUME TypeOK, Asked, \A u \in Uids : RequestInv(u), [Next]_vars
             PROVE  Asked' /\ \A u \in Uids : RequestInv(u)'
  BY TypeOKStep DEF PipelineInv
<1>1. ASSUME NEW u \in Uids, RequestInv(u)', OnlyThis(u)
      PROVE  \A v \in Uids : RequestInv(v)'
  <2>1. ASSUME NEW v \in Uids \ {u} PROVE RequestInv(v)' BY <1>1, Frame DEF OnlyThis
  <2>2. QED BY <1>1, <2>1
<1>2. ASSUME \A u \in Uids : stream[u] # "new" => stream'[u] # "new",
             UNCHANGED <<requests, backend>>
      PROVE  Asked'
  <2>1. ASSUME NEW x \in Encoders
        PROVE  /\ \A i \in 1..Len(requests[x]) : requests[x][i].uid \in Uids
               /\ \A i \in 1..Len(backend[x]) : backend[x][i].uid \in Uids
    <3>1. requests[x] \in Seq(Request) /\ backend[x] \in Seq(Request) BY DEF TypeOK
    <3>2. /\ \A i \in 1..Len(requests[x]) : requests[x][i] \in Request
          /\ \A i \in 1..Len(backend[x]) : backend[x][i] \in Request
      BY <3>1
    <3>3. QED BY <3>2 DEF Request
  <2>2. QED BY <1>2, <2>1 DEF Asked
<1>3. ASSUME NEW u \in Uids, Generate(u) PROVE Asked' /\ \A v \in Uids : RequestInv(v)'
  <2>1. [kind |-> "user", uid |-> u] \in Request BY DEF Request
  <2>2. /\ stream' = [stream EXCEPT ![u] = "waiting"] /\ UNCHANGED backend
        /\ SendOne([kind |-> "user", uid |-> u])
    BY <1>3 DEF Generate
  <2>3. \A v \in Uids : stream[v] # "new" => stream'[v] # "new" BY <2>2 DEF TypeOK
  <2>4. stream'[u] # "new" BY <2>2 DEF TypeOK
  <2>5. Asked' BY <2>1, <2>2, <2>3, <2>4, AskedSends
  <2>6. QED BY <1>1, <1>3, <2>5, GenerateInv
<1>4. ASSUME NEW u \in Uids, AbortUser(u) PROVE Asked' /\ \A v \in Uids : RequestInv(v)'
  <2>1. [kind |-> "abort", uid |-> u] \in Request BY DEF Request
  <2>2. /\ UNCHANGED <<stream, backend>> /\ u \in aborting
        /\ SendOne([kind |-> "abort", uid |-> u])
    BY <1>4 DEF AbortUser
  <2>3. stream'[u] # "new" BY <2>2 DEF RequestInv, Kept
  <2>4. Asked' BY <2>1, <2>2, <2>3, AskedSends
  <2>5. QED BY <1>1, <1>4, <2>4, AbortUserInv
<1>5. ASSUME NEW u \in Uids, Listen(u) \/ WakeUp(u) \/ Deliver(u) \/ Close(u) \/ Cancel(u)
      PROVE  Asked' /\ \A v \in Uids : RequestInv(v)'
  <2>1. /\ UNCHANGED <<requests, backend>>
        /\ \/ UNCHANGED stream
           \/ \E x : x # "new" /\ stream' = [stream EXCEPT ![u] = x]
    BY <1>5 DEF Listen, WakeUp, Deliver, After, Close, Cancel, workVars
  <2>2. \A v \in Uids : stream[v] # "new" => stream'[v] # "new" BY <2>1 DEF TypeOK
  <2>3. Asked' BY <1>2, <2>1, <2>2
  <2>4. RequestInv(u)' /\ OnlyThis(u) BY <1>5, ListenInv, WakeUpInv, DeliverInv, LeaveInv
  <2>5. QED BY <1>1, <2>3, <2>4
<1>6. ASSUME NEW u \in Uids, Detokenize(u) \/ SchedulerReplies(u)
      PROVE  Asked' /\ \A v \in Uids : RequestInv(v)'
  <2>1. UNCHANGED <<stream, requests, backend>>
    BY <1>6 DEF Detokenize, SchedulerReplies, Reply, Trail, frontVars, workVars
  <2>2. Asked' BY <1>2, <2>1
  <2>3. RequestInv(u)' /\ OnlyThis(u) BY <1>6, DetokenizeInv, RepliesInv
  <2>4. QED BY <1>1, <2>2, <2>3
<1>7. ASSUME UNCHANGED <<stream, entries, acks, events, taken, aborting, delivered, phase, ahead,
                         sent, tokens, replies>>
      PROVE  \A v \in Uids : RequestInv(v)'
  <2>1. \A v \in Uids : Same(v) BY <1>7 DEF Same
  <2>2. QED BY <2>1, Frame
<1>8. ASSUME NEW u \in Uids, Disconnect(u) PROVE Asked' /\ \A v \in Uids : RequestInv(v)'
  BY <1>2, <1>7, <1>8 DEF Disconnect, workVars, schedVars
<1>9. ASSUME NEW w \in Encoders, Encode(w) PROVE Asked' /\ \A v \in Uids : RequestInv(v)'
  BY <1>7, <1>9, AskedMoves DEF Encode, frontVars, schedVars
<1>10. ASSUME NEW w \in Encoders, SchedulerTakes(w)
       PROVE  Asked' /\ \A v \in Uids : RequestInv(v)'
  BY <1>10, AskedMoves, TakesInv
<1>11. CASE UNCHANGED vars
  BY <1>2, <1>7, <1>11 DEF vars, frontVars, workVars, schedVars
<1>12. QED
  BY <1>3, <1>4, <1>5, <1>6, <1>8, <1>9, <1>10, <1>11 DEF Next, Front, Worker

THEOREM PipelineInvHolds == Spec => []PipelineInv
<1>1. Init => PipelineInv BY PipelineInvInit
<1>2. PipelineInv /\ [Next]_vars => PipelineInv' BY PipelineInvStep
<1>3. QED BY <1>1, <1>2, PTL DEF Spec

(* Nothing of a stream is lost, doubled or out of order.                   *)
THEOREM StreamFaithfulHolds == Spec => []StreamFaithful
<1>1. PipelineInv => StreamFaithful
  BY DEF PipelineInv, RequestInv, Faithful, StreamFaithful
<1>2. QED BY <1>1, PipelineInvHolds, PTL

(* A stream that waits is woken exactly when there is something for it.    *)
THEOREM NoLostWakeupHolds == Spec => []NoLostWakeup
<1>1. PipelineInv => NoLostWakeup BY DEF PipelineInv, RequestInv, Woken, NoLostWakeup
<1>2. QED BY <1>1, PipelineInvHolds, PTL

(* A stream ends after a finished reply and sends nothing after it.        *)
THEOREM EndsOnceHolds == Spec => []EndsOnce
<1>1. PipelineInv => EndsOnce BY DEF PipelineInv, RequestInv, Ended, EndsOnce
<1>2. QED BY <1>1, PipelineInvHolds, PTL

----------------------------------------------------------------------------
(* With one worker between the API server and the scheduler, what it still *)
(* has to send and what the scheduler has yet to take are one queue.       *)
Way(w) == backend[w] \o requests[w]
Known == {u \in Uids : phase[u] # "unknown"}
Made == {u \in Uids : stream[u] # "new"}

Comes(u, q, n) == \E j \in 1..n : q[j] = [kind |-> "user", uid |-> u]

(* Every abort in q has its request before it, in q or in K, where every   *)
(* request of A is somewhere.                                              *)
InOrder(q, K, A) ==
  /\ \A i \in 1..Len(q) : q[i].kind = "abort" => q[i].uid \in K \/ Comes(q[i].uid, q, i - 1)
  /\ \A u \in A : u \in K \/ Comes(u, q, Len(q))

LEMMA InOrderMoreKnown ==
  ASSUME NEW q, NEW K, NEW L, K \subseteq L, NEW A, InOrder(q, K, A)
  PROVE  InOrder(q, L, A)
BY DEF InOrder

LEMMA InOrderAsk ==
  ASSUME NEW q \in Seq(Request), NEW K, NEW A, NEW u \in Uids, InOrder(q, K, A)
  PROVE  InOrder(Append(q, [kind |-> "user", uid |-> u]), K, A \cup {u})
<1> DEFINE m == [kind |-> "user", uid |-> u]
           r == Append(q, m)
<1>1. /\ Len(r) = Len(q) + 1 /\ Len(q) \in Nat /\ r[Len(q) + 1] = m
      /\ \A i \in 1..Len(q) : r[i] = q[i]
  OBVIOUS
<1>2. m.kind = "user" OBVIOUS
<1> HIDE DEF r
<1>3. ASSUME NEW i \in 1..Len(r), r[i].kind = "abort"
      PROVE  r[i].uid \in K \/ Comes(r[i].uid, r, i - 1)
  <2>1. i # Len(q) + 1 BY <1>1, <1>2, <1>3
  <2>2. i \in 1..Len(q) /\ r[i] = q[i] BY <1>1, <2>1
  <2>3. q[i].uid \in K \/ Comes(q[i].uid, q, i - 1) BY <1>3, <2>2 DEF InOrder
  <2>4. \A j \in 1..(i - 1) : r[j] = q[j] BY <1>1, <2>2
  <2>5. QED BY <2>2, <2>3, <2>4 DEF Comes
<1>4. ASSUME NEW v \in A \cup {u} PROVE v \in K \/ Comes(v, r, Len(r))
  <2>1. CASE v = u
    <3>1. Len(r) \in 1..Len(r) /\ r[Len(r)] = m BY <1>1
    <3>2. QED BY <2>1, <3>1 DEF Comes
  <2>2. CASE v # u
    <3>1. v \in K \/ Comes(v, q, Len(q)) BY <2>2 DEF InOrder
    <3>2. \A j \in 1..Len(q) : j \in 1..Len(r) /\ r[j] = q[j] BY <1>1
    <3>3. QED BY <3>1, <3>2 DEF Comes
  <2>3. QED BY <2>1, <2>2
<1>5. InOrder(r, K, A \cup {u}) BY <1>3, <1>4 DEF InOrder
<1>6. QED BY <1>5 DEF r

LEMMA InOrderAbort ==
  ASSUME NEW q \in Seq(Request), NEW K, NEW A, NEW u \in Uids \cap A, InOrder(q, K, A)
  PROVE  InOrder(Append(q, [kind |-> "abort", uid |-> u]), K, A)
<1> DEFINE m == [kind |-> "abort", uid |-> u]
           r == Append(q, m)
<1>1. /\ Len(r) = Len(q) + 1 /\ Len(q) \in Nat /\ r[Len(q) + 1] = m
      /\ \A i \in 1..Len(q) : r[i] = q[i]
  OBVIOUS
<1>2. m.uid = u OBVIOUS
<1> HIDE DEF r, m
<1>3. ASSUME NEW v \in A PROVE v \in K \/ Comes(v, q, Len(q)) BY DEF InOrder
<1>4. ASSUME NEW i \in 1..Len(r), r[i].kind = "abort"
      PROVE  r[i].uid \in K \/ Comes(r[i].uid, r, i - 1)
  <2>1. CASE i = Len(q) + 1
    <3>1. r[i].uid = u /\ i - 1 = Len(q) BY <1>1, <1>2, <2>1
    <3>2. QED BY <1>1, <1>3, <3>1 DEF Comes
  <2>2. CASE i # Len(q) + 1
    <3>1. i \in 1..Len(q) /\ r[i] = q[i] BY <1>1, <2>2
    <3>2. q[i].uid \in K \/ Comes(q[i].uid, q, i - 1) BY <1>4, <3>1 DEF InOrder
    <3>3. \A j \in 1..(i - 1) : r[j] = q[j] BY <1>1, <3>1
    <3>4. QED BY <3>1, <3>2, <3>3 DEF Comes
  <2>3. QED BY <2>1, <2>2
<1>5. ASSUME NEW v \in A PROVE v \in K \/ Comes(v, r, Len(r))
  <2>1. \A j \in 1..Len(q) : j \in 1..Len(r) /\ r[j] = q[j] BY <1>1
  <2>2. QED BY <1>3, <2>1 DEF Comes
<1>6. InOrder(r, K, A) BY <1>4, <1>5 DEF InOrder
<1>7. QED BY <1>6 DEF r, m

LEMMA InOrderTake ==
  ASSUME NEW q \in Seq(Request), q # <<>>, NEW K, NEW L, NEW A, K \subseteq L,
         Head(q).kind = "user" => Head(q).uid \in L, InOrder(q, K, A)
  PROVE  InOrder(Tail(q), L, A)
<1> DEFINE t == Tail(q)
<1>1. /\ Len(t) = Len(q) - 1 /\ Len(q) \in Nat /\ Len(q) >= 1 /\ Head(q) = q[1]
      /\ \A i \in 1..Len(t) : t[i] = q[i + 1]
  BY HeadTailProperties, EmptySeq
<1> HIDE DEF t
<1>2. ASSUME NEW v, NEW n \in 1..Len(q), Comes(v, q, n), v \notin L
      PROVE  Comes(v, t, n - 1)
  <2>1. PICK j \in 1..n : q[j] = [kind |-> "user", uid |-> v] BY <1>2 DEF Comes
  <2>2. j # 1 BY <1>1, <1>2, <2>1
  <2>3. j - 1 \in 1..(n - 1) /\ j - 1 \in 1..Len(t) /\ (j - 1) + 1 = j BY <1>1, <2>1, <2>2
  <2>4. t[j - 1] = q[j] BY <1>1, <2>3
  <2>5. QED BY <2>1, <2>3, <2>4 DEF Comes
<1>3. ASSUME NEW i \in 1..Len(t), t[i].kind = "abort"
      PROVE  t[i].uid \in L \/ Comes(t[i].uid, t, i - 1)
  <2>1. i + 1 \in 1..Len(q) /\ t[i] = q[i + 1] /\ (i + 1) - 1 = i /\ i \in 1..Len(q) BY <1>1
  <2>2. q[i + 1].uid \in K \/ Comes(q[i + 1].uid, q, i) BY <1>3, <2>1 DEF InOrder
  <2>3. QED BY <1>2, <2>1, <2>2
<1>4. ASSUME NEW v \in A PROVE v \in L \/ Comes(v, t, Len(t))
  <2>1. v \in K \/ Comes(v, q, Len(q)) BY DEF InOrder
  <2>2. Len(q) \in 1..Len(q) BY <1>1
  <2>3. QED BY <1>1, <1>2, <2>1, <2>2
<1>5. InOrder(t, L, A) BY <1>3, <1>4 DEF InOrder
<1>6. QED BY <1>5 DEF t

WayInv(w) == InOrder(Way(w), Known, Made)

LEMMA WayTyped ==
  ASSUME TypeOK, NEW w \in Encoders
  PROVE  /\ Way(w) \in Seq(Request)
         /\ requests[w] \in Seq(Request) /\ backend[w] \in Seq(Request)
<1>1. requests[w] \in Seq(Request) /\ backend[w] \in Seq(Request) BY DEF TypeOK
<1>2. QED BY <1>1, ConcatProperties DEF Way

(* What is taken from the front of two queues in a row.                    *)
LEMMA TakeFirst ==
  ASSUME NEW M, NEW a \in Seq(M), NEW b \in Seq(M), a # <<>>
  PROVE  a \o b # <<>> /\ Head(a \o b) = Head(a) /\ Tail(a \o b) = Tail(a) \o b
<1> DEFINE q == a \o b
           x == Tail(q)
           y == Tail(a) \o b
<1>1. /\ Tail(a) \in Seq(M) /\ Len(Tail(a)) = Len(a) - 1 /\ Head(a) = a[1]
      /\ \A i \in 1..Len(Tail(a)) : Tail(a)[i] = a[i + 1]
      /\ Len(a) \in Nat /\ Len(a) >= 1 /\ Len(b) \in Nat
  BY HeadTailProperties, EmptySeq
<1>2. /\ q \in Seq(M) /\ Len(q) = Len(a) + Len(b)
      /\ \A i \in 1..(Len(a) + Len(b)) : q[i] = IF i <= Len(a) THEN a[i] ELSE b[i - Len(a)]
  BY ConcatProperties
<1>3. /\ y \in Seq(M) /\ Len(y) = (Len(a) - 1) + Len(b)
      /\ \A i \in 1..((Len(a) - 1) + Len(b)) :
           y[i] = IF i <= Len(a) - 1 THEN Tail(a)[i] ELSE b[i - (Len(a) - 1)]
  BY <1>1, ConcatProperties
<1> HIDE DEF q, y
<1>4. q # <<>> BY <1>1, <1>2, EmptySeq
<1>5. /\ x \in Seq(M) /\ Len(x) = Len(q) - 1 /\ Head(q) = q[1]
      /\ \A i \in 1..Len(x) : x[i] = q[i + 1]
  BY <1>2, <1>4, HeadTailProperties
<1> HIDE DEF x
<1>6. ASSUME NEW i \in 1..Len(x) PROVE x[i] = y[i]
  <2>1. /\ i + 1 \in 1..(Len(a) + Len(b)) /\ i \in 1..((Len(a) - 1) + Len(b))
        /\ (i + 1) - Len(a) = i - (Len(a) - 1)
    BY <1>1, <1>2, <1>5
  <2>2. CASE i <= Len(a) - 1
    <3>1. i + 1 <= Len(a) /\ i \in 1..Len(Tail(a)) BY <1>1, <2>1, <2>2
    <3>2. QED BY <1>1, <1>2, <1>3, <1>5, <2>1, <2>2, <3>1
  <2>3. CASE ~(i <= Len(a) - 1)
    <3>1. ~(i + 1 <= Len(a)) BY <1>1, <2>1, <2>3
    <3>2. QED BY <1>2, <1>3, <1>5, <2>1, <2>3, <3>1
  <2>4. QED BY <2>2, <2>3
<1>7. x = y
  <2>1. Len(x) = Len(y) BY <1>1, <1>2, <1>3, <1>5
  <2>2. QED BY <1>3, <1>5, <1>6, <2>1, SeqEqual
<1>8. Head(q) = Head(a) BY <1>1, <1>2, <1>5
<1>9. QED BY <1>4, <1>7, <1>8 DEF q, x, y

LEMMA WayInvStep ==
  ASSUME NEW w, Encoders = {w}, PipelineInv, WayInv(w), [Next]_vars
  PROVE  WayInv(w)'
<1> DEFINE q == Way(w)
           b == backend[w]
           r == requests[w]
<1>1. w \in Encoders /\ TypeOK /\ TypeOK' BY TypeOKStep DEF PipelineInv
<1>2. /\ q \in Seq(Request) /\ b \in Seq(Request) /\ r \in Seq(Request)
      /\ InOrder(q, Known, Made)
  BY <1>1, WayTyped DEF WayInv
<1>3. ASSUME Way(w)' = Way(w), Made' = Made, Known \subseteq Known' PROVE WayInv(w)'
  <2>1. InOrder(q, Known', Made) BY <1>2, <1>3, InOrderMoreKnown
  <2>2. QED BY <1>3, <2>1 DEF WayInv
<1>4. ASSUME NEW m \in Request, SendOne(m), UNCHANGED backend
      PROVE  Way(w)' = Append(Way(w), m)
  <2>1. requests'[w] = Append(r, m) BY <1>1, <1>4 DEF SendOne, Enqueue, TypeOK
  <2>2. b \o Append(r, m) = Append(b \o r, m)
    <3> HIDE DEF b, r
    <3>1. QED BY <1>2, <1>4, PutLast
  <2>3. QED BY <1>4, <2>1, <2>2 DEF Way
<1>5. ASSUME NEW u \in Uids, Generate(u) PROVE WayInv(w)'
  <2>1. [kind |-> "user", uid |-> u] \in Request BY DEF Request
  <2>2. Way(w)' = Append(q, [kind |-> "user", uid |-> u]) BY <1>4, <1>5, <2>1 DEF Generate
  <2>3. Made' = Made \cup {u} /\ Known' = Known
    BY <1>1, <1>5 DEF Generate, Made, Known, TypeOK, schedVars
  <2>4. InOrder(Append(q, [kind |-> "user", uid |-> u]), Known, Made \cup {u})
    BY <1>2, InOrderAsk
  <2>5. QED BY <2>2, <2>3, <2>4 DEF WayInv
<1>6. ASSUME NEW u \in Uids, AbortUser(u) PROVE WayInv(w)'
  <2>1. [kind |-> "abort", uid |-> u] \in Request BY DEF Request
  <2>2. Way(w)' = Append(q, [kind |-> "abort", uid |-> u]) BY <1>4, <1>6, <2>1 DEF AbortUser
  <2>3. Made' = Made /\ Known' = Known BY <1>6 DEF AbortUser, Made, Known, schedVars
  <2>4. u \in Uids \cap Made BY <1>6 DEF AbortUser, Made, PipelineInv, RequestInv, Kept
  <2>5. InOrder(Append(q, [kind |-> "abort", uid |-> u]), Known, Made)
    BY <1>2, <2>4, InOrderAbort
  <2>6. QED BY <2>2, <2>3, <2>5 DEF WayInv
<1>7. ASSUME NEW u \in Uids,
             \/ Listen(u) \/ WakeUp(u) \/ Deliver(u) \/ Close(u) \/ Cancel(u) \/ Disconnect(u)
      PROVE  WayInv(w)'
  <2>1. UNCHANGED <<requests, backend, phase>>
    BY <1>7 DEF Listen, WakeUp, Deliver, Close, Cancel, Disconnect, workVars, schedVars
  <2>2. \/ UNCHANGED stream
        \/ stream[u] # "new" /\ \E x : x # "new" /\ stream' = [stream EXCEPT ![u] = x]
    BY <1>7 DEF Listen, WakeUp, Deliver, After, Close, Cancel, Disconnect, Open
  <2>3. Made' = Made BY <1>1, <2>2 DEF Made, TypeOK
  <2>4. QED BY <1>3, <2>1, <2>3 DEF Way, Known
<1>8. ASSUME NEW u \in Uids, Detokenize(u) PROVE WayInv(w)'
  BY <1>3, <1>8 DEF Detokenize, Way, Known, Made, frontVars, schedVars
<1>9. ASSUME NEW u \in Uids, SchedulerReplies(u) PROVE WayInv(w)'
  <2>1. UNCHANGED <<stream, requests, backend>>
    BY <1>9 DEF SchedulerReplies, Reply, Trail, frontVars, workVars
  <2>2. phase' = phase \/ phase' = [phase EXCEPT ![u] = "ended"]
    BY <1>9 DEF SchedulerReplies, Reply, Trail
  <2>3. Known \subseteq Known' BY <1>1, <2>2 DEF Known, TypeOK
  <2>4. QED BY <1>3, <2>1, <2>3 DEF Way, Made
<1>10. CASE Encode(w)
  <2>1. /\ r # <<>> /\ requests'[w] = Tail(r) /\ backend'[w] = Append(b, Head(r))
        /\ UNCHANGED <<stream, phase>>
    BY <1>1, <1>10 DEF Encode, TypeOK, frontVars, schedVars
  <2>2. Append(b, Head(r)) \o Tail(r) = b \o r BY <1>2, <2>1, PassOn
  <2>3. QED BY <1>3, <2>1, <2>2 DEF Way, Made, Known
<1>11. CASE SchedulerTakes(w)
  <2>1. /\ b # <<>> /\ backend'[w] = Tail(b) /\ UNCHANGED <<stream, requests>>
    BY <1>1, <1>11 DEF SchedulerTakes, TakeUser, TakeAbort, TypeOK, frontVars
  <2>2. q # <<>> /\ Head(q) = Head(b) /\ Tail(q) = Tail(b) \o r
    BY <1>2, <2>1, TakeFirst DEF Way
  <2>3. Way(w)' = Tail(q) /\ Made' = Made BY <2>1, <2>2 DEF Way, Made
  <2>4. Head(b) \in Request BY <1>2, <2>1, HeadTailProperties
  <2>5. PICK u \in Uids : u = Head(b).uid BY <2>4 DEF Request
  <2>6. \/ Head(b).kind = "user" /\ \E x \in {"ended", "running"} : phase' = [phase EXCEPT ![u] = x]
        \/ Head(b).kind = "abort" /\ phase' \in {phase, [phase EXCEPT ![u] = "ended"]}
    BY <1>11, <2>5 DEF SchedulerTakes, TakeUser, TakeAbort
  <2>7. Known \subseteq Known' BY <1>1, <2>6 DEF Known, TypeOK
  <2>8. Head(q).kind = "user" => Head(q).uid \in Known'
    <3> SUFFICES ASSUME Head(b).kind = "user" PROVE u \in Known'
      BY <2>2, <2>5
    <3>1. PICK x \in {"ended", "running"} : phase' = [phase EXCEPT ![u] = x] BY <2>6
    <3>2. phase'[u] # "unknown" BY <1>1, <3>1 DEF TypeOK
    <3>3. QED BY <3>2 DEF Known
  <2> HIDE DEF q
  <2>9. InOrder(Tail(q), Known', Made) BY <1>2, <2>2, <2>7, <2>8, InOrderTake
  <2>10. QED BY <2>3, <2>9 DEF WayInv
<1>12. CASE UNCHANGED vars
  BY <1>3, <1>12 DEF vars, frontVars, workVars, schedVars, Way, Known, Made
<1>13. QED
  BY <1>5, <1>6, <1>7, <1>8, <1>9, <1>10, <1>11, <1>12 DEF Next, Front, Worker

(* With one worker, no abort reaches the scheduler before its request.     *)
THEOREM AbortOrderHolds ==
  ASSUME NEW w, Encoders = {w}
  PROVE  Spec => []AbortAfterRequest
<1>1. Init => WayInv(w)
  <2> SUFFICES ASSUME Init PROVE WayInv(w)
    OBVIOUS
  <2>1. w \in Encoders OBVIOUS
  <2>2. <<>> \o <<>> = <<>> /\ Len(<<>>) = 0 OBVIOUS
  <2>3. Way(w) = <<>> /\ Made = {} BY <2>1, <2>2 DEF Init, Way, Made
  <2>4. QED BY <2>2, <2>3 DEF WayInv, InOrder
<1>2. PipelineInv /\ WayInv(w) /\ [Next]_vars => WayInv(w)' BY WayInvStep
<1>3. PipelineInv /\ WayInv(w) => AbortAfterRequest
  <2> SUFFICES ASSUME PipelineInv, WayInv(w), NEW v \in Encoders, backend[v] # <<>>,
                      Head(backend[v]).kind = "abort"
               PROVE  phase[Head(backend[v]).uid] # "unknown"
    BY DEF AbortAfterRequest
  <2>1. v = w /\ TypeOK BY DEF PipelineInv
  <2>2. backend[v] \in Seq(Request) /\ requests[v] \in Seq(Request) BY <2>1, WayTyped
  <2> DEFINE q == Way(v)
  <2>3. q # <<>> /\ Head(q) = Head(backend[v]) /\ q \in Seq(Request)
    BY <2>1, <2>2, TakeFirst, WayTyped DEF Way
  <2> HIDE DEF q
  <2>4. 1 \in 1..Len(q) /\ Head(q) = q[1] BY <2>3, HeadTailProperties, EmptySeq
  <2>5. InOrder(q, Known, Made) BY <2>1 DEF WayInv, q
  <2>6. q[1].uid \in Known \/ Comes(q[1].uid, q, 0) BY <2>3, <2>4, <2>5 DEF InOrder
  <2>7. q[1].uid \in Known BY <2>6 DEF Comes
  <2>8. QED BY <2>3, <2>4, <2>7 DEF Known
<1>4. QED BY <1>1, <1>2, <1>3, PipelineInvHolds, PTL DEF Spec

----------------------------------------------------------------------------
(* Every behaviour with the tokens and the text of the replies is one of   *)
(* the pipeline: what the detokenizer does to the text of a reply changes  *)
(* nothing of the way of its tokens (tokenize_worker, detokenize).         *)
THEOREM TextImplementsPipeline == TextSpec => Spec
<1>1. TextInit => Init BY DEF TextInit
<1>2. [TextNext]_<<vars, textVars>> => [Next]_vars
  <2> SUFFICES ASSUME [TextNext]_<<vars, textVars>> PROVE [Next]_vars
    OBVIOUS
  <2>1. ASSUME NEW u \in Uids, DetokenizeText(u) PROVE Next
    BY <2>1 DEF DetokenizeText, Next, Worker
  <2>2. ASSUME NEW u \in Uids, SendText(u) PROVE Next
    BY <2>2 DEF SendText, Next, SchedulerReplies
  <2>3. ASSUME NEW u \in Uids, Generate(u) \/ Disconnect(u) \/ Front(u) PROVE Next
    BY <2>3 DEF Next
  <2>4. ASSUME NEW w \in Encoders, SchedulerTakes(w) \/ Encode(w) PROVE Next
    BY <2>4 DEF Next, Worker
  <2>5. CASE UNCHANGED <<vars, textVars>> BY <2>5
  <2>6. QED BY <2>1, <2>2, <2>3, <2>4, <2>5 DEF TextNext
<1>3. QED BY <1>1, <1>2, PTL DEF TextSpec, Spec

(* The stream that carries text is faithful, loses no wakeup and ends      *)
(* once, because the pipeline does.                                        *)
THEOREM TextStreamHolds == TextSpec => [](StreamFaithful /\ NoLostWakeup /\ EndsOnce)
BY TextImplementsPipeline, StreamFaithfulHolds, NoLostWakeupHolds, EndsOnceHolds, PTL

----------------------------------------------------------------------------
(* A set of numbers that is not empty has a least one.                     *)
LEMMA LeastOf ==
  ASSUME NEW T \in SUBSET Nat, T # {}
  PROVE  \E m \in T : \A k \in T : m <= k
<1> DEFINE R == OpToRel(<, Nat)
<1>1. IsWellFoundedOn(R, Nat) BY NatLessThanWellFounded
<1>2. \A x, y \in Nat : y < x => <<y, x>> \in R BY DEF OpToRel
<1> HIDE DEF R
<1>3. PICK m \in T : \A k \in T : ~ (<<k, m>> \in R) BY <1>1, WFMin
<1>4. \A k \in T : m <= k
  <2>1. TAKE k \in T
  <2>2. m \in Nat /\ k \in Nat OBVIOUS
  <2>3. ~(k < m) BY <1>2, <1>3, <2>2
  <2>4. QED BY <2>2, <2>3
<1>5. QED BY <1>4

(* Sequences of one length with the same elements are equal.               *)
LEMMA SequencesEqual ==
  ASSUME NEW C, NEW a \in Seq(C), NEW b \in Seq(C), NEW n, Len(a) = n, Len(b) = n,
         \A i \in 1..n : a[i] = b[i]
  PROVE  a = b
BY SeqEqual

(* A sequence with one element more, and without its last.                 *)
LEMMA OneMore ==
  ASSUME NEW D, NEW s \in Seq(D), NEW x \in D
  PROVE  /\ Append(s, x) \in Seq(D) /\ Len(Append(s, x)) = Len(s) + 1 /\ Append(s, x)[Len(s) + 1] = x
         /\ \A i \in 1..Len(s) : Append(s, x)[i] = s[i]
  OBVIOUS

LEMMA AllButLast ==
  ASSUME NEW D, NEW s \in Seq(D), NEW m \in Nat, Len(s) = m + 1
  PROVE  /\ SubSeq(s, 1, m) \in Seq(D) /\ Len(SubSeq(s, 1, m)) = m
         /\ \A i \in 1..m : SubSeq(s, 1, m)[i] = s[i]
  OBVIOUS

(* FlattenSeq puts the parts together from the first to the last.          *)
Joined(f, s) == f = [i \in 1..Len(s) |-> IF i = 1 THEN s[i] ELSE f[i - 1] \o s[i]]

(* One part more.                                                          *)
LEMMA JoinedStep ==
  ASSUME NEW C, NEW s \in Seq(Seq(C)), NEW x \in Seq(C), NEW f \in [1..Len(s) -> Seq(C)], Joined(f, s)
  PROVE  \E g \in [1..(Len(s) + 1) -> Seq(C)] :
           /\ Joined(g, Append(s, x))
           /\ g[Len(s) + 1] = IF Len(s) = 0 THEN x ELSE f[Len(s)] \o x
<1>1. PICK n \in Nat : n = Len(s) OBVIOUS
<1>2. PICK t \in Seq(Seq(C)) : t = Append(s, x) BY OneMore
<1>3. Len(t) = n + 1 /\ t[n + 1] = x /\ \A i \in 1..n : t[i] = s[i] BY <1>1, <1>2, OneMore
<1> DEFINE g == [i \in 1..(n + 1) |-> IF i = n + 1 THEN IF n = 0 THEN x ELSE f[n] \o x ELSE f[i]]
<1>4. n # 0 => f[n] \in Seq(C) BY <1>1
<1>5. g \in [1..(n + 1) -> Seq(C)]
  <2>1. n # 0 => f[n] \o x \in Seq(C) BY <1>4, ConcatProperties
  <2>2. \A i \in 1..n : f[i] \in Seq(C) BY <1>1
  <2>4. \A i \in 1..(n + 1) : i # n + 1 => i \in 1..n OBVIOUS
  <2>3. QED BY <2>1, <2>2, <2>4
<1>6. ASSUME NEW i \in 1..(n + 1) PROVE g[i] = IF i = 1 THEN t[i] ELSE g[i - 1] \o t[i]
  <2>1. CASE i = n + 1
    <3>1. CASE n = 0 BY <1>3, <2>1, <3>1
    <3>2. CASE n # 0
      <4>1. g[i] = f[n] \o x BY <2>1, <3>2
      <4>2. i - 1 \in 1..(n + 1) /\ i - 1 # n + 1 /\ i - 1 = n /\ i # 1 BY <2>1, <3>2
      <4>3. g[i - 1] = f[n] BY <4>2
      <4>4. QED BY <1>3, <2>1, <4>1, <4>2, <4>3
    <3>3. QED BY <3>1, <3>2
  <2>2. CASE i # n + 1
    <3>1. i \in 1..n BY <2>2
    <3>2. f[i] = IF i = 1 THEN s[i] ELSE f[i - 1] \o s[i] BY <1>1, <3>1 DEF Joined
    <3>3. g[i] = f[i] BY <2>2
    <3>4. i # 1 => g[i - 1] = f[i - 1]
      <4>1. i # 1 => i - 1 \in 1..(n + 1) /\ i - 1 # n + 1 BY <3>1
      <4>2. QED BY <4>1
    <3> HIDE DEF g
    <3>5. QED BY <1>3, <3>1, <3>2, <3>3, <3>4
  <2>3. QED BY <2>1, <2>2
<1>7. g[n + 1] = IF n = 0 THEN x ELSE f[n] \o x OBVIOUS
<1> HIDE DEF g
<1>8. g = [i \in 1..(n + 1) |-> g[i]] BY <1>5
<1>9. Joined(g, t) BY <1>3, <1>6, <1>8 DEF Joined
<1>10. QED BY <1>1, <1>2, <1>5, <1>7, <1>9

(* There is exactly one such function.                                     *)
LEMMA JoinedExists ==
  ASSUME NEW C, NEW s \in Seq(Seq(C))
  PROVE  \E f \in [1..Len(s) -> Seq(C)] : Joined(f, s)
<1> DEFINE Ok(m) == \A t \in Seq(Seq(C)) : Len(t) = m => \E f \in [1..m -> Seq(C)] : Joined(f, t)
           Bad == {m \in Nat : ~Ok(m)}
<1>1. Ok(0)
  <2>1. ASSUME NEW t \in Seq(Seq(C)), Len(t) = 0 PROVE \E f \in [1..0 -> Seq(C)] : Joined(f, t)
    <3>1. t = <<>> BY <2>1, EmptySeq
    <3>2. <<>> \in [1..0 -> Seq(C)] /\ Joined(<<>>, t) BY <3>1 DEF Joined
    <3>3. QED BY <3>2
  <2>2. QED BY <2>1
<1>2. ASSUME NEW m \in Nat, Ok(m) PROVE Ok(m + 1)
  <2>1. SUFFICES ASSUME NEW t \in Seq(Seq(C)), Len(t) = m + 1
                 PROVE  \E f \in [1..(m + 1) -> Seq(C)] : Joined(f, t)
    OBVIOUS
  <2>2. PICK s0 \in Seq(Seq(C)) : s0 = SubSeq(t, 1, m) BY <2>1, AllButLast
  <2>3. Len(s0) = m /\ \A i \in 1..m : s0[i] = t[i] BY <2>1, <2>2, AllButLast
  <2>4. t[m + 1] \in Seq(C) BY <2>1
  <2>5. Append(s0, t[m + 1]) = t
    <3>1. PICK x \in Seq(C) : x = t[m + 1] BY <2>4
    <3>2. PICK y \in Seq(Seq(C)) : y = Append(s0, x) BY OneMore
    <3>3. Len(y) = m + 1 /\ y[m + 1] = x /\ \A i \in 1..m : y[i] = s0[i] BY <2>3, <3>2, OneMore
    <3>4. \A i \in 1..(m + 1) : y[i] = t[i]
      <4>1. \A i \in 1..m : y[i] = t[i] BY <2>3, <3>3
      <4>2. y[m + 1] = t[m + 1] BY <3>1, <3>3
      <4>3. \A i \in 1..(m + 1) : i \in 1..m \/ i = m + 1 BY ONLY m \in Nat
      <4>4. QED BY <4>1, <4>2, <4>3
    <3>5. y = t BY <2>1, <3>2, <3>3, <3>4, SequencesEqual
    <3>6. QED BY <3>1, <3>2, <3>5
  <2>6. PICK f \in [1..m -> Seq(C)] : Joined(f, s0) BY <1>2, <2>3
  <2>7. \E g \in [1..(m + 1) -> Seq(C)] : Joined(g, Append(s0, t[m + 1]))
    <3>1. f \in [1..Len(s0) -> Seq(C)] BY <2>3, <2>6
    <3>2. \E g \in [1..(Len(s0) + 1) -> Seq(C)] : Joined(g, Append(s0, t[m + 1]))
      BY <2>4, <2>6, <3>1, JoinedStep
    <3>3. QED BY <2>3, <3>2
  <2>8. QED BY <2>5, <2>7
<1> HIDE DEF Ok
<1>3. Bad = {}
  <2> SUFFICES ASSUME Bad # {} PROVE FALSE OBVIOUS
  <2>1. PICK m \in Bad : \A k \in Bad : m <= k
    <3>1. Bad \in SUBSET Nat OBVIOUS
    <3> HIDE DEF Bad
    <3>2. QED BY <3>1, LeastOf
  <2>2. m # 0 /\ m \in Nat BY <1>1
  <2>3. m - 1 \in Nat /\ (m - 1) + 1 = m /\ ~(m <= m - 1) BY <2>2
  <2>4. m - 1 \notin Bad
    <3> HIDE DEF Bad
    <3>1. QED BY <2>1, <2>3
  <2>5. Ok(m - 1) BY <2>3, <2>4
  <2>6. Ok(m) BY <1>2, <2>3, <2>5
  <2>7. QED BY <2>6
<1>4. Ok(Len(s)) BY <1>3
<1>5. QED BY <1>4 DEF Ok

LEMMA JoinedUnique ==
  ASSUME NEW C, NEW s \in Seq(Seq(C)), NEW f, NEW g, Joined(f, s), Joined(g, s), NEW i \in 1..Len(s)
  PROVE  f[i] = g[i]
<1>1. PICK n \in Nat : n = Len(s) OBVIOUS
<1> DEFINE Bad == {j \in 1..n : f[j] # g[j]}
<1>2. Bad = {}
  <2> SUFFICES ASSUME Bad # {} PROVE FALSE OBVIOUS
  <2>1. PICK m \in Bad : \A k \in Bad : m <= k
    <3>1. Bad \in SUBSET Nat OBVIOUS
    <3> HIDE DEF Bad
    <3>2. QED BY <3>1, LeastOf
  <2>2. m \in 1..n /\ f[m] # g[m] OBVIOUS
  <2>3. /\ f[m] = IF m = 1 THEN s[m] ELSE f[m - 1] \o s[m]
        /\ g[m] = IF m = 1 THEN s[m] ELSE g[m - 1] \o s[m]
    BY <1>1, <2>2 DEF Joined
  <2>4. m # 1 BY <2>2, <2>3
  <2>5. m - 1 \in 1..n /\ ~(m <= m - 1) BY <2>2, <2>4
  <2>6. m - 1 \notin Bad
    <3> HIDE DEF Bad
    <3>1. QED BY <2>1, <2>5
  <2>7. f[m - 1] = g[m - 1] BY <2>5, <2>6
  <2>8. QED BY <2>2, <2>3, <2>4, <2>7
<1>3. QED BY <1>1, <1>2

(* It is what FlattenSeq computes.                                         *)
LEMMA FlattenIs ==
  ASSUME NEW C, NEW s \in Seq(Seq(C)), Len(s) # 0, NEW f, Joined(f, s)
  PROVE  S!FlattenSeq(s) = f[Len(s)]
<1> DEFINE w == CHOOSE g : Joined(g, s)
<1>1. S!FlattenSeq(s) = w[Len(s)] BY Zenon DEF S!FlattenSeq, Joined
<1>2. Joined(w, s) BY Zenon
<1> HIDE DEF w
<1>3. Len(s) \in 1..Len(s) OBVIOUS
<1>4. w[Len(s)] = f[Len(s)] BY <1>2, <1>3, JoinedUnique
<1>5. QED BY <1>1, <1>4

LEMMA FlattenEmpty == S!FlattenSeq(<<>>) = <<>>
<1>1. Len(<<>>) = 0 OBVIOUS
<1>2. QED BY <1>1 DEF S!FlattenSeq

LEMMA FlattenTyped ==
  ASSUME NEW C, NEW s \in Seq(Seq(C))
  PROVE  S!FlattenSeq(s) \in Seq(C)
<1>1. PICK f \in [1..Len(s) -> Seq(C)] : Joined(f, s) BY JoinedExists
<1>2. CASE Len(s) = 0
  <2>1. s = <<>> BY <1>2, EmptySeq
  <2>2. <<>> \in Seq(C) OBVIOUS
  <2>3. QED BY <2>1, <2>2, FlattenEmpty
<1>3. CASE Len(s) # 0
  <2>1. S!FlattenSeq(s) = f[Len(s)] BY <1>1, <1>3, FlattenIs
  <2>2. Len(s) \in 1..Len(s) BY <1>3
  <2>3. QED BY <2>1, <2>2
<1>4. QED BY <1>2, <1>3

(* With one part more at the end, it is at the end of the whole.           *)
LEMMA FlattenAppend ==
  ASSUME NEW C, NEW s \in Seq(Seq(C)), NEW x \in Seq(C)
  PROVE  S!FlattenSeq(Append(s, x)) = S!FlattenSeq(s) \o x
<1>1. PICK f \in [1..Len(s) -> Seq(C)] : Joined(f, s) BY JoinedExists
<1>2. PICK g \in [1..(Len(s) + 1) -> Seq(C)] :
           /\ Joined(g, Append(s, x))
           /\ g[Len(s) + 1] = IF Len(s) = 0 THEN x ELSE f[Len(s)] \o x
  BY <1>1, JoinedStep
<1>3. PICK t \in Seq(Seq(C)) : t = Append(s, x) BY OneMore
<1>4. Len(t) = Len(s) + 1 /\ Len(t) # 0 /\ Joined(g, t) BY <1>2, <1>3, OneMore
<1>5. S!FlattenSeq(t) = g[Len(t)] BY <1>4, FlattenIs
<1>6. CASE Len(s) = 0
  <2>1. s = <<>> BY <1>6, EmptySeq
  <2>2. S!FlattenSeq(s) = <<>> BY <2>1, FlattenEmpty
  <2>3. <<>> \o x = x OBVIOUS
  <2>4. QED BY <1>2, <1>3, <1>4, <1>5, <1>6, <2>2, <2>3
<1>7. CASE Len(s) # 0
  <2>1. S!FlattenSeq(s) = f[Len(s)] BY <1>1, <1>7, FlattenIs
  <2>2. QED BY <1>2, <1>3, <1>4, <1>5, <1>7, <2>1
<1>8. QED BY <1>6, <1>7

(* The parts of two sequences in a row are put together in a row.          *)
LEMMA FlattenConcat ==
  ASSUME NEW C, NEW a \in Seq(Seq(C)), NEW b \in Seq(Seq(C))
  PROVE  S!FlattenSeq(a \o b) = S!FlattenSeq(a) \o S!FlattenSeq(b)
<1> DEFINE D == Seq(C)
           F(s) == S!FlattenSeq(s)
           Ok(m) == \A t \in Seq(D) : Len(t) = m => F(a \o t) = F(a) \o F(t)
           Bad == {m \in Nat : ~Ok(m)}
<1>1. Ok(0)
  <2>1. ASSUME NEW t \in Seq(D), Len(t) = 0 PROVE F(a \o t) = F(a) \o F(t)
    <3>1. t = <<>> BY <2>1, EmptySeq
    <3>2. a \o <<>> = a BY ConcatEmptySeq
    <3>3. PICK x \in Seq(C) : x = F(a) BY FlattenTyped
    <3>4. x \o <<>> = x BY ConcatEmptySeq
    <3>5. QED BY <3>1, <3>2, <3>3, <3>4, FlattenEmpty
  <2>2. QED BY <2>1
<1>2. ASSUME NEW m \in Nat, Ok(m) PROVE Ok(m + 1)
  <2>1. SUFFICES ASSUME NEW t \in Seq(D), Len(t) = m + 1 PROVE F(a \o t) = F(a) \o F(t)
    OBVIOUS
  <2>2. PICK t0 \in Seq(D) : t0 = SubSeq(t, 1, m) BY <2>1, AllButLast
  <2>3. Len(t0) = m /\ \A i \in 1..m : t0[i] = t[i] BY <2>1, <2>2, AllButLast
  <2>4. PICK x \in Seq(C) : x = t[m + 1] BY <2>1
  <2>5. Append(t0, x) = t
    <3>1. PICK y \in Seq(D) : y = Append(t0, x) BY OneMore
    <3>2. Len(y) = m + 1 /\ y[m + 1] = x /\ \A i \in 1..m : y[i] = t0[i] BY <2>3, <3>1, OneMore
    <3>3. ASSUME NEW i \in 1..(m + 1) PROVE y[i] = t[i]
      <4>1. CASE i = m + 1 BY <2>4, <3>2, <4>1
      <4>2. CASE i # m + 1
        <5>1. i \in 1..m BY <4>2
        <5>2. QED BY <2>3, <3>2, <5>1
      <4>3. QED BY <4>1, <4>2
    <3> HIDE DEF D
    <3>4. y = t BY <2>1, <3>2, <3>3, SequencesEqual
    <3>5. QED BY <3>1, <3>4
  <2>6. a \o t = Append(a \o t0, x)
    <3> HIDE DEF D
    <3>1. a \in Seq(D) /\ x \in D BY DEF D
    <3>2. a \o Append(t0, x) = Append(a \o t0, x) BY <3>1, PutLast
    <3>3. QED BY <2>5, <3>2
  <2>7. a \o t0 \in Seq(D) BY ConcatProperties
  <2>8. F(Append(a \o t0, x)) = F(a \o t0) \o x BY <2>7, FlattenAppend
  <2>9. F(t) = F(t0) \o x BY <2>5, FlattenAppend
  <2>10. F(a \o t0) = F(a) \o F(t0) BY <1>2, <2>3
  <2>11. F(a) \in Seq(C) /\ F(t0) \in Seq(C) BY FlattenTyped
  <2>12. (F(a) \o F(t0)) \o x = F(a) \o (F(t0) \o x)
    <3> HIDE DEF F
    <3>1. QED BY <2>11, ConcatAssociative
  <2> HIDE DEF F
  <2>13. QED BY <2>6, <2>8, <2>9, <2>10, <2>12
<1> HIDE DEF Ok
<1>3. Bad = {}
  <2> SUFFICES ASSUME Bad # {} PROVE FALSE OBVIOUS
  <2>1. PICK m \in Bad : \A k \in Bad : m <= k
    <3>1. Bad \in SUBSET Nat OBVIOUS
    <3> HIDE DEF Bad
    <3>2. QED BY <3>1, LeastOf
  <2>2. m # 0 /\ m \in Nat BY <1>1
  <2>3. m - 1 \in Nat /\ (m - 1) + 1 = m /\ ~(m <= m - 1) BY <2>2
  <2>4. m - 1 \notin Bad
    <3> HIDE DEF Bad
    <3>1. QED BY <2>1, <2>3
  <2>5. Ok(m - 1) BY <2>3, <2>4
  <2>6. Ok(m) BY <1>2, <2>3, <2>5
  <2>7. QED BY <2>6
<1>4. Ok(Len(b)) BY <1>3
<1>5. QED BY <1>4 DEF Ok

LEMMA FlattenOne == ASSUME NEW C, NEW x \in Seq(C) PROVE S!FlattenSeq(<<x>>) = x
<1>1. <<>> \in Seq(Seq(C)) OBVIOUS
<1>2. S!FlattenSeq(Append(<<>>, x)) = S!FlattenSeq(<<>>) \o x BY <1>1, FlattenAppend
<1>3. Append(<<>>, x) = <<x>> OBVIOUS
<1>4. <<>> \o x = x OBVIOUS
<1>5. QED BY <1>2, <1>3, <1>4, FlattenEmpty

----------------------------------------------------------------------------
(* The texts of the characters and halves of a token, one by one.          *)
CharsOf(p) == [i \in DOMAIN p |-> CharAt(p, i)]
WithWhole(C) == C \cup {"lead+trail", Replacement}

LEMMA DecodeIs == ASSUME NEW k PROVE Decode(k) = DropSpace(TextOf(S!FlattenSeq(k)))
BY DEF Decode

(* What a token decodes to consists of its own characters, of whole ones   *)
(* and of the replacement character.                                       *)
LEMMA CharsTyped ==
  ASSUME NEW C, NEW p \in Seq(C)
  PROVE  CharsOf(p) \in Seq(Seq(WithWhole(C))) /\ Len(CharsOf(p)) = Len(p)
<1>1. PICK n \in Nat : n = Len(p) /\ DOMAIN p = 1..n OBVIOUS
<1>2. ASSUME NEW i \in 1..n PROVE CharAt(p, i) \in Seq(WithWhole(C))
  <2>1. p[i] \in C BY <1>1
  <2>2. p[i] \in WithWhole(C) /\ "lead+trail" \in WithWhole(C) /\ Replacement \in WithWhole(C)
    BY <2>1 DEF WithWhole
  <2>3. /\ <<"lead+trail">> \in Seq(WithWhole(C)) /\ <<>> \in Seq(WithWhole(C))
        /\ <<Replacement>> \in Seq(WithWhole(C)) /\ <<p[i]>> \in Seq(WithWhole(C))
    BY <2>2
  <2>4. \/ CharAt(p, i) = <<"lead+trail">> \/ CharAt(p, i) = <<>>
        \/ CharAt(p, i) = <<Replacement>> \/ CharAt(p, i) = <<p[i]>>
    BY DEF CharAt
  <2>5. QED BY <2>3, <2>4
<1>3. CharsOf(p) \in [1..n -> Seq(WithWhole(C))] BY <1>1, <1>2 DEF CharsOf
<1>4. QED BY <1>1, <1>3

LEMMA TextTyped ==
  ASSUME NEW C, NEW p \in Seq(C)
  PROVE  TextOf(p) \in Seq(WithWhole(C))
BY CharsTyped, FlattenTyped DEF TextOf, CharsOf

(* No character is cut where the second follows the first.                 *)
Meets(p, q) == p # <<>> /\ q # <<>> /\ p[Len(p)] = "lead" /\ q[1] = "trail"

(* Then the texts of two tokens are in a row, too.                         *)
LEMMA TextConcat ==
  ASSUME NEW C, NEW p \in Seq(C), NEW q \in Seq(C), ~Meets(p, q)
  PROVE  TextOf(p \o q) = TextOf(p) \o TextOf(q)
<1>1. PICK m \in Nat : m = Len(p) /\ DOMAIN p = 1..m OBVIOUS
<1>2. PICK n \in Nat : n = Len(q) /\ DOMAIN q = 1..n OBVIOUS
<1>3. PICK r \in Seq(C) : r = p \o q BY ConcatProperties
<1>4. /\ Len(r) = m + n /\ DOMAIN r = 1..(m + n)
      /\ \A i \in 1..(m + n) : r[i] = IF i <= m THEN p[i] ELSE q[i - m]
  <2>1. Len(r) = m + n /\ \A i \in 1..(m + n) : r[i] = IF i <= m THEN p[i] ELSE q[i - m]
    BY <1>1, <1>2, <1>3, ConcatProperties
  <2>2. QED BY <2>1
<1>5. \A i \in 1..m : r[i] = p[i] BY <1>4
<1>6. \A j \in 1..n : r[m + j] = q[j]
  <2>1. ASSUME NEW j \in 1..n PROVE r[m + j] = q[j]
    <3>1. m + j \in 1..(m + n) /\ ~(m + j <= m) /\ (m + j) - m = j OBVIOUS
    <3>2. QED BY <1>4, <3>1
  <2>2. QED BY <2>1
<1>7. m # 0 /\ n # 0 => ~(p[m] = "lead" /\ q[1] = "trail")
  <2>1. m # 0 => p # <<>> BY <1>1
  <2>2. n # 0 => q # <<>> BY <1>2
  <2>3. QED BY <1>1, <2>1, <2>2 DEF Meets
<1>8. ASSUME NEW i \in 1..m PROVE Whole(r, i) <=> Whole(p, i)
  <2>1. CASE i < m
    <3>1. i + 1 \in 1..m /\ i < m + n BY <2>1
    <3>2. r[i + 1] = p[i + 1] BY <1>5, <3>1
    <3>3. QED BY <1>1, <1>4, <1>5, <2>1, <3>1, <3>2 DEF Whole
  <2>2. CASE i = m
    <3>1. ~Whole(p, i) BY <1>1, <2>2 DEF Whole
    <3>2. CASE n = 0 BY <1>4, <2>2, <3>1, <3>2 DEF Whole
    <3>3. CASE n # 0
      <4>1. 1 \in 1..n BY <3>3
      <4>2. r[m + 1] = q[1] /\ r[m] = p[m] /\ m # 0 BY <1>5, <1>6, <2>2, <4>1
      <4>3. QED BY <1>7, <2>2, <3>1, <3>3, <4>2 DEF Whole
    <3>4. QED BY <3>2, <3>3
  <2>3. QED BY <2>1, <2>2
<1>9. ASSUME NEW j \in 1..n PROVE Whole(r, m + j) <=> Whole(q, j)
  <2>1. CASE j < n
    <3>1. j + 1 \in 1..n /\ (m + j) + 1 = m + (j + 1) /\ m + j < m + n BY <2>1
    <3>2. r[(m + j) + 1] = q[j + 1] /\ r[m + j] = q[j] BY <1>6, <3>1
    <3>3. QED BY <1>2, <1>4, <2>1, <3>1, <3>2 DEF Whole
  <2>2. CASE j = n
    <3>1. ~(m + j < m + n) /\ ~(j < n) BY <2>2
    <3>2. QED BY <1>2, <1>4, <3>1 DEF Whole
  <2>3. QED BY <2>1, <2>2
<1>10. ASSUME NEW i \in 1..m PROVE CharAt(r, i) = CharAt(p, i)
  <2>1. i > 1 => i - 1 \in 1..m OBVIOUS
  <2>2. i > 1 => (Whole(r, i - 1) <=> Whole(p, i - 1)) BY <1>8, <2>1
  <2>3. QED BY <1>5, <1>8, <2>2 DEF CharAt
<1>11. ASSUME NEW j \in 1..n PROVE CharAt(r, m + j) = CharAt(q, j)
  <2>1. (m + j > 1 /\ Whole(r, (m + j) - 1)) <=> (j > 1 /\ Whole(q, j - 1))
    <3>1. CASE j > 1
      <4>1. j - 1 \in 1..n /\ (m + j) - 1 = m + (j - 1) /\ m + j > 1 BY <3>1
      <4>2. QED BY <1>9, <3>1, <4>1
    <3>2. CASE j = 1
      <4>1. (m + j) - 1 = m BY <3>2
      <4>2. CASE m = 0 BY <3>2, <4>2
      <4>3. CASE m # 0
        <5>1. m \in 1..m BY <4>3
        <5>2. ~Whole(p, m) BY <1>1 DEF Whole
        <5>3. ~Whole(r, m) BY <1>8, <5>1, <5>2
        <5>4. QED BY <3>2, <4>1, <5>3
      <4>4. QED BY <4>2, <4>3
    <3>3. QED BY <3>1, <3>2
  <2>2. r[m + j] = q[j] BY <1>6
  <2>3. Whole(r, m + j) <=> Whole(q, j) BY <1>9
  <2>4. QED BY <2>1, <2>2, <2>3 DEF CharAt
<1> DEFINE D == Seq(WithWhole(C))
<1>12. PICK x \in Seq(D) : x = CharsOf(p) BY CharsTyped
<1>13. PICK y \in Seq(D) : y = CharsOf(q) BY CharsTyped
<1>14. PICK z \in Seq(D) : z = CharsOf(r) BY CharsTyped
<1>15. Len(x) = m /\ Len(y) = n /\ Len(z) = m + n
  BY <1>1, <1>2, <1>4, <1>12, <1>13, <1>14, CharsTyped
<1>16. /\ \A i \in 1..m : x[i] = CharAt(p, i)
       /\ \A i \in 1..n : y[i] = CharAt(q, i)
       /\ \A i \in 1..(m + n) : z[i] = CharAt(r, i)
  BY <1>1, <1>2, <1>4, <1>12, <1>13, <1>14 DEF CharsOf
<1>17. z = x \o y
  <2> HIDE DEF D
  <2>1. PICK v \in Seq(D) : v = x \o y BY ConcatProperties
  <2>2. Len(v) = m + n /\ \A i \in 1..(m + n) : v[i] = IF i <= m THEN x[i] ELSE y[i - m]
    BY <1>15, <2>1, ConcatProperties
  <2>3. ASSUME NEW i \in 1..(m + n) PROVE z[i] = v[i]
    <3>1. CASE i <= m
      <4>1. i \in 1..m BY <3>1
      <4>2. QED BY <1>10, <1>16, <2>2, <3>1, <4>1
    <3>2. CASE ~(i <= m)
      <4>1. PICK j \in 1..n : j = i - m /\ i = m + j BY <3>2
      <4>2. v[i] = y[j] BY <2>2, <3>2, <4>1
      <4>3. z[i] = CharAt(r, m + j) BY <1>16, <4>1
      <4>4. QED BY <1>11, <1>16, <4>2, <4>3
    <3>3. QED BY <3>1, <3>2
  <2>4. z = v BY <1>15, <2>2, <2>3, SequencesEqual
  <2>5. QED BY <2>1, <2>4
<1>18. S!FlattenSeq(x \o y) = S!FlattenSeq(x) \o S!FlattenSeq(y) BY FlattenConcat
<1>19. QED BY <1>3, <1>12, <1>13, <1>14, <1>17, <1>18 DEF TextOf, CharsOf

(* The texts of no character, of one and of the two halves of one.         *)
LEMMA TextEmpty == TextOf(<<>>) = <<>>
<1>1. CharsOf(<<>>) = <<>> BY DEF CharsOf
<1>2. QED BY <1>1, FlattenEmpty DEF TextOf, CharsOf

LEMMA TextOne ==
  ASSUME NEW C, NEW c \in C
  PROVE  TextOf(<<c>>) = <<IF c \in {"lead", "trail"} THEN Replacement ELSE c>>
<1> DEFINE x == <<IF c \in {"lead", "trail"} THEN Replacement ELSE c>>
           p == <<c>>
<1>1. Len(p) = 1 /\ DOMAIN p = 1..1 /\ p[1] = c OBVIOUS
<1>2. CharAt(p, 1) = x
  <2> HIDE DEF p
  <2>1. ~Whole(p, 1) /\ ~(1 > 1) BY <1>1 DEF Whole
  <2>2. QED BY <1>1, <2>1 DEF CharAt
<1> HIDE DEF x
<1>3. CharsOf(p) = [i \in 1..1 |-> x]
  <2>1. ASSUME NEW i \in 1..1 PROVE CharAt(p, i) = x
    <3>1. i = 1 OBVIOUS
    <3>2. QED BY <1>2, <3>1
  <2> HIDE DEF p
  <2>2. QED BY <1>1, <2>1 DEF CharsOf
<1>4. [i \in 1..1 |-> x] = <<x>> OBVIOUS
<1>5. x \in Seq(WithWhole(C))
  <2>1. c \in WithWhole(C) /\ Replacement \in WithWhole(C) BY DEF WithWhole
  <2>2. x = <<Replacement>> \/ x = <<c>> BY DEF x
  <2>3. <<Replacement>> \in Seq(WithWhole(C)) /\ <<c>> \in Seq(WithWhole(C)) BY <2>1
  <2>4. QED BY <2>2, <2>3
<1>6. S!FlattenSeq(<<x>>) = x BY <1>5, FlattenOne
<1>7. QED BY <1>3, <1>4, <1>6 DEF TextOf, CharsOf, x, p

LEMMA TextPair == TextOf(<<"lead", "trail">>) = <<"lead+trail">>
<1> DEFINE p == <<"lead", "trail">>
           x == <<"lead+trail">>
           D == Seq({"lead+trail"})
<1>1. Len(p) = 2 /\ DOMAIN p = 1..2 /\ p[1] = "lead" /\ p[2] = "trail" OBVIOUS
<1> HIDE DEF p
<1>2. Whole(p, 1) /\ ~Whole(p, 2) BY <1>1 DEF Whole
<1>3. CharAt(p, 1) = x /\ CharAt(p, 2) = <<>>
  <2>1. 2 > 1 /\ 2 - 1 = 1 OBVIOUS
  <2>2. QED BY <1>2, <2>1 DEF CharAt
<1>4. CharsOf(p) = [i \in 1..2 |-> IF i = 1 THEN x ELSE <<>>]
  <2>1. ASSUME NEW i \in 1..2 PROVE CharAt(p, i) = IF i = 1 THEN x ELSE <<>>
    <3>1. i = 1 \/ i = 2 OBVIOUS
    <3>2. QED BY <1>3, <3>1
  <2>2. QED BY <1>1, <2>1 DEF CharsOf
<1>5. x \in D /\ <<>> \in D /\ <<>> \in Seq(D) OBVIOUS
<1> HIDE DEF x, D
<1>6. <<x>> \in Seq(D) BY <1>5
<1>7. [i \in 1..2 |-> IF i = 1 THEN x ELSE <<>>] = Append(<<x>>, <<>>) OBVIOUS
<1>8. S!FlattenSeq(Append(<<x>>, <<>>)) = S!FlattenSeq(<<x>>) \o <<>> BY <1>5, <1>6, FlattenAppend DEF D
<1>9. S!FlattenSeq(<<x>>) = x BY <1>5, FlattenOne DEF D
<1>10. x \o <<>> = x BY <1>5, ConcatEmptySeq DEF D
<1>11. QED BY <1>4, <1>7, <1>8, <1>9, <1>10 DEF TextOf, CharsOf, p, x

(* Sequences of one and of two, and what they are put together from.       *)
LEMMA Single ==
  ASSUME NEW C, NEW c \in C
  PROVE  <<c>> \in Seq(C) /\ Len(<<c>>) = 1 /\ <<c>>[1] = c
OBVIOUS

LEMMA Pair ==
  ASSUME NEW C, NEW c \in C, NEW d \in C
  PROVE  /\ <<c, d>> \in Seq(C) /\ Len(<<c, d>>) = 2 /\ <<c, d>>[1] = c /\ <<c, d>>[2] = d
         /\ <<c>> \o <<d>> = <<c, d>>
<1>1. <<c, d>> \in Seq(C) /\ Len(<<c, d>>) = 2 /\ <<c, d>>[1] = c /\ <<c, d>>[2] = d OBVIOUS
<1>2. <<c>> \o <<d>> = <<c, d>>
  <2>1. Append(<<c>>, d) = <<c>> \o <<d>> OBVIOUS
  <2>2. Append(<<c>>, d) = [i \in 1..2 |-> IF i = 1 THEN c ELSE d] OBVIOUS
  <2>3. <<c, d>> = [i \in 1..2 |-> IF i = 1 THEN c ELSE d] OBVIOUS
  <2>4. QED BY <2>1, <2>2, <2>3
<1>3. QED BY <1>1, <1>2

LEMMA FirstAndRest ==
  ASSUME NEW C, NEW q \in Seq(C), q # <<>>
  PROVE  \E c \in C, r \in Seq(C) : q = <<c>> \o r /\ c = q[1]
<1>1. Head(q) \in C /\ Tail(q) \in Seq(C) /\ Head(q) = q[1] BY HeadTailProperties
<1>2. Append(<<>>, Head(q)) \o Tail(q) = <<>> \o q BY PassOn
<1>3. Append(<<>>, Head(q)) = <<Head(q)>> /\ <<>> \o q = q OBVIOUS
<1>4. QED BY <1>1, <1>2, <1>3

LEMMA RestAndLast ==
  ASSUME NEW C, NEW p \in Seq(C), p # <<>>
  PROVE  \E c \in C, r \in Seq(C) : p = r \o <<c>> /\ c = p[Len(p)] /\ p = Append(r, c)
<1>1. PICK n \in Nat : Len(p) = n + 1
  <2>1. Len(p) # 0 /\ Len(p) \in Nat BY EmptySeq
  <2>2. Len(p) - 1 \in Nat /\ Len(p) = (Len(p) - 1) + 1 BY <2>1
  <2>3. QED BY <2>2
<1>2. PICK r \in Seq(C) : r = SubSeq(p, 1, n) BY <1>1, AllButLast
<1>3. Len(r) = n /\ \A i \in 1..n : r[i] = p[i] BY <1>1, <1>2, AllButLast
<1>4. PICK c \in C : c = p[n + 1] BY <1>1
<1>5. PICK y \in Seq(C) : y = Append(r, c) BY OneMore
<1>6. Len(y) = n + 1 /\ y[n + 1] = c /\ \A i \in 1..n : y[i] = r[i] BY <1>3, <1>5, OneMore
<1>7. ASSUME NEW i \in 1..(n + 1) PROVE y[i] = p[i]
  <2>1. CASE i = n + 1 BY <1>4, <1>6, <2>1
  <2>2. CASE i # n + 1
    <3>1. i \in 1..n BY <2>2
    <3>2. QED BY <1>3, <1>6, <3>1
  <2>3. QED BY <2>1, <2>2
<1>8. y = p BY <1>1, <1>6, <1>7, SequencesEqual
<1>9. Append(r, c) = r \o <<c>> OBVIOUS
<1>10. QED BY <1>1, <1>4, <1>5, <1>8, <1>9

(* z is x and y in a row, but for one character where halves meet (d = 1). *)
JoinAt(x, y, z, d) ==
  /\ d \in {0, 1} /\ Len(z) = Len(x) + Len(y) - d
  /\ d = 1 => /\ Len(x) >= 1 /\ Len(y) >= 1
              /\ x[Len(x)] = Replacement /\ y[1] = Replacement /\ z[Len(x)] = "lead+trail"
  /\ \A i \in 1..(Len(x) - d) : z[i] = x[i]
  /\ \A j \in (1 + d)..Len(y) : z[Len(x) + j - d] = y[j]

LEMMA InARow ==
  ASSUME NEW W, NEW x \in Seq(W), NEW y \in Seq(W), NEW z, z = x \o y
  PROVE  JoinAt(x, y, z, 0)
<1>1. PICK m \in Nat : m = Len(x) OBVIOUS
<1>2. PICK n \in Nat : n = Len(y) OBVIOUS
<1>3. Len(z) = m + n /\ \A i \in 1..(m + n) : z[i] = IF i <= m THEN x[i] ELSE y[i - m]
  BY <1>1, <1>2, ConcatProperties
<1>4. \A i \in 1..m : z[i] = x[i] BY <1>3
<1>5. ASSUME NEW j \in 1..n PROVE z[m + j] = y[j]
  <2>1. m + j \in 1..(m + n) /\ ~(m + j <= m) /\ (m + j) - m = j OBVIOUS
  <2>2. QED BY <1>3, <2>1
<1>6. QED BY <1>1, <1>2, <1>3, <1>4, <1>5 DEF JoinAt

LEMMA FourInARow ==
  ASSUME NEW C, NEW a \in Seq(C), NEW b \in Seq(C), NEW c \in Seq(C), NEW d \in Seq(C)
  PROVE  (a \o b) \o (c \o d) = (a \o (b \o c)) \o d
<1>1. (a \o b) \o (c \o d) = a \o (b \o (c \o d))
  <2>1. c \o d \in Seq(C) BY ConcatProperties
  <2>2. QED BY <2>1, ConcatAssociative
<1>2. b \o (c \o d) = (b \o c) \o d BY ConcatAssociative
<1>3. (a \o (b \o c)) \o d = a \o ((b \o c) \o d)
  <2>1. b \o c \in Seq(C) BY ConcatProperties
  <2>2. QED BY <2>1, ConcatAssociative
<1>4. QED BY ONLY <1>1, <1>2, <1>3

(* The two halves of a character meet: one character in the place of two.  *)
InPlace(x, y, z, a, b) ==
  x = a \o <<Replacement>> /\ y = <<Replacement>> \o b /\ z = (a \o <<"lead+trail">>) \o b

(* Where the halves meet, the replacement characters of both become one    *)
(* character.                                                              *)
LEMMA HalvesMeet ==
  ASSUME NEW C, NEW a \in Seq(C), NEW b \in Seq(C), NEW c \in Seq(C), NEW d \in Seq(C),
         b = <<"lead">>, c = <<"trail">>
  PROVE  \E x, y \in Seq(WithWhole(C)) :
           InPlace(TextOf(a \o b), TextOf(c \o d), TextOf((a \o b) \o (c \o d)), x, y)
<1>1. (a \o b) \o (c \o d) = (a \o (b \o c)) \o d BY FourInARow
<1>2. "lead" \in C /\ "trail" \in C
  <2>1. Len(b) = 1 /\ Len(c) = 1 /\ b[1] = "lead" /\ c[1] = "trail" OBVIOUS
  <2>2. b[1] \in C /\ c[1] \in C BY <2>1
  <2>3. QED BY <2>1, <2>2
<1>3. Len(b) = 1 /\ b[1] = "lead" /\ Len(c) = 1 /\ c[1] = "trail" OBVIOUS
<1>4. PICK both \in Seq(C) : both = b \o c BY ConcatProperties
<1>5. both = <<"lead", "trail">> BY <1>2, <1>4, Pair
<1>6. Len(both) = 2 /\ both[1] = "lead" /\ both[2] = "trail" BY <1>2, <1>5, Pair
<1>7. TextOf(b) = <<Replacement>> /\ TextOf(c) = <<Replacement>> /\ TextOf(both) = <<"lead+trail">>
  BY <1>2, <1>5, TextOne, TextPair
<1>8. TextOf(a \o b) = TextOf(a) \o TextOf(b)
  <2>1. ~Meets(a, b) BY <1>3 DEF Meets
  <2>2. QED BY <2>1, TextConcat
<1>9. TextOf(c \o d) = TextOf(c) \o TextOf(d)
  <2>1. ~Meets(c, d) BY <1>3 DEF Meets
  <2>2. QED BY <2>1, TextConcat
<1>10. TextOf(a \o both) = TextOf(a) \o TextOf(both)
  <2>1. ~Meets(a, both) BY <1>6 DEF Meets
  <2>2. QED BY <2>1, TextConcat
<1>11. PICK r \in Seq(C) : r = a \o both BY ConcatProperties
<1>12. r[Len(r)] = "trail"
  <2>1. PICK n \in Nat : n = Len(a) OBVIOUS
  <2>2. JoinAt(a, both, r, 0) BY <1>11, InARow
  <2>3. Len(r) = n + 2 /\ r[n + 2] = both[2] BY <1>6, <2>1, <2>2 DEF JoinAt
  <2>4. QED BY <1>6, <2>1, <2>3
<1>13. TextOf(r \o d) = TextOf(r) \o TextOf(d)
  <2>1. ~Meets(r, d) BY <1>12 DEF Meets
  <2>2. QED BY <2>1, TextConcat
<1>14. TextOf(a) \in Seq(WithWhole(C)) /\ TextOf(d) \in Seq(WithWhole(C)) BY TextTyped
<1>15. InPlace(TextOf(a \o b), TextOf(c \o d), TextOf((a \o b) \o (c \o d)), TextOf(a), TextOf(d))
  BY ONLY <1>1, <1>4, <1>7, <1>8, <1>9, <1>10, <1>11, <1>13 DEF InPlace
<1>16. QED BY <1>14, <1>15

LEMMA TextMeets ==
  ASSUME NEW C, NEW p \in Seq(C), NEW q \in Seq(C), Meets(p, q)
  PROVE  \E x, y \in Seq(WithWhole(C)) : InPlace(TextOf(p), TextOf(q), TextOf(p \o q), x, y)
<1>1. PICK c \in C, p0 \in Seq(C) : p = p0 \o <<c>> /\ c = p[Len(p)] BY RestAndLast DEF Meets
<1>2. PICK d \in C, q0 \in Seq(C) : q = <<d>> \o q0 /\ d = q[1] BY FirstAndRest DEF Meets
<1>3. c = "lead" /\ d = "trail" BY <1>1, <1>2 DEF Meets
<1>4. <<c>> \in Seq(C) /\ <<d>> \in Seq(C) BY Single
<1>5. QED BY <1>1, <1>2, <1>3, <1>4, HalvesMeet

LEMMA InPlaceOfTwo ==
  ASSUME NEW W, NEW a \in Seq(W), NEW b \in Seq(W), "lead+trail" \in W, Replacement \in W,
         NEW x, NEW y, NEW z, InPlace(x, y, z, a, b)
  PROVE  JoinAt(x, y, z, 1)
<1>1. PICK m \in Nat : m = Len(a) OBVIOUS
<1>2. PICK n \in Nat : n = Len(b) OBVIOUS
<1>3. PICK r \in Seq(W) : r = <<Replacement>> /\ Len(r) = 1 /\ r[1] = Replacement BY Single
<1>4. PICK l \in Seq(W) : l = <<"lead+trail">> /\ Len(l) = 1 /\ l[1] = "lead+trail" BY Single
<1>5. JoinAt(a, r, x, 0) /\ JoinAt(r, b, y, 0) BY <1>3, InARow DEF InPlace
<1>6. PICK v \in Seq(W) : v = a \o l BY ConcatProperties
<1>7. JoinAt(a, l, v, 0) /\ JoinAt(v, b, z, 0) BY <1>4, <1>6, InARow DEF InPlace
<1>8. /\ Len(x) = m + 1 /\ x[m + 1] = Replacement /\ \A i \in 1..m : x[i] = a[i]
      /\ Len(y) = n + 1 /\ y[1] = Replacement /\ \A j \in 1..n : y[1 + j] = b[j]
  BY <1>1, <1>2, <1>3, <1>5 DEF JoinAt
<1>9. Len(v) = m + 1 /\ v[m + 1] = "lead+trail" /\ \A i \in 1..m : v[i] = a[i]
  BY <1>1, <1>4, <1>7 DEF JoinAt
<1>10. /\ Len(z) = m + 1 + n /\ z[m + 1] = "lead+trail" /\ \A i \in 1..m : z[i] = a[i]
       /\ \A j \in 1..n : z[m + 1 + j] = b[j]
  <2>1. /\ Len(z) = (m + 1) + n /\ \A i \in 1..(m + 1) : z[i] = v[i]
        /\ \A j \in 1..n : z[(m + 1) + j] = b[j]
    <3>1. m \in Nat /\ n \in Nat /\ Len(v) = m + 1 /\ Len(b) = n /\ JoinAt(v, b, z, 0)
      BY <1>2, <1>7, <1>9
    <3>2. QED BY ONLY <3>1 DEF JoinAt
  <2>2. QED BY <1>9, <2>1
<1>11. \A i \in 1..m : z[i] = x[i] BY <1>8, <1>10
<1>12. ASSUME NEW j \in 2..(n + 1) PROVE z[(m + 1) + j - 1] = y[j]
  <2>1. PICK i \in 1..n : j = 1 + i
    <3>1. j - 1 \in 1..n /\ j = 1 + (j - 1) OBVIOUS
    <3>2. QED BY <3>1
  <2>2. (m + 1) + j - 1 = m + 1 + i BY <2>1
  <2>3. QED BY <1>8, <1>10, <2>1, <2>2
<1>13. QED BY <1>8, <1>10, <1>11, <1>12 DEF JoinAt

(* The text of two sequences in a row is the two texts in a row, but for   *)
(* the character whose halves meet.                                        *)
LEMMA TextJoin ==
  ASSUME NEW C, NEW p \in Seq(C), NEW q \in Seq(C)
  PROVE  \E d \in {0, 1} : JoinAt(TextOf(p), TextOf(q), TextOf(p \o q), d) /\ (d = 1 => Meets(p, q))
<1>1. CASE Meets(p, q)
  <2>1. PICK x, y \in Seq(WithWhole(C)) : InPlace(TextOf(p), TextOf(q), TextOf(p \o q), x, y)
    BY <1>1, TextMeets
  <2>2. "lead+trail" \in WithWhole(C) /\ Replacement \in WithWhole(C) BY DEF WithWhole
  <2>3. JoinAt(TextOf(p), TextOf(q), TextOf(p \o q), 1) BY <2>1, <2>2, InPlaceOfTwo
  <2>4. QED BY <1>1, <2>3
<1>2. CASE ~Meets(p, q)
  <2>1. TextOf(p \o q) = TextOf(p) \o TextOf(q) BY <1>2, TextConcat
  <2>2. JoinAt(TextOf(p), TextOf(q), TextOf(p \o q), 0) BY <2>1, TextTyped, InARow
  <2>3. QED BY <2>2
<1>3. QED BY <1>1, <1>2

(* A token that is not empty has a text.                                   *)
LEMMA TextNotEmpty ==
  ASSUME NEW C, NEW p \in Seq(C), p # <<>>
  PROVE  TextOf(p) # <<>>
<1>1. PICK c \in C, r \in Seq(C) : p = r \o <<c>> /\ c = p[Len(p)] BY RestAndLast
<1>2. PICK l \in Seq(C) : l = <<c>> BY Single
<1>3. PICK d \in {0, 1} : JoinAt(TextOf(r), TextOf(l), TextOf(r \o l), d) BY TextJoin
<1>4. Len(TextOf(l)) = 1
  <2>1. TextOf(l) = <<IF c \in {"lead", "trail"} THEN Replacement ELSE c>> BY <1>2, TextOne
  <2>2. QED BY <2>1
<1>5. PICK n \in Nat : n = Len(TextOf(r))
  <2>1. TextOf(r) \in Seq(WithWhole(C)) BY TextTyped
  <2>2. QED BY <2>1
<1>6. Len(TextOf(p)) = n + 1 - d /\ (d = 1 => n >= 1) BY <1>1, <1>2, <1>3, <1>4, <1>5 DEF JoinAt
<1>7. Len(TextOf(p)) # 0 BY <1>6
<1>8. Len(<<>>) = 0 OBVIOUS
<1>9. QED BY <1>7, <1>8

----------------------------------------------------------------------------
(* Without the space at the beginning.                                     *)
LEMMA DropTyped ==
  ASSUME NEW W, NEW x \in Seq(W)
  PROVE  DropSpace(x) \in Seq(W)
BY HeadTailProperties DEF DropSpace

DropAt(x, y, e) ==
  /\ Len(y) = Len(x) - e /\ Len(y) \in Nat
  /\ \A i \in 1..Len(y) : y[i] = x[i + e]
  /\ e = 1 <=> Len(x) > 0 /\ x[1] = " "

LEMMA HeadIs ==
  ASSUME NEW W, NEW x \in Seq(W), x # <<>>
  PROVE  Head(x) = x[1] /\ Len(x) \in Nat /\ Len(x) > 0
<1>1. Len(x) \in Nat /\ Len(x) # 0 BY EmptySeq
<1>2. Head(x) = x[1] BY <1>1
<1>3. QED BY <1>1, <1>2

LEMMA DropIs ==
  ASSUME NEW W, NEW x \in Seq(W)
  PROVE  \E e \in {0, 1} : DropAt(x, DropSpace(x), e)
<1>1. CASE x # <<>> /\ Head(x) = " "
  <2>1. DropSpace(x) = Tail(x) BY <1>1 DEF DropSpace
  <2>2. Head(x) = x[1] /\ Len(x) \in Nat /\ Len(x) > 0 BY <1>1, HeadIs
  <2>4. Len(Tail(x)) = Len(x) - 1 /\ \A i \in 1..Len(Tail(x)) : Tail(x)[i] = x[i + 1]
    BY <1>1, HeadTailProperties
  <2>3. x[1] = " " BY ONLY <1>1, <2>2
  <2>5. Len(Tail(x)) \in Nat BY ONLY <2>2, <2>4
  <2>6. DropAt(x, Tail(x), 1) BY ONLY <2>2, <2>3, <2>4, <2>5 DEF DropAt
  <2>7. QED BY <2>1, <2>6
<1>2. CASE ~(x # <<>> /\ Head(x) = " ")
  <2>1. DropSpace(x) = x BY <1>2 DEF DropSpace
  <2>2. Len(x) > 0 => x # <<>> /\ Head(x) = x[1]
    <3>1. Len(<<>>) = 0 OBVIOUS
    <3>2. Len(x) > 0 => x # <<>> BY <3>1
    <3>3. QED BY <3>2, HeadIs
  <2>3. ~(Len(x) > 0 /\ x[1] = " ") BY <1>2, <2>2
  <2>4. /\ Len(x) = Len(x) - 0 /\ Len(x) \in Nat
        /\ \A i \in 1..Len(x) : x[i] = x[i + 0]
    OBVIOUS
  <2>8. ~(0 = 1) OBVIOUS
  <2>5. 0 = 1 <=> Len(x) > 0 /\ x[1] = " " BY ONLY <2>3, <2>8
  <2>6. DropAt(x, x, 0) BY ONLY <2>4, <2>5 DEF DropAt
  <2>7. QED BY <2>1, <2>6
<1>3. QED BY <1>1, <1>2

(* A space is dropped from the first of two texts that join.               *)
LEMMA DropJoin ==
  ASSUME NEW W, NEW x \in Seq(W), NEW y \in Seq(W), NEW z \in Seq(W), NEW d \in {0, 1},
         JoinAt(x, y, z, d), x # <<>>
  PROVE  JoinAt(DropSpace(x), y, DropSpace(z), d)
<1>1. PICK e \in {0, 1} : DropAt(x, DropSpace(x), e) BY DropIs
<1>2. PICK f \in {0, 1} : DropAt(z, DropSpace(z), f) BY DropIs
<1>3. PICK m \in Nat : m = Len(x) OBVIOUS
<1>4. PICK n \in Nat : n = Len(y) OBVIOUS
<1>5. m # 0 BY <1>3, EmptySeq
<1>6. /\ Len(z) = m + n - d
      /\ d = 1 => n >= 1 /\ x[m] = Replacement /\ y[1] = Replacement /\ z[m] = "lead+trail"
      /\ \A i \in 1..(m - d) : z[i] = x[i]
      /\ \A j \in (1 + d)..n : z[m + j - d] = y[j]
  BY <1>3, <1>4 DEF JoinAt
<1>7. Replacement # " " /\ "lead+trail" # " " BY DEF Replacement
<1>8. z[1] = " " <=> x[1] = " "
  <2>1. CASE m - d >= 1
    <3>1. 1 \in 1..(m - d) BY <2>1
    <3>2. QED BY <1>6, <3>1
  <2>2. CASE ~(m - d >= 1)
    <3>1. m = 1 /\ d = 1 BY <1>5, <2>2
    <3>2. QED BY <1>6, <1>7, <3>1
  <2>3. QED BY <2>1, <2>2
<1>9. Len(z) > 0 BY <1>5, <1>6
<1>10. e = f
  <2>1. e = 1 <=> m > 0 /\ x[1] = " " BY <1>1, <1>3 DEF DropAt
  <2>2. f = 1 <=> Len(z) > 0 /\ z[1] = " " BY <1>2 DEF DropAt
  <2>3. m > 0 BY <1>5
  <2>4. e = 1 <=> f = 1 BY <1>8, <1>9, <2>1, <2>2, <2>3
  <2>5. QED BY <2>4
<1>11. e = 1 => ~(m = 1 /\ d = 1) BY <1>1, <1>3, <1>6, <1>7 DEF DropAt
<1> DEFINE a == DropSpace(x)
           b == DropSpace(z)
<1>12. PICK k \in Nat : k = Len(a) /\ k = m - e BY <1>1, <1>3 DEF DropAt
<1>13. Len(b) = k + n - d
  <2>1. Len(b) = Len(z) - e BY <1>2, <1>10 DEF DropAt
  <2>2. Len(z) = m + n - d BY <1>6
  <2>3. QED BY <1>12, <2>1, <2>2
<1>14. /\ \A i \in 1..k : a[i] = x[i + e]
       /\ \A i \in 1..(k + n - d) : b[i] = z[i + e]
  BY <1>1, <1>2, <1>10, <1>12, <1>13 DEF DropAt
<1> HIDE DEF a, b
<1>15. d = 1 => k >= 1 /\ n >= 1 /\ a[k] = Replacement /\ y[1] = Replacement /\ b[k] = "lead+trail"
  <2>1. SUFFICES ASSUME d = 1
                 PROVE  k >= 1 /\ n >= 1 /\ a[k] = Replacement /\ y[1] = Replacement /\ b[k] = "lead+trail"
    OBVIOUS
  <2>2. k >= 1 /\ n >= 1 BY <1>5, <1>6, <1>11, <1>12, <2>1
  <2>3. k \in 1..k /\ k \in 1..(k + n - d) /\ k + e = m BY <1>12, <2>1, <2>2
  <2>4. a[k] = x[m] /\ b[k] = z[m] BY <1>14, <2>3
  <2>5. QED BY <1>6, <2>1, <2>2, <2>4
<1>16. ASSUME NEW i \in 1..(k - d) PROVE b[i] = a[i]
  <2>1. i \in 1..k /\ i \in 1..(k + n - d) /\ i + e \in 1..(m - d) BY <1>12
  <2>2. QED BY <1>6, <1>14, <2>1
<1>17. ASSUME NEW j \in (1 + d)..n PROVE b[k + j - d] = y[j]
  <2>1. k + j - d \in 1..(k + n - d) /\ (k + j - d) + e = m + j - d BY <1>12
  <2>2. QED BY <1>6, <1>14, <2>1
<1>18. JoinAt(a, y, b, d) BY <1>4, <1>12, <1>13, <1>15, <1>16, <1>17 DEF JoinAt
<1>19. QED BY <1>18 DEF a, b

LEMMA DropConcat ==
  ASSUME NEW W, NEW x \in Seq(W), NEW y \in Seq(W), x # <<>>
  PROVE  DropSpace(x \o y) = DropSpace(x) \o y
<1>1. PICK z \in Seq(W) : z = x \o y BY ConcatProperties
<1>2. JoinAt(x, y, z, 0) BY <1>1, InARow
<1>3. JoinAt(DropSpace(x), y, DropSpace(z), 0) BY <1>2, DropJoin
<1>4. PICK a \in Seq(W) : a = DropSpace(x) BY DropTyped
<1>5. PICK b \in Seq(W) : b = DropSpace(z) BY DropTyped
<1>6. PICK v \in Seq(W) : v = a \o y BY ConcatProperties
<1>8. PICK m \in Nat : m = Len(a) OBVIOUS
<1>9. PICK n \in Nat : n = Len(y) OBVIOUS
<1>10. Len(b) = m + n /\ \A i \in 1..(m + n) : b[i] = IF i <= m THEN a[i] ELSE y[i - m]
  <2>1. Len(b) = m + n /\ \A i \in 1..m : b[i] = a[i]
    BY <1>3, <1>4, <1>5, <1>8, <1>9 DEF JoinAt
  <2>2. \A j \in 1..n : b[m + j] = y[j] BY <1>3, <1>4, <1>5, <1>8, <1>9 DEF JoinAt
  <2>3. ASSUME NEW i \in 1..(m + n), ~(i <= m) PROVE b[i] = y[i - m]
    <3>1. i - m \in 1..n /\ m + (i - m) = i BY <2>3
    <3>2. QED BY <2>2, <3>1
  <2>4. QED BY <2>1, <2>3
<1>11. b = v
  <2>1. Len(v) = m + n /\ \A i \in 1..(m + n) : v[i] = IF i <= m THEN a[i] ELSE y[i - m]
    BY <1>6, <1>8, <1>9, ConcatProperties
  <2>2. \A i \in 1..(m + n) : b[i] = v[i] BY <1>10, <2>1
  <2>3. QED BY <1>10, <2>1, <2>2, SequencesEqual
<1>12. QED BY <1>1, <1>4, <1>5, <1>6, <1>11

(* What is behind the first of two sequences in a row is the second.       *)
LEMMA CutBehind ==
  ASSUME NEW W, NEW a \in Seq(W), NEW y \in Seq(W)
  PROVE  SubSeq(a \o y, Len(a) + 1, Len(a \o y)) = y
<1>1. PICK v \in Seq(W) : v = a \o y BY ConcatProperties
<1>2. JoinAt(a, y, v, 0) BY <1>1, InARow
<1>3. PICK m \in Nat : m = Len(a) OBVIOUS
<1>4. PICK n \in Nat : n = Len(y) OBVIOUS
<1>5. Len(v) = m + n /\ \A j \in 1..n : v[m + j] = y[j] BY <1>2, <1>3, <1>4 DEF JoinAt
<1>6. PICK s : s = SubSeq(v, m + 1, m + n) OBVIOUS
<1>7. s \in Seq(W) /\ Len(s) = n /\ \A j \in 1..n : s[j] = v[(m + 1) + j - 1]
  <2>1. m + 1 \in 1..(Len(v) + 1) /\ m + n \in m..Len(v) BY <1>5
  <2>2. (m + n) - (m + 1) + 1 = n OBVIOUS
  <2>3. QED BY <1>5, <1>6, <2>1, <2>2, SubSeqProperties
<1>8. \A j \in 1..n : s[j] = y[j]
  <2>1. ASSUME NEW j \in 1..n PROVE s[j] = y[j]
    <3>1. (m + 1) + j - 1 = m + j OBVIOUS
    <3>2. QED BY <1>5, <1>7, <3>1
  <2>2. QED BY <2>1
<1>9. s = y BY <1>4, <1>7, <1>8, SequencesEqual
<1>10. QED BY <1>1, <1>3, <1>5, <1>6, <1>9

(* A bounded set of numbers that is not empty has a greatest one.          *)
LEMMA GreatestOf ==
  ASSUME NEW n \in Nat, NEW T \in SUBSET (1..n), T # {}
  PROVE  \E m \in T : \A k \in T : k <= m
<1> DEFINE U == {n - k : k \in T}
<1>1. U \in SUBSET Nat /\ U # {}
  <2>1. \A k \in T : n - k \in Nat OBVIOUS
  <2>2. U \in SUBSET Nat BY <2>1
  <2>3. PICK k \in T : TRUE OBVIOUS
  <2>4. n - k \in U OBVIOUS
  <2>5. QED BY <2>2, <2>4
<1>2. PICK l \in U : \A j \in U : l <= j
  <2> HIDE DEF U
  <2>1. QED BY <1>1, LeastOf
<1>3. PICK m \in T : l = n - m OBVIOUS
<1>4. ASSUME NEW k \in T PROVE k <= m
  <2>1. n - k \in U OBVIOUS
  <2> HIDE DEF U
  <2>2. n - m <= n - k BY <1>2, <1>3, <2>1
  <2>3. k \in Nat /\ m \in Nat OBVIOUS
  <2>4. QED BY <2>2, <2>3
<1>5. QED BY <1>4

(* What is printed of a text that ends in half a character.                *)
Half(text) == text # <<>> => text[Len(text)] = Replacement
Printed(x, m) ==
  /\ Wide(x) => m = Len(x) - 1
  /\ ~Wide(x) => /\ m = 0 \/ x[m] = " "
                 /\ \A j \in 1..Len(x) : x[j] = " " => j <= m

(* find_printable_text is the beginning Printed of such a text.            *)
LEMMA PrintableIs ==
  ASSUME NEW W, NEW x \in Seq(W), Half(x), Replacement \notin Chinese
  PROVE  \E m \in 0..Len(x) : FindPrintableText(x) = SubSeq(x, 1, m) /\ Printed(x, m)
<1>1. PICK n \in Nat : n = Len(x) OBVIOUS
<1>2. n > 0 => x[n] = Replacement
  <2>1. Len(<<>>) = 0 OBVIOUS
  <2>2. QED BY <1>1, <2>1 DEF Half
<1> DEFINE spaces == {i \in 1..n : x[i] = " "}
<1>3. FindPrintableText(x) =
        IF n > 0 /\ (x[n] = "newline" \/ x[n] \in Chinese) THEN x
        ELSE IF n > 1 /\ x[n - 1] \in Chinese THEN SubSeq(x, 1, n - 1)
        ELSE IF spaces = {} THEN <<>>
        ELSE SubSeq(x, 1, CHOOSE i \in spaces : \A j \in spaces : j <= i)
  BY <1>1 DEF FindPrintableText
<1>4. ~(n > 0 /\ (x[n] = "newline" \/ x[n] \in Chinese))
  <2>1. Replacement # "newline" BY DEF Replacement
  <2>2. QED BY <1>2, <2>1
<1>5. Wide(x) <=> n > 1 /\ x[n - 1] \in Chinese
  <2>1. n > 1 => n > 0 OBVIOUS
  <2>2. QED BY <1>1, <1>2, <2>1 DEF Wide
<1>6. CASE Wide(x)
  <2>1. FindPrintableText(x) = SubSeq(x, 1, n - 1) BY <1>3, <1>4, <1>5, <1>6
  <2>2. n - 1 \in 0..Len(x) /\ n > 1 BY <1>1, <1>5, <1>6
  <2>3. Printed(x, n - 1) BY <1>1, <1>6 DEF Printed
  <2>4. QED BY <2>1, <2>2, <2>3
<1>7. CASE ~Wide(x) /\ spaces = {}
  <2>1. FindPrintableText(x) = <<>> BY <1>3, <1>4, <1>5, <1>7
  <2>2. SubSeq(x, 1, 0) = <<>>
    <3>1. 0 < 1 OBVIOUS
    <3>2. QED BY <3>1, SubSeqEmpty
  <2>3. Printed(x, 0)
    <3>1. \A j \in 1..Len(x) : x[j] # " " BY <1>1, <1>7
    <3>2. QED BY <1>7, <3>1 DEF Printed
  <2>4. 0 \in 0..Len(x) BY <1>1
  <2>5. QED BY <2>1, <2>2, <2>3, <2>4
<1>8. CASE ~Wide(x) /\ spaces # {}
  <2> DEFINE m == CHOOSE i \in spaces : \A j \in spaces : j <= i
  <2>1. FindPrintableText(x) = SubSeq(x, 1, m) BY <1>3, <1>4, <1>5, <1>8
  <2>2. \E i \in spaces : \A j \in spaces : j <= i
    <3>1. spaces \in SUBSET (1..n) OBVIOUS
    <3> HIDE DEF spaces
    <3>2. QED BY <1>8, <3>1, GreatestOf
  <2>3. m \in spaces /\ \A j \in spaces : j <= m
    <3> HIDE DEF spaces
    <3>1. QED BY <2>2
  <2> HIDE DEF m
  <2>4. m \in 1..n /\ x[m] = " " BY <2>3
  <2>5. \A j \in 1..Len(x) : x[j] = " " => j <= m BY <1>1, <2>3
  <2>6. Printed(x, m) BY <1>8, <2>4, <2>5 DEF Printed
  <2>7. m \in 0..Len(x)
    <3>1. 1..n \subseteq 0..n OBVIOUS
    <3>2. QED BY ONLY <1>1, <2>4, <3>1
  <2>8. QED BY <2>1, <2>6, <2>7
<1>9. QED BY <1>6, <1>7, <1>8

(* The last character may still change, and it is never printed.           *)
LEMMA PrintedBeforeLast ==
  ASSUME NEW W, NEW x \in Seq(W), Half(x), NEW m \in 0..Len(x), Printed(x, m)
  PROVE  m = 0 \/ m <= Len(x) - 1
<1>1. PICK n \in Nat : n = Len(x) OBVIOUS
<1>2. CASE Wide(x) BY <1>1, <1>2 DEF Printed
<1>3. CASE ~Wide(x) /\ m # 0
  <2>1. x[m] = " " BY <1>3 DEF Printed
  <2>2. Replacement # " " BY DEF Replacement
  <2>3. x # <<>>
    <3>1. Len(<<>>) = 0 OBVIOUS
    <3>2. n # 0 BY <1>1, <1>3
    <3>3. QED BY <1>1, <3>1, <3>2
  <2>4. x[n] = Replacement BY <1>1, <2>3 DEF Half
  <2>5. m # n BY <2>1, <2>2, <2>4
  <2>6. QED BY <1>1, <2>5
<1>4. QED BY <1>2, <1>3

(* What is printed of a text is the beginning of a longer one.             *)
LEMMA PrintedStays ==
  ASSUME NEW W, NEW x \in Seq(W), NEW y \in Seq(W), NEW z \in Seq(W), NEW d \in {0, 1},
         JoinAt(x, y, z, d), Half(x), NEW m \in 0..Len(x), Printed(x, m)
  PROVE  m <= Len(z) /\ \A i \in 1..m : z[i] = x[i]
<1>1. PICK k \in Nat : k = Len(x) OBVIOUS
<1>2. PICK n \in Nat : n = Len(y) OBVIOUS
<1>3. m = 0 \/ m <= k - 1 BY <1>1, PrintedBeforeLast
<1>4. Len(z) = k + n - d /\ (d = 1 => n >= 1 /\ k >= 1) /\ \A i \in 1..(k - d) : z[i] = x[i]
  BY <1>1, <1>2 DEF JoinAt
<1>5. \A i \in 1..m : i \in 1..(k - d) BY <1>3, <1>4
<1>6. m <= Len(z) BY <1>1, <1>3, <1>4
<1>7. QED BY <1>4, <1>5, <1>6

(* After a CJK character and a half there is something to print.           *)
PrintsBehind(x, y) == Wide(x) => Wide(y) \/ \E i \in DOMAIN y : y[i] = " "

(* And it gets longer, when the text that joins has something to print.    *)
LEMMA PrintedGrows ==
  ASSUME NEW W, NEW x \in Seq(W), NEW y \in Seq(W), NEW z \in Seq(W), NEW d \in {0, 1},
         JoinAt(x, y, z, d), Half(x), Half(z), Replacement \notin Chinese,
         PrintsBehind(x, y),
         NEW m \in 0..Len(x), Printed(x, m), NEW l \in 0..Len(z), Printed(z, l)
  PROVE  m <= l
<1>1. PICK k \in Nat : k = Len(x) OBVIOUS
<1>2. PICK n \in Nat : n = Len(y) /\ DOMAIN y = 1..n OBVIOUS
<1>3. m = 0 \/ m <= k - 1 BY <1>1, PrintedBeforeLast
<1>4. /\ Len(z) = k + n - d
      /\ d = 1 => n >= 1 /\ k >= 1 /\ y[1] = Replacement
      /\ \A i \in 1..(k - d) : z[i] = x[i]
      /\ \A j \in (1 + d)..n : z[k + j - d] = y[j]
  BY <1>1, <1>2 DEF JoinAt
<1>5. Replacement # " " BY DEF Replacement
<1>6. SUFFICES ASSUME m # 0 PROVE m <= l
  OBVIOUS
<1>7. m <= k - 1 /\ m >= 1 BY <1>3, <1>6
<1>8. CASE Wide(z)
  <2>1. l = Len(z) - 1 BY <1>8 DEF Printed
  <2>2. Len(z) >= k BY <1>4
  <2>3. QED BY <1>4, <1>7, <2>1, <2>2
<1>9. CASE ~Wide(z) /\ ~Wide(x)
  <2>1. x[m] = " " BY <1>6, <1>9 DEF Printed
  <2>2. m \in 1..(k - d) /\ m \in 1..(k + n - d) BY <1>4, <1>7
  <2>3. z[m] = " " BY <1>4, <2>1, <2>2
  <2>4. \A j \in 1..Len(z) : z[j] = " " => j <= l BY <1>9 DEF Printed
  <2>5. QED BY <1>4, <2>2, <2>3, <2>4
<1>10. CASE ~Wide(z) /\ Wide(x)
  <2>1. \A j \in 1..Len(z) : z[j] = " " => j <= l BY <1>10 DEF Printed
  <2>2. CASE Wide(y)
    <3>1. n > 1 /\ y[n] = Replacement /\ y[n - 1] \in Chinese BY <1>2, <2>2 DEF Wide
    <3>2. d = 1 => n # 2 BY <1>4, <3>1
    <3>3. n \in (1 + d)..n /\ n - 1 \in (1 + d)..n BY <3>1, <3>2
    <3>4. z[k + n - d] = y[n] /\ z[k + (n - 1) - d] = y[n - 1] BY <1>4, <3>3
    <3>5. Len(z) > 1 /\ k + (n - 1) - d = Len(z) - 1 BY <1>4, <1>7, <3>1
    <3>6. Wide(z) BY <1>4, <3>1, <3>4, <3>5 DEF Wide
    <3>7. QED BY <1>10, <3>6
  <2>3. CASE \E i \in DOMAIN y : y[i] = " "
    <3>1. PICK j \in 1..n : y[j] = " " BY <1>2, <2>3
    <3>2. d = 1 => j # 1 BY <1>4, <1>5, <3>1
    <3>3. j \in (1 + d)..n BY <3>2
    <3>4. z[k + j - d] = " " /\ k + j - d \in 1..(k + n - d)
      <4>1. z[k + j - d] = y[j] BY <1>4, <3>3
      <4>2. j \in Nat /\ 1 + d <= j /\ j <= n BY <3>3
      <4>3. k + j - d \in 1..(k + n - d) BY ONLY <1>1, <1>2, <4>2, d \in {0, 1}, k \in Nat, n \in Nat
      <4>4. QED BY <3>1, <4>1, <4>3
    <3>5. k + j - d <= l BY <1>4, <2>1, <3>4
    <3>6. QED BY <1>7, <3>3, <3>5
  <2>4. QED BY <1>10, <2>2, <2>3 DEF PrintsBehind
<1>11. QED BY <1>8, <1>9, <1>10

(* Tokens a + 1 to b of a sequence of tokens, and what they stand for.     *)
Between(k, a, b) == SubSeq(k, a + 1, b)
Behind(k, a, b) == S!FlattenSeq(Between(k, a, b))

LEMMA BetweenIs ==
  ASSUME NEW D, NEW k \in Seq(D), NEW a \in Nat, NEW b \in Nat, a <= b, b <= Len(k)
  PROVE  /\ Between(k, a, b) \in Seq(D) /\ Len(Between(k, a, b)) = b - a
         /\ \A i \in 1..(b - a) : Between(k, a, b)[i] = k[a + i]
<1>1. PICK n \in Nat : n = Len(k) /\ \A i \in 1..n : k[i] \in D OBVIOUS
<1>2. \A i \in (a + 1)..b : k[i] \in D BY <1>1
<1>3. a + 1 \in Int /\ b \in Int OBVIOUS
<1>4. /\ SubSeq(k, a + 1, b) \in Seq(D)
      /\ Len(SubSeq(k, a + 1, b)) = IF a + 1 <= b THEN b - (a + 1) + 1 ELSE 0
      /\ \A i \in 1..(b - (a + 1) + 1) : SubSeq(k, a + 1, b)[i] = k[(a + 1) + i - 1]
  BY <1>2, <1>3, SubSeqProperties
<1>5. b - (a + 1) + 1 = b - a /\ (~(a + 1 <= b) => b - a = 0) OBVIOUS
<1>6. \A i \in 1..(b - a) : (a + 1) + i - 1 = a + i OBVIOUS
<1>7. QED BY <1>4, <1>5, <1>6 DEF Between

LEMMA BetweenSplits ==
  ASSUME NEW D, NEW k \in Seq(D), NEW a \in Nat, NEW b \in Nat, NEW c \in Nat,
         a <= b, b <= c, c <= Len(k)
  PROVE  Between(k, a, c) = Between(k, a, b) \o Between(k, b, c)
<1>1. PICK x \in Seq(D) : x = Between(k, a, b) BY BetweenIs
<1>2. PICK y \in Seq(D) : y = Between(k, b, c) BY BetweenIs
<1>3. PICK z \in Seq(D) : z = Between(k, a, c) BY BetweenIs
<1>4. b <= Len(k) /\ a <= c
  <2>1. Len(k) \in Nat OBVIOUS
  <2>2. QED BY <2>1
<1>5. Len(x) = b - a /\ \A i \in 1..(b - a) : x[i] = k[a + i] BY <1>1, <1>4, BetweenIs
<1>6. Len(y) = c - b /\ \A i \in 1..(c - b) : y[i] = k[b + i] BY <1>2, BetweenIs
<1>7. Len(z) = c - a /\ \A i \in 1..(c - a) : z[i] = k[a + i] BY <1>3, <1>4, BetweenIs
<1>8. PICK v \in Seq(D) : v = x \o y BY ConcatProperties
<1>9. /\ Len(v) = (b - a) + (c - b)
      /\ \A i \in 1..((b - a) + (c - b)) : v[i] = IF i <= b - a THEN x[i] ELSE y[i - (b - a)]
  <2>1. /\ Len(v) = Len(x) + Len(y)
        /\ \A i \in 1..(Len(x) + Len(y)) : v[i] = IF i <= Len(x) THEN x[i] ELSE y[i - Len(x)]
    BY ONLY x \in Seq(D), y \in Seq(D), <1>8, ConcatProperties
  <2>2. QED BY ONLY <2>1, <1>5, <1>6
<1>10. (b - a) + (c - b) = c - a /\ c - a \in Nat OBVIOUS
<1>11. ASSUME NEW i \in 1..(c - a) PROVE z[i] = v[i]
  <2>1. CASE i <= b - a
    <3>1. i \in 1..(b - a) BY <2>1
    <3>2. v[i] = x[i] BY <1>9, <1>10, <2>1
    <3>3. QED BY <1>5, <1>7, <3>1, <3>2
  <2>2. CASE ~(i <= b - a)
    <3>1. i - (b - a) \in 1..(c - b) /\ b + (i - (b - a)) = a + i BY <2>2
    <3>2. v[i] = y[i - (b - a)] BY <1>9, <1>10, <2>2
    <3>3. y[i - (b - a)] = k[a + i] BY <1>6, <3>1
    <3>4. QED BY <1>7, <3>2, <3>3
  <2>3. QED BY <2>1, <2>2
<1>12. z = v BY <1>7, <1>9, <1>10, <1>11, SequencesEqual
<1>13. QED BY <1>1, <1>2, <1>3, <1>8, <1>12

LEMMA BetweenSame ==
  ASSUME NEW D, NEW k \in Seq(D)
  PROVE  /\ Between(k, 0, Len(k)) = k
         /\ \A a \in Nat : Between(k, a, a) = <<>>
<1>1. PICK n \in Nat : n = Len(k) OBVIOUS
<1>2. PICK z \in Seq(D) : z = Between(k, 0, n) BY <1>1, BetweenIs
<1>3. Len(z) = n /\ \A i \in 1..n : z[i] = k[i]
  <2>1. Len(z) = n - 0 /\ \A i \in 1..(n - 0) : z[i] = k[0 + i]
    <3>1. 0 \in Nat /\ 0 <= n /\ n <= Len(k) BY <1>1
    <3>2. QED BY <1>2, <3>1, BetweenIs
  <2>2. QED BY <2>1
<1>4. z = k BY <1>1, <1>3, SequencesEqual
<1>5. ASSUME NEW a \in Nat PROVE Between(k, a, a) = <<>>
  <2>1. a < a + 1 OBVIOUS
  <2>2. QED BY <2>1, SubSeqEmpty DEF Between
<1>6. QED BY <1>1, <1>2, <1>4, <1>5

(* One token more.                                                         *)
LEMMA BetweenMore ==
  ASSUME NEW D, NEW k \in Seq(D), NEW t \in D, NEW m, m = Len(k)
  PROVE  /\ \A a, b \in Nat : a <= b /\ b <= m => Between(Append(k, t), a, b) = Between(k, a, b)
         /\ Between(Append(k, t), m, m + 1) = <<t>>
<1>1. m \in Nat OBVIOUS
<1>2. PICK l \in Seq(D) : l = Append(k, t) BY OneMore
<1>3. Len(l) = m + 1 /\ l[m + 1] = t /\ \A i \in 1..m : l[i] = k[i] BY <1>2, OneMore
<1>4. ASSUME NEW a \in Nat, NEW b \in Nat, a <= b, b <= m PROVE Between(l, a, b) = Between(k, a, b)
  <2>1. PICK x \in Seq(D) : x = Between(l, a, b) BY <1>1, <1>3, <1>4, BetweenIs
  <2>2. PICK y \in Seq(D) : y = Between(k, a, b) BY <1>4, BetweenIs
  <2>3. b <= Len(l) BY <1>1, <1>3, <1>4
  <2>4. Len(x) = b - a /\ \A i \in 1..(b - a) : x[i] = l[a + i] BY <1>4, <2>1, <2>3, BetweenIs
  <2>5. Len(y) = b - a /\ \A i \in 1..(b - a) : y[i] = k[a + i] BY <1>4, <2>2, BetweenIs
  <2>6. \A i \in 1..(b - a) : a + i \in 1..m BY <1>1, <1>4
  <2>7. \A i \in 1..(b - a) : x[i] = y[i] BY <1>3, <2>4, <2>5, <2>6
  <2>8. x = y BY <2>4, <2>5, <2>7, SequencesEqual
  <2>9. QED BY <2>1, <2>2, <2>8
<1>5. Between(l, m, m + 1) = <<t>>
  <2>1. PICK x \in Seq(D) : x = Between(l, m, m + 1) BY <1>1, <1>3, BetweenIs
  <2>2. (m + 1) - m = 1 /\ m <= m + 1 BY <1>1
  <2>9. m + 1 \in Nat /\ m + 1 <= Len(l) BY <1>1, <1>3
  <2>10. Len(x) = (m + 1) - m /\ \A i \in 1..((m + 1) - m) : x[i] = l[m + i]
    <3>1. PICK n \in Nat : n = m + 1 BY <2>9
    <3>2. m <= n /\ n <= Len(l) /\ x = Between(l, m, n) BY <2>1, <2>2, <2>9, <3>1
    <3>4. l \in Seq(D) /\ n \in Nat OBVIOUS
    <3>3. Len(x) = n - m /\ \A i \in 1..(n - m) : x[i] = l[m + i]
      BY ONLY <1>1, <3>2, <3>4, BetweenIs
    <3>5. QED BY ONLY <3>1, <3>3
  <2>3. Len(x) = 1 /\ \A i \in 1..1 : x[i] = l[m + i] BY ONLY <2>2, <2>10
  <2>4. x[1] = t BY <1>3, <2>3
  <2>5. <<t>> \in Seq(D) /\ Len(<<t>>) = 1 /\ <<t>>[1] = t BY Single
  <2>6. \A i \in 1..1 : x[i] = <<t>>[i] BY <2>4, <2>5
  <2>7. x = <<t>> BY <2>3, <2>5, <2>6, SequencesEqual
  <2>8. QED BY <2>1, <2>7
<1>6. QED BY <1>2, <1>4, <1>5

(* The tokens between two offsets are sequences of the symbols, and are put*)
(* together at the offsets.                                                *)
LEMMA SeqSub ==
  ASSUME NEW A, NEW B, A \subseteq B, NEW s \in Seq(A)
  PROVE  s \in Seq(B)
<1>1. PICK n \in Nat : n = Len(s) OBVIOUS
<1>2. s \in [1..n -> B] BY <1>1
<1>3. QED BY <1>2

LEMMA BehindTyped ==
  ASSUME VocabOK, NEW k \in Seq(Vocab), NEW a \in Nat, NEW b \in Nat, a <= b, b <= Len(k)
  PROVE  Between(k, a, b) \in Seq(Seq(Symbols)) /\ Behind(k, a, b) \in Seq(Symbols)
<1>1. PICK x \in Seq(Vocab) : x = Between(k, a, b) BY BetweenIs
<1>2. Vocab \subseteq Seq(Symbols) BY DEF VocabOK
<1>3. x \in Seq(Seq(Symbols)) BY <1>2, SeqSub
<1>4. S!FlattenSeq(x) \in Seq(Symbols) BY <1>3, FlattenTyped
<1>5. QED BY <1>1, <1>3, <1>4 DEF Behind

LEMMA BehindSplits ==
  ASSUME VocabOK, NEW k \in Seq(Vocab), NEW a \in Nat, NEW b \in Nat, NEW c \in Nat,
         a <= b, b <= c, c <= Len(k)
  PROVE  Behind(k, a, c) = Behind(k, a, b) \o Behind(k, b, c)
<1>1. b <= Len(k)
  <2>1. Len(k) \in Nat OBVIOUS
  <2>2. QED BY <2>1
<1>2. PICK x \in Seq(Seq(Symbols)) : x = Between(k, a, b) BY <1>1, BehindTyped
<1>3. PICK y \in Seq(Seq(Symbols)) : y = Between(k, b, c) BY BehindTyped
<1>4. Between(k, a, c) = x \o y BY <1>2, <1>3, BetweenSplits
<1>5. S!FlattenSeq(x \o y) = S!FlattenSeq(x) \o S!FlattenSeq(y) BY FlattenConcat
<1>6. QED BY <1>2, <1>3, <1>4, <1>5 DEF Behind

LEMMA VocabTyped ==
  ASSUME VocabOK, NEW t \in Vocab
  PROVE  t \in Seq(Symbols) /\ t # <<>> /\ Len(t) \in Nat /\ Len(t) > 0 /\ t[Len(t)] \in Symbols
<1>1. t \in Seq(Symbols) /\ t # <<>> BY DEF VocabOK
<1>2. Len(t) \in Nat /\ Len(t) # 0 BY <1>1, EmptySeq
<1>3. Len(t) \in 1..Len(t) BY <1>2
<1>4. t[Len(t)] \in Symbols BY <1>1, <1>3
<1>5. QED BY <1>1, <1>2, <1>4

(* The same with one token more, and with one token less.                  *)
LEMMA BehindMore ==
  ASSUME VocabOK, NEW k \in Seq(Vocab), NEW t \in Vocab, NEW a \in Nat, NEW m \in Nat, m = Len(k), a <= m
  PROVE  Behind(Append(k, t), a, m + 1) = Behind(k, a, m) \o t
<1>1. PICK l \in Seq(Vocab) : l = Append(k, t) BY OneMore
<1>2. Len(l) = m + 1 BY <1>1, OneMore
<1>3. m <= m + 1 /\ m + 1 <= Len(l) /\ m + 1 \in Nat BY <1>2
<1>4. Behind(l, a, m + 1) = Behind(l, a, m) \o Behind(l, m, m + 1) BY <1>3, BehindSplits
<1>5. Between(l, a, m) = Between(k, a, m) /\ Between(l, m, m + 1) = <<t>> BY <1>1, BetweenMore
<1>6. S!FlattenSeq(<<t>>) = t BY VocabTyped, FlattenOne
<1>7. QED BY <1>1, <1>4, <1>5, <1>6 DEF Behind

LEMMA BehindLast ==
  ASSUME VocabOK, NEW k \in Seq(Vocab), NEW a \in Nat, NEW b \in Nat, a < b, b <= Len(k)
  PROVE  /\ b - 1 \in Nat /\ a <= b - 1 /\ k[b] \in Vocab
         /\ Behind(k, a, b) = Behind(k, a, b - 1) \o k[b]
<1>1. PICK c \in Nat : b = c + 1 /\ a <= c
  <2>1. b - 1 \in Nat /\ b = (b - 1) + 1 /\ a <= b - 1 OBVIOUS
  <2>2. QED BY <2>1
<1>2. PICK t \in Vocab : t = k[b]
  <2>1. b \in 1..Len(k) BY <1>1
  <2>2. QED BY <2>1
<1>3. c <= b /\ c <= Len(k) BY <1>1
<1>4. Behind(k, a, b) = Behind(k, a, c) \o Behind(k, c, b) BY <1>1, <1>3, BehindSplits
<1>5. PICK x \in Seq(Vocab) : x = Between(k, c, b) BY <1>3, BetweenIs
<1>6. Len(x) = b - c /\ \A i \in 1..(b - c) : x[i] = k[c + i] BY <1>3, <1>5, BetweenIs
<1>7. Len(x) = 1 /\ x[1] = t BY ONLY <1>1, <1>2, <1>6
<1>8. <<t>> \in Seq(Vocab) /\ Len(<<t>>) = 1 /\ <<t>>[1] = t BY Single
<1>9. \A i \in 1..1 : x[i] = <<t>>[i] BY <1>7, <1>8
<1>10. x = <<t>> BY <1>7, <1>8, <1>9, SequencesEqual
<1>11. S!FlattenSeq(<<t>>) = t BY VocabTyped, FlattenOne
<1>12. b - 1 = c BY <1>1
<1>13. QED BY <1>1, <1>2, <1>4, <1>5, <1>10, <1>11, <1>12 DEF Behind

----------------------------------------------------------------------------
(* read_offset is never behind the first half of a character, and never    *)
(* next to surr_offset.                                                    *)
Boundary(k, r) == r > 0 => k[r][Len(k[r])] # "lead"
Offsets(k, a, r) == /\ k \in Seq(Vocab) /\ a \in Nat /\ r \in Nat /\ r <= Len(k)
                    /\ a < r \/ (a = 0 /\ r = 0)
                    /\ Boundary(k, r)

(* The new text, from the tokens behind read_offset alone.                 *)
New(r, p) == IF r = 0 THEN DropSpace(TextOf(p)) ELSE TextOf(p)

LEMMA LastOf ==
  ASSUME NEW C, NEW p \in Seq(C), NEW t \in Seq(C), t # <<>>
  PROVE  p \o t # <<>> /\ (p \o t)[Len(p \o t)] = t[Len(t)]
<1>1. PICK z \in Seq(C) : z = p \o t BY ConcatProperties
<1>2. JoinAt(p, t, z, 0) BY <1>1, InARow
<1>3. PICK n \in Nat : n = Len(t) OBVIOUS
<1>4. PICK m \in Nat : m = Len(p) OBVIOUS
<1>5. n # 0 BY <1>3, EmptySeq
<1>6. Len(z) = m + n /\ z[m + n] = t[n] BY <1>2, <1>3, <1>4, <1>5 DEF JoinAt
<1>7. Len(z) # 0 BY <1>5, <1>6
<1>8. Len(<<>>) = 0 OBVIOUS
<1>9. QED BY <1>1, <1>3, <1>6, <1>7, <1>8

(* At read_offset no character is cut.                                     *)
LEMMA NotCut ==
  ASSUME VocabOK, NEW k \in Seq(Vocab), NEW a \in Nat, NEW r \in Nat, a < r, r <= Len(k), Boundary(k, r),
         NEW q
  PROVE  ~Meets(Behind(k, a, r), q) /\ Behind(k, a, r) # <<>>
<1>1. PICK c \in Nat : c = r - 1 /\ a <= c /\ c <= Len(k)
  <2>1. Len(k) \in Nat OBVIOUS
  <2>2. r - 1 \in Nat /\ a <= r - 1 /\ r - 1 <= Len(k) BY <2>1
  <2>3. QED BY <2>2
<1>2. PICK p \in Seq(Symbols) : p = Behind(k, a, c) BY <1>1, BehindTyped
<1>3. PICK t \in Vocab : t = k[r] BY BehindLast
<1>4. Behind(k, a, r) = p \o t BY <1>1, <1>2, <1>3, BehindLast
<1>5. t \in Seq(Symbols) /\ t # <<>> BY VocabTyped
<1>6. t[Len(t)] # "lead" BY <1>3 DEF Boundary
<1>7. p \o t # <<>> /\ (p \o t)[Len(p \o t)] = t[Len(t)] BY <1>5, LastOf
<1>8. QED BY <1>4, <1>6, <1>7 DEF Meets

(* detokenize, with what batch_decode gives it: the new text is that of    *)
(* the tokens behind read_offset, whatever surr_offset is.                 *)
LEMMA ReadIs ==
  ASSUME VocabOK, NEW k, NEW st, Offsets(k, st.surr, st.read)
  PROVE  /\ Read(st, k) = New(st.read, Behind(k, st.read, Len(k)))
         /\ Decode(k) = Decode(Between(k, 0, st.read)) \o Read(st, k)
         /\ Read(st, k) \in Seq(WithWhole(Symbols))
<1>1. PICK a \in Nat : a = st.surr BY DEF Offsets
<1>2. PICK r \in Nat : r = st.read BY DEF Offsets
<1>3. k \in Seq(Vocab) /\ r <= Len(k) /\ (a < r \/ (a = 0 /\ r = 0)) /\ Boundary(k, r)
  BY <1>1, <1>2 DEF Offsets
<1>4. PICK m \in Nat : m = Len(k) BY <1>3
<1>5. r <= m /\ a <= r /\ a <= m BY <1>3, <1>4
<1>6. Read(st, k) = SubSeq(Decode(Between(k, a, m)), Len(Decode(Between(k, a, r))) + 1,
                           Len(Decode(Between(k, a, m))))
  BY <1>1, <1>2, <1>4 DEF Read, Between
<1>7. /\ Decode(Between(k, a, m)) = DropSpace(TextOf(Behind(k, a, m)))
      /\ Decode(Between(k, a, r)) = DropSpace(TextOf(Behind(k, a, r)))
      /\ Decode(Between(k, 0, r)) = DropSpace(TextOf(Behind(k, 0, r)))
      /\ Decode(Between(k, 0, m)) = DropSpace(TextOf(Behind(k, 0, m)))
  BY DecodeIs DEF Behind
<1>8. Between(k, 0, m) = k BY <1>3, <1>4, BetweenSame
<1> DEFINE W == WithWhole(Symbols)
<1>9. PICK q \in Seq(Symbols) : q = Behind(k, r, m) BY <1>3, <1>4, <1>5, BehindTyped
<1>10. PICK y \in Seq(W) : y = TextOf(q) BY TextTyped
<1>11. CASE r = 0
  <2>1. a = 0 BY <1>3, <1>11
  <2>2. Behind(k, 0, 0) = <<>> BY <1>3, BetweenSame, FlattenEmpty DEF Behind
  <2>3. DropSpace(TextOf(<<>>)) = <<>> BY TextEmpty DEF DropSpace
  <2>4. PICK z \in Seq(W) : z = DropSpace(y) BY DropTyped
  <2>5. Decode(Between(k, a, m)) = z /\ Decode(Between(k, a, r)) = <<>>
    BY <1>7, <1>9, <1>10, <1>11, <2>1, <2>2, <2>3, <2>4
  <2>6. <<>> \o z = z /\ <<>> \in Seq(W) OBVIOUS
  <2>7. SubSeq(z, Len(<<>>) + 1, Len(z)) = z BY ONLY <2>6, z \in Seq(W), CutBehind
  <2>8. Read(st, k) = z BY ONLY <1>6, <2>5, <2>7
  <2>9. Decode(k) = z /\ Decode(Between(k, 0, r)) = <<>> BY <1>8, <1>11, <2>1, <2>5
  <2>10. New(r, q) = z BY <1>10, <1>11, <2>4 DEF New
  <2>11. QED BY <1>2, <1>4, <1>9, <2>6, <2>8, <2>9, <2>10
<1>12. CASE r # 0
  <2>1. a < r /\ 0 < r BY <1>3, <1>12
  <2>2. ASSUME NEW b \in Nat, b < r
        PROVE  /\ DropSpace(TextOf(Behind(k, b, m))) = DropSpace(TextOf(Behind(k, b, r))) \o y
               /\ DropSpace(TextOf(Behind(k, b, r))) \in Seq(W)
    <3>1. b <= r BY <2>2
    <3>2. PICK p \in Seq(Symbols) : p = Behind(k, b, r) BY <1>3, <3>1, BehindTyped
    <3>3. Behind(k, b, m) = p \o q
      <4>1. VocabOK /\ k \in Seq(Vocab) /\ b <= r /\ r <= m /\ m <= Len(k) BY <1>3, <1>4, <1>5, <3>1
      <4>2. Behind(k, b, m) = Behind(k, b, r) \o Behind(k, r, m)
        BY ONLY <4>1, b \in Nat, r \in Nat, m \in Nat, BehindSplits
      <4>3. QED BY ONLY <1>9, <3>2, <4>2
    <3>4. ~Meets(p, q) /\ p # <<>> BY <1>3, <2>2, <3>2, NotCut
    <3>5. PICK x \in Seq(W) : x = TextOf(p) BY TextTyped
    <3>6. TextOf(p \o q) = x \o y BY <1>10, <3>4, <3>5, TextConcat
    <3>7. x # <<>> BY <3>4, <3>5, TextNotEmpty
    <3>8. DropSpace(x \o y) = DropSpace(x) \o y BY ONLY x \in Seq(W), y \in Seq(W), <3>7, DropConcat
    <3>9. DropSpace(x) \in Seq(W) BY DropTyped
    <3>10. QED BY ONLY <3>2, <3>3, <3>5, <3>6, <3>8, <3>9
  <2>3. PICK v \in Seq(W) : v = Decode(Between(k, a, r)) BY <1>7, <2>1, <2>2
  <2>4. Decode(Between(k, a, m)) = v \o y BY <1>7, <2>1, <2>2, <2>3
  <2>5. SubSeq(v \o y, Len(v) + 1, Len(v \o y)) = y BY ONLY v \in Seq(W), y \in Seq(W), CutBehind
  <2>6. Read(st, k) = y BY ONLY <1>6, <2>3, <2>4, <2>5
  <2>7. Decode(k) = Decode(Between(k, 0, r)) \o y BY <1>7, <1>8, <2>1, <2>2
  <2>8. New(r, q) = y BY <1>10, <1>12 DEF New
  <2>9. QED BY ONLY <1>2, <1>4, <1>9, <2>6, <2>7, <2>8, y \in Seq(W)
<1>13. QED BY <1>11, <1>12

(* The characters of a text.                                               *)
W == WithWhole(Symbols)

(* The new text with one token more: z is x and the text y of the token.   *)
NewJoins(x, z, t) ==
  \E d \in {0, 1}, y \in Seq(W) :
    /\ JoinAt(x, y, z, d)
    /\ y \in {TextOf(t), DropSpace(TextOf(t))}
    /\ x # <<>> => y = TextOf(t)
    /\ d = 1 => t[1] = "trail"

(* The new text grows by the text of the token.                            *)
LEMMA NewGrows ==
  ASSUME NEW r \in Nat, NEW p \in Seq(Symbols), NEW t \in Seq(Symbols)
  PROVE  NewJoins(New(r, p), New(r, p \o t), t)
<1>1. PICK q \in Seq(Symbols) : q = p \o t BY ConcatProperties
<1>2. PICK x \in Seq(W) : x = TextOf(p) BY TextTyped DEF W
<1>3. PICK y \in Seq(W) : y = TextOf(t) BY TextTyped DEF W
<1>4. PICK z \in Seq(W) : z = TextOf(q) BY TextTyped DEF W
<1>5. PICK d \in {0, 1} : JoinAt(x, y, z, d) /\ (d = 1 => Meets(p, t))
  BY <1>1, <1>2, <1>3, <1>4, TextJoin
<1>6. d = 1 => t[1] = "trail" BY <1>5 DEF Meets
<1>7. CASE r # 0
  <2>1. New(r, p) = x /\ New(r, q) = z BY <1>2, <1>4, <1>7 DEF New
  <2>2. NewJoins(x, z, t) BY <1>3, <1>5, <1>6 DEF NewJoins
  <2>3. QED BY <1>1, <2>1, <2>2
<1>8. CASE r = 0 /\ x # <<>>
  <2>1. New(r, p) = DropSpace(x) /\ New(r, q) = DropSpace(z) BY <1>2, <1>4, <1>8 DEF New
  <2>2. JoinAt(DropSpace(x), y, DropSpace(z), d) BY <1>5, <1>8, DropJoin
  <2>3. NewJoins(DropSpace(x), DropSpace(z), t) BY <1>3, <1>6, <2>2 DEF NewJoins
  <2>4. QED BY <1>1, <2>1, <2>3
<1>9. CASE r = 0 /\ x = <<>>
  <2>1. p = <<>> BY <1>2, <1>9, TextNotEmpty
  <2>2. q = t BY <1>1, <2>1
  <2>3. PICK v \in Seq(W) : v = DropSpace(y) BY DropTyped
  <2>4. New(r, p) = <<>> /\ New(r, q) = v
    <3>1. DropSpace(<<>>) = <<>> BY DEF DropSpace
    <3>2. QED BY <1>2, <1>3, <1>9, <2>2, <2>3, <3>1 DEF New
  <2>5. <<>> \in Seq(W) /\ v = <<>> \o v OBVIOUS
  <2>6. JoinAt(<<>>, v, v, 0) BY ONLY <2>5, v \in Seq(W), InARow
  <2>7. ~(0 = 1) /\ 0 \in {0, 1} /\ v \in {TextOf(t), DropSpace(TextOf(t))} BY <1>3, <2>3
  <2>8. NewJoins(<<>>, v, t) BY ONLY <2>6, <2>7, v \in Seq(W) DEF NewJoins
  <2>9. QED BY <1>1, <2>4, <2>8
<1>10. QED BY <1>7, <1>8, <1>9

(* When a CJK character comes before half a character at the end of a text *)
(* that grew, both are in the token.                                       *)
LEMMA WideIsCut ==
  ASSUME Replacement \notin Chinese, NEW x \in Seq(W), NEW z \in Seq(W), NEW t \in Seq(Symbols),
         t # <<>>, NewJoins(x, z, t), Half(x), Wide(z)
  PROVE  Cut(t)
<1>1. PICK d \in {0, 1}, y \in Seq(W) :
        /\ JoinAt(x, y, z, d)
        /\ y \in {TextOf(t), DropSpace(TextOf(t))}
        /\ x # <<>> => y = TextOf(t)
        /\ d = 1 => t[1] = "trail"
  BY DEF NewJoins
<1>2. PICK k \in Nat : k = Len(x) OBVIOUS
<1>3. PICK n \in Nat : n = Len(y) OBVIOUS
<1>4. /\ Len(z) = k + n - d
      /\ d = 1 => k >= 1 /\ n >= 1 /\ y[1] = Replacement /\ z[k] = "lead+trail"
      /\ \A i \in 1..(k - d) : z[i] = x[i]
      /\ \A j \in (1 + d)..n : z[k + j - d] = y[j]
  BY <1>1, <1>2, <1>3 DEF JoinAt
<1>5. k + n - d > 1 /\ z[k + n - d] = Replacement /\ z[k + n - d - 1] \in Chinese
  BY <1>4 DEF Wide
<1>6. k > 0 => x # <<>> /\ x[k] = Replacement
  <2>1. Len(<<>>) = 0 OBVIOUS
  <2>2. QED BY <1>2, <2>1 DEF Half
<1>7. "lead+trail" # Replacement BY DEF Replacement
<1>8. PICK T \in Seq(W) : T = TextOf(t) BY TextTyped DEF W
<1>9. CASE n >= 2 + d
  <2>1. n \in (1 + d)..n /\ n - 1 \in (1 + d)..n BY <1>9
  <2>2. z[k + n - d] = y[n] /\ z[k + (n - 1) - d] = y[n - 1] BY <1>4, <2>1
  <2>3. k + (n - 1) - d = k + n - d - 1 /\ n > 1 BY <1>9
  <2>4. y[n] = Replacement /\ y[n - 1] \in Chinese BY <1>5, <2>2, <2>3
  <2>5. Wide(y) BY <1>3, <2>3, <2>4 DEF Wide
  <2>6. Wide(T)
    <3>1. CASE y = T BY <2>5, <3>1
    <3>2. CASE y = DropSpace(T)
      <4>1. PICK e \in {0, 1} : DropAt(T, y, e) BY <3>2, DropIs
      <4>2. PICK l \in Nat : l = Len(T) OBVIOUS
      <4>3. n = l - e /\ \A i \in 1..n : y[i] = T[i + e] BY <1>3, <4>1, <4>2 DEF DropAt
      <4>4. n \in 1..n /\ n - 1 \in 1..n BY <2>3
      <4>5. y[n] = T[n + e] /\ y[n - 1] = T[(n - 1) + e] BY <4>3, <4>4
      <4>6. n + e = l /\ (n - 1) + e = l - 1 /\ l > 1 BY <2>3, <4>3
      <4>7. T[l] = Replacement /\ T[l - 1] \in Chinese BY <2>4, <4>5, <4>6
      <4>8. QED BY <4>2, <4>6, <4>7 DEF Wide
    <3>3. QED BY <1>1, <1>8, <3>1, <3>2
  <2>7. QED BY <1>8, <2>6 DEF Cut
<1>10. CASE ~(n >= 2 + d)
  <2>1. n = d \/ n = 1 + d BY <1>4, <1>10
  <2>2. CASE n = d
    <3>1. d = 0 => k + n - d = k BY <2>2
    <3>2. CASE d = 1
      <4>1. k + n - d = k BY <2>2
      <4>2. QED BY <1>4, <1>5, <1>7, <3>2, <4>1
    <3>3. CASE d = 0
      <4>1. k + n - d - 1 \in 1..(k - d) /\ k + n - d = k /\ k > 1 BY <1>5, <2>2, <3>3
      <4>2. y = <<>> BY <1>3, <2>2, <3>3, EmptySeq
      <4>3. x # <<>> BY <1>6, <4>1
      <4>4. T = <<>> BY <1>1, <1>8, <4>2, <4>3
      <4>5. QED BY <1>8, <4>4, TextNotEmpty
    <3>4. QED BY <3>2, <3>3
  <2>3. CASE n = 1 + d
    <3>1. CASE d = 0
      <4>1. k + n - d - 1 = k /\ k \in 1..(k - d) /\ k > 0 BY <1>5, <2>3, <3>1
      <4>2. z[k] = x[k] BY <1>4, <4>1
      <4>3. x[k] \in Chinese BY <1>5, <4>1, <4>2
      <4>4. QED BY <1>6, <4>1, <4>3
    <3>2. CASE d = 1
      <4>1. k + n - d - 1 = k /\ k + n - d = k + 1 /\ n = 2 BY <2>3, <3>2
      <4>2. "lead+trail" \in Chinese BY <1>4, <1>5, <3>2, <4>1
      <4>3. n \in (1 + d)..n /\ k + n - d = k + 1 BY <3>2, <4>1
      <4>4. y[2] = Replacement BY <1>4, <1>5, <4>1, <4>3
      <4>5. k > 0 BY <1>4, <3>2
      <4>6. y = T BY <1>1, <1>6, <1>8, <4>5
      <4>7. t[1] = "trail" BY <1>1, <3>2
      <4>8. QED BY <1>3, <1>8, <4>1, <4>2, <4>4, <4>6, <4>7 DEF Cut
    <3>3. QED BY <3>1, <3>2
  <2>4. QED BY <2>1, <2>2, <2>3
<1>11. QED BY <1>9, <1>10

(* And when it still ends in half a character with the next token, the     *)
(* last two tokens do.                                                     *)
LEMMA StillHalf ==
  ASSUME VocabOK, NEW k \in Seq(Vocab), NEW r \in Nat, NEW m \in Nat, m = Len(k), r < m,
         NEW t \in Vocab, Cut(k[m]),
         Half(New(r, Behind(k, r, m) \o t)), New(r, Behind(k, r, m) \o t) # <<>>
  PROVE  ~Complete(TextOf(k[m] \o t))
<1>1. PICK l \in Vocab : l = k[m] BY BehindLast
<1>2. m - 1 \in Nat /\ r <= m - 1 /\ Behind(k, r, m) = Behind(k, r, m - 1) \o l
  <2>1. VocabOK /\ k \in Seq(Vocab) /\ r < m /\ m <= Len(k) OBVIOUS
  <2>2. /\ m - 1 \in Nat /\ r <= m - 1 /\ k[m] \in Vocab
        /\ Behind(k, r, m) = Behind(k, r, m - 1) \o k[m]
    BY ONLY <2>1, r \in Nat, m \in Nat, BehindLast
  <2>3. QED BY <1>1, <2>2
<1>3. PICK p \in Seq(Symbols) : p = Behind(k, r, m - 1)
  <2>1. m - 1 <= Len(k) OBVIOUS
  <2>2. QED BY <1>2, <2>1, BehindTyped
<1>4. l \in Seq(Symbols) /\ t \in Seq(Symbols) /\ l # <<>> /\ t # <<>> BY VocabTyped
<1>5. PICK q \in Seq(Symbols) : q = l \o t BY <1>4, ConcatProperties
<1>6. PICK v \in Seq(Symbols) : v = p \o q BY ConcatProperties
<1>7. Behind(k, r, m) \o t = v
  <2>1. (p \o l) \o t = p \o (l \o t) BY ONLY p \in Seq(Symbols), <1>4, ConcatAssociative
  <2>2. QED BY ONLY <1>2, <1>3, <1>5, <1>6, <2>1
<1>8. PICK x \in Seq(W) : x = TextOf(p) BY TextTyped DEF W
<1>9. PICK y \in Seq(W) : y = TextOf(q) BY TextTyped DEF W
<1>10. PICK z \in Seq(W) : z = TextOf(v) BY TextTyped DEF W
<1>11. PICK a \in Seq(W) : a = TextOf(l) BY <1>4, TextTyped DEF W
<1>12. PICK b \in Seq(W) : b = TextOf(t) BY <1>4, TextTyped DEF W
<1>13. PICK d \in {0, 1} : JoinAt(x, y, z, d) BY <1>6, <1>8, <1>9, <1>10, TextJoin
<1>14. PICK e \in {0, 1} : JoinAt(a, b, y, e) BY <1>4, <1>5, <1>9, <1>11, <1>12, TextJoin
<1>15. Len(a) >= 2
  <2>1. Cut(l) BY <1>1
  <2>2. Len(a) > 1 \/ Len(a) = 2 BY <1>11, <2>1 DEF Cut, Wide
  <2>3. PICK g \in Nat : g = Len(a) OBVIOUS
  <2>4. g > 1 \/ g = 2 BY ONLY <2>2, <2>3
  <2>5. g >= 2 BY <2>4
  <2>6. QED BY <2>3, <2>5
<1>16. PICK n \in Nat : n = Len(y) /\ n >= 2
  <2>1. PICK g \in Nat : g = Len(a) /\ g >= 2 BY <1>15
  <2>2. PICK h \in Nat : h = Len(b) OBVIOUS
  <2>3. Len(y) = g + h - e /\ (e = 1 => h >= 1) BY <1>14, <2>1, <2>2 DEF JoinAt
  <2>4. Len(y) \in Nat /\ Len(y) >= 2 BY ONLY <2>1, <2>3, h \in Nat, g \in Nat, e \in {0, 1}
  <2>5. QED BY ONLY <2>4
<1>17. PICK i \in Nat : i = Len(z) /\ i >= 1 /\ z[i] = y[n]
  <2>1. PICK j \in Nat : j = Len(x) OBVIOUS
  <2>2. Len(z) = j + n - d /\ \A h \in (1 + d)..n : z[j + h - d] = y[h]
    BY <1>13, <1>16, <2>1 DEF JoinAt
  <2>3. n \in (1 + d)..n BY <1>16
  <2>4. z[j + n - d] = y[n] /\ Len(z) = j + n - d BY <2>2, <2>3
  <2>5. j + n - d \in Nat /\ j + n - d >= 1 BY <1>16
  <2>6. QED BY <2>4, <2>5
<1>18. y[n] = Replacement
  <2>1. New(r, v) = z \/ New(r, v) = DropSpace(z) BY <1>10 DEF New
  <2>2. Half(New(r, v)) /\ New(r, v) # <<>> BY <1>7
  <2>3. CASE New(r, v) = z BY <1>17, <2>2, <2>3 DEF Half
  <2>4. CASE New(r, v) = DropSpace(z)
    <3>1. PICK w \in Seq(W) : w = DropSpace(z) BY DropTyped
    <3>2. PICK f \in {0, 1} : DropAt(z, w, f) BY <3>1, DropIs
    <3>3. PICK h \in Nat : h = Len(w) OBVIOUS
    <3>4. h = i - f /\ \A g \in 1..h : w[g] = z[g + f] BY <1>17, <3>2, <3>3 DEF DropAt
    <3>5. h # 0 /\ w[h] = Replacement
      <4>1. w # <<>> /\ Half(w) BY <2>2, <2>4, <3>1
      <4>2. h # 0 BY <3>3, <4>1, EmptySeq
      <4>3. QED BY <3>3, <4>1, <4>2 DEF Half
    <3>6. h \in 1..h /\ h + f = i BY <3>4, <3>5
    <3>7. w[h] = z[i] BY <3>4, <3>6
    <3>8. QED BY <1>17, <3>5, <3>7
  <2>5. QED BY <2>1, <2>3, <2>4
<1>19. QED BY <1>1, <1>5, <1>9, <1>16, <1>18 DEF Complete

----------------------------------------------------------------------------
(* What a DecodeStatus says of the tokens so far and of what was sent.     *)
StatusType == [ids : Seq(Vocab), str : Seq(W), read : Nat, surr : Nat, sent : Nat]
Told(st, k, out) ==
  /\ st \in StatusType /\ st.ids = k /\ Offsets(k, st.surr, st.read)
  /\ st.str = Decode(Between(k, 0, st.read))
  /\ Half(Read(st, k))
  /\ Wide(Read(st, k)) => Cut(k[Len(k)])
  /\ out = st.str \o FindPrintableText(Read(st, k))
  /\ st.sent = Len(out)

(* At the beginning nothing is said.                                       *)
LEMMA NothingPrinted == FindPrintableText(<<>>) = <<>>
<1>1. <<>> \in Seq({}) /\ Len(<<>>) = 0 OBVIOUS
<1>2. QED BY <1>1 DEF FindPrintableText

LEMMA ToldFirst == VocabOK => Told(NewStatus, <<>>, <<>>)
<1>1. <<>> \in Seq(Vocab) /\ <<>> \in Seq(W) /\ Len(<<>>) = 0 OBVIOUS
<1>2. NewStatus \in StatusType BY <1>1 DEF NewStatus, StatusType
<1>3. /\ NewStatus.ids = <<>> /\ NewStatus.str = <<>> /\ NewStatus.read = 0 /\ NewStatus.surr = 0
      /\ NewStatus.sent = 0
  BY DEF NewStatus
<1>4. Offsets(<<>>, 0, 0) BY <1>1 DEF Offsets, Boundary
<1>5. Between(<<>>, 0, 0) = <<>> BY <1>1, BetweenSame
<1>6. Decode(<<>>) = <<>>
  <2>1. DropSpace(<<>>) = <<>> BY DEF DropSpace
  <2>2. QED BY <2>1, DecodeIs, FlattenEmpty, TextEmpty
<1>7. SUFFICES ASSUME VocabOK PROVE Told(NewStatus, <<>>, <<>>)
  OBVIOUS
<1>8. Read(NewStatus, <<>>) = <<>>
  <2>1. Offsets(<<>>, NewStatus.surr, NewStatus.read) BY <1>3, <1>4
  <2>5. Read(NewStatus, <<>>) = New(NewStatus.read, Behind(<<>>, NewStatus.read, Len(<<>>)))
    BY ONLY VocabOK, <2>1, ReadIs
  <2>2. Read(NewStatus, <<>>) = New(0, Behind(<<>>, 0, 0)) BY ONLY <1>1, <1>3, <2>5
  <2>3. New(0, <<>>) = <<>>
    <3>1. DropSpace(<<>>) = <<>> BY DEF DropSpace
    <3>2. QED BY <3>1, TextEmpty DEF New
  <2>4. QED BY <1>5, <2>2, <2>3, FlattenEmpty DEF Behind
<1>9. Half(<<>>) /\ ~Wide(<<>>) BY <1>1 DEF Half, Wide
<1>10. <<>> \o <<>> = <<>> OBVIOUS
<1>11. QED BY <1>1, <1>2, <1>3, <1>4, <1>5, <1>6, <1>8, <1>9, <1>10, NothingPrinted DEF Told

(* What was sent, with what is new of a longer text, is that text.         *)
LEMMA Continued ==
  ASSUME NEW A, NEW a \in Seq(A), NEW b \in Seq(A), Len(a) <= Len(b), \A i \in 1..Len(a) : b[i] = a[i]
  PROVE  a \o SubSeq(b, Len(a) + 1, Len(b)) = b
<1>1. PICK m \in Nat : m = Len(a) OBVIOUS
<1>2. PICK n \in Nat : n = Len(b) OBVIOUS
<1>3. PICK c \in Seq(A) : c = Between(b, m, n) BY <1>1, <1>2, BetweenIs
<1>4. Len(c) = n - m /\ \A i \in 1..(n - m) : c[i] = b[m + i]
  <2>1. m <= n /\ n <= Len(b) BY <1>1, <1>2
  <2>2. QED BY ONLY <1>3, <2>1, m \in Nat, n \in Nat, b \in Seq(A), BetweenIs
<1>5. PICK d \in Nat : d = n - m /\ n = m + d
  <2>1. n - m \in Nat /\ n = m + (n - m) BY <1>1, <1>2
  <2>2. QED BY <2>1
<1>6. PICK z \in Seq(A) : z = a \o c BY ConcatProperties
<1>7. Len(z) = m + d /\ \A i \in 1..(m + d) : z[i] = IF i <= m THEN a[i] ELSE c[i - m]
  BY <1>1, <1>4, <1>5, <1>6, ConcatProperties
<1>8. ASSUME NEW i \in 1..n PROVE z[i] = b[i]
  <2>1. CASE i <= m
    <3>1. i \in 1..m BY <2>1
    <3>2. QED BY <1>1, <1>5, <1>7, <2>1, <3>1
  <2>2. CASE ~(i <= m)
    <3>1. i - m \in 1..(n - m) /\ m + (i - m) = i BY <1>5, <2>2
    <3>2. c[i - m] = b[i] BY <1>4, <3>1
    <3>3. QED BY <1>5, <1>7, <2>2, <3>2
  <2>3. QED BY <2>1, <2>2
<1>9. z = b BY <1>2, <1>5, <1>7, <1>8, SequencesEqual
<1>10. QED BY <1>1, <1>2, <1>3, <1>6, <1>9 DEF Between

(* Behind the decoded text, what is printed of the new text: the beginning *)
(* of what is printed later.                                               *)
LEMMA ContinuedBehind ==
  ASSUME NEW A, NEW s \in Seq(A), NEW x \in Seq(A), NEW z \in Seq(A), NEW m \in 0..Len(x),
         NEW l \in 0..Len(z), m <= l, \A i \in 1..m : z[i] = x[i], NEW out, out = s \o SubSeq(x, 1, m),
         NEW output, output = s \o SubSeq(z, 1, l)
  PROVE  /\ out \in Seq(A) /\ output \in Seq(A) /\ Len(out) <= Len(output)
         /\ \A i \in 1..Len(out) : output[i] = out[i]
<1>1. PICK g \in Nat : g = Len(s) OBVIOUS
<1>2. m \in Nat /\ l \in Nat OBVIOUS
<1>3. PICK v \in Seq(A) : v = SubSeq(x, 1, m) /\ Len(v) = m /\ \A i \in 1..m : v[i] = x[i]
  <2>1. 0 \in Nat /\ 0 <= m /\ m <= Len(x) OBVIOUS
  <2>2. /\ Between(x, 0, m) \in Seq(A) /\ Len(Between(x, 0, m)) = m - 0
        /\ \A i \in 1..(m - 0) : Between(x, 0, m)[i] = x[0 + i]
    BY ONLY <1>2, <2>1, x \in Seq(A), BetweenIs
  <2>3. Between(x, 0, m) = SubSeq(x, 1, m) BY DEF Between
  <2>4. m - 0 = m /\ \A i \in 1..m : 0 + i = i BY <1>2
  <2>5. QED BY ONLY <2>2, <2>3, <2>4
<1>4. PICK w \in Seq(A) : w = SubSeq(z, 1, l) /\ Len(w) = l /\ \A i \in 1..l : w[i] = z[i]
  <2>1. 0 \in Nat /\ 0 <= l /\ l <= Len(z) OBVIOUS
  <2>2. /\ Between(z, 0, l) \in Seq(A) /\ Len(Between(z, 0, l)) = l - 0
        /\ \A i \in 1..(l - 0) : Between(z, 0, l)[i] = z[0 + i]
    BY ONLY <1>2, <2>1, z \in Seq(A), BetweenIs
  <2>3. Between(z, 0, l) = SubSeq(z, 1, l) BY DEF Between
  <2>4. l - 0 = l /\ \A i \in 1..l : 0 + i = i BY <1>2
  <2>5. QED BY ONLY <2>2, <2>3, <2>4
<1>5. PICK a \in Seq(A) : a = s \o v BY ConcatProperties
<1>6. PICK b \in Seq(A) : b = s \o w BY ConcatProperties
<1>7. Len(a) = g + m /\ \A i \in 1..(g + m) : a[i] = IF i <= g THEN s[i] ELSE v[i - g]
  BY <1>1, <1>3, <1>5, ConcatProperties
<1>8. Len(b) = g + l /\ \A i \in 1..(g + l) : b[i] = IF i <= g THEN s[i] ELSE w[i - g]
  BY <1>1, <1>4, <1>6, ConcatProperties
<1>9. ASSUME NEW i \in 1..(g + m) PROVE b[i] = a[i]
  <2>1. i \in 1..(g + l) BY <1>2
  <2>2. CASE i <= g BY <1>7, <1>8, <2>1, <2>2
  <2>3. CASE ~(i <= g)
    <3>1. i - g \in 1..m /\ i - g \in 1..l BY <1>2, <2>3
    <3>2. v[i - g] = w[i - g] BY <1>3, <1>4, <3>1
    <3>3. QED BY <1>7, <1>8, <2>1, <2>3, <3>2
  <2>4. QED BY <2>2, <2>3
<1>10. Len(a) <= Len(b) BY <1>2, <1>7, <1>8
<1>11. out = a /\ output = b BY <1>3, <1>4, <1>5, <1>6
<1>12. QED BY <1>7, <1>9, <1>10, <1>11

(* A status and the tokens behind it, with one token more.                 *)
LEMMA ReadMore ==
  ASSUME VocabOK, NEW st \in StatusType, NEW k, Offsets(k, st.surr, st.read), NEW t \in Vocab
  PROVE  /\ Append(k, t) \in Seq(Vocab) /\ Len(Append(k, t)) = Len(k) + 1
         /\ Append(k, t)[Len(k) + 1] = t
         /\ Offsets(Append(k, t), st.surr, st.read)
         /\ NewJoins(Read(st, k), Read(st, Append(k, t)), t)
         /\ Read(st, k) \in Seq(W) /\ Read(st, Append(k, t)) \in Seq(W)
         /\ Decode(Append(k, t)) = Decode(Between(k, 0, st.read)) \o Read(st, Append(k, t))
         /\ Between(Append(k, t), 0, st.read) = Between(k, 0, st.read)
<1>1. k \in Seq(Vocab) BY DEF Offsets
<1>2. PICK r \in Nat : r = st.read BY DEF Offsets
<1>3. PICK m \in Nat : m = Len(k) BY <1>1
<1>4. r <= m BY <1>2, <1>3 DEF Offsets
<1>5. PICK l \in Seq(Vocab) : l = Append(k, t) BY <1>1, OneMore
<1>6. Len(l) = m + 1 /\ l[m + 1] = t /\ \A i \in 1..m : l[i] = k[i] BY <1>1, <1>3, <1>5, OneMore
<1>7. Boundary(l, r)
  <2>1. r > 0 => l[r] = k[r] BY <1>4, <1>6
  <2>2. Boundary(k, r) BY <1>2 DEF Offsets
  <2>3. QED BY <2>1, <2>2 DEF Boundary
<1>8. Offsets(l, st.surr, st.read) BY <1>2, <1>4, <1>6, <1>7 DEF Offsets
<1>9. /\ Read(st, k) = New(r, Behind(k, r, m)) /\ Read(st, k) \in Seq(W)
  BY <1>2, <1>3, ReadIs DEF W
<1>10. /\ Read(st, l) = New(r, Behind(l, r, m + 1)) /\ Read(st, l) \in Seq(W)
       /\ Decode(l) = Decode(Between(l, 0, r)) \o Read(st, l)
  BY <1>2, <1>6, <1>8, ReadIs DEF W
<1>11. Behind(l, r, m + 1) = Behind(k, r, m) \o t BY <1>1, <1>3, <1>4, <1>5, BehindMore
<1>12. PICK p \in Seq(Symbols) : p = Behind(k, r, m) BY <1>1, <1>3, <1>4, BehindTyped
<1>13. NewJoins(New(r, p), New(r, p \o t), t)
  <2>1. t \in Seq(Symbols) BY VocabTyped
  <2>2. QED BY <2>1, NewGrows
<1>14. Between(l, 0, r) = Between(k, 0, r)
  <2>1. \A a, b \in Nat : a <= b /\ b <= m => Between(l, a, b) = Between(k, a, b)
    BY <1>1, <1>3, <1>5, BetweenMore
  <2>2. 0 \in Nat /\ 0 <= r OBVIOUS
  <2>3. QED BY <1>4, <2>1, <2>2
<1>15. QED BY <1>2, <1>3, <1>5, <1>6, <1>8, <1>9, <1>10, <1>11, <1>12, <1>13, <1>14

(* The whole of a sequence.                                                *)
LEMMA AllOf ==
  ASSUME NEW A, NEW z \in Seq(A)
  PROVE  Len(z) \in 0..Len(z) /\ SubSeq(z, 1, Len(z)) = z
<1>1. Between(z, 0, Len(z)) = z BY BetweenSame
<1>2. QED BY <1>1 DEF Between

(* A text that is complete does not end in the first half of a character.  *)
LEMMA CompleteEnd ==
  ASSUME VocabOK, NEW r \in Nat, NEW p \in Seq(Symbols), NEW t \in Vocab, Complete(New(r, p \o t))
  PROVE  t[Len(t)] # "lead"
<1>1. SUFFICES ASSUME t[Len(t)] = "lead" PROVE FALSE
  OBVIOUS
<1>2. t \in Seq(Symbols) /\ t # <<>> BY VocabTyped
<1>3. PICK q \in Seq(Symbols) : q = p \o t BY <1>2, ConcatProperties
<1>4. q # <<>> /\ q[Len(q)] = "lead" BY <1>1, <1>2, <1>3, LastOf
<1>5. PICK c \in Symbols, u \in Seq(Symbols) : q = u \o <<c>> /\ c = q[Len(q)] BY <1>4, RestAndLast
<1>6. PICK v \in Seq(Symbols) : v = <<c>> /\ Len(v) = 1 /\ v[1] = "lead" BY <1>4, <1>5, Single
<1>7. ~Meets(u, v) BY <1>6 DEF Meets
<1>8. PICK x \in Seq(W) : x = TextOf(u) BY TextTyped DEF W
<1>9. PICK y \in Seq(W) : y = TextOf(v) BY TextTyped DEF W
<1>10. PICK z \in Seq(W) : z = TextOf(q) BY TextTyped DEF W
<1>11. y = <<Replacement>> BY <1>4, <1>5, <1>6, <1>9, TextOne
<1>12. z = x \o y BY <1>5, <1>6, <1>7, <1>8, <1>9, <1>10, TextConcat
<1>13. z # <<>> /\ z[Len(z)] = Replacement
  <2>1. Len(y) = 1 /\ y[1] = Replacement /\ y # <<>> BY <1>11
  <2>2. x \o y # <<>> /\ (x \o y)[Len(x \o y)] = y[Len(y)] BY <2>1, LastOf
  <2>3. QED BY <1>12, <2>1, <2>2
<1>14. CASE New(r, q) = z BY <1>3, <1>13, <1>14 DEF Complete
<1>15. CASE New(r, q) = DropSpace(z)
  <2>1. PICK w \in Seq(W) : w = DropSpace(z) BY DropTyped
  <2>2. PICK f \in {0, 1} : DropAt(z, w, f) BY <2>1, DropIs
  <2>3. PICK h \in Nat : h = Len(w) OBVIOUS
  <2>4. PICK i \in Nat : i = Len(z) OBVIOUS
  <2>5. h = i - f /\ \A g \in 1..h : w[g] = z[g + f] BY <2>2, <2>3, <2>4 DEF DropAt
  <2>6. w # <<>> /\ w[h] # Replacement BY <1>3, <1>15, <2>1, <2>3 DEF Complete
  <2>7. h # 0 BY <2>3, <2>6, EmptySeq
  <2>8. h \in 1..h /\ h + f = i BY <2>5, <2>7
  <2>9. w[h] = z[i] BY <2>5, <2>8
  <2>10. QED BY <1>13, <2>4, <2>6, <2>9
<1>16. QED BY <1>10, <1>14, <1>15 DEF New

(* The output of one message, and what it adds to what was sent.           *)
Output(st, k) ==
  st.str \o (IF Complete(Read(st, k)) THEN Read(st, k) ELSE FindPrintableText(Read(st, k)))

(* The fields of the next status.                                          *)
LEMMA IncrementIs ==
  ASSUME NEW st \in StatusType, NEW k \in Seq(Vocab), Output(st, k) \in Seq(W)
  PROVE  /\ Increment(st, k).text = SubSeq(Output(st, k), st.sent + 1, Len(Output(st, k)))
         /\ Increment(st, k).status \in StatusType
         /\ Increment(st, k).status.ids = k
         /\ Increment(st, k).status.sent = Len(Output(st, k))
         /\ Complete(Read(st, k)) => /\ Increment(st, k).status.str = Output(st, k)
                                     /\ Increment(st, k).status.surr = st.read
                                     /\ Increment(st, k).status.read = Len(k)
         /\ ~Complete(Read(st, k)) => /\ Increment(st, k).status.str = st.str
                                      /\ Increment(st, k).status.surr = st.surr
                                      /\ Increment(st, k).status.read = st.read
<1>1. PICK n \in Nat : n = Len(Output(st, k)) /\ Len(k) \in Nat OBVIOUS
<1>2. CASE Complete(Read(st, k))
  <2> DEFINE a == [st EXCEPT !.ids = k, !.str = Output(st, k), !.surr = st.read, !.read = Len(k)]
             b == [a EXCEPT !.sent = n]
  <2>1. /\ Increment(st, k).status = b
        /\ Increment(st, k).text = SubSeq(Output(st, k), st.sent + 1, n)
    BY <1>1, <1>2 DEF Increment, Advance, Output
  <2>2. /\ b \in StatusType /\ b.ids = k /\ b.sent = n /\ b.str = Output(st, k)
        /\ b.surr = st.read /\ b.read = Len(k)
    BY <1>1 DEF StatusType
  <2> HIDE DEF b
  <2>3. QED BY <1>1, <1>2, <2>1, <2>2
<1>3. CASE ~Complete(Read(st, k))
  <2> DEFINE a == [st EXCEPT !.ids = k]
             b == [a EXCEPT !.sent = n]
  <2>1. /\ Increment(st, k).status = b
        /\ Increment(st, k).text = SubSeq(Output(st, k), st.sent + 1, n)
    BY <1>1, <1>3 DEF Increment, Output
  <2>2. /\ b \in StatusType /\ b.ids = k /\ b.sent = n /\ b.str = st.str
        /\ b.surr = st.surr /\ b.read = st.read
    BY <1>1 DEF StatusType
  <2> HIDE DEF b
  <2>3. QED BY <1>1, <1>3, <2>1, <2>2
<1>4. QED BY <1>2, <1>3

(* read_str depends on the offsets and the tokens only.                    *)
LEMMA ReadAgain ==
  ASSUME NEW st, NEW s2, s2.surr = st.surr, s2.read = st.read, NEW k
  PROVE  Read(s2, k) = Read(st, k)
BY DEF Read

(* One token more, in a text that is complete with it.                     *)
LEMMA ToldComplete ==
  ASSUME VocabOK, NEW k, NEW st, NEW out, Told(st, k, out), NEW t \in Vocab,
         Complete(Read(st, Append(k, t)))
  PROVE  Told(Increment(st, Append(k, t)).status, Append(k, t), out \o Increment(st, Append(k, t)).text)
<1>1. st \in StatusType /\ Offsets(k, st.surr, st.read) /\ k \in Seq(Vocab)
  BY DEF Told, Offsets
<1>2. PICK r \in Nat : r = st.read /\ r <= Len(k) BY <1>1 DEF Offsets
<1>3. PICK l \in Seq(Vocab) : l = Append(k, t) BY <1>1, ReadMore
<1>4. PICK m \in Nat : m = Len(k) BY <1>1
<1>5. PICK x \in Seq(W) : x = Read(st, k) BY <1>1, ReadMore
<1>6. PICK z \in Seq(W) : z = Read(st, l) BY <1>1, <1>3, ReadMore
<1>7. /\ Len(l) = m + 1 /\ l[m + 1] = t /\ Offsets(l, st.surr, st.read) /\ NewJoins(x, z, t)
      /\ Decode(l) = Decode(Between(k, 0, r)) \o z
  BY <1>1, <1>2, <1>3, <1>4, <1>5, <1>6, ReadMore
<1>8. PICK s \in Seq(W) : s = st.str BY <1>1 DEF StatusType
<1>9. s = Decode(Between(k, 0, r)) /\ Half(x) /\ out = s \o FindPrintableText(x) /\ st.sent = Len(out)
  BY <1>2, <1>5, <1>8 DEF Told
<1>10. PICK i \in 0..Len(x) : FindPrintableText(x) = SubSeq(x, 1, i) /\ Printed(x, i)
  BY <1>9, PrintableIs DEF VocabOK
<1>11. PICK d \in {0, 1}, y \in Seq(W) : JoinAt(x, y, z, d) BY <1>7 DEF NewJoins
<1>12. i <= Len(z) /\ \A j \in 1..i : z[j] = x[j] BY <1>9, <1>10, <1>11, PrintedStays
<1>13. PICK output \in Seq(W) : output = s \o z BY ConcatProperties
<1>14. Output(st, l) = output BY <1>3, <1>6, <1>8, <1>13 DEF Output
<1>15. output = Decode(l) BY <1>7, <1>9, <1>13
<1>16. /\ out \in Seq(W) /\ Len(out) <= Len(output)
       /\ \A j \in 1..Len(out) : output[j] = out[j]
  <2>1. Len(z) \in 0..Len(z) /\ SubSeq(z, 1, Len(z)) = z BY AllOf
  <2>2. output = s \o SubSeq(z, 1, Len(z)) BY <1>13, <2>1
  <2>3. out = s \o SubSeq(x, 1, i) BY <1>9, <1>10
  <2>4. QED BY <1>12, <2>1, <2>2, <2>3, ContinuedBehind
<1> DEFINE new == Increment(st, l).status
           text == Increment(st, l).text
<1>17. /\ text = SubSeq(output, st.sent + 1, Len(output))
       /\ new \in StatusType /\ new.ids = l /\ new.sent = Len(output)
       /\ new.str = output /\ new.surr = r /\ new.read = m + 1
  <2>1. Output(st, l) \in Seq(W) BY <1>14
  <2>2. Complete(Read(st, l)) BY <1>3
  <2>3. QED BY <1>1, <1>2, <1>7, <1>14, <2>1, <2>2, IncrementIs
<1>18. out \o text = output
  <2>1. text = SubSeq(output, Len(out) + 1, Len(output)) BY <1>9, <1>17
  <2>2. out \o SubSeq(output, Len(out) + 1, Len(output)) = output
    BY ONLY <1>16, output \in Seq(W), Continued
  <2>3. QED BY <2>1, <2>2
<1> HIDE DEF new, text
<1>19. Offsets(l, new.surr, new.read)
  <2>1. t[Len(t)] # "lead"
    <3>1. PICK p \in Seq(Symbols) : p = Behind(k, r, m) BY <1>1, <1>2, <1>4, BehindTyped
    <3>2. Behind(l, r, m + 1) = p \o t BY <1>1, <1>2, <1>3, <1>4, <3>1, BehindMore
    <3>3. z = New(r, p \o t) BY <1>2, <1>6, <1>7, <3>2, ReadIs
    <3>4. Complete(z) BY <1>3, <1>6
    <3>5. QED BY <3>3, <3>4, CompleteEnd
  <2>2. Boundary(l, m + 1) BY <1>7, <2>1 DEF Boundary
  <2>3. r < m + 1 /\ m + 1 <= Len(l) BY <1>2, <1>4, <1>7
  <2>4. QED BY <1>17, <2>2, <2>3 DEF Offsets
<1>20. Between(l, 0, m + 1) = l BY <1>7, BetweenSame
<1>21. Read(new, l) = <<>>
  <2>1. Read(new, l) = New(m + 1, Behind(l, m + 1, m + 1)) BY <1>7, <1>17, <1>19, ReadIs
  <2>2. Behind(l, m + 1, m + 1) = <<>>
    <3>1. m + 1 \in Nat OBVIOUS
    <3>2. Between(l, m + 1, m + 1) = <<>> BY <3>1, BetweenSame
    <3>3. QED BY <3>2, FlattenEmpty DEF Behind
  <2>3. m + 1 # 0 OBVIOUS
  <2>4. QED BY <2>1, <2>2, <2>3, TextEmpty DEF New
<1>22. Half(<<>>) /\ ~Wide(<<>>)
  <2>1. Len(<<>>) = 0 OBVIOUS
  <2>2. QED BY <2>1 DEF Half, Wide
<1>23. output \o <<>> = output BY ConcatEmptySeq
<1>24. Told(new, l, output)
  BY <1>15, <1>17, <1>19, <1>20, <1>21, <1>22, <1>23, NothingPrinted DEF Told
<1>25. QED BY <1>3, <1>18, <1>24 DEF new, text

(* A text with a CJK character before the half at its end goes on with     *)
(* something to print.                                                     *)
LEMMA GoesOn ==
  ASSUME VocabOK, NEW k, NEW st, NEW out, Told(st, k, out), NEW t \in Vocab,
         NEW y \in Seq(W), Read(st, k) # <<>> => y = TextOf(t),
         Half(Read(st, Append(k, t))), Read(st, k) # <<>> => Read(st, Append(k, t)) # <<>>
  PROVE  PrintsBehind(Read(st, k), y)
<1>1. SUFFICES ASSUME Wide(Read(st, k)) PROVE Wide(y) \/ \E i \in DOMAIN y : y[i] = " "
  BY DEF PrintsBehind
<1>2. st \in StatusType /\ Offsets(k, st.surr, st.read) /\ k \in Seq(Vocab)
  BY DEF Told, Offsets
<1>3. PICK r \in Nat : r = st.read /\ r <= Len(k) BY <1>2 DEF Offsets
<1>4. PICK m \in Nat : m = Len(k) BY <1>2
<1>5. Read(st, k) # <<>>
  <2>1. Len(<<>>) = 0 OBVIOUS
  <2>2. QED BY <1>1, <2>1 DEF Wide
<1>6. Read(st, k) = New(r, Behind(k, r, m)) BY <1>2, <1>3, <1>4, ReadIs
<1>7. r < m
  <2>1. SUFFICES ASSUME r = m PROVE FALSE BY <1>3, <1>4
  <2>2. Behind(k, r, r) = <<>> BY <1>2, BetweenSame, FlattenEmpty DEF Behind
  <2>3. New(r, <<>>) = <<>>
    <3>1. DropSpace(<<>>) = <<>> BY DEF DropSpace
    <3>2. QED BY <3>1, TextEmpty DEF New
  <2>4. QED BY <1>5, <1>6, <2>1, <2>2, <2>3
<1>8. PICK l \in Seq(Vocab) : l = Append(k, t) BY <1>2, ReadMore
<1>9. Len(l) = m + 1 /\ Offsets(l, st.surr, st.read) BY <1>2, <1>4, <1>8, ReadMore
<1>10. Read(st, l) = New(r, Behind(l, r, m + 1)) BY <1>3, <1>9, ReadIs
<1>11. Behind(l, r, m + 1) = Behind(k, r, m) \o t BY <1>2, <1>3, <1>4, <1>8, BehindMore
<1>12. Half(New(r, Behind(k, r, m) \o t)) /\ New(r, Behind(k, r, m) \o t) # <<>>
  BY <1>5, <1>8, <1>10, <1>11
<1>13. Cut(k[m]) BY <1>1, <1>4 DEF Told
<1>14. ~Complete(TextOf(k[m] \o t)) BY <1>2, <1>4, <1>7, <1>12, <1>13, StillHalf
<1>15. k[m] \in Vocab BY <1>2, <1>4, <1>7, BehindLast
<1>16. PrintsOn(t) BY <1>13, <1>14, <1>15 DEF VocabOK
<1>17. y = TextOf(t) BY <1>5
<1>18. QED BY <1>16, <1>17 DEF PrintsOn

(* One token more, in a text that ends in half a character with it.        *)
LEMMA ToldHalf ==
  ASSUME VocabOK, NEW k, NEW st, NEW out, Told(st, k, out), NEW t \in Vocab,
         ~Complete(Read(st, Append(k, t)))
  PROVE  Told(Increment(st, Append(k, t)).status, Append(k, t), out \o Increment(st, Append(k, t)).text)
<1>1. st \in StatusType /\ Offsets(k, st.surr, st.read) /\ k \in Seq(Vocab)
  BY DEF Told, Offsets
<1>2. PICK r \in Nat : r = st.read /\ r <= Len(k) BY <1>1 DEF Offsets
<1>3. PICK l \in Seq(Vocab) : l = Append(k, t) BY <1>1, ReadMore
<1>4. PICK m \in Nat : m = Len(k) BY <1>1
<1>5. PICK x \in Seq(W) : x = Read(st, k) BY <1>1, ReadMore
<1>6. PICK z \in Seq(W) : z = Read(st, l) BY <1>1, <1>3, ReadMore
<1>7. /\ Len(l) = m + 1 /\ l[m + 1] = t /\ Offsets(l, st.surr, st.read) /\ NewJoins(x, z, t)
      /\ Between(l, 0, st.read) = Between(k, 0, st.read)
  BY <1>1, <1>3, <1>4, <1>5, <1>6, ReadMore
<1>8. PICK s \in Seq(W) : s = st.str BY <1>1 DEF StatusType
<1>9. /\ s = Decode(Between(k, 0, st.read)) /\ Half(x)
      /\ out = s \o FindPrintableText(x) /\ st.sent = Len(out)
  BY <1>5, <1>8 DEF Told
<1>10. PICK i \in 0..Len(x) : FindPrintableText(x) = SubSeq(x, 1, i) /\ Printed(x, i)
  BY <1>9, PrintableIs DEF VocabOK
<1>11. PICK d \in {0, 1}, y \in Seq(W) : JoinAt(x, y, z, d) /\ (x # <<>> => y = TextOf(t))
  BY <1>7 DEF NewJoins
<1>12. i <= Len(z) /\ \A j \in 1..i : z[j] = x[j] BY <1>9, <1>10, <1>11, PrintedStays
<1>13. ~Complete(z) /\ Half(z) BY <1>3, <1>6 DEF Complete, Half
<1>14. PICK h \in 0..Len(z) : FindPrintableText(z) = SubSeq(z, 1, h) /\ Printed(z, h)
  BY <1>13, PrintableIs DEF VocabOK
<1>15. x # <<>> => z # <<>>
  <2>1. SUFFICES ASSUME x # <<>>, z = <<>> PROVE FALSE OBVIOUS
  <2>2. PICK a \in Nat : a = Len(x) OBVIOUS
  <2>3. PICK b \in Nat : b = Len(y) OBVIOUS
  <2>4. Len(z) = a + b - d /\ (d = 1 => b >= 1) BY <1>11, <2>2, <2>3 DEF JoinAt
  <2>5. a # 0 BY <2>1, <2>2, EmptySeq
  <2>6. Len(z) = 0 BY <2>1
  <2>7. QED BY <2>4, <2>5, <2>6
<1>16. PrintsBehind(x, y)
  <2>1. Half(Read(st, Append(k, t))) /\ (Read(st, k) # <<>> => Read(st, Append(k, t)) # <<>>)
    BY <1>3, <1>5, <1>6, <1>13, <1>15
  <2>2. Read(st, k) # <<>> => y = TextOf(t) BY <1>5, <1>11
  <2>3. PrintsBehind(Read(st, k), y) BY <2>1, <2>2, GoesOn
  <2>4. QED BY <1>5, <2>3
<1>17. i <= h
  <2>1. Replacement \notin Chinese BY DEF VocabOK
  <2>2. QED BY <1>9, <1>10, <1>11, <1>13, <1>14, <1>16, <2>1, PrintedGrows
<1>18. PICK v \in Seq(W) : v = SubSeq(z, 1, h)
  <2>1. \A j \in 1..h : z[j] \in W OBVIOUS
  <2>2. 1 \in Int /\ h \in Int OBVIOUS
  <2>3. QED BY <2>1, <2>2, SubSeqProperties
<1>19. PICK output \in Seq(W) : output = s \o v BY ConcatProperties
<1>20. Output(st, l) = output BY <1>6, <1>8, <1>13, <1>14, <1>18, <1>19 DEF Output
<1>21. /\ out \in Seq(W) /\ Len(out) <= Len(output)
       /\ \A j \in 1..Len(out) : output[j] = out[j]
  <2>1. output = s \o SubSeq(z, 1, h) BY <1>18, <1>19
  <2>2. out = s \o SubSeq(x, 1, i) BY <1>9, <1>10
  <2>3. QED BY <1>12, <1>17, <2>1, <2>2, ContinuedBehind
<1> DEFINE new == Increment(st, l).status
           text == Increment(st, l).text
<1>22. /\ text = SubSeq(output, st.sent + 1, Len(output))
       /\ new \in StatusType /\ new.ids = l /\ new.sent = Len(output)
       /\ new.str = s /\ new.surr = st.surr /\ new.read = st.read
  <2>1. Output(st, l) \in Seq(W) BY <1>20
  <2>2. ~Complete(Read(st, l)) BY <1>3
  <2>3. QED BY <1>1, <1>8, <1>20, <2>1, <2>2, IncrementIs
<1>23. out \o text = output
  <2>1. text = SubSeq(output, Len(out) + 1, Len(output)) BY <1>9, <1>22
  <2>2. out \o SubSeq(output, Len(out) + 1, Len(output)) = output
    BY ONLY <1>21, output \in Seq(W), Continued
  <2>3. QED BY <2>1, <2>2
<1> HIDE DEF new, text
<1>24. Read(new, l) = z BY <1>6, <1>22, ReadAgain
<1>25. Wide(z) => Cut(l[Len(l)])
  <2>1. t \in Seq(Symbols) /\ t # <<>> /\ Replacement \notin Chinese BY VocabTyped DEF VocabOK
  <2>2. Wide(z) => Cut(t) BY <1>7, <1>9, <2>1, WideIsCut
  <2>3. QED BY <1>7, <2>2
<1>26. output = s \o FindPrintableText(z) BY <1>14, <1>18, <1>19
<1>27. Told(new, l, output)
  BY <1>7, <1>9, <1>13, <1>22, <1>24, <1>25, <1>26 DEF Told
<1>28. QED BY <1>3, <1>23, <1>27 DEF new, text

(* The end-of-text token adds nothing.                                     *)
LEMMA ToldEnd ==
  ASSUME VocabOK, NEW k, NEW st, NEW out, Told(st, k, out)
  PROVE  Increment(st, k).text = <<>>
<1>1. st \in StatusType /\ Offsets(k, st.surr, st.read) /\ k \in Seq(Vocab)
  BY DEF Told, Offsets
<1>2. PICK x \in Seq(W) : x = Read(st, k) BY <1>1, ReadIs DEF W
<1>3. PICK s \in Seq(W) : s = st.str BY <1>1 DEF StatusType
<1>4. Half(x) /\ out = s \o FindPrintableText(x) /\ st.sent = Len(out) BY <1>2, <1>3 DEF Told
<1>5. PICK i \in 0..Len(x) : FindPrintableText(x) = SubSeq(x, 1, i)
  BY <1>4, PrintableIs DEF VocabOK
<1>6. out \in Seq(W)
  <2>1. i <= i /\ \A j \in 1..i : x[j] = x[j] OBVIOUS
  <2>2. out = s \o SubSeq(x, 1, i) BY <1>4, <1>5
  <2>3. QED BY <2>1, <2>2, ContinuedBehind
<1>7. ~Complete(x) BY <1>4 DEF Half, Complete
<1>8. Output(st, k) = out BY <1>2, <1>3, <1>4, <1>7 DEF Output
<1>9. Increment(st, k).text = SubSeq(out, Len(out) + 1, Len(out))
  <2>1. Output(st, k) \in Seq(W) BY <1>6, <1>8
  <2>2. Increment(st, k).text = SubSeq(Output(st, k), st.sent + 1, Len(Output(st, k)))
    BY <1>1, <2>1, IncrementIs
  <2>3. QED BY <1>4, <1>8, <2>2
<1>10. Len(out) \in Nat BY <1>6
<1>11. SubSeq(out, Len(out) + 1, Len(out)) = <<>>
  <2>1. Len(out) < Len(out) + 1 BY <1>10
  <2>2. QED BY <1>10, <2>1, SubSeqEmpty
<1>12. QED BY <1>9, <1>11

(* What was sent is the beginning of the text of the tokens, and all of it *)
(* unless the text ends in half a character.                               *)
Good(k, out) == /\ S!IsPrefix(out, Decode(k))
                /\ Decode(k) = <<>> \/ Complete(Decode(k)) => out = Decode(k)

(* A status and the text sent under it are good.                           *)
LEMMA ToldGood ==
  ASSUME VocabOK, NEW k, NEW st, NEW out, Told(st, k, out)
  PROVE  Good(k, out)
<1>1. st \in StatusType /\ Offsets(k, st.surr, st.read) /\ k \in Seq(Vocab)
  BY DEF Told, Offsets
<1>2. PICK x \in Seq(W) : x = Read(st, k) BY <1>1, ReadIs DEF W
<1>3. PICK s \in Seq(W) : s = st.str BY <1>1 DEF StatusType
<1>4. Half(x) /\ out = s \o FindPrintableText(x) /\ s = Decode(Between(k, 0, st.read))
  BY <1>2, <1>3 DEF Told
<1>5. PICK i \in 0..Len(x) : FindPrintableText(x) = SubSeq(x, 1, i)
  BY <1>4, PrintableIs DEF VocabOK
<1>6. PICK full \in Seq(W) : full = s \o x BY ConcatProperties
<1>7. Decode(k) = full BY <1>1, <1>2, <1>4, <1>6, ReadIs
<1>8. /\ out \in Seq(W) /\ Len(out) <= Len(full)
      /\ \A j \in 1..Len(out) : full[j] = out[j]
  <2>1. Len(x) \in 0..Len(x) /\ SubSeq(x, 1, Len(x)) = x BY AllOf
  <2>2. full = s \o SubSeq(x, 1, Len(x)) BY <1>6, <2>1
  <2>3. out = s \o SubSeq(x, 1, i) BY <1>4, <1>5
  <2>4. i <= Len(x) /\ \A j \in 1..i : x[j] = x[j] OBVIOUS
  <2>5. QED BY <2>1, <2>2, <2>3, <2>4, ContinuedBehind
<1>9. S!IsPrefix(out, full)
  <2>1. PICK n \in Nat : n = Len(out) BY <1>8
  <2>2. SubSeq(out, 1, n) = out BY <1>8, <2>1, AllOf
  <2>3. n <= Len(full) BY <1>8, <2>1
  <2>4. PICK v \in Seq(W) : v = Between(full, 0, n) BY <2>3, BetweenIs
  <2>5. Len(v) = n - 0 /\ \A j \in 1..(n - 0) : v[j] = full[0 + j]
    <3>1. 0 \in Nat /\ 0 <= n OBVIOUS
    <3>2. QED BY ONLY <2>3, <2>4, <3>1, n \in Nat, full \in Seq(W), BetweenIs
  <2>6. Len(v) = n /\ \A j \in 1..n : v[j] = full[j] BY <2>5
  <2>7. \A j \in 1..n : v[j] = out[j] BY <1>8, <2>1, <2>6
  <2>8. v = out BY <1>8, <2>1, <2>6, <2>7, SequencesEqual
  <2>9. SubSeq(full, 1, n) = out BY <2>4, <2>8 DEF Between
  <2>10. QED BY <1>8, <2>1, <2>2, <2>9 DEF S!IsPrefix
<1>10. CASE x = <<>>
  <2>1. out = s BY <1>4, <1>10, NothingPrinted, ConcatEmptySeq
  <2>2. full = s BY <1>6, <1>10, ConcatEmptySeq
  <2>3. QED BY <1>7, <1>9, <2>1, <2>2 DEF Good
<1>11. CASE x # <<>>
  <2>1. full # <<>> /\ full[Len(full)] = Replacement
    <3>1. s \o x # <<>> /\ (s \o x)[Len(s \o x)] = x[Len(x)] BY <1>11, LastOf
    <3>2. x[Len(x)] = Replacement BY <1>4, <1>11 DEF Half
    <3>3. QED BY <1>6, <3>1, <3>2
  <2>2. QED BY <1>7, <1>9, <2>1 DEF Good, Complete
<1>12. QED BY <1>10, <1>11

(* The increments are texts.                                               *)
LEMMA OutputTyped ==
  ASSUME VocabOK, NEW k, NEW st, NEW out, Told(st, k, out), NEW t \in Vocab
  PROVE  Output(st, Append(k, t)) \in Seq(W)
<1>1. st \in StatusType /\ Offsets(k, st.surr, st.read) /\ k \in Seq(Vocab)
  BY DEF Told, Offsets
<1>2. PICK s \in Seq(W) : s = st.str BY <1>1 DEF StatusType
<1>3. PICK z \in Seq(W) : z = Read(st, Append(k, t)) BY <1>1, ReadMore
<1>4. CASE Complete(z) BY <1>2, <1>3, <1>4, ConcatProperties DEF Output
<1>5. CASE ~Complete(z)
  <2>1. Half(z) BY <1>5 DEF Complete, Half
  <2>2. PICK h \in 0..Len(z) : FindPrintableText(z) = SubSeq(z, 1, h)
    BY <2>1, PrintableIs DEF VocabOK
  <2>3. PICK v \in Seq(W) : v = SubSeq(z, 1, h)
    <3>1. \A j \in 1..h : z[j] \in W OBVIOUS
    <3>2. 1 \in Int /\ h \in Int OBVIOUS
    <3>3. QED BY <3>1, <3>2, SubSeqProperties
  <2>4. s \o v \in Seq(W) BY ConcatProperties
  <2>5. QED BY <1>2, <1>3, <1>5, <2>2, <2>3, <2>4 DEF Output
<1>6. QED BY <1>4, <1>5

(* One token more, complete or not.                                        *)
LEMMA TextTold ==
  ASSUME VocabOK, NEW k, NEW st, NEW out, Told(st, k, out), NEW t \in Vocab
  PROVE  /\ Increment(st, Append(k, t)).text \in Seq(W)
         /\ Increment(st, Append(k, t)).status \in StatusType
         /\ Told(Increment(st, Append(k, t)).status, Append(k, t), out \o Increment(st, Append(k, t)).text)
<1>1. Told(Increment(st, Append(k, t)).status, Append(k, t), out \o Increment(st, Append(k, t)).text)
  BY ToldComplete, ToldHalf
<1>2. st \in StatusType /\ k \in Seq(Vocab) BY DEF Told, Offsets
<1>3. Append(k, t) \in Seq(Vocab) BY <1>2
<1>4. PICK o \in Seq(W) : o = Output(st, Append(k, t)) BY OutputTyped
<1>5. Increment(st, Append(k, t)).text = SubSeq(o, st.sent + 1, Len(o)) BY <1>2, <1>3, <1>4, IncrementIs
<1>6. PICK n \in Nat : n = st.sent BY <1>2 DEF StatusType
<1>7. SubSeq(o, n + 1, Len(o)) \in Seq(W)
  <2>1. n + 1 \in Int /\ Len(o) \in Int /\ \A j \in (n + 1)..Len(o) : j \in 1..Len(o) OBVIOUS
  <2>2. \A j \in (n + 1)..Len(o) : o[j] \in W BY <2>1
  <2>3. QED BY <2>1, <2>2, SubSeqProperties
<1>8. QED BY <1>1, <1>5, <1>6, <1>7 DEF Told

(* The first m + 1 of a sequence.                                          *)
LEMMA BetweenNext ==
  ASSUME NEW D, NEW k \in Seq(D), NEW m \in Nat, m + 1 <= Len(k)
  PROVE  Between(k, 0, m + 1) = Append(Between(k, 0, m), k[m + 1]) /\ Between(k, 0, m) \in Seq(D)
<1>1. 0 \in Nat /\ 0 <= m /\ 0 <= m + 1 /\ m <= Len(k) /\ m + 1 \in Nat OBVIOUS
<1>2. PICK a \in Seq(D) : a = Between(k, 0, m) BY <1>1, BetweenIs
<1>3. PICK b \in Seq(D) : b = Between(k, 0, m + 1) BY <1>1, BetweenIs
<1>4. Len(a) = m - 0 /\ \A i \in 1..(m - 0) : a[i] = k[0 + i] BY ONLY <1>1, <1>2, k \in Seq(D), m \in Nat, BetweenIs
<1>5. Len(b) = m + 1 - 0 /\ \A i \in 1..(m + 1 - 0) : b[i] = k[0 + i]
  <2>1. PICK n \in Nat : n = m + 1 OBVIOUS
  <2>2. 0 <= n /\ n <= Len(k) /\ b = Between(k, 0, n) /\ 0 \in Nat BY <1>3, <2>1
  <2>3. Len(b) = n - 0 /\ \A i \in 1..(n - 0) : b[i] = k[0 + i]
    BY ONLY <2>2, n \in Nat, k \in Seq(D), BetweenIs
  <2>4. QED BY <2>1, <2>3
<1>6. Len(a) = m /\ (\A i \in 1..m : a[i] = k[i]) /\ Len(b) = m + 1 /\ \A i \in 1..(m + 1) : b[i] = k[i]
  BY <1>4, <1>5
<1>7. PICK e \in D : e = k[m + 1] BY <1>1
<1>8. PICK c \in Seq(D) : c = Append(a, e) BY OneMore
<1>9. Len(c) = m + 1 /\ c[m + 1] = e /\ \A i \in 1..m : c[i] = a[i] BY <1>6, <1>8, OneMore
<1>10. \A i \in 1..(m + 1) : c[i] = b[i]
  <2>1. TAKE i \in 1..(m + 1)
  <2>2. CASE i \in 1..m BY <1>6, <1>9, <2>2
  <2>3. CASE i = m + 1 BY <1>6, <1>7, <1>9, <2>3
  <2>4. QED BY <2>2, <2>3
<1>11. c = b BY <1>6, <1>9, <1>10, SequencesEqual
<1>12. QED BY <1>2, <1>3, <1>7, <1>8, <1>11

----------------------------------------------------------------------------
(* The types of the variables of Text.                                     *)
TextType == /\ ids \in [Uids -> Seq(Vocab \cup {Eos})]
            /\ status \in [Uids -> StatusType]
            /\ texts \in [Uids -> Seq(Seq(W))]

(* Reply n is the n-th; the end-of-text token comes with the last.         *)
Numbered(u) ==
  /\ Len(ids[u]) = Len(sent[u])
  /\ \A i \in 1..Len(sent[u]) : sent[u][i].n = i /\ (ids[u][i] = Eos => sent[u][i].last)

(* What is not in texts yet is on its way to the detokenizer.              *)
Unread(u) ==
  /\ Len(sent[u]) = Len(texts[u]) + Len(tokens[u])
  /\ \A j \in 1..Len(tokens[u]) : tokens[u][j] = sent[u][Len(texts[u]) + j]

(* No reply before the n-th is a finished one.  Up to there the increments *)
(* belong to one status; their text, and the tokens behind it:             *)
Unfinished(u, n) == \A i \in 1..Len(sent[u]) : i < n => ~sent[u][i].last
Chunks(u, n) == S!FlattenSeq(Between(texts[u], 0, n))
Heard(u, n) == Between(ids[u], 0, IF n > 0 /\ ids[u][n] = Eos THEN n - 1 ELSE n)

(* The invariant of a request: its status tells what was said of the tokens*)
(* so far, and after each reply what was said is good.                     *)
TextInv(u) ==
  /\ Numbered(u) /\ Unread(u)
  /\ \E out : Told(status[u], status[u].ids, out)
  /\ Unfinished(u, Len(texts[u]) + 1) =>
       Told(status[u], Between(ids[u], 0, Len(texts[u])), S!FlattenSeq(texts[u]))
  /\ \A n \in 0..Len(texts[u]) : Unfinished(u, n) => Good(Heard(u, n), Chunks(u, n))

(* One reply more: its number, its token, and the text of both.            *)
LEMMA NextReply ==
  ASSUME TypeOK, TextType, NEW u \in Uids, Numbered(u), Unread(u), tokens[u] # <<>>,
         NEW m \in Nat, m = Len(texts[u])
  PROVE  /\ Head(tokens[u]) = sent[u][m + 1] /\ Head(tokens[u]).n = m + 1 /\ Head(tokens[u]) \in Token
         /\ m + 1 <= Len(sent[u]) /\ m + 1 <= Len(ids[u])
         /\ ids[u][m + 1] \in Vocab \cup {Eos}
         /\ ids[u][m + 1] = Eos => Head(tokens[u]).last
         /\ Len(sent[u]) = (m + 1) + Len(Tail(tokens[u]))
         /\ Tail(tokens[u]) \in Seq(Token)
         /\ \A j \in 1..Len(Tail(tokens[u])) : Tail(tokens[u])[j] = sent[u][(m + 1) + j]
<1>1. PICK q \in Seq(Token) : q = tokens[u] BY DEF TypeOK
<1>2. PICK s \in Seq(Token) : s = sent[u] BY DEF TypeOK
<1>3. PICK k \in Seq(Vocab \cup {Eos}) : k = ids[u] BY DEF TextType
<1>4. q # <<>> /\ Len(s) = m + Len(q) /\ (\A j \in 1..Len(q) : q[j] = s[m + j]) /\ Len(k) = Len(s)
      /\ \A i \in 1..Len(s) : s[i].n = i /\ (k[i] = Eos => s[i].last)
  BY <1>1, <1>2, <1>3 DEF Numbered, Unread
<1>5. PICK r \in Seq(Token) : r = Tail(q) BY <1>4, HeadTailProperties
<1>6. /\ Len(r) = Len(q) - 1 /\ Head(q) = q[1] /\ Len(q) \in Nat \ {0}
      /\ \A i \in 1..Len(r) : r[i] = q[i + 1]
  BY <1>4, <1>5, HeadTailProperties, EmptySeq
<1>7. PICK l \in Nat : l = Len(r) OBVIOUS
<1>8. Len(q) = l + 1 BY <1>6, <1>7
<1>9. Len(s) = m + (l + 1) /\ Len(k) = m + (l + 1) /\ m + 1 \in 1..Len(s) /\ m + 1 \in 1..Len(k)
  <2>1. Len(s) = m + (l + 1) /\ Len(k) = m + (l + 1) BY <1>4, <1>8
  <2>2. m + 1 \in 1..(m + (l + 1)) BY ONLY m \in Nat, l \in Nat
  <2>3. QED BY <2>1, <2>2
<1>10. Head(q) = s[m + 1]
  <2>1. 1 \in 1..Len(q) BY <1>8
  <2>2. QED BY <1>4, <1>6, <2>1
<1>11. \A j \in 1..l : r[j] = s[(m + 1) + j]
  <2>1. TAKE j \in 1..l
  <2>2. j + 1 \in 1..(l + 1) /\ m + (j + 1) = (m + 1) + j BY ONLY m \in Nat, l \in Nat, j \in 1..l
  <2>3. r[j] = q[j + 1] BY <1>6, <1>7
  <2>4. q[j + 1] = s[m + (j + 1)] BY <1>4, <1>8, <2>2
  <2>5. QED BY <2>2, <2>3, <2>4
<1>12. s[m + 1].n = m + 1 /\ (k[m + 1] = Eos => s[m + 1].last) /\ s[m + 1] \in Token
       /\ k[m + 1] \in Vocab \cup {Eos}
  <2>1. s[m + 1].n = m + 1 /\ (k[m + 1] = Eos => s[m + 1].last) BY <1>4, <1>9
  <2>2. s[m + 1] \in Token /\ k[m + 1] \in Vocab \cup {Eos}
    BY ONLY <1>9, s \in Seq(Token), k \in Seq(Vocab \cup {Eos})
  <2>3. QED BY <2>1, <2>2
<1>13. m + 1 <= Len(s) /\ m + 1 <= Len(k) /\ Len(s) = (m + 1) + l
  <2>1. m + (l + 1) = (m + 1) + l /\ m + 1 <= m + (l + 1) BY ONLY m \in Nat, l \in Nat
  <2>2. QED BY <1>9, <2>1
<1>14. QED BY <1>1, <1>2, <1>3, <1>5, <1>7, <1>10, <1>11, <1>12, <1>13

(* What a reply with a token of the vocabulary adds to the text.           *)
LEMMA NextToken ==
  ASSUME VocabOK, NEW m \in Nat, NEW k \in Seq(Vocab \cup {Eos}), m + 1 <= Len(k), k[m + 1] \in Vocab,
         NEW c \in Seq(Seq(W)), NEW st, \E out : Told(st, st.ids, out),
         NEW x, NEW new, x = Increment(st, Append(st.ids, k[m + 1])).text,
         new = Increment(st, Append(st.ids, k[m + 1])).status
  PROVE  /\ x \in Seq(W) /\ new \in StatusType /\ \E out : Told(new, new.ids, out)
         /\ Told(st, Between(k, 0, m), S!FlattenSeq(c)) =>
              /\ Told(new, Between(k, 0, m + 1), S!FlattenSeq(Append(c, x)))
              /\ Good(Between(k, 0, m + 1), S!FlattenSeq(Append(c, x)))
<1>1. PICK t \in Vocab : t = k[m + 1] OBVIOUS
<1>2. /\ x \in Seq(W) /\ new \in StatusType /\ \E out : Told(new, new.ids, out)
  <2>1. PICK out : Told(st, st.ids, out) OBVIOUS
  <2>2. /\ Increment(st, Append(st.ids, t)).text \in Seq(W)
        /\ Increment(st, Append(st.ids, t)).status \in StatusType
        /\ Told(Increment(st, Append(st.ids, t)).status, Append(st.ids, t),
                out \o Increment(st, Append(st.ids, t)).text)
    BY ONLY VocabOK, <2>1, t \in Vocab, TextTold
  <2>3. x \in Seq(W) /\ new \in StatusType /\ Told(new, Append(st.ids, t), out \o x) BY <1>1, <2>2
  <2>4. new.ids = Append(st.ids, t) BY <2>3 DEF Told
  <2>5. QED BY <2>3, <2>4
<1>3. ASSUME Told(st, Between(k, 0, m), S!FlattenSeq(c))
      PROVE  /\ Told(new, Between(k, 0, m + 1), S!FlattenSeq(Append(c, x)))
             /\ Good(Between(k, 0, m + 1), S!FlattenSeq(Append(c, x)))
  <2> DEFINE out == S!FlattenSeq(c)
             b == Between(k, 0, m)
  <2>1. Told(st, b, out) BY <1>3
  <2>2. st.ids = b BY <2>1 DEF Told
  <2>3. Between(k, 0, m + 1) = Append(b, t)
    BY ONLY <1>1, m \in Nat, k \in Seq(Vocab \cup {Eos}), m + 1 <= Len(k), BetweenNext
  <2>4. S!FlattenSeq(Append(c, x)) = out \o x BY ONLY <1>2, c \in Seq(Seq(W)), FlattenAppend
  <2> HIDE DEF out, b
  <2>5. Told(Increment(st, Append(b, t)).status, Append(b, t), out \o Increment(st, Append(b, t)).text)
    BY ONLY VocabOK, <2>1, t \in Vocab, TextTold
  <2>6. Told(new, Append(b, t), out \o x) BY <1>1, <2>2, <2>5
  <2>7. Good(Append(b, t), out \o x) BY ONLY VocabOK, <2>6, ToldGood
  <2>8. QED BY <2>3, <2>4, <2>6, <2>7
<1>4. QED BY <1>2, <1>3

(* The end-of-text token adds nothing.                                     *)
LEMMA NextEos ==
  ASSUME VocabOK, NEW c \in Seq(Seq(W)), NEW st, \E out : Told(st, st.ids, out),
         NEW x, x = Increment(st, st.ids).text
  PROVE  /\ x \in Seq(W)
         /\ \A b : Told(st, b, S!FlattenSeq(c)) => Good(b, S!FlattenSeq(Append(c, x)))
<1>1. x = <<>>
  <2>1. PICK out : Told(st, st.ids, out) OBVIOUS
  <2>2. QED BY ONLY VocabOK, <2>1, ToldEnd, x = Increment(st, st.ids).text
<1>2. <<>> \in Seq(W) OBVIOUS
<1>3. ASSUME NEW b, Told(st, b, S!FlattenSeq(c)) PROVE Good(b, S!FlattenSeq(Append(c, x)))
  <2>1. S!FlattenSeq(Append(c, x)) = S!FlattenSeq(c) \o <<>>
    BY ONLY <1>1, <1>2, c \in Seq(Seq(W)), FlattenAppend
  <2>2. S!FlattenSeq(c) \in Seq(W) BY FlattenTyped
  <2>3. S!FlattenSeq(c) \o <<>> = S!FlattenSeq(c) BY ONLY <2>2, ConcatEmptySeq
  <2>4. Good(b, S!FlattenSeq(c)) BY ONLY VocabOK, <1>3, ToldGood
  <2>5. QED BY <2>1, <2>3, <2>4
<1>4. QED BY <1>1, <1>2, <1>3

(* What was there before one more was appended is as it was.               *)
LEMMA BeforeSame ==
  ASSUME NEW D, NEW c \in Seq(D), NEW x \in D, NEW m \in Nat, m = Len(c)
  PROVE  /\ \A n \in 0..m : Between(Append(c, x), 0, n) = Between(c, 0, n)
         /\ Between(Append(c, x), 0, m + 1) = Append(c, x)
         /\ Append(c, x) \in Seq(D) /\ Len(Append(c, x)) = m + 1
<1>1. Append(c, x) \in Seq(D) /\ Len(Append(c, x)) = m + 1 BY OneMore
<1>2. \A a, b \in Nat : a <= b /\ b <= m => Between(Append(c, x), a, b) = Between(c, a, b)
  BY ONLY c \in Seq(D), x \in D, m = Len(c), BetweenMore
<1>3. Between(Append(c, x), 0, Len(Append(c, x))) = Append(c, x)
  BY ONLY <1>1, BetweenSame
<1>4. \A n \in 0..m : Between(Append(c, x), 0, n) = Between(c, 0, n)
  <2>1. TAKE n \in 0..m
  <2>2. 0 \in Nat /\ n \in Nat /\ 0 <= n /\ n <= m BY ONLY m \in Nat, n \in 0..m
  <2>3. QED BY <1>2, <2>2
<1>5. QED BY <1>1, <1>3, <1>4

(* The detokenizer keeps the invariant of its request.                     *)
LEMMA DetokenizeTextInv ==
  ASSUME VocabOK, TypeOK, TextType, NEW u \in Uids, TextInv(u), DetokenizeText(u)
  PROVE  TextType' /\ TextInv(u)' /\ Len(texts'[u]) = Len(texts[u]) + 1
<1>1. PICK m \in Nat : m = Len(texts[u])
  <2>1. texts[u] \in Seq(Seq(W)) BY DEF TextType
  <2>2. QED BY <2>1
<1> DEFINE msg == Head(tokens[u])
           token == ids[u][msg.n]
           known == IF msg.last /\ token = Eos THEN status[u].ids ELSE Append(status[u].ids, token)
           result == Increment(status[u], known)
<1>2. /\ tokens[u] # <<>> /\ tokens' = [tokens EXCEPT ![u] = Tail(@)] /\ sent' = sent
      /\ ids' = ids /\ texts' = [texts EXCEPT ![u] = Append(@, result.text)]
      /\ status' = [status EXCEPT ![u] = IF msg.last THEN NewStatus ELSE result.status]
  BY DEF DetokenizeText, Detokenize, schedVars
<1>3. /\ msg = sent[u][m + 1] /\ msg.n = m + 1 /\ msg \in Token
      /\ m + 1 <= Len(sent[u]) /\ m + 1 <= Len(ids[u])
      /\ ids[u][m + 1] \in Vocab \cup {Eos}
      /\ ids[u][m + 1] = Eos => msg.last
      /\ Len(sent[u]) = (m + 1) + Len(Tail(tokens[u]))
      /\ Tail(tokens[u]) \in Seq(Token)
      /\ \A j \in 1..Len(Tail(tokens[u])) : Tail(tokens[u])[j] = sent[u][(m + 1) + j]
  BY <1>1, <1>2, NextReply DEF TextInv
<1>4. PICK k \in Seq(Vocab \cup {Eos}) : k = ids[u] BY DEF TextType
<1>5. PICK c \in Seq(Seq(W)) : c = texts[u] BY DEF TextType
<1>6. PICK st : st = status[u] OBVIOUS
<1>7. \E out : Told(st, st.ids, out) BY <1>6 DEF TextInv
<1>8. PICK t : t = token OBVIOUS
<1>9. t = k[m + 1] /\ (t = Eos => msg.last) /\ t \in Vocab \cup {Eos} BY <1>3, <1>4, <1>8
<1>10. PICK x : x = result.text OBVIOUS
<1>11. PICK new : new = result.status OBVIOUS
<1>12. PICK fin \in BOOLEAN : fin = msg.last BY <1>3 DEF Token
<1>13. known = IF t = Eos THEN st.ids ELSE Append(st.ids, t) BY <1>6, <1>8, <1>9
<1>14. /\ x = Increment(st, IF t = Eos THEN st.ids ELSE Append(st.ids, t)).text
       /\ new = Increment(st, IF t = Eos THEN st.ids ELSE Append(st.ids, t)).status
  BY <1>6, <1>10, <1>11, <1>13
<1>15. /\ tokens' = [tokens EXCEPT ![u] = Tail(@)] /\ sent' = sent
       /\ ids' = ids /\ texts' = [texts EXCEPT ![u] = Append(@, x)]
       /\ status' = [status EXCEPT ![u] = IF fin THEN NewStatus ELSE new]
  BY <1>2, <1>10, <1>11, <1>12
<1>16. sent[u][m + 1].last = fin /\ (t = Eos => fin) BY <1>3, <1>9, <1>12
<1> HIDE DEF msg, token, known, result
<1> DEFINE free == Told(st, Between(k, 0, m), S!FlattenSeq(c))
           upTo == IF t = Eos THEN m ELSE m + 1
<1>17. /\ x \in Seq(W)
       /\ ~fin => /\ new \in StatusType /\ \E out : Told(new, new.ids, out)
                  /\ free => Told(new, Between(k, 0, m + 1), S!FlattenSeq(Append(c, x)))
       /\ free => Good(Between(k, 0, upTo), S!FlattenSeq(Append(c, x)))
  <2>1. CASE t = Eos
    <3>1. x = Increment(st, st.ids).text /\ fin BY <1>14, <1>16, <2>1
    <3>2. x \in Seq(W) /\ \A b : Told(st, b, S!FlattenSeq(c)) => Good(b, S!FlattenSeq(Append(c, x)))
      BY ONLY VocabOK, <1>7, <3>1, c \in Seq(Seq(W)), NextEos
    <3>3. QED BY <2>1, <3>1, <3>2
  <2>2. CASE t # Eos
    <3>1. /\ x = Increment(st, Append(st.ids, k[m + 1])).text
          /\ new = Increment(st, Append(st.ids, k[m + 1])).status
          /\ k[m + 1] \in Vocab /\ m + 1 <= Len(k)
      BY <1>3, <1>4, <1>9, <1>14, <2>2
    <3>2. /\ x \in Seq(W) /\ new \in StatusType /\ \E out : Told(new, new.ids, out)
          /\ Told(st, Between(k, 0, m), S!FlattenSeq(c)) =>
               /\ Told(new, Between(k, 0, m + 1), S!FlattenSeq(Append(c, x)))
               /\ Good(Between(k, 0, m + 1), S!FlattenSeq(Append(c, x)))
      BY ONLY VocabOK, m \in Nat, k \in Seq(Vocab \cup {Eos}), <3>1, c \in Seq(Seq(W)), <1>7, NextToken
    <3>3. QED BY <2>2, <3>2
  <2>3. QED BY <2>1, <2>2
<1>18. Told(NewStatus, NewStatus.ids, <<>>) /\ NewStatus \in StatusType
  <2>1. Told(NewStatus, <<>>, <<>>) BY ToldFirst
  <2>2. QED BY <2>1 DEF Told
<1>19. PICK s2 : s2 = IF fin THEN NewStatus ELSE new OBVIOUS
<1>20. s2 \in StatusType /\ \E out : Told(s2, s2.ids, out) BY <1>17, <1>18, <1>19
<1>21. TextType' BY <1>15, <1>17, <1>19, <1>20, <1>5, OneMore DEF TextType
<1>22. /\ tokens'[u] = Tail(tokens[u]) /\ sent'[u] = sent[u] /\ ids'[u] = k
       /\ texts'[u] = Append(c, x) /\ status'[u] = s2
  BY <1>4, <1>5, <1>15, <1>19 DEF TypeOK, TextType
<1>23. /\ \A n \in 0..m : Between(Append(c, x), 0, n) = Between(c, 0, n)
       /\ Between(Append(c, x), 0, m + 1) = Append(c, x)
       /\ Append(c, x) \in Seq(Seq(W)) /\ Len(Append(c, x)) = m + 1
  BY ONLY <1>1, <1>5, <1>17, m \in Nat, BeforeSame
<1>24. Numbered(u)' BY <1>4, <1>22 DEF TextInv, Numbered
<1>25. Unread(u)' BY <1>3, <1>22, <1>23 DEF Unread
<1>26. ASSUME NEW n, Unfinished(u, n)' PROVE Unfinished(u, n)
  BY <1>22, <1>26 DEF Unfinished
<1>27. Unfinished(u, m + 1) => free BY <1>1, <1>4, <1>5, <1>6 DEF TextInv
<1>28. m + 1 \in 1..Len(sent[u]) /\ Len(sent[u]) \in Nat
  <2>1. sent[u] \in Seq(Token) BY DEF TypeOK
  <2>2. PICK l \in Nat : l = Len(sent[u]) BY <2>1
  <2>3. m + 1 <= l BY <1>3, <2>2
  <2>4. m + 1 \in 1..l BY ONLY <2>3, l \in Nat, m \in Nat
  <2>5. QED BY <2>2, <2>4
<1>29. Unfinished(u, (m + 1) + 1) => ~fin /\ Unfinished(u, m + 1)
  <2>1. SUFFICES ASSUME Unfinished(u, (m + 1) + 1) PROVE ~fin /\ Unfinished(u, m + 1) OBVIOUS
  <2>2. m + 1 < (m + 1) + 1 BY ONLY m \in Nat
  <2>3. ~sent[u][m + 1].last BY <1>28, <2>1, <2>2 DEF Unfinished
  <2>4. ASSUME NEW i \in 1..Len(sent[u]), i < m + 1 PROVE i < (m + 1) + 1
    BY ONLY m \in Nat, <1>28, <2>4
  <2>5. QED BY <1>16, <2>1, <2>3, <2>4 DEF Unfinished
<1>30. Unfinished(u, Len(texts[u]) + 1)' =>
         Told(status'[u], Between(ids'[u], 0, Len(texts'[u])), S!FlattenSeq(texts'[u]))
  <2>1. SUFFICES ASSUME Unfinished(u, Len(texts[u]) + 1)'
                 PROVE  Told(s2, Between(k, 0, m + 1), S!FlattenSeq(Append(c, x)))
    BY <1>22, <1>23
  <2>2. Unfinished(u, (m + 1) + 1) BY <1>22, <1>23, <2>1 DEF Unfinished
  <2>3. ~fin /\ free BY <1>27, <1>29, <2>2
  <2>4. QED BY <1>17, <1>19, <2>3
<1>31. ASSUME NEW n \in 0..(m + 1), Unfinished(u, n)' PROVE Good(Heard(u, n), Chunks(u, n))'
  <2>1. Unfinished(u, n) BY <1>26, <1>31
  <2>2. CASE n \in 0..m
    <3>1. Good(Heard(u, n), Chunks(u, n)) BY <1>1, <2>1, <2>2 DEF TextInv
    <3>2. Heard(u, n)' = Heard(u, n) BY <1>4, <1>22 DEF Heard
    <3>3. Chunks(u, n)' = Chunks(u, n) BY <1>5, <1>22, <1>23, <2>2 DEF Chunks
    <3>4. QED BY <3>1, <3>2, <3>3 DEF Good
  <2>3. CASE n = m + 1
    <3>1. free BY <1>27, <2>1, <2>3
    <3>2. Heard(u, n)' = Between(k, 0, upTo)
      <4>1. m + 1 > 0 /\ (m + 1) - 1 = m BY ONLY m \in Nat
      <4>2. QED BY <1>9, <1>22, <2>3, <4>1 DEF Heard
    <3>3. Chunks(u, n)' = S!FlattenSeq(Append(c, x)) BY <1>22, <1>23, <2>3 DEF Chunks
    <3>4. Good(Between(k, 0, upTo), S!FlattenSeq(Append(c, x))) BY <1>17, <3>1
    <3>5. QED BY <3>2, <3>3, <3>4 DEF Good
  <2>4. n \in 0..m \/ n = m + 1 BY ONLY m \in Nat, n \in 0..(m + 1)
  <2>5. QED BY <2>2, <2>3, <2>4
<1>32. TextInv(u)'
  <2>1. \A n \in 0..Len(texts'[u]) : Unfinished(u, n)' => Good(Heard(u, n), Chunks(u, n))'
    BY <1>22, <1>23, <1>31
  <2>2. \E out : Told(status'[u], status'[u].ids, out) BY <1>20, <1>22
  <2>3. QED BY <1>24, <1>25, <1>30, <2>1, <2>2 DEF TextInv
<1>33. QED BY <1>1, <1>21, <1>22, <1>23, <1>32

(* The client is never sent more than the detokenizer has said.            *)
Behindhand(u) == Len(delivered[u]) <= Len(texts[u])

(* A step that leaves the text of request u as it is.                      *)
TextSame(u) ==
  /\ ids'[u] = ids[u] /\ status'[u] = status[u] /\ texts'[u] = texts[u]
  /\ sent'[u] = sent[u] /\ tokens'[u] = tokens[u]

LEMMA TextFrame == ASSUME NEW u \in Uids, TextInv(u), TextSame(u) PROVE TextInv(u)'
<1>1. Numbered(u)' /\ Unread(u)' BY DEF TextInv, TextSame, Numbered, Unread
<1>2. \A n : Unfinished(u, n)' <=> Unfinished(u, n) BY DEF TextSame, Unfinished
<1>3. \A n : Heard(u, n)' = Heard(u, n) /\ Chunks(u, n)' = Chunks(u, n)
  BY DEF TextSame, Heard, Chunks
<1>4. \A n \in 0..Len(texts'[u]) : Unfinished(u, n)' => Good(Heard(u, n), Chunks(u, n))'
  BY <1>2, <1>3 DEF TextInv, TextSame, Good
<1>5. Unfinished(u, Len(texts[u]) + 1)' <=> Unfinished(u, Len(texts[u]) + 1)
  BY DEF TextSame, Unfinished
<1>6. QED BY <1>1, <1>4, <1>5 DEF TextInv, TextSame

(* The scheduler sends one more, to the end of what it sent and of what is *)
(* on its way.                                                             *)
LEMMA SentMore ==
  ASSUME TypeOK, TextType, NEW u \in Uids, TextInv(u), NEW t \in Vocab \cup {Eos}, NEW last \in BOOLEAN,
         t = Eos => last, Send(u, last), ids' = [ids EXCEPT ![u] = Append(@, t)],
         UNCHANGED <<status, texts>>
  PROVE  TextInv(u)'
<1>0. PICK D : D = Vocab \cup {Eos} OBVIOUS
<1>1. PICK e \in Token : e = [last |-> last, n |-> Len(sent[u]) + 1]
  <2>1. sent[u] \in Seq(Token) BY DEF TypeOK
  <2>2. PICK n \in Nat : n = Len(sent[u]) + 1 BY <2>1
  <2>3. [last |-> last, n |-> n] \in Token BY DEF Token
  <2>4. QED BY <2>2, <2>3
<1>2. PICK s \in Seq(Token) : s = sent[u] BY DEF TypeOK
<1>3. PICK q \in Seq(Token) : q = tokens[u] BY DEF TypeOK
<1>4. PICK k \in Seq(D) : k = ids[u] BY <1>0 DEF TextType
<1>5. PICK c \in Seq(Seq(W)) : c = texts[u] BY DEF TextType
<1>6. PICK m \in Nat : m = Len(c) OBVIOUS
<1>7. PICK l \in Nat : l = Len(q) OBVIOUS
<1>8. PICK n \in Nat : n = Len(s) OBVIOUS
<1>9. /\ sent'[u] = Append(s, e) /\ tokens'[u] = Append(q, e) /\ ids'[u] = Append(k, t)
      /\ texts'[u] = c /\ status'[u] = status[u]
  BY <1>1, <1>2, <1>3, <1>4, <1>5 DEF Send, TypeOK, TextType
<1>10. e.n = n + 1 /\ e.last = last BY <1>1, <1>2, <1>8
<1>11. /\ Len(k) = n /\ n = m + l
       /\ \A i \in 1..n : s[i].n = i /\ (k[i] = Eos => s[i].last)
       /\ \A j \in 1..l : q[j] = s[m + j]
  BY <1>2, <1>3, <1>4, <1>5, <1>6, <1>7, <1>8 DEF TextInv, Numbered, Unread
<1>12. PICK s2 \in Seq(Token) : s2 = Append(s, e) BY OneMore
<1>13. PICK q2 \in Seq(Token) : q2 = Append(q, e) BY OneMore
<1>14. PICK k2 \in Seq(D) : k2 = Append(k, t)
  <2>1. t \in D BY <1>0
  <2>2. Append(k, t) \in Seq(D) BY ONLY <2>1, k \in Seq(D), OneMore
  <2>3. QED BY <2>2
<1>15. /\ Len(s2) = n + 1 /\ s2[n + 1] = e /\ \A i \in 1..n : s2[i] = s[i]
  BY <1>8, <1>12, OneMore
<1>16. /\ Len(q2) = l + 1 /\ q2[l + 1] = e /\ \A i \in 1..l : q2[i] = q[i]
  BY <1>7, <1>13, OneMore
<1>17. /\ Len(k2) = n + 1 /\ k2[n + 1] = t /\ \A i \in 1..n : k2[i] = k[i]
  <2>1. Len(k) = n BY <1>11
  <2>2. /\ Len(Append(k, t)) = Len(k) + 1 /\ Append(k, t)[Len(k) + 1] = t
        /\ \A i \in 1..Len(k) : Append(k, t)[i] = k[i]
    <3>1. t \in D BY <1>0
    <3>2. QED BY ONLY <3>1, k \in Seq(D), OneMore
  <2>3. QED BY <1>14, <2>1, <2>2
<1>18. \A i \in 1..(n + 1) : i \in 1..n \/ i = n + 1 BY ONLY n \in Nat
<1>19. Numbered(u)'
  <2>1. \A i \in 1..(n + 1) : s2[i].n = i /\ (k2[i] = Eos => s2[i].last)
    <3>1. TAKE i \in 1..(n + 1)
    <3>2. CASE i \in 1..n BY <1>11, <1>15, <1>17, <3>2
    <3>3. CASE i = n + 1 BY <1>10, <1>15, <1>17, <3>3
    <3>4. QED BY <1>18, <3>2, <3>3
  <2>2. QED BY <1>9, <1>12, <1>14, <1>15, <1>17, <2>1 DEF Numbered
<1>20. Unread(u)'
  <2>1. \A j \in 1..(l + 1) : q2[j] = s2[m + j]
    <3>1. TAKE j \in 1..(l + 1)
    <3>2. CASE j \in 1..l
      <4>1. m + j \in 1..n BY ONLY <1>11, <3>2, m \in Nat, l \in Nat, n \in Nat
      <4>2. q2[j] = q[j] /\ s2[m + j] = s[m + j] BY <1>15, <1>16, <3>2, <4>1
      <4>3. QED BY <1>11, <3>2, <4>2
    <3>3. CASE j = l + 1
      <4>1. m + j = n + 1 BY ONLY <1>11, <3>3, m \in Nat, l \in Nat, n \in Nat
      <4>2. QED BY <1>15, <1>16, <3>3, <4>1
    <3>4. j \in 1..l \/ j = l + 1 BY ONLY l \in Nat, j \in 1..(l + 1)
    <3>5. QED BY <3>2, <3>3, <3>4
  <2>2. n + 1 = m + (l + 1) BY ONLY <1>11, m \in Nat, l \in Nat, n \in Nat
  <2>3. QED BY <1>6, <1>9, <1>12, <1>13, <1>15, <1>16, <2>1, <2>2 DEF Unread
<1>21. ASSUME NEW i, Unfinished(u, i)' PROVE Unfinished(u, i)
  <2>1. \A j \in 1..(n + 1) : j < i => ~s2[j].last
    BY <1>9, <1>12, <1>15, <1>21 DEF Unfinished
  <2>2. \A j \in 1..n : j \in 1..(n + 1) BY ONLY n \in Nat
  <2>3. \A j \in 1..n : j < i => ~s[j].last BY <1>15, <2>1, <2>2
  <2>4. QED BY <1>2, <1>8, <2>3 DEF Unfinished
<1>22. \A i \in 0..m : Between(k2, 0, i) = Between(k, 0, i)
  <2>1. n = Len(k) BY <1>11
  <2>2. \A i \in 0..n : Between(Append(k, t), 0, i) = Between(k, 0, i)
    <3>1. t \in D BY <1>0
    <3>2. QED BY ONLY <2>1, <3>1, k \in Seq(D), n \in Nat, BeforeSame
  <2>3. ASSUME NEW i \in 0..m PROVE i \in 0..n
    BY ONLY <1>11, m \in Nat, l \in Nat, n \in Nat, i \in 0..m
  <2>4. QED BY <1>14, <2>2, <2>3
<1>23. ASSUME Unfinished(u, Len(texts[u]) + 1)'
       PROVE  Told(status'[u], Between(ids'[u], 0, Len(texts'[u])), S!FlattenSeq(texts'[u]))
  <2>1. Unfinished(u, m + 1)
    <3>1. Unfinished(u, m + 1)' BY <1>6, <1>9, <1>23 DEF Unfinished
    <3>2. QED BY <1>21, <3>1
  <2>2. Told(status[u], Between(k, 0, m), S!FlattenSeq(c))
    BY <1>4, <1>5, <1>6, <2>1 DEF TextInv
  <2>3. m \in 0..m BY ONLY m \in Nat
  <2>4. Between(k2, 0, m) = Between(k, 0, m) BY <1>22, <2>3
  <2>5. QED BY <1>6, <1>9, <1>14, <2>2, <2>4
<1>24. ASSUME NEW i \in 0..m, Unfinished(u, i)' PROVE Good(Heard(u, i), Chunks(u, i))'
  <2>1. Good(Heard(u, i), Chunks(u, i)) BY <1>5, <1>6, <1>21, <1>24 DEF TextInv
  <2>2. Chunks(u, i)' = Chunks(u, i) BY <1>5, <1>9 DEF Chunks
  <2>3. Heard(u, i)' = Heard(u, i)
    <3>1. CASE i > 0
      <4>1. i \in 1..n /\ i - 1 \in 0..m
        BY ONLY <1>11, <3>1, m \in Nat, l \in Nat, n \in Nat, i \in 0..m
      <4>2. k2[i] = k[i] BY <1>17, <4>1
      <4>3. QED BY <1>4, <1>9, <1>14, <1>22, <4>1, <4>2 DEF Heard
    <3>2. CASE ~(i > 0) BY <1>4, <1>9, <1>14, <1>22, <3>2 DEF Heard
    <3>3. QED BY <3>1, <3>2
  <2>4. QED BY <2>1, <2>2, <2>3 DEF Good
<1>25. \A i \in 0..Len(texts'[u]) : Unfinished(u, i)' => Good(Heard(u, i), Chunks(u, i))'
  BY <1>6, <1>9, <1>24
<1>26. \E out : Told(status'[u], status'[u].ids, out) BY <1>9 DEF TextInv
<1>27. QED BY <1>19, <1>20, <1>23, <1>25, <1>26 DEF TextInv

(* The scheduler keeps the invariant of the request it replies to.         *)
LEMMA SendTextInv ==
  ASSUME TypeOK, TextType, NEW u \in Uids, TextInv(u), SendText(u)
  PROVE  TextType' /\ TextInv(u)'
<1>1. PICK t \in Vocab \cup {Eos} :
        /\ \/ \E inFlight \in BOOLEAN : Reply(u, t = Eos, inFlight)
           \/ Trail(u, t = Eos)
        /\ ids' = [ids EXCEPT ![u] = Append(@, t)]
  BY DEF SendText
<1>2. UNCHANGED <<status, texts>> BY DEF SendText
<1>3. \E last \in BOOLEAN : (t = Eos => last) /\ Send(u, last)
  <2>1. CASE \E inFlight \in BOOLEAN : Reply(u, t = Eos, inFlight)
    <3>1. PICK inFlight \in BOOLEAN : Reply(u, t = Eos, inFlight) BY <2>1
    <3> DEFINE last == \/ t = Eos \/ Len(sent[u]) + 1 = MaxTokens[u]
                       \/ inFlight /\ Len(sent[u]) + 1 + 1 = MaxTokens[u]
    <3>2. Send(u, last) /\ last \in BOOLEAN /\ (t = Eos => last) BY <3>1 DEF Reply
    <3>3. QED BY <3>2
  <2>2. CASE Trail(u, t = Eos)
    <3> DEFINE last == t = Eos \/ Len(sent[u]) + 1 = MaxTokens[u]
    <3>1. Send(u, last) /\ last \in BOOLEAN /\ (t = Eos => last) BY <2>2 DEF Trail
    <3>2. QED BY <3>1
  <2>3. QED BY <1>1, <2>1, <2>2
<1>4. PICK last \in BOOLEAN : (t = Eos => last) /\ Send(u, last) BY <1>3
<1>5. TextInv(u)' BY <1>1, <1>2, <1>4, SentMore
<1>6. TextType'
  <2>1. ids[u] \in Seq(Vocab \cup {Eos}) BY DEF TextType
  <2>2. Append(ids[u], t) \in Seq(Vocab \cup {Eos}) BY <2>1, OneMore
  <2>3. QED BY <1>1, <1>2, <2>2 DEF TextType
<1>7. QED BY <1>5, <1>6

(* A stream that is open has no more than what the detokenizer has said.   *)
LEMMA DeliveredSaid ==
  ASSUME NEW t \in Seq(Token), NEW a \in Seq(Token), NEW r \in Seq(Token), NEW k \in Seq(Token),
         NEW d \in Seq(Token), NEW s, d \o (t \o a \o r \o k) = s,
         NEW m \in Nat, Len(s) = m + Len(k)
  PROVE  Len(d) <= m
<1>1. PICK x \in Seq(Token) : x = t \o a \o r BY ConcatProperties
<1>2. x \o k \in Seq(Token) /\ Len(x \o k) = Len(x) + Len(k) BY ConcatProperties
<1>3. PICK y \in Seq(Token) : y = x \o k BY <1>2
<1>4. Len(d \o y) = Len(d) + Len(y) BY ConcatProperties
<1>5. s = d \o y BY <1>1, <1>3
<1>6. PICK i \in Nat : i = Len(x) OBVIOUS
<1>7. PICK j \in Nat : j = Len(k) OBVIOUS
<1>8. PICK l \in Nat : l = Len(d) OBVIOUS
<1>9. l + (i + j) = m + j BY <1>2, <1>3, <1>4, <1>5, <1>6, <1>7, <1>8
<1>10. l <= m BY ONLY <1>9, i \in Nat, j \in Nat, l \in Nat, m \in Nat
<1>11. QED BY <1>8, <1>10

(* The invariant of Text, from the first state on and with every step.     *)
AllTextInv == TextType /\ \A u \in Uids : TextInv(u) /\ Behindhand(u)

LEMMA AllTextInit == ASSUME VocabOK PROVE TextInit => AllTextInv
<1> SUFFICES ASSUME TextInit PROVE AllTextInv OBVIOUS
<1>1. Told(NewStatus, <<>>, <<>>) BY ToldFirst
<1>2. NewStatus \in StatusType /\ NewStatus.ids = <<>> BY <1>1 DEF Told
<1>3. <<>> \in Seq(Seq(W)) /\ <<>> \in Seq(Vocab \cup {Eos}) /\ Len(<<>>) = 0 OBVIOUS
<1>4. TextType BY <1>2, <1>3 DEF TextInit, TextType
<1>5. Between(<<>>, 0, 0) = <<>>
  <2>1. <<>> \in Seq(Seq(W)) /\ 0 \in Nat BY <1>3
  <2>2. QED BY ONLY <2>1, BetweenSame
<1>6. ASSUME NEW u \in Uids PROVE TextInv(u) /\ Behindhand(u)
  <2>1. /\ ids[u] = <<>> /\ status[u] = NewStatus /\ texts[u] = <<>>
        /\ sent[u] = <<>> /\ tokens[u] = <<>> /\ delivered[u] = <<>>
    BY DEF TextInit, Init
  <2>2. Numbered(u) BY <1>3, <2>1 DEF Numbered
  <2>3. Unread(u) /\ Behindhand(u) BY <1>3, <2>1 DEF Unread, Behindhand
  <2>4. Told(status[u], Between(ids[u], 0, Len(texts[u])), S!FlattenSeq(texts[u]))
    BY <1>1, <1>3, <1>5, <2>1, FlattenEmpty
  <2>5. \E out : Told(status[u], status[u].ids, out) BY <1>1, <1>2, <2>1
  <2>6. ASSUME NEW n \in 0..Len(texts[u]) PROVE Good(Heard(u, n), Chunks(u, n))
    <3>1. n = 0 BY <1>3, <2>1
    <3>2. Heard(u, 0) = <<>> /\ Chunks(u, 0) = <<>>
      BY <1>5, <2>1, FlattenEmpty DEF Heard, Chunks
    <3>3. Good(<<>>, <<>>) BY ONLY VocabOK, <1>1, ToldGood
    <3>4. QED BY <3>1, <3>2, <3>3
  <2>7. QED BY <2>2, <2>3, <2>4, <2>5, <2>6 DEF TextInv
<1>7. QED BY <1>4, <1>6 DEF AllTextInv

(* What the other handlers leave alone.                                    *)
LEMMA OtherHandlers ==
  ASSUME NEW u \in Uids, Generate(u) \/ Disconnect(u) \/ Front(u)
  PROVE  UNCHANGED <<sent, tokens>> /\ (UNCHANGED delivered \/ Deliver(u))
BY DEF Generate, Disconnect, Front, Listen, WakeUp, Close, Cancel, AbortUser, Deliver, schedVars

LEMMA OtherWorkers ==
  ASSUME NEW w \in Encoders, SchedulerTakes(w) \/ Encode(w)
  PROVE  UNCHANGED <<sent, tokens, delivered>>
BY DEF SchedulerTakes, TakeUser, TakeAbort, Encode, frontVars, schedVars

LEMMA NotDelivered ==
  ASSUME AllTextInv, NEW v \in Uids, TextSame(v), UNCHANGED delivered
  PROVE  TextInv(v)' /\ Behindhand(v)'
BY TextFrame DEF AllTextInv, TextSame, Behindhand

(* Every step keeps it: with the invariant of the pipeline, a chunk that is*)
(* delivered was said before.                                              *)
LEMMA AllTextStep ==
  ASSUME VocabOK, PipelineInv, PipelineInv', AllTextInv, [TextNext]_<<vars, textVars>>
  PROVE  AllTextInv'
<1>1. TypeOK /\ TextType BY DEF PipelineInv, AllTextInv
<1>2. ASSUME NEW u \in Uids, DetokenizeText(u) PROVE AllTextInv'
  <2>1. TextType' /\ TextInv(u)' /\ Len(texts'[u]) = Len(texts[u]) + 1
    BY <1>1, <1>2, DetokenizeTextInv DEF AllTextInv
  <2>2. UNCHANGED delivered BY <1>2 DEF DetokenizeText, Detokenize, frontVars
  <2>3. Behindhand(u)'
    <3>1. delivered[u] \in Seq(Token) /\ texts[u] \in Seq(Seq(W)) BY <1>1 DEF TypeOK, TextType
    <3>2. PICK d \in Nat : d = Len(delivered[u]) BY <3>1
    <3>3. PICK m \in Nat : m = Len(texts[u]) BY <3>1
    <3>4. d <= m BY <3>2, <3>3 DEF AllTextInv, Behindhand
    <3>5. d <= m + 1 BY ONLY <3>4, d \in Nat, m \in Nat
    <3>6. QED BY <2>1, <2>2, <3>2, <3>3, <3>5 DEF Behindhand
  <2>4. ASSUME NEW v \in Uids, v # u PROVE TextInv(v)' /\ Behindhand(v)'
    <3>1. TextSame(v)
      BY <1>1, <1>2, <2>4 DEF DetokenizeText, Detokenize, TextSame, TypeOK, TextType, schedVars
    <3>2. QED BY <2>2, <3>1, NotDelivered
  <2>5. QED BY <2>1, <2>3, <2>4 DEF AllTextInv
<1>3. ASSUME NEW u \in Uids, SendText(u) PROVE AllTextInv'
  <2>1. TextType' /\ TextInv(u)' BY <1>1, <1>3, SendTextInv DEF AllTextInv
  <2>2. UNCHANGED <<delivered, status, texts>> BY <1>3 DEF SendText, Reply, Trail, frontVars
  <2>3. Behindhand(u)' BY <2>2 DEF AllTextInv, Behindhand
  <2>4. ASSUME NEW v \in Uids, v # u PROVE TextInv(v)' /\ Behindhand(v)'
    <3>1. /\ \E t \in Vocab \cup {Eos} : ids' = [ids EXCEPT ![u] = Append(@, t)]
          /\ \E b : Send(u, b)
      BY <1>3 DEF SendText, Reply, Trail
    <3>2. TextSame(v) BY <1>1, <2>2, <2>4, <3>1 DEF Send, TextSame, TypeOK, TextType
    <3>3. QED BY <2>2, <3>2, NotDelivered
  <2>5. QED BY <2>1, <2>3, <2>4 DEF AllTextInv
<1>4. ASSUME UNCHANGED <<sent, tokens, textVars>> PROVE TextType' /\ \A v \in Uids : TextSame(v) /\ TextInv(v)'
  <2>1. TextType' BY <1>1, <1>4 DEF TextType, textVars
  <2>2. \A v \in Uids : TextSame(v) BY <1>4 DEF TextSame, textVars
  <2>3. QED BY <2>1, <2>2, TextFrame DEF AllTextInv
<1>5. ASSUME UNCHANGED <<sent, tokens, textVars, delivered>> PROVE AllTextInv'
  BY <1>4, <1>5, NotDelivered DEF AllTextInv
<1>6. ASSUME NEW u \in Uids, Deliver(u), UNCHANGED <<sent, tokens, textVars>> PROVE AllTextInv'
  <2>1. ASSUME NEW v \in Uids, v # u PROVE Behindhand(v)'
    BY <1>1, <1>6, <2>1 DEF Deliver, AllTextInv, Behindhand, textVars, TypeOK
  <2>2. Behindhand(u)'
    <3>1. Open(u)' BY <1>1, <1>6 DEF Deliver, After, Open, TypeOK
    <3>2. TypeOK' /\ Faithful(u)' BY DEF PipelineInv, RequestInv
    <3>3. delivered'[u] \o (taken'[u] \o acks'[u] \o replies'[u] \o tokens'[u]) = sent'[u]
      BY <3>1, <3>2 DEF Faithful, OnItsWay
    <3>4. /\ taken'[u] \in Seq(Token) /\ acks'[u] \in Seq(Token) /\ replies'[u] \in Seq(Token)
          /\ tokens'[u] \in Seq(Token) /\ delivered'[u] \in Seq(Token)
      BY <3>2 DEF TypeOK
    <3>5. PICK m \in Nat : m = Len(texts'[u])
      <4>1. texts'[u] \in Seq(Seq(W)) BY <1>1, <1>6 DEF TextType, textVars
      <4>2. QED BY <4>1
    <3>6. Len(sent'[u]) = m + Len(tokens'[u])
      BY <1>6, <3>5 DEF AllTextInv, TextInv, Unread, textVars
    <3>7. Len(delivered'[u]) <= m BY ONLY <3>3, <3>4, <3>6, m \in Nat, DeliveredSaid
    <3>8. QED BY <3>5, <3>7 DEF Behindhand
  <2>3. QED BY <1>4, <1>6, <2>1, <2>2 DEF AllTextInv
<1>7. ASSUME NEW u \in Uids, Generate(u) \/ Disconnect(u) \/ Front(u), UNCHANGED textVars
      PROVE  AllTextInv'
  BY <1>5, <1>6, <1>7, OtherHandlers
<1>8. ASSUME NEW w \in Encoders, SchedulerTakes(w) \/ Encode(w), UNCHANGED textVars
      PROVE  AllTextInv'
  BY <1>5, <1>8, OtherWorkers
<1>9. CASE UNCHANGED <<vars, textVars>>
  BY <1>5, <1>9 DEF vars, frontVars, schedVars
<1>10. QED BY <1>2, <1>3, <1>7, <1>8, <1>9 DEF TextNext

(* The client has the text of its tokens.                                  *)
LEMMA TextFaithfulThere ==
  ASSUME PipelineInv, AllTextInv PROVE TextFaithful
<1> SUFFICES ASSUME NEW u \in Uids
             PROVE  LET n == Len(delivered[u])
                        text == S!FlattenSeq(SubSeq(texts[u], 1, n))
                        full == Decode(Shown(u, n))
                    IN /\ S!IsPrefix(text, full)
                       /\ full = <<>> \/ Complete(full) => text = full
  BY DEF TextFaithful
<1>1. PICK d \in Seq(Token) : d = delivered[u] BY DEF PipelineInv, TypeOK
<1>2. PICK n \in Nat : n = Len(d) OBVIOUS
<1>3. PICK m \in Nat : m = Len(texts[u])
  <2>1. texts[u] \in Seq(Seq(W)) BY DEF AllTextInv, TextType
  <2>2. QED BY <2>1
<1>4. PICK l \in Nat : l = Len(sent[u])
  <2>1. sent[u] \in Seq(Token) BY DEF PipelineInv, TypeOK
  <2>2. QED BY <2>1
<1>5. n \in 0..m
  <2>1. n <= m BY <1>1, <1>2, <1>3 DEF AllTextInv, Behindhand
  <2>2. QED BY ONLY <2>1, n \in Nat, m \in Nat
<1>6. Unfinished(u, n)
  <2>1. SUFFICES ASSUME NEW i \in 1..l, i < n PROVE ~sent[u][i].last
    BY <1>4 DEF Unfinished
  <2>2. i \in 1..n /\ i # n BY ONLY <2>1, i \in 1..l, n \in Nat, l \in Nat
  <2>3. d[i] = sent[u][i] /\ (d[i].last => i = n)
    BY <1>1, <1>2, <2>2 DEF PipelineInv, RequestInv, Faithful, Ended
  <2>4. QED BY <2>2, <2>3
<1>7. Good(Heard(u, n), Chunks(u, n)) BY <1>3, <1>5, <1>6 DEF AllTextInv, TextInv
<1>8. Heard(u, n) = Shown(u, n) /\ Chunks(u, n) = S!FlattenSeq(SubSeq(texts[u], 1, n))
  BY DEF Heard, Chunks, Shown, Between
<1>9. QED BY <1>1, <1>2, <1>7, <1>8 DEF Good

(* What the client was sent is the beginning of the text of its tokens, each*)
(* character once, and all of it unless it ends in half a character: the   *)
(* offsets of detokenize lose nothing and repeat nothing, whatever the     *)
(* lengths of replies and the interleaving, for every vocabulary in which  *)
(* what is printable never gets shorter.                                   *)
THEOREM TextFaithfulHolds == ASSUME VocabOK PROVE TextSpec => []TextFaithful
<1>1. TextInit => AllTextInv BY AllTextInit
<1>2. PipelineInv /\ PipelineInv' /\ AllTextInv /\ [TextNext]_<<vars, textVars>> => AllTextInv'
  BY AllTextStep
<1>3. PipelineInv /\ AllTextInv => TextFaithful BY TextFaithfulThere
<1>4. QED BY <1>1, <1>2, <1>3, TextImplementsPipeline, PipelineInvHolds, PTL DEF TextSpec
===============================================================================
