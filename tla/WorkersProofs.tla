---------------------------- MODULE WorkersProofs ----------------------------
(***************************************************************************)
(* Proofs about the start of the server and the first forward pass, for    *)
(* any number of ranks and tokenizers and any memory of the ranks: the     *)
(* engines agree on their pages and graphs, the server is ready when all   *)
(* processes are, then each address is bound once and used; the ranks make *)
(* the same collectives in the same order, whatever the layers; and the    *)
(* pieces of the model they hold make it up, each on one rank.             *)
(***************************************************************************)
EXTENDS Workers, SequenceTheorems, FiniteSetTheorems, WellFoundedInduction, TLAPS

(* The steps before init_free_memory is known, and those from the last     *)
(* barrier on.                                                             *)
Early == {"config", "init", "group", "uid", "comm", "memory"}
Late == {"barrier", "ack", "serve"}

States == {"new", "connected", "listening"}

EngineTypes ==
  /\ setup \in Setups
  /\ at \in [Ranks -> Steps]
  /\ entered \in [Ranks -> SUBSET Collectives]
  /\ dead \subseteq Ranks
  /\ offered = [q \in Ranks |-> [c \in Collectives |-> offered[q][c]]]
  /\ initFree = [q \in Ranks |-> initFree[q]]
  /\ pages = [q \in Ranks |-> pages[q]]
  /\ worker \in [Workers -> States]
  /\ got \in Nat /\ acks \in Nat

AllEntered(step) == \A q \in Ranks : step \in entered[q]

----------------------------------------------------------------------------
(* Configurations and steps.                                               *)
LEMMA SetupTyped ==
  ASSUME setup \in Setups
  PROVE  setup.tp \in Nat /\ setup.tp > 0 /\ 0 \in Ranks /\ setup.tokenizers \in Nat
BY SetupsAssumption, TokenizersAssumption DEF Ranks

LEMMA FollowingTyped ==
  ASSUME NEW s \in Steps
  PROVE  /\ Following(s) \in Steps
         /\ s \in Early \ {"memory"} => Following(s) \in Early
         /\ s \notin Early \ {"memory"} => Following(s) \notin Early
         /\ s \notin Late => Following(s) \notin {"ack", "serve"}
         /\ s = "barrier" => Following(s) = "ack"
         /\ s = "ack" => Following(s) = "serve"
BY DEF Following, Steps, Early, Late

----------------------------------------------------------------------------
(* The kinds of steps that a rank takes.                                   *)
Same == UNCHANGED <<setup, entered, offered>>
Launcher == UNCHANGED <<worker, got, server>>
Stays == UNCHANGED <<at, dead, initFree, pages, acks>> /\ Same /\ Launcher
Fails(r) ==
  /\ at[r] \notin Late \/ \E q \in dead : at[r] \notin entered[q]
  /\ dead' = dead \cup {r} /\ UNCHANGED <<at, initFree, pages, acks>> /\ Same /\ Launcher
Goes(r) ==
  /\ at[r] \notin {"memory", "ack", "serve"}
  /\ at[r] = "barrier" => AllEntered("barrier")
  /\ at' = [at EXCEPT ![r] = Following(@)]
  /\ UNCHANGED <<dead, initFree, pages, acks>> /\ Same /\ Launcher
Comes(r) ==
  /\ at[r] \in Collectives \ entered[r] /\ r \notin dead
  /\ entered' = [entered EXCEPT ![r] = @ \cup {at[r]}]
  /\ offered' = [offered EXCEPT ![r][at[r]] = free[r]]
  /\ UNCHANGED <<setup, at, dead, initFree, pages, acks>> /\ Launcher
LearnsFree(r) ==
  /\ at[r] = "memory" /\ AllEntered("memory")
  /\ at' = [at EXCEPT ![r] = Following(@)]
  /\ initFree' = [initFree EXCEPT ![r] = Max(Offers("memory"))]
  /\ UNCHANGED <<dead, pages, acks>> /\ Same /\ Launcher
LearnsPages(r) ==
  /\ at[r] = "pages" /\ AllEntered("pages")
  /\ at' = [at EXCEPT ![r] = Following(@)]
  /\ pages' = [pages EXCEPT ![r] =
       (initFree[r] * 9) \div 10 - (initFree[r] - Max(Offers("pages")))]
  /\ UNCHANGED <<dead, initFree, acks>> /\ Same /\ Launcher
Answers(r) ==
  /\ at[r] = "ack" /\ at' = [at EXCEPT ![r] = Following(@)]
  /\ acks' = IF r = 0 THEN acks + 1 ELSE acks
  /\ UNCHANGED <<dead, initFree, pages>> /\ Same /\ Launcher

RankKind(r) ==
  \/ Stays \/ Fails(r) \/ Goes(r) \/ Comes(r)
  \/ LearnsFree(r) \/ LearnsPages(r) \/ Answers(r)

LEMMA RankKinds ==
  ASSUME EngineTypes, NEW r \in Ranks, RankStep(r)
  PROVE  RankKind(r)
<1> USE DEF Same, Launcher, launcherVars, memoryVars, rankVars, Takes, Advance, Die
<1>1. CASE Enter(r) BY <1>1 DEF Enter, RankKind, Comes, Alive
<1>2. CASE Leave(r)
  BY <1>2 DEF Leave, RankKind, Goes, SyncsMemory, Waiting, Everyone, AllEntered, EngineTypes, Collectives
<1>3. CASE SyncMemory(r)
  <2>1. /\ at[r] \in {"memory", "pages", "check"} /\ AllEntered(at[r]) /\ Same /\ Launcher
        /\ UNCHANGED acks
    BY <1>3 DEF SyncMemory, SyncsMemory, Waiting, Everyone, AllEntered
  <2>2. CASE Die(r) BY <1>3, <2>1, <2>2 DEF RankKind, Fails, Late
  <2>3. CASE /\ Advance(r)
             /\ initFree' = IF at[r] = "memory" THEN [initFree EXCEPT ![r] = Largest(r)] ELSE initFree
             /\ pages' = IF at[r] = "pages" THEN [pages EXCEPT ![r] = NumPages(r)] ELSE pages
             /\ UNCHANGED <<free, dead>>
    <3>1. CASE at[r] = "memory" BY <2>1, <2>3, <3>1 DEF RankKind, LearnsFree, Largest
    <3>2. CASE at[r] = "pages"
      BY <2>1, <2>3, <3>2 DEF RankKind, LearnsPages, NumPages, Largest
    <3>3. CASE at[r] = "check" BY <2>1, <2>3, <3>3 DEF RankKind, Goes
    <3>4. QED BY <2>1, <3>1, <3>2, <3>3
  <2>4. QED BY <1>3, <2>2, <2>3 DEF SyncMemory
<1>4. CASE Timeout(r) BY <1>4 DEF Timeout, RankKind, Fails
<1>5. CASE AdjustConfig(r) BY <1>5 DEF AdjustConfig, Use, RankKind, Goes, Fails, Late
<1>6. CASE CreateModel(r) BY <1>6 DEF CreateModel, Use, RankKind, Goes, Fails, Late
<1>7. CASE LoadOne(r) BY <1>7 DEF LoadOne, RankKind, Stays
<1>8. CASE LoadStateDict(r) BY <1>8 DEF LoadStateDict, Use, RankKind, Goes, Fails, Late
<1>9. CASE AllocateCache(r) BY <1>9 DEF AllocateCache, Use, RankKind, Goes, Fails, Late
<1>10. CASE InitIO(r) BY <1>10 DEF InitIO, RankKind, Goes
<1>11. CASE Report(r) BY <1>11 DEF Report, RankKind, Goes
<1>12. CASE AckScheduler(r) BY <1>12 DEF AckScheduler, RankKind, Answers
<1>13. QED
  BY <1>1, <1>2, <1>3, <1>4, <1>5, <1>6, <1>7, <1>8, <1>9, <1>10, <1>11, <1>12 DEF RankStep

(* A forward pass leaves the start behind.                                 *)
LEMMA ForwardSame == ASSUME NEW r, ForwardStep(r) PROVE UNCHANGED setup
BY DEF ForwardStep, Embed, Attend, DenseMLP, FusedMoE, SumUp, LocalMoE, GatherCounts, Dispatch,
       Combine, FinishMoE, GatherLogits, Ended

(* What a step of the server does to the start, whoever takes it.          *)
WorkerStep ==
  /\ UNCHANGED <<setup, at, dead, entered, offered, initFree, pages>>
  /\ \/ UNCHANGED <<worker, acks, got, server>>
     \/ /\ server = "spawning" /\ server' \in {"spawning", "waiting"} /\ UNCHANGED <<worker, acks, got>>
     \/ /\ server = "waiting" /\ acks > 0 /\ acks' = acks - 1 /\ got' = got + 1
        /\ server' = IF got' = Expected THEN "ready" ELSE server
        /\ UNCHANGED worker
     \/ \E p \in Workers :
          /\ worker[p] = "new" /\ worker' = [worker EXCEPT ![p] = "connected"]
          /\ UNCHANGED <<acks, got, server>>
     \/ \E p \in Workers :
          /\ worker[p] = "connected" /\ worker' = [worker EXCEPT ![p] = "listening"]
          /\ acks' = acks + 1 /\ UNCHANGED <<got, server>>

LEMMA StepKinds ==
  ASSUME EngineTypes, [Next]_vars
  PROVE  WorkerStep \/ \E r \in Ranks : RankKind(r)
<1> USE DEF launcherVars, socketVars, rankVars, memoryVars
<1>1. CASE UNCHANGED vars BY <1>1 DEF vars, startVars, WorkerStep
<1>2. CASE Spawn BY <1>2 DEF Spawn, WorkerStep
<1>3. CASE TakeAck BY <1>3 DEF TakeAck, WorkerStep
<1>4. CASE \E p \in Workers : ConnectWorker(p) BY <1>4 DEF ConnectWorker, WorkerStep
<1>5. CASE \E p \in Workers : AckWorker(p) BY <1>5 DEF AckWorker, WorkerStep
<1>6. CASE Ask BY <1>6 DEF Ask, startVars, WorkerStep
<1>7. ASSUME NEW r \in Ranks, Start(r) PROVE RankKind(r) BY <1>7, RankKinds DEF Start
<1>8. ASSUME NEW r \in Ranks, Serve(r) PROVE WorkerStep
  BY <1>8, ForwardSame DEF Serve, WorkerStep
<1>9. QED BY <1>1, <1>2, <1>3, <1>4, <1>5, <1>6, <1>7, <1>8 DEF Next

LEMMA TypesInit == ASSUME Init PROVE EngineTypes
BY DEF Init, StartInit, WeightsInit, EngineTypes, Steps, States

LEMMA TypesStep == ASSUME EngineTypes, [Next]_vars PROVE EngineTypes'
<1> USE DEF Same, Launcher
<1>1. CASE WorkerStep
  <2>1. Ranks' = Ranks /\ Workers' = Workers
    BY <1>1 DEF WorkerStep, Ranks, Workers, Tokenizers, Detokenizer
  <2>2. worker' \in [Workers -> States] /\ got' \in Nat /\ acks' \in Nat
    BY <1>1 DEF WorkerStep, EngineTypes, States
  <2>3. QED BY <1>1, <2>1, <2>2 DEF WorkerStep, EngineTypes
<1>2. ASSUME NEW r \in Ranks, RankKind(r) PROVE EngineTypes'
  <2>1. Ranks' = Ranks /\ Workers' = Workers /\ worker' = worker /\ got' = got
        /\ setup' = setup /\ acks' \in Nat
    BY <1>2 DEF RankKind, Stays, Fails, Goes, Comes, LearnsFree, LearnsPages, Answers,
                Ranks, Workers, Tokenizers, Detokenizer, EngineTypes
  <2>2. at[r] \in Steps /\ Following(at[r]) \in Steps BY FollowingTyped DEF EngineTypes
  <2>3. at' \in [Ranks -> Steps] /\ dead' \subseteq Ranks
    BY <1>2, <2>2 DEF RankKind, Stays, Fails, Goes, Comes, LearnsFree, LearnsPages, Answers, EngineTypes
  <2>4. entered' \in [Ranks -> SUBSET Collectives]
        /\ offered' = [q \in Ranks |-> [c \in Collectives |-> offered'[q][c]]]
    <3>1. CASE Comes(r) BY <3>1 DEF Comes, EngineTypes
    <3>2. CASE Same BY <3>2 DEF EngineTypes
    <3>3. QED BY <1>2, <3>1, <3>2 DEF RankKind, Stays, Fails, Goes, LearnsFree, LearnsPages, Answers
  <2>5. initFree' = [q \in Ranks |-> initFree'[q]] /\ pages' = [q \in Ranks |-> pages'[q]]
    BY <1>2 DEF RankKind, Stays, Fails, Goes, Comes, LearnsFree, LearnsPages, Answers, EngineTypes
  <2>6. QED BY <2>1, <2>3, <2>4, <2>5 DEF EngineTypes
<1>3. QED BY <1>1, <1>2, StepKinds

----------------------------------------------------------------------------
(* What the ranks know about memory: the largest free memory of all, which *)
(* nobody changes after everyone has come to the collective.               *)
FreeKnown(r) ==
  IF at[r] \in Early THEN initFree[r] = 0 /\ pages[r] = 0
  ELSE AllEntered("memory") /\ initFree[r] = Max(Offers("memory"))
PagesKnown(r) ==
  pages[r] # 0 =>
    /\ AllEntered("pages")
    /\ pages[r] = (initFree[r] * 9) \div 10 - (initFree[r] - Max(Offers("pages")))

MemoryInv == EngineTypes /\ \A r \in Ranks : FreeKnown(r) /\ PagesKnown(r)

LEMMA OffersKept ==
  ASSUME EngineTypes, NEW r \in Ranks, RankKind(r), NEW c \in Collectives, AllEntered(c)
  PROVE  Offers(c)' = Offers(c) /\ AllEntered(c)'
<1> USE DEF Same
<1>1. CASE Comes(r)
  <2>1. \A q \in Ranks : offered'[q][c] = offered[q][c] /\ c \in entered'[q]
    BY <1>1 DEF Comes, AllEntered, EngineTypes
  <2>2. QED BY <1>1, <2>1 DEF Comes, Offers, AllEntered, Ranks
<1>2. CASE Same BY <1>2 DEF Offers, AllEntered, Ranks
<1>3. QED BY <1>1, <1>2 DEF RankKind, Stays, Fails, Goes, LearnsFree, LearnsPages, Answers

LEMMA MemoryStep == ASSUME MemoryInv, [Next]_vars PROVE MemoryInv'
<1>1. EngineTypes /\ EngineTypes' BY TypesStep DEF MemoryInv
<1>2. CASE WorkerStep
  <2>1. Ranks' = Ranks /\ UNCHANGED <<at, initFree, pages>>
    BY <1>2 DEF WorkerStep, Ranks
  <2>2. ASSUME NEW c PROVE Offers(c)' = Offers(c) /\ AllEntered(c)' = AllEntered(c)
    BY <1>2 DEF WorkerStep, AllEntered, Offers, Ranks
  <2>3. ASSUME NEW r \in Ranks PROVE FreeKnown(r)' /\ PagesKnown(r)'
    BY <2>1, <2>2 DEF MemoryInv, FreeKnown, PagesKnown
  <2>4. QED BY <1>1, <2>1, <2>3 DEF MemoryInv
<1>3. ASSUME NEW r \in Ranks, RankKind(r) PROVE MemoryInv'
  <2> USE DEF Same
  <2>1. Ranks' = Ranks
    BY <1>3 DEF RankKind, Stays, Fails, Goes, Comes, LearnsFree, LearnsPages, Answers, Ranks
  <2>2. "memory" \in Collectives /\ "pages" \in Collectives BY DEF Collectives
  <2>3. /\ AllEntered("memory") => Offers("memory")' = Offers("memory") /\ AllEntered("memory")'
        /\ AllEntered("pages") => Offers("pages")' = Offers("pages") /\ AllEntered("pages")'
    BY <1>1, <1>3, <2>2, OffersKept
  <2> SUFFICES ASSUME NEW q \in Ranks PROVE FreeKnown(q)' /\ PagesKnown(q)'
    BY <1>1, <2>1 DEF MemoryInv
  <2>4. FreeKnown(q) /\ PagesKnown(q) BY DEF MemoryInv
  <2>5. CASE UNCHANGED <<at, initFree, pages>>
    BY <2>3, <2>4, <2>5 DEF FreeKnown, PagesKnown
  <2>6. /\ at[r] \in Steps
        /\ at[r] \in Early \ {"memory"} <=> Following(at[r]) \in Early
    BY <1>1, FollowingTyped DEF EngineTypes
  <2>7. CASE Goes(r)
    BY <1>1, <2>3, <2>4, <2>6, <2>7 DEF Goes, FreeKnown, PagesKnown, EngineTypes
  <2>8. CASE LearnsFree(r)
    <3>1. q # r => UNCHANGED <<at[q], initFree[q], pages[q]>>
      BY <1>1, <2>8 DEF LearnsFree, EngineTypes
    <3>2. q = r => /\ at'[q] \notin Early /\ initFree'[q] = Max(Offers("memory"))
                   /\ AllEntered("memory") /\ pages'[q] = 0
      BY <1>1, <2>4, <2>6, <2>8 DEF LearnsFree, FreeKnown, EngineTypes, Early
    <3>3. QED BY <2>3, <2>4, <3>1, <3>2 DEF FreeKnown, PagesKnown
  <2>9. CASE LearnsPages(r)
    <3>1. initFree' = initFree /\ (q # r => UNCHANGED <<at[q], pages[q]>>)
      BY <1>1, <2>9 DEF LearnsPages, EngineTypes
    <3>2. q = r => /\ at[q] \notin Early /\ at'[q] \notin Early /\ AllEntered("pages")
                   /\ pages'[q] = (initFree[q] * 9) \div 10 - (initFree[q] - Max(Offers("pages")))
      BY <1>1, <2>6, <2>9 DEF LearnsPages, EngineTypes, Early
    <3>3. QED BY <2>3, <2>4, <3>1, <3>2 DEF FreeKnown, PagesKnown
  <2>10. CASE Answers(r)
    BY <1>1, <2>3, <2>4, <2>6, <2>10 DEF Answers, FreeKnown, PagesKnown, EngineTypes, Early
  <2>11. QED
    BY <1>3, <2>5, <2>7, <2>8, <2>9, <2>10 DEF RankKind, Stays, Fails, Comes
<1>4. QED BY <1>1, <1>2, <1>3, StepKinds

LEMMA MemoryInit == ASSUME Init PROVE MemoryInv
<1>1. EngineTypes BY TypesInit
<1>2. \A r \in Ranks : at[r] = "config" /\ initFree[r] = 0 /\ pages[r] = 0
  BY DEF Init, StartInit
<1>3. QED BY <1>1, <1>2 DEF MemoryInv, FreeKnown, PagesKnown, Early

LEMMA MemoryAgrees == ASSUME MemoryInv PROVE EnginesAgree
<1> SUFFICES ASSUME NEW q \in Ranks, NEW r \in Ranks
    PROVE /\ pages[q] > 0 /\ pages[r] > 0 => pages[q] = pages[r]
          /\ initFree[q] > 0 /\ initFree[r] > 0 => GraphMaxBs(q) = GraphMaxBs(r)
  BY DEF EnginesAgree
<1>1. FreeKnown(q) /\ FreeKnown(r) /\ PagesKnown(q) /\ PagesKnown(r) BY DEF MemoryInv
<1>2. ~(0 > 0) OBVIOUS
<1>3. pages[q] > 0 /\ pages[r] > 0 => pages[q] = pages[r]
  BY <1>1, <1>2 DEF FreeKnown, PagesKnown
<1>4. initFree[q] > 0 /\ initFree[r] > 0 => initFree[q] = initFree[r]
  BY <1>1, <1>2 DEF FreeKnown
<1>5. QED BY <1>3, <1>4 DEF GraphMaxBs

(* All engines have the same number of pages and capture the same graphs.  *)
THEOREM EnginesAgreeHolds == Spec => []EnginesAgree
<1>1. Init => MemoryInv BY MemoryInit
<1>2. MemoryInv /\ [Next]_vars => MemoryInv' BY MemoryStep
<1>3. MemoryInv => EnginesAgree BY MemoryAgrees
<1>4. QED BY <1>1, <1>2, <1>3, PTL DEF Spec

----------------------------------------------------------------------------
(* The last barrier.  A rank that is dead never came to it, so that no     *)
(* rank is behind it unless all are alive.                                 *)
BarrierKept(r) ==
  /\ "barrier" \in entered[r] => at[r] \in Late
  /\ at[r] \in {"ack", "serve"} => AllEntered("barrier")

DeadMissing == dead # {} => \E q \in dead : "barrier" \notin entered[q]

BarrierInv == EngineTypes /\ DeadMissing /\ \A r \in Ranks : BarrierKept(r)

LEMMA BarrierStep == ASSUME BarrierInv, [Next]_vars PROVE BarrierInv'
<1>1. EngineTypes /\ EngineTypes' BY TypesStep DEF BarrierInv
<1>2. CASE WorkerStep
  BY <1>1, <1>2 DEF WorkerStep, BarrierInv, BarrierKept, DeadMissing, AllEntered, Ranks
<1>3. ASSUME NEW r \in Ranks, RankKind(r) PROVE BarrierInv'
  <2> USE DEF Same
  <2>1. Ranks' = Ranks
    BY <1>3 DEF RankKind, Stays, Fails, Goes, Comes, LearnsFree, LearnsPages, Answers, Ranks
  <2>2. BarrierKept(r) /\ DeadMissing /\ at[r] \in Steps BY <1>1 DEF BarrierInv, EngineTypes
  <2>3. /\ at[r] \notin Late => Following(at[r]) \notin {"ack", "serve"}
        /\ at[r] = "barrier" => Following(at[r]) = "ack"
        /\ at[r] = "ack" => Following(at[r]) = "serve"
    BY <2>2, FollowingTyped
  <2>4. AllEntered("barrier") => AllEntered("barrier")'
    BY <1>1, <1>3, OffersKept DEF Collectives
  <2>5. CASE Comes(r)
    <3>1. DeadMissing'
      <4>1. \A q \in dead : entered'[q] = entered[q]
        BY <1>1, <2>5 DEF Comes, EngineTypes
      <4>2. QED BY <2>2, <2>5, <4>1 DEF Comes, DeadMissing
    <3>2. ASSUME NEW q \in Ranks PROVE BarrierKept(q)'
      <4>1. BarrierKept(q) BY DEF BarrierInv
      <4>2. at' = at /\ ("barrier" \in entered'[q] => "barrier" \in entered[q] \/ at[q] = "barrier")
        BY <1>1, <2>5 DEF Comes, EngineTypes
      <4>3. QED BY <2>4, <4>1, <4>2 DEF BarrierKept, Late
    <3>3. QED BY <1>1, <2>1, <3>1, <3>2 DEF BarrierInv
  <2>6. CASE Fails(r)
    <3>1. DeadMissing' BY <2>2, <2>6 DEF Fails, DeadMissing, BarrierKept
    <3>2. ASSUME NEW q \in Ranks PROVE BarrierKept(q)'
      BY <2>4, <2>6 DEF Fails, BarrierInv, BarrierKept
    <3>3. QED BY <1>1, <2>1, <3>1, <3>2 DEF BarrierInv
  <2>7. CASE UNCHANGED <<entered, dead>> /\ ~Fails(r)
    <3>1. DeadMissing' BY <2>2, <2>7 DEF DeadMissing
    <3>2. ASSUME NEW q \in Ranks PROVE BarrierKept(q)'
      <4>1. BarrierKept(q) BY DEF BarrierInv
      <4>2. CASE at'[q] = at[q] BY <2>4, <2>7, <4>1, <4>2 DEF BarrierKept
      <4>3. CASE at'[q] # at[q]
        <5>1. q = r /\ at'[r] = Following(at[r])
          BY <1>1, <1>3, <2>5, <2>7, <4>3
             DEF RankKind, Stays, Comes, Goes, LearnsFree, LearnsPages, Answers, EngineTypes
        <5>2. at[r] \in {"barrier", "ack"} => AllEntered("barrier")
          BY <1>3, <2>2, <2>7, <4>3
             DEF RankKind, Stays, Comes, Goes, LearnsFree, LearnsPages, Answers, BarrierKept
        <5>3. at[r] # "serve"
          BY <1>3, <2>7, <4>3, <5>1
             DEF RankKind, Stays, Comes, Goes, LearnsFree, LearnsPages, Answers
        <5>4. QED BY <2>2, <2>3, <2>4, <2>7, <5>1, <5>2, <5>3 DEF BarrierKept, Late
      <4>4. QED BY <4>2, <4>3
    <3>3. QED BY <1>1, <2>1, <3>1, <3>2 DEF BarrierInv
  <2>8. QED
    BY <1>3, <2>5, <2>6, <2>7 DEF RankKind, Stays, Goes, LearnsFree, LearnsPages, Answers
<1>4. QED BY <1>1, <1>2, <1>3, StepKinds

LEMMA BarrierInit == ASSUME Init PROVE BarrierInv
<1>1. EngineTypes BY TypesInit
<1>2. dead = {} /\ \A r \in Ranks : at[r] = "config" /\ entered[r] = {}
  BY DEF Init, StartInit
<1>3. QED BY <1>1, <1>2 DEF BarrierInv, BarrierKept, DeadMissing

----------------------------------------------------------------------------
(* The answers: each worker that listens has sent one, and the first rank  *)
(* when it is past the barrier.                                            *)
Listening == {p \in Workers : worker[p] = "listening"}
FirstServes == IF at[0] = "serve" THEN 1 ELSE 0

AcksCounted ==
  /\ got + acks = Cardinality(Listening) + FirstServes
  /\ server = "ready" => got = Expected

LEMMA CountWorkers ==
  ASSUME setup \in Setups
  PROVE  IsFiniteSet(Workers) /\ Cardinality(Workers) = setup.tokenizers + 1
<1>1. setup.tokenizers \in Nat BY SetupTyped
<1> DEFINE n == setup.tokenizers
           f == [i \in 1..n |-> <<"tokenizer", i>>]
<1>2. IsFiniteSet(1..n) /\ Cardinality(1..n) = n BY <1>1, FS_Interval
<1>3. f \in Bijection(1..n, Tokenizers)
  BY DEF Bijection, Injection, Surjection, IsInjective, Tokenizers
<1>4. IsFiniteSet(Tokenizers) /\ Cardinality(Tokenizers) = n
  BY <1>2, <1>3, FS_Bijection DEF ExistsBijection
<1>5. Detokenizer \notin Tokenizers BY DEF Detokenizer, Tokenizers
<1>6. Workers = Tokenizers \cup {Detokenizer} BY DEF Workers
<1>7. QED BY <1>4, <1>5, <1>6, FS_AddElement

ReadyInv == BarrierInv /\ AcksCounted

LEMMA ReadyStep == ASSUME ReadyInv, [Next]_vars PROVE ReadyInv'
<1>1. EngineTypes /\ EngineTypes' /\ BarrierInv /\ BarrierInv'
  BY TypesStep, BarrierStep DEF ReadyInv, BarrierInv
<1>2. setup \in Setups /\ 0 \in Ranks /\ setup.tokenizers \in Nat
      /\ got \in Nat /\ acks \in Nat
  BY <1>1, SetupTyped DEF EngineTypes
<1>3. IsFiniteSet(Listening)
  BY <1>2, CountWorkers, FS_Subset DEF Listening
<1>4. Cardinality(Listening) \in Nat BY <1>3, FS_CardinalityType
<1>5. AcksCounted BY DEF ReadyInv
<1>6. CASE WorkerStep
  <2>1. Workers' = Workers /\ Expected' = Expected /\ FirstServes' = FirstServes
    BY <1>6 DEF WorkerStep, Workers, Tokenizers, Detokenizer, Expected, FirstServes
  <2>2. CASE UNCHANGED <<worker, acks, got>> /\ (server' = "ready" => server = "ready")
    <3>1. Listening' = Listening BY <2>1, <2>2 DEF Listening
    <3>2. QED BY <1>1, <1>5, <2>1, <2>2, <3>1 DEF ReadyInv, AcksCounted
  <2>3. CASE /\ server = "waiting" /\ acks > 0 /\ acks' = acks - 1 /\ got' = got + 1
             /\ server' = IF got' = Expected THEN "ready" ELSE server
             /\ UNCHANGED worker
    <3>1. Listening' = Listening BY <2>1, <2>3 DEF Listening
    <3>2. got' + acks' = got + acks BY <1>2, <2>3
    <3>3. QED BY <1>1, <1>5, <2>1, <2>3, <3>1, <3>2 DEF ReadyInv, AcksCounted
  <2>4. ASSUME NEW p \in Workers, worker[p] = "new", worker' = [worker EXCEPT ![p] = "connected"],
               UNCHANGED <<acks, got, server>>
        PROVE  ReadyInv'
    <3>1. Listening' = Listening BY <1>1, <2>1, <2>4 DEF Listening, EngineTypes
    <3>2. QED BY <1>1, <1>5, <2>1, <2>4, <3>1 DEF ReadyInv, AcksCounted
  <2>5. ASSUME NEW p \in Workers, worker[p] = "connected",
               worker' = [worker EXCEPT ![p] = "listening"],
               acks' = acks + 1, UNCHANGED <<got, server>>
        PROVE  ReadyInv'
    <3>1. Listening' = Listening \cup {p} /\ p \notin Listening
      BY <1>1, <2>1, <2>5 DEF Listening, EngineTypes
    <3>2. Cardinality(Listening') = Cardinality(Listening) + 1
      BY <1>3, <3>1, FS_AddElement
    <3>3. FirstServes \in Nat BY DEF FirstServes
    <3>4. got' + acks' = Cardinality(Listening') + FirstServes'
      BY <1>2, <1>4, <1>5, <2>1, <2>5, <3>2, <3>3 DEF AcksCounted
    <3>5. QED BY <1>1, <1>5, <2>1, <2>5, <3>4 DEF ReadyInv, AcksCounted
  <2>6. QED BY <1>6, <2>2, <2>3, <2>4, <2>5 DEF WorkerStep
<1>7. ASSUME NEW r \in Ranks, RankKind(r) PROVE ReadyInv'
  <2> USE DEF Same, Launcher
  <2>1. /\ Workers' = Workers /\ Expected' = Expected
        /\ worker' = worker /\ got' = got /\ server' = server
    BY <1>7 DEF RankKind, Stays, Fails, Goes, Comes, LearnsFree, LearnsPages, Answers,
                Workers, Tokenizers, Detokenizer, Expected
  <2>2. Listening' = Listening BY <2>1 DEF Listening
  <2>3. /\ at[r] \in Steps
        /\ at[r] \notin {"ack", "serve"} => Following(at[r]) # "serve"
        /\ at[r] = "ack" => Following(at[r]) = "serve"
    BY <1>1, FollowingTyped DEF EngineTypes, Late
  <2>4. acks' = acks + (FirstServes' - FirstServes)
    <3>1. CASE at'[0] = at[0] /\ acks' = acks BY <1>2, <3>1 DEF FirstServes
    <3>2. CASE Goes(r) BY <1>1, <1>2, <2>3, <3>2 DEF Goes, FirstServes, EngineTypes
    <3>3. CASE LearnsFree(r) \/ LearnsPages(r)
      BY <1>1, <1>2, <2>3, <3>3 DEF LearnsFree, LearnsPages, FirstServes, EngineTypes
    <3>4. CASE Answers(r) BY <1>1, <1>2, <2>3, <3>4 DEF Answers, FirstServes, EngineTypes
    <3>5. QED
      BY <1>7, <3>1, <3>2, <3>3, <3>4 DEF RankKind, Stays, Fails, Comes
  <2>5. FirstServes \in Nat /\ FirstServes' \in Nat BY DEF FirstServes
  <2>6. got' + acks' = Cardinality(Listening') + FirstServes'
    BY <1>2, <1>4, <1>5, <2>1, <2>2, <2>4, <2>5 DEF AcksCounted
  <2>7. QED BY <1>1, <1>5, <2>1, <2>6 DEF ReadyInv, AcksCounted
<1>8. QED BY <1>1, <1>6, <1>7, StepKinds

LEMMA ReadyInit == ASSUME Init PROVE ReadyInv
<1>1. BarrierInv BY BarrierInit
<1>2. Listening = {} /\ FirstServes = 0 /\ got = 0 /\ acks = 0 /\ server # "ready"
  <2>1. setup \in Setups BY DEF Init, StartInit, WeightsInit
  <2>2. 0 \in Ranks BY <2>1, SetupTyped
  <2>3. QED BY <2>2 DEF Init, StartInit, Listening, FirstServes
<1>3. QED BY <1>1, <1>2, FS_EmptySet DEF ReadyInv, AcksCounted

LEMMA ReadyAll == ASSUME ReadyInv PROVE ReadyMeansAll
<1> SUFFICES ASSUME server = "ready"
    PROVE /\ dead = {} /\ \A r \in Ranks : at[r] \in {"barrier", "ack", "serve"}
          /\ \A p \in Workers : worker[p] = "listening"
  BY DEF ReadyMeansAll
<1>1. BarrierInv /\ EngineTypes /\ AcksCounted BY DEF ReadyInv, BarrierInv
<1>2. setup \in Setups /\ setup.tokenizers \in Nat /\ got = setup.tokenizers + 2 /\ acks \in Nat
  BY <1>1, SetupTyped DEF EngineTypes, AcksCounted, Expected
<1>3. /\ Listening \subseteq Workers /\ Cardinality(Listening) \in Nat
      /\ Cardinality(Listening) <= setup.tokenizers + 1
      /\ Cardinality(Listening) = setup.tokenizers + 1 => Listening = Workers
  <2>1. IsFiniteSet(Workers) /\ Cardinality(Workers) = setup.tokenizers + 1
    BY <1>2, CountWorkers
  <2>2. Listening \subseteq Workers BY DEF Listening
  <2>3. QED BY <2>1, <2>2, FS_Subset, FS_CardinalityType
<1>4. Cardinality(Listening) = setup.tokenizers + 1 /\ at[0] = "serve"
  BY <1>1, <1>2, <1>3 DEF AcksCounted, FirstServes
<1>5. \A p \in Workers : worker[p] = "listening" BY <1>3, <1>4 DEF Listening
<1>6. AllEntered("barrier") BY <1>1, <1>2, <1>4, SetupTyped DEF BarrierInv, BarrierKept
<1>7. dead = {} BY <1>1, <1>6 DEF BarrierInv, DeadMissing, AllEntered, EngineTypes
<1>8. \A r \in Ranks : at[r] \in {"barrier", "ack", "serve"}
  BY <1>1, <1>6 DEF BarrierInv, BarrierKept, AllEntered, Late
<1>9. QED BY <1>5, <1>7, <1>8

(* When the launcher has its answers no rank has failed, all ranks have    *)
(* entered the last barrier and all workers listen.                        *)
THEOREM ReadyMeansAllHolds == Spec => []ReadyMeansAll
<1>1. Init => ReadyInv BY ReadyInit
<1>2. ReadyInv /\ [Next]_vars => ReadyInv' BY ReadyStep
<1>3. ReadyInv => ReadyMeansAll BY ReadyAll
<1>4. QED BY <1>1, <1>2, <1>3, PTL DEF Spec

----------------------------------------------------------------------------
(* The sockets.  Each process opens all of its own in one step, and they   *)
(* depend on the configuration only.                                       *)
Procs == {Frontend} \cup Workers \cup {Scheduler(r) : r \in Ranks}
Addresses == {"frontend", "tokenizer", "detokenizer", "backend", "broadcast"}
PastIO == {"report"} \cup Late

Opened ==
  {p \in Procs : \/ p = Frontend
                 \/ p \in Workers /\ worker[p] # "new"
                 \/ \E r \in Ranks : p = Scheduler(r) /\ at[r] \in PastIO}

Binds(p) ==
  IF p = Frontend THEN {"frontend"} \cup (IF ShareTokenizer THEN {} ELSE {"tokenizer"})
  ELSE IF p \in Workers THEN IF ShareTokenizer THEN {"detokenizer"} ELSE {}
  ELSE IF p # Scheduler(0) THEN {}
  ELSE {"backend"} \cup (IF ShareTokenizer THEN {} ELSE {"detokenizer"})
                   \cup (IF setup.tp > 1 THEN {"broadcast"} ELSE {})
Connects(p) ==
  IF p = Frontend THEN IF ShareTokenizer THEN {"detokenizer"} ELSE {}
  ELSE IF p \in Workers
  THEN {"backend", "frontend"} \cup
       (IF ShareTokenizer THEN {} ELSE IF p = Detokenizer THEN {"detokenizer"} ELSE {"tokenizer"})
  ELSE IF p # Scheduler(0) THEN {"broadcast"} ELSE IF ShareTokenizer THEN {"detokenizer"} ELSE {}

SocketsOf(procs, Uses(_)) == {s \in Addresses \X procs : s[1] \in Uses(s[2])}
SocketsOK == bound = SocketsOf(Opened, Binds) /\ joined = SocketsOf(Opened, Connects)

(* The names of the processes differ.                                      *)
LEMMA ProcNames ==
  /\ Frontend \notin Workers /\ Detokenizer \notin Tokenizers
  /\ \A r \in Ranks : Scheduler(r) \notin Workers \cup {Frontend}
  /\ \A q, r \in Ranks : Scheduler(q) = Scheduler(r) => q = r
  /\ ShareTokenizer => Workers = {Detokenizer}
<1>1. ShareTokenizer => 1..setup.tokenizers = {} BY DEF ShareTokenizer
<1>2. ShareTokenizer => Tokenizers = {} BY <1>1 DEF Tokenizers
<1>3. QED BY <1>2 DEF Frontend, Detokenizer, Tokenizers, Workers, Scheduler

OpensOne(p) ==
  /\ setup' = setup /\ Opened' = Opened \cup {p}
  /\ bound' = bound \cup {<<a, p>> : a \in Binds(p)}
  /\ joined' = joined \cup {<<a, p>> : a \in Connects(p)}
OpensNone == UNCHANGED <<setup, bound, joined>> /\ Opened' = Opened

(* Each step opens the sockets of one process, or none.                    *)
LEMMA OpeningSteps ==
  ASSUME EngineTypes, [Next]_vars
  PROVE  OpensNone \/ \E p \in Procs : OpensOne(p)
<1> USE DEF launcherVars, socketVars, rankVars, memoryVars
<1>1. setup' = setup /\ EngineTypes'
  BY TypesStep, StepKinds DEF WorkerStep, RankKind, Stays, Fails, Goes, Comes, LearnsFree,
     LearnsPages, Answers, Same
<1>2. /\ Ranks' = Ranks /\ Workers' = Workers /\ Procs' = Procs
  BY <1>1 DEF Ranks, Workers, Tokenizers, Detokenizer, Procs, Frontend, Scheduler
<1>3. ASSUME UNCHANGED <<bound, joined>>,
             \A p \in Workers : worker'[p] # "new" <=> worker[p] # "new",
             \A r \in Ranks : at'[r] \in PastIO <=> at[r] \in PastIO
      PROVE  OpensNone
  <2>1. Opened' = {p \in Procs : \/ p = Frontend
                                 \/ p \in Workers /\ worker'[p] # "new"
                                 \/ \E r \in Ranks : p = Scheduler(r) /\ at'[r] \in PastIO}
    BY <1>2 DEF Opened, Frontend, Scheduler
  <2>2. Opened' = Opened BY <1>3, <2>1 DEF Opened
  <2>3. QED BY <1>1, <1>3, <2>2 DEF OpensNone
<1>4. ASSUME UNCHANGED <<bound, joined, worker, at>> PROVE OpensNone BY <1>3, <1>4
<1>5. ASSUME NEW p \in Workers, ConnectWorker(p) PROVE OpensOne(p)
  <2>1. Opened' = Opened \cup {p}
    <3>1. worker' = [worker EXCEPT ![p] = "connected"] /\ at' = at
      BY <1>5 DEF ConnectWorker
    <3>2. \A q \in Workers : worker'[q] # "new" <=> q = p \/ worker[q] # "new"
      BY <3>1 DEF EngineTypes
    <3>3. Opened' = {q \in Procs : \/ q = Frontend
                                   \/ q \in Workers /\ worker'[q] # "new"
                                   \/ \E r \in Ranks : q = Scheduler(r) /\ at[r] \in PastIO}
      BY <1>2, <3>1 DEF Opened, Frontend, Scheduler
    <3>4. p \in Procs BY DEF Procs
    <3>5. QED BY <3>2, <3>3, <3>4 DEF Opened
  <2>2. /\ Binds(p) = IF ShareTokenizer THEN {IF p = Detokenizer THEN "detokenizer" ELSE TokenizerAddr} ELSE {}
        /\ Connects(p) = {"backend", "frontend"} \cup
             IF ShareTokenizer THEN {} ELSE {IF p = Detokenizer THEN "detokenizer" ELSE TokenizerAddr}
    BY ProcNames DEF Binds, Connects, TokenizerAddr
  <2>3. QED BY <1>1, <1>5, <2>1, <2>2 DEF ConnectWorker, Open, OpensOne
<1>6. ASSUME NEW p \in Workers, AckWorker(p) PROVE OpensNone
  <2>1. UNCHANGED <<bound, joined, at>> /\ worker' = [worker EXCEPT ![p] = "listening"]
        /\ worker[p] = "connected"
    BY <1>6 DEF AckWorker
  <2>2. \A q \in Workers : worker'[q] # "new" <=> worker[q] # "new" BY <2>1 DEF EngineTypes
  <2>3. QED BY <1>3, <2>1, <2>2
<1>7. ASSUME NEW r \in Ranks, Start(r) PROVE OpensNone \/ OpensOne(Scheduler(r))
  <2>1. RankStep(r) BY <1>7 DEF Start
  <2>2. ASSUME UNCHANGED <<bound, joined, worker>>, at' = [at EXCEPT ![r] = Following(@)],
               at[r] # "io"
        PROVE  OpensNone
    <3>1. at[r] \in Steps /\ (at[r] # "io" => (Following(at[r]) \in PastIO <=> at[r] \in PastIO))
      BY DEF EngineTypes, Steps, Following, PastIO, Late
    <3>2. \A q \in Ranks : at'[q] \in PastIO <=> at[q] \in PastIO BY <2>2, <3>1 DEF EngineTypes
    <3>3. QED BY <1>3, <2>2, <3>2
  <2>3. CASE InitIO(r)
    <3>1. at[r] = "io" /\ at' = [at EXCEPT ![r] = "report"] /\ worker' = worker
      BY <2>3 DEF InitIO, Takes, Advance, Following
    <3>2. Opened' = Opened \cup {Scheduler(r)}
      <4>1. \A q \in Ranks : at'[q] \in PastIO <=> q = r \/ at[q] \in PastIO
        BY <3>1 DEF EngineTypes, PastIO, Late
      <4>2. Opened' = {q \in Procs : \/ q = Frontend
                                     \/ q \in Workers /\ worker[q] # "new"
                                     \/ \E s \in Ranks : q = Scheduler(s) /\ at'[s] \in PastIO}
        BY <1>2, <3>1 DEF Opened, Frontend, Scheduler
      <4>3. Scheduler(r) \in Procs BY DEF Procs
      <4>4. QED BY <4>1, <4>2, <4>3 DEF Opened
    <3>3. 0 \in Ranks BY SetupTyped DEF EngineTypes
    <3>4. Scheduler(r) \notin Workers /\ Scheduler(r) # Frontend /\ (Scheduler(r) = Scheduler(0) <=> r = 0)
      BY <3>3, ProcNames
    <3>5. CASE r = 0
      <4>1. /\ Binds(Scheduler(0)) = {"backend"} \cup (IF BackendCreatesLink THEN {"detokenizer"} ELSE {})
                                        \cup (IF setup.tp > 1 THEN {"broadcast"} ELSE {})
            /\ Connects(Scheduler(0)) = IF BackendCreatesLink THEN {} ELSE {"detokenizer"}
        BY <3>4, <3>5 DEF Binds, Connects, BackendCreatesLink
      <4>2. QED BY <1>1, <2>3, <3>2, <3>5, <4>1 DEF InitIO, Open, OpensOne
    <3>6. CASE r # 0
      <4>1. Binds(Scheduler(r)) = {} /\ Connects(Scheduler(r)) = {"broadcast"}
        BY <3>4, <3>6 DEF Binds, Connects
      <4>2. QED BY <1>1, <2>3, <3>2, <3>6, <4>1 DEF InitIO, Open, OpensOne
    <3>7. QED BY <3>5, <3>6
  <2>4. CASE Enter(r) BY <1>4, <2>4 DEF Enter
  <2>5. CASE Leave(r) BY <2>2, <2>5 DEF Leave, Waiting, Advance, Collectives, EngineTypes
  <2>6. CASE SyncMemory(r) BY <1>4, <2>2, <2>6 DEF SyncMemory, SyncsMemory, Advance, Die
  <2>7. CASE Timeout(r) BY <1>4, <2>7 DEF Timeout, Die
  <2>8. CASE AdjustConfig(r) BY <1>4, <2>2, <2>8 DEF AdjustConfig, Takes, Use, Advance, Die
  <2>9. CASE CreateModel(r) BY <1>4, <2>2, <2>9 DEF CreateModel, Takes, Use, Advance, Die
  <2>10. CASE LoadOne(r) BY <1>4, <2>10 DEF LoadOne
  <2>11. CASE LoadStateDict(r) BY <1>4, <2>2, <2>11 DEF LoadStateDict, Takes, Use, Advance, Die
  <2>12. CASE AllocateCache(r) BY <1>4, <2>2, <2>12 DEF AllocateCache, Takes, Use, Advance, Die
  <2>13. CASE Report(r) BY <2>2, <2>13 DEF Report, Takes, Advance
  <2>14. CASE AckScheduler(r) BY <2>2, <2>14 DEF AckScheduler, Takes, Advance
  <2>15. QED
    BY <2>1, <2>3, <2>4, <2>5, <2>6, <2>7, <2>8, <2>9, <2>10, <2>11, <2>12, <2>13, <2>14 DEF RankStep
<1>8. ASSUME NEW r \in Ranks, Serve(r) PROVE OpensNone BY <1>4, <1>8 DEF Serve
<1>9. CASE Spawn \/ TakeAck BY <1>4, <1>9 DEF Spawn, TakeAck
<1>10. CASE Ask BY <1>4, <1>10 DEF Ask, startVars
<1>11. CASE UNCHANGED vars BY <1>4, <1>11 DEF vars, startVars
<1>12. Workers \subseteq Procs /\ \A r \in Ranks : Scheduler(r) \in Procs BY DEF Procs
<1>13. QED BY <1>5, <1>6, <1>7, <1>8, <1>9, <1>10, <1>11, <1>12 DEF Next

SocketsInv == EngineTypes /\ SocketsOK

LEMMA SocketsStep == ASSUME SocketsInv, [Next]_vars PROVE SocketsInv'
<1>1. EngineTypes /\ EngineTypes' /\ SocketsOK BY TypesStep DEF SocketsInv
<1>2. setup' = setup => /\ Workers' = Workers /\ ShareTokenizer' = ShareTokenizer
  BY DEF Workers, Tokenizers, Detokenizer, ShareTokenizer
<1>3. ASSUME setup' = setup, NEW procs
      PROVE  /\ SocketsOf(procs, Binds)' = SocketsOf(procs', Binds)
             /\ SocketsOf(procs, Connects)' = SocketsOf(procs', Connects)
  BY <1>2, <1>3 DEF SocketsOf, Binds, Connects, Frontend, Scheduler, Detokenizer, Addresses
<1>4. CASE OpensNone BY <1>1, <1>3, <1>4 DEF OpensNone, SocketsInv, SocketsOK
<1>5. ASSUME NEW p \in Procs, OpensOne(p) PROVE SocketsInv'
  <2>1. Binds(p) \subseteq Addresses /\ Connects(p) \subseteq Addresses
    BY DEF Binds, Connects, Addresses
  <2>2. /\ bound' = SocketsOf(Opened \cup {p}, Binds)
        /\ joined' = SocketsOf(Opened \cup {p}, Connects)
    BY <1>1, <1>5, <2>1 DEF SocketsOK, OpensOne, SocketsOf
  <2>3. QED BY <1>1, <1>3, <1>5, <2>2 DEF OpensOne, SocketsInv, SocketsOK
<1>6. QED BY <1>1, <1>4, <1>5, OpeningSteps

LEMMA SocketsInit == ASSUME Init PROVE SocketsInv
<1>1. EngineTypes BY TypesInit
<1>2. /\ \A p \in Workers : worker[p] = "new"
      /\ \A r \in Ranks : at[r] = "config"
      /\ bound = {<<"frontend", Frontend>>} \cup IF ShareTokenizer THEN {} ELSE {<<TokenizerAddr, Frontend>>}
      /\ joined = IF ShareTokenizer THEN {<<TokenizerAddr, Frontend>>} ELSE {}
  BY DEF Init, StartInit
<1>3. Opened = {Frontend}
  BY <1>2 DEF Opened, Procs, PastIO, Late
<1>4. SocketsOK
  BY <1>2, <1>3 DEF SocketsOK, SocketsOf, Binds, Connects, Addresses, TokenizerAddr
<1>5. QED BY <1>1, <1>4 DEF SocketsInv

(* When all have opened theirs, each address has its two ends.             *)
LEMMA SocketsServe == ASSUME SocketsInv, ReadyMeansAll PROVE AddressesServed
<1> SUFFICES ASSUME server = "ready", NEW a \in {s[1] : s \in bound \cup joined}
    PROVE Cardinality({s \in bound : s[1] = a}) = 1 /\ \E s \in joined : s[1] = a
  BY DEF AddressesServed
<1>1. setup \in Setups /\ setup.tp \in Nat /\ setup.tp > 0 /\ 0 \in Ranks /\ setup.tokenizers \in Nat
  BY SetupTyped DEF SocketsInv, EngineTypes
<1>2. Opened = Procs
  BY DEF ReadyMeansAll, Opened, Procs, PastIO, Late
<1>3. bound = SocketsOf(Procs, Binds) /\ joined = SocketsOf(Procs, Connects)
  BY <1>2 DEF SocketsInv, SocketsOK
<1>4. Frontend \in Procs /\ Detokenizer \in Procs /\ Scheduler(0) \in Procs
      /\ Detokenizer \in Workers /\ Detokenizer # Frontend
      /\ Scheduler(0) \notin Workers /\ Scheduler(0) # Frontend
  BY <1>1, ProcNames DEF Procs, Workers
<1>5. \E p \in Procs : \A q \in Procs : a \in Binds(q) <=> q = p
  <2>1. \A p \in Procs : a \in Binds(p) \cup Connects(p) => a \in Addresses
    BY DEF Binds, Connects, Addresses
  <2>2. a \in Addresses /\ \E p \in Procs : a \in Binds(p) \cup Connects(p)
    BY <1>3, <2>1 DEF SocketsOf
  <2>3. ASSUME a = "broadcast" PROVE setup.tp > 1
    <3>1. PICK p \in Procs : a \in Binds(p) \cup Connects(p) BY <2>2
    <3>2. p \notin Workers /\ p # Frontend BY <2>3, <3>1 DEF Binds, Connects
    <3>3. PICK r \in Ranks : p = Scheduler(r) BY <3>2 DEF Procs
    <3>4. CASE r = 0 BY <2>3, <3>1, <3>2, <3>3, <3>4 DEF Binds, Connects
    <3>5. CASE r # 0 BY <1>1, <3>5 DEF Ranks
    <3>6. QED BY <3>4, <3>5
  <2>4. a = "tokenizer" => ~ShareTokenizer BY <2>2 DEF Binds, Connects
  <2>5. CASE a \in {"frontend", "tokenizer"}
    <3>1. \A q \in Procs : a \in Binds(q) <=> q = Frontend
      BY <1>4, <2>4, <2>5 DEF Binds
    <3>2. QED BY <1>4, <3>1
  <2>6. CASE a = "backend" \/ a = "broadcast"
    <3>1. \A q \in Procs : a \in Binds(q) <=> q = Scheduler(0)
      BY <1>4, <2>3, <2>6 DEF Binds
    <3>2. QED BY <1>4, <3>1
  <2>7. CASE a = "detokenizer" /\ ShareTokenizer
    <3>1. \A q \in Procs : a \in Binds(q) <=> q = Detokenizer
      BY <1>4, <2>7, ProcNames DEF Binds
    <3>2. QED BY <1>4, <3>1
  <2>8. CASE a = "detokenizer" /\ ~ShareTokenizer
    <3>1. \A q \in Procs : a \in Binds(q) <=> q = Scheduler(0)
      BY <1>4, <2>8 DEF Binds
    <3>2. QED BY <1>4, <3>1
  <2>9. QED BY <2>2, <2>5, <2>6, <2>7, <2>8 DEF Addresses
<1>6. a \in Addresses
  BY <1>3 DEF SocketsOf
<1>7. Cardinality({s \in bound : s[1] = a}) = 1
  <2>1. PICK p \in Procs : \A q \in Procs : a \in Binds(q) <=> q = p BY <1>5
  <2>2. {s \in bound : s[1] = a} = {<<a, p>>} BY <1>3, <1>6, <2>1 DEF SocketsOf
  <2>3. QED BY <2>2, FS_Singleton
<1>8. \E p \in Procs : a \in Connects(p)
  <2>1. PICK p \in Procs : a \in Binds(p) \cup Connects(p) BY <1>3 DEF SocketsOf
  <2>2. CASE a \in Connects(p) BY <2>2
  <2>3. CASE a \in {"frontend", "backend"}
    BY <1>4, <2>3 DEF Connects
  <2>4. CASE a = "detokenizer"
    BY <1>4, <2>4 DEF Connects
  <2>5. CASE a = "tokenizer" /\ a \in Binds(p)
    <3>1. ~ShareTokenizer BY <2>5 DEF Binds
    <3>2. 1 \in 1..setup.tokenizers BY <1>1, <3>1 DEF ShareTokenizer
    <3>3. <<"tokenizer", 1>> \in Tokenizers BY <3>2 DEF Tokenizers
    <3>4. <<"tokenizer", 1>> \in Workers /\ <<"tokenizer", 1>> # Detokenizer
      BY <3>3, ProcNames DEF Workers
    <3>5. a \in Connects(<<"tokenizer", 1>>) BY <2>5, <3>1, <3>4, ProcNames DEF Connects
    <3>6. QED BY <3>4, <3>5 DEF Procs
  <2>6. CASE a = "broadcast" /\ a \in Binds(p)
    <3>1. setup.tp > 1 BY <2>6 DEF Binds
    <3>2. 1 \in Ranks /\ 1 # 0 BY <1>1, <3>1 DEF Ranks
    <3>3. a \in Connects(Scheduler(1)) BY <1>1, <2>6, <3>2, ProcNames DEF Connects
    <3>4. QED BY <3>2, <3>3 DEF Procs
  <2>7. a \in Binds(p) => a \in Addresses BY DEF Binds, Addresses
  <2>8. QED BY <2>1, <2>2, <2>3, <2>4, <2>5, <2>6, <2>7 DEF Addresses
<1>9. \E s \in joined : s[1] = a
  <2>1. PICK p \in Procs : a \in Connects(p) BY <1>8
  <2>2. <<a, p>> \in joined BY <1>3, <1>6, <2>1 DEF SocketsOf
  <2>3. QED BY <2>2
<1>10. QED BY <1>7, <1>9

(* When the server is ready each address was bound by exactly one process, *)
(* and at least one has connected to it, in all configurations of the      *)
(* tokenizers and ranks (launch.py, api_server.py, tokenizer/server.py and *)
(* scheduler/io.py).                                                       *)
THEOREM AddressesServedHolds == Spec => []AddressesServed
<1>1. Init => SocketsInv BY SocketsInit
<1>2. SocketsInv /\ [Next]_vars => SocketsInv' BY SocketsStep
<1>3. SocketsInv /\ ReadyMeansAll => AddressesServed BY SocketsServe
<1>4. QED BY <1>1, <1>2, <1>3, ReadyMeansAllHolds, PTL DEF Spec

----------------------------------------------------------------------------
(* The collectives of a forward pass.  Each layer makes as many calls on   *)
(* every rank, four with the exchange, one when the experts are neither    *)
(* exchanged nor summed up, two else, unless a rank leaves out an          *)
(* exchange: the i-th call is then the same on all.                        *)
Listed(s, n) == n \in Nat /\ s = [i \in 1..n |-> s[i]]
Grown(h, s, n, e) ==
  /\ Listed(h, n + 1) /\ Len(h) = n + 1 /\ h[n + 1] = e
  /\ \A i \in 1..n : h[i] = s[i]

LayerCalls == IF Exchanges THEN 4 ELSE IF UsesEP THEN 1 ELSE 2
LayerOps ==
  {"attention"} \cup IF Exchanges THEN {"counts", "dispatch", "combine"}
                     ELSE IF UsesEP THEN {} ELSE {"sum"}
Place(op) == CASE op = "attention" -> 1 [] op \in {"counts", "sum"} -> 2 [] op = "dispatch" -> 3
               [] OTHER -> 4

(* Which calls can be the i-th one.                                        *)
CallAt(op, i) ==
  \/ op = "embedding" /\ i = 1
  \/ op \in LayerOps /\ \E l \in 0..Layers - 1 : i = 1 + LayerCalls * l + Place(op)
  \/ op = "logits" /\ i = 2 + LayerCalls * Layers

(* Where a rank is that has made n calls and ended l layers.               *)
Fits(op, n, l) ==
  /\ op \in {"idle", "asked"} => n = 0 /\ l = 0
  /\ op = "embedding" => n = 1 /\ l = 0
  /\ op \in LayerOps => l < Layers /\ n = 1 + LayerCalls * l + Place(op)
  /\ op = "logits" => n = 2 + LayerCalls * Layers
  /\ op \in LayerOps \cup {"idle", "asked", "embedding", "logits", "done"}

(* What a rank gives to the exchanges.                                     *)
DataOK(call, r) ==
  LET expected == [q \in Ranks |-> SendCounts[r]]
  IN /\ call.op = "counts" => call.data = SendCounts
     /\ call.op = "dispatch" => call.data.in = SendCounts /\ call.data.out = expected
     /\ call.op = "combine" => call.data.in = expected /\ call.data.out = SendCounts

ConfigOK == \A r \in Ranks : at[r] # "config" => (UsesEP => setup.experts > 0)

(* The experts of the batch are those of the model.                        *)
Routed ==
  routes # <<>> /\ \A t \in 1..Tokens, k \in 1..TopK : routes[t][k] \in 0..setup.experts - 1

PassOK(r) ==
  /\ Fits(phase[r], Len(calls[r]), Len(out[r]))
  /\ \A i \in 1..Len(calls[r]) : CallAt(calls[r][i].op, i)

PassTypes ==
  /\ phase = [r \in Ranks |-> phase[r]] /\ calls = [r \in Ranks |-> calls[r]]
  /\ out = [r \in Ranks |-> out[r]]
  /\ \A r \in Ranks : Listed(calls[r], Len(calls[r])) /\ Listed(out[r], Len(out[r]))
  /\ \A r \in Ranks : /\ phase[r] \in {"idle", "asked"} <=> calls[r] = <<>>
                      /\ phase[r] \in {"idle", "asked"} => out[r] = <<>>

PassInv ==
  /\ PassTypes
  /\ (\E r \in Ranks : phase[r] # "idle") => (setup.experts > 0 => Routed)
  /\ \A r \in Ranks : \A i \in 1..Len(calls[r]) : DataOK(calls[r][i], r)
  /\ AllOnOne \/ \A r \in Ranks : PassOK(r)
CallsInv == EngineTypes /\ ConfigOK /\ PassInv

LEMMA AppendGrows ==
  ASSUME NEW s, NEW n, NEW e, Listed(s, n)
  PROVE  Grown(Append(s, e), s, n, e) /\ Len(s) = n
<1> DEFINE M == {s[i] : i \in 1..n} \cup {e}
<1>1. n \in Nat /\ s \in [1..n -> M] BY DEF Listed
<1>2. s \in Seq(M) /\ Len(s) = n /\ e \in M BY <1>1
<1> HIDE DEF M
<1>3. /\ Append(s, e) \in Seq(M) /\ Len(Append(s, e)) = n + 1
      /\ \A i \in 1..n : Append(s, e)[i] = s[i]
      /\ Append(s, e)[n + 1] = e
  BY <1>2
<1>4. Append(s, e) \in [1..n + 1 -> M]
  <2>1. Append(s, e) \in [1..Len(Append(s, e)) -> M] BY <1>3, LenProperties
  <2>2. QED BY <1>3, <2>1
<1>5. QED BY <1>1, <1>2, <1>3, <1>4 DEF Listed, Grown

(* Two calls of the same number are the same.                              *)
LEMMA LayersTyped == Layers \in Nat /\ Layers > 0
BY ForwardAssumption

LEMMA CallsUnique ==
  ASSUME NEW i, NEW a, NEW b, CallAt(a, i), CallAt(b, i)
  PROVE  a = b
<1> USE LayersTyped
<1>1. CASE Exchanges
  <2> USE <1>1 DEF LayerCalls, LayerOps, Place
  <2>1. LayerCalls = 4 OBVIOUS
  <2>2. ASSUME NEW x, CallAt(x, i), x \in LayerOps
        PROVE  Place(x) \in 1..4 /\ \E l \in 0..Layers - 1 : i = 1 + 4 * l + Place(x)
    BY <2>2 DEF CallAt
  <2>3. CASE a \in LayerOps /\ b \in LayerOps
    <3>1. PICK l \in 0..Layers - 1 : i = 1 + 4 * l + Place(a) BY <2>2, <2>3
    <3>2. PICK m \in 0..Layers - 1 : i = 1 + 4 * m + Place(b) BY <2>2, <2>3
    <3>3. Place(a) \in 1..4 /\ Place(b) \in 1..4 BY <2>2, <2>3
    <3>4. PICK p \in 1..4 : p = Place(a) BY <3>3
    <3>5. PICK q \in 1..4 : q = Place(b) BY <3>3
    <3>6. 1 + 4 * l + p = 1 + 4 * m + q BY <3>1, <3>2, <3>4, <3>5
    <3>7. p = q BY <3>6
    <3>8. QED BY <2>3, <3>4, <3>5, <3>7
  <2>4. ASSUME NEW x, CallAt(x, i), x \in LayerOps PROVE i > 1 /\ i < 2 + 4 * Layers
    <3>1. PICK l \in 0..Layers - 1 : i = 1 + 4 * l + Place(x) BY <2>2, <2>4
    <3>2. PICK p \in 1..4 : p = Place(x) BY <2>2, <2>4
    <3>3. i = 1 + 4 * l + p BY <3>1, <3>2
    <3>4. QED BY <3>3
  <2>5. ~(1 > 1) /\ ~(2 + 4 * Layers < 2 + 4 * Layers) /\ 1 # 2 + 4 * Layers OBVIOUS
  <2> HIDE DEF LayerCalls, LayerOps, Place
  <2>6. QED BY <2>1, <2>3, <2>4, <2>5 DEF CallAt
<1>2. CASE ~Exchanges /\ ~UsesEP
  <2> USE <1>2 DEF LayerCalls, LayerOps, Place
  <2>1. LayerCalls = 2 OBVIOUS
  <2>2. ASSUME NEW x, CallAt(x, i), x \in LayerOps
        PROVE  Place(x) \in 1..2 /\ \E l \in 0..Layers - 1 : i = 1 + 2 * l + Place(x)
    BY <2>2 DEF CallAt
  <2>3. CASE a \in LayerOps /\ b \in LayerOps
    <3>1. PICK l \in 0..Layers - 1 : i = 1 + 2 * l + Place(a) BY <2>2, <2>3
    <3>2. PICK m \in 0..Layers - 1 : i = 1 + 2 * m + Place(b) BY <2>2, <2>3
    <3>3. Place(a) \in 1..2 /\ Place(b) \in 1..2 BY <2>2, <2>3
    <3>4. PICK p \in 1..2 : p = Place(a) BY <3>3
    <3>5. PICK q \in 1..2 : q = Place(b) BY <3>3
    <3>6. 1 + 2 * l + p = 1 + 2 * m + q BY <3>1, <3>2, <3>4, <3>5
    <3>7. p = q BY <3>6
    <3>8. QED BY <2>3, <3>4, <3>5, <3>7
  <2>4. ASSUME NEW x, CallAt(x, i), x \in LayerOps PROVE i > 1 /\ i < 2 + 2 * Layers
    <3>1. PICK l \in 0..Layers - 1 : i = 1 + 2 * l + Place(x) BY <2>2, <2>4
    <3>2. PICK p \in 1..2 : p = Place(x) BY <2>2, <2>4
    <3>3. i = 1 + 2 * l + p BY <3>1, <3>2
    <3>4. QED BY <3>3
  <2>5. ~(1 > 1) /\ ~(2 + 2 * Layers < 2 + 2 * Layers) /\ 1 # 2 + 2 * Layers OBVIOUS
  <2> HIDE DEF LayerCalls, LayerOps, Place
  <2>6. QED BY <2>1, <2>3, <2>4, <2>5 DEF CallAt
<1>3. CASE ~Exchanges /\ UsesEP
  <2> USE <1>3 DEF LayerCalls, LayerOps, Place
  <2>1. LayerCalls = 1 OBVIOUS
  <2>2. ASSUME NEW x, CallAt(x, i), x \in LayerOps
        PROVE  Place(x) \in 1..1 /\ \E l \in 0..Layers - 1 : i = 1 + l + Place(x)
    BY <2>2 DEF CallAt
  <2>3. CASE a \in LayerOps /\ b \in LayerOps
    <3>1. PICK l \in 0..Layers - 1 : i = 1 + l + Place(a) BY <2>2, <2>3
    <3>2. PICK m \in 0..Layers - 1 : i = 1 + m + Place(b) BY <2>2, <2>3
    <3>3. Place(a) \in 1..1 /\ Place(b) \in 1..1 BY <2>2, <2>3
    <3>4. PICK p \in 1..1 : p = Place(a) BY <3>3
    <3>5. PICK q \in 1..1 : q = Place(b) BY <3>3
    <3>6. 1 + l + p = 1 + m + q BY <3>1, <3>2, <3>4, <3>5
    <3>7. p = q BY <3>6
    <3>8. QED BY <2>3, <3>4, <3>5, <3>7
  <2>4. ASSUME NEW x, CallAt(x, i), x \in LayerOps PROVE i > 1 /\ i < 2 + Layers
    <3>1. PICK l \in 0..Layers - 1 : i = 1 + l + Place(x) BY <2>2, <2>4
    <3>2. PICK p \in 1..1 : p = Place(x) BY <2>2, <2>4
    <3>3. i = 1 + l + p BY <3>1, <3>2
    <3>4. QED BY <3>3
  <2>5. ~(1 > 1) /\ ~(2 + Layers < 2 + Layers) /\ 1 # 2 + Layers OBVIOUS
  <2> HIDE DEF LayerCalls, LayerOps, Place
  <2>6. QED BY <2>1, <2>3, <2>4, <2>5 DEF CallAt
<1>4. QED BY <1>1, <1>2, <1>3

LEMMA FitsAt ==
  ASSUME NEW op, NEW n, NEW l \in Nat, Fits(op, n, l), op \notin {"idle", "asked", "done"}
  PROVE  CallAt(op, n)
<1>1. CASE op \in LayerOps
  <2>1. l \in 0..Layers - 1 BY <1>1, LayersTyped DEF Fits
  <2>2. QED BY <1>1, <2>1 DEF Fits, CallAt
<1>2. CASE op \notin LayerOps BY <1>2 DEF Fits, CallAt
<1>3. QED BY <1>1, <1>2

LEMMA ConfigStep == ASSUME EngineTypes, ConfigOK, [Next]_vars PROVE ConfigOK'
<1> USE DEF launcherVars, socketVars, rankVars, memoryVars
<1>1. SUFFICES ASSUME setup' = setup,
                      \A q \in Ranks : at'[q] # "config" =>
                        at[q] # "config" \/ (UsesEP => setup.experts > 0)
               PROVE  ConfigOK'
  <2>1. setup' = setup
    <3>1. CASE WorkerStep BY <3>1 DEF WorkerStep
    <3>2. ASSUME NEW r \in Ranks, RankKind(r) PROVE setup' = setup
      BY <3>2 DEF RankKind, Stays, Fails, Goes, Comes, LearnsFree, LearnsPages, Answers, Same
    <3>3. QED BY <3>1, <3>2, StepKinds
  <2>2. CASE at' = at BY <2>1, <2>2 DEF ConfigOK, Ranks, UsesEP
  <2>3. ASSUME NEW r \in Ranks, Start(r), at' # at
        PROVE  \A q \in Ranks : at'[q] # "config" =>
                 at[q] # "config" \/ (UsesEP => setup.experts > 0)
    <3>1. \A q \in Ranks : q # r => at'[q] = at[q]
      <4>1. RankKind(r) BY <2>3, RankKinds DEF Start
      <4>2. QED BY <2>3, <4>1
            DEF RankKind, Stays, Fails, Goes, Comes, LearnsFree, LearnsPages, Answers, EngineTypes
    <3>2. CASE at[r] # "config" BY <3>1, <3>2
    <3>3. CASE at[r] = "config"
      <4>1. AdjustConfig(r)
        BY <2>3, <3>3
        DEF Start, RankStep, Enter, Leave, Waiting, SyncMemory, Timeout, Collectives, SyncsMemory,
            CreateModel, LoadOne, LoadStateDict, AllocateCache, InitIO, Report, AckScheduler, Takes,
            EngineTypes, Die
      <4>2. UsesEP => setup.experts > 0 BY <2>3, <4>1 DEF AdjustConfig, Use, Die
      <4>3. QED BY <3>1, <4>2
    <3>4. QED BY <3>2, <3>3
  <2>4. CASE at' # at
    <3>1. \E r \in Ranks : Start(r)
      BY <2>4, ForwardSame
      DEF Next, vars, startVars, Spawn, TakeAck, ConnectWorker, AckWorker, Ask, Serve
    <3>2. QED BY <1>1, <2>1, <2>3, <2>4, <3>1
  <2>5. QED BY <2>2, <2>4
<1>2. QED BY <1>1 DEF ConfigOK, Ranks, UsesEP

(* A pass that is not touched.                                             *)
LEMMA RoutesSame ==
  ASSUME UNCHANGED <<setup, routes>>
  PROVE  /\ Ranks' = Ranks /\ UsesEP' = UsesEP /\ SendCounts' = SendCounts /\ AllOnOne' = AllOnOne
         /\ LayerOps' = LayerOps /\ LayerCalls' = LayerCalls /\ Routed' = Routed
<1>1. /\ Ranks' = Ranks /\ UsesEP' = UsesEP /\ LocalExperts' = LocalExperts
      /\ Exchanges' = Exchanges
  BY DEF Ranks, UsesEP, LocalExperts, Exchanges, MoeBackend
<1>2. \A p : Dest(p)' = Dest(p) BY <1>1 DEF Dest, ExpertOf
<1>3. SendCounts' = SendCounts BY <1>1, <1>2 DEF SendCounts, Pairs
<1>4. AllOnOne' = AllOnOne BY <1>1, <1>3 DEF AllOnOne, LocalOnly, Pairs
<1>5. LayerOps' = LayerOps /\ LayerCalls' = LayerCalls BY <1>1 DEF LayerOps, LayerCalls
<1>6. QED BY <1>1, <1>3, <1>4, <1>5 DEF Routed

LEMMA FitsSame ==
  ASSUME UNCHANGED <<setup, routes>>
  PROVE  /\ \A op, n, l : Fits(op, n, l)' <=> Fits(op, n, l)
         /\ \A op, i : CallAt(op, i)' <=> CallAt(op, i)
         /\ \A call, r : DataOK(call, r)' <=> DataOK(call, r)
BY RoutesSame DEF Fits, CallAt, DataOK

LEMMA PassKept == ASSUME PassInv, UNCHANGED <<setup, routes, phase, calls, out>> PROVE PassInv'
<1>1. Ranks' = Ranks /\ AllOnOne' = AllOnOne BY RoutesSame
<1>2. /\ \A op, n, l : Fits(op, n, l)' <=> Fits(op, n, l)
      /\ \A op, i : CallAt(op, i)' <=> CallAt(op, i)
      /\ \A call, r : DataOK(call, r)' <=> DataOK(call, r)
  BY FitsSame
<1>3. PassTypes' BY <1>1 DEF PassInv, PassTypes, Listed
<1>4. \A r \in Ranks : PassOK(r) => PassOK(r)' BY <1>2 DEF PassOK
<1>5. QED BY <1>1, <1>2, <1>3, <1>4, RoutesSame DEF PassInv

(* A rank makes its next call.                                             *)
LEMMA NextCall ==
  ASSUME PassInv, UNCHANGED <<setup, routes>>, NEW r \in Ranks, NEW op, NEW data, Call(r, op, data),
         op \notin {"idle", "asked", "done"}, phase[r] # "idle",
         NEW l, l \in Nat, l = Len(out'[r]), Listed(out'[r], l),
         out' = [q \in Ranks |-> IF q = r THEN out'[r] ELSE out[q]],
         DataOK([op |-> op, data |-> data], r),
         NEW n, n = Len(calls[r]), AllOnOne \/ Fits(op, n + 1, l)
  PROVE  PassInv'
<1>1. Ranks' = Ranks /\ AllOnOne' = AllOnOne BY RoutesSame
<1>2. /\ \A x, m, k : Fits(x, m, k)' <=> Fits(x, m, k)
      /\ \A x, i : CallAt(x, i)' <=> CallAt(x, i)
      /\ \A call, q : DataOK(call, q)' <=> DataOK(call, q)
  BY FitsSame
<1>3. /\ phase' = [q \in Ranks |-> IF q = r THEN op ELSE phase[q]]
      /\ calls' = [q \in Ranks |-> IF q = r THEN Append(calls[r], [op |-> op, data |-> data]) ELSE calls[q]]
  BY DEF Call, PassInv, PassTypes
<1>4. PICK s : s = calls'[r] OBVIOUS
<1>5. PICK e : e = [op |-> op, data |-> data] OBVIOUS
<1>6. e.op = op /\ e.data = data BY <1>5
<1>7. s = Append(calls[r], e) BY <1>3, <1>4, <1>5
<1>8. Listed(calls[r], n) /\ n \in Nat BY DEF PassInv, PassTypes, Listed
<1>9. Grown(s, calls[r], n, e) BY <1>7, <1>8, AppendGrows
<1>10. Listed(s, n + 1) /\ Len(s) = n + 1 /\ s[n + 1] = e /\ \A i \in 1..n : s[i] = calls[r][i]
  BY <1>9 DEF Grown
<1>11. PassTypes'
  <2>1. ASSUME NEW q \in Ranks
        PROVE  /\ Listed(calls'[q], Len(calls'[q])) /\ Listed(out'[q], Len(out'[q]))
               /\ phase'[q] \in {"idle", "asked"} <=> calls'[q] = <<>>
               /\ phase'[q] \in {"idle", "asked"} => out'[q] = <<>>
    <3>1. CASE q = r
      <4>1. phase'[q] \notin {"idle", "asked"} BY <1>3, <3>1
      <4>2. Len(<<>>) = 0 /\ ~(n + 1 = 0) BY <1>8
      <4>3. calls'[q] # <<>> BY <1>4, <1>10, <3>1, <4>2
      <4>4. QED BY <1>4, <1>10, <3>1, <4>1, <4>3
    <3>2. CASE q # r
      <4>1. phase'[q] = phase[q] /\ calls'[q] = calls[q] /\ out'[q] = out[q] BY <1>3, <3>2
      <4>2. QED BY <4>1 DEF PassInv, PassTypes
    <3>3. QED BY <3>1, <3>2
  <2>2. /\ phase' = [q \in Ranks |-> phase'[q]] /\ calls' = [q \in Ranks |-> calls'[q]]
        /\ out' = [q \in Ranks |-> out'[q]]
    BY <1>3
  <2>3. QED BY <1>1, <2>1, <2>2 DEF PassTypes, Listed
<1>12. (setup.experts > 0 => Routed)' BY RoutesSame DEF PassInv
<1>13. ASSUME NEW q \in Ranks, NEW i \in 1..Len(calls'[q]) PROVE DataOK(calls'[q][i], q)
  <2>1. CASE q # r BY <1>3, <2>1 DEF PassInv
  <2>2. CASE q = r /\ i = n + 1 BY <1>4, <1>5, <1>10, <2>2
  <2>3. CASE q = r /\ i # n + 1
    <3>1. i \in 1..n /\ calls'[q][i] = calls[r][i] BY <1>4, <1>8, <1>10, <2>3
    <3>2. QED BY <2>3, <3>1 DEF PassInv
  <2>4. QED BY <2>1, <2>2, <2>3
<1>14. ASSUME ~AllOnOne, NEW q \in Ranks PROVE PassOK(q)'
  <2>1. PassOK(q) BY <1>14 DEF PassInv
  <2>2. CASE q # r
    <3>1. phase'[q] = phase[q] /\ calls'[q] = calls[q] /\ out'[q] = out[q] BY <1>3, <2>2
    <3>2. QED BY <1>2, <2>1, <3>1 DEF PassOK
  <2>3. CASE q = r
    <3>1. Fits(op, n + 1, l) /\ phase'[r] = op BY <1>3, <1>14
    <3>2. CallAt(op, n + 1) BY <3>1, FitsAt
    <3>3. ASSUME NEW i \in 1..n + 1 PROVE CallAt(s[i].op, i)
      <4>1. CASE i = n + 1 BY <1>6, <1>10, <3>2, <4>1
      <4>2. CASE i # n + 1
        <5>1. i \in 1..n BY <1>8, <4>2
        <5>2. QED BY <1>10, <2>1, <2>3, <5>1 DEF PassOK
      <4>3. QED BY <4>1, <4>2
    <3>4. QED BY <1>2, <1>4, <1>10, <2>3, <3>1, <3>3 DEF PassOK
  <2>4. QED BY <2>2, <2>3
<1>15. QED BY <1>1, <1>2, <1>11, <1>12, <1>13, <1>14 DEF PassInv

LEMMA ExchangesByEP == Exchanges => UsesEP
BY DEF Exchanges

(* After a layer the next one begins, or the logits.                       *)
LEMMA NextLayerCall ==
  ASSUME PassInv, UNCHANGED <<setup, routes>>, NEW r \in Ranks, NEW result, NextLayer(r, result),
         phase[r] \in {"attention", "sum", "combine"},
         phase[r] = "attention" => AllOnOne \/ (UsesEP /\ ~Exchanges)
  PROVE  PassInv'
<1>1. PICK n : n = Len(calls[r]) OBVIOUS
<1>2. PICK k : k = Len(out[r]) OBVIOUS
<1>3. n \in Nat /\ Listed(out[r], k) /\ k \in Nat BY <1>1, <1>2 DEF PassInv, PassTypes, Listed
<1>4. out' = [q \in Ranks |-> IF q = r THEN Append(out[r], result) ELSE out[q]]
  BY DEF NextLayer, PassInv, PassTypes
<1>5. PICK s : s = out'[r] OBVIOUS
<1>6. s = Append(out[r], result) BY <1>4, <1>5
<1>7. Grown(s, out[r], k, result) BY <1>3, <1>6, AppendGrows
<1>8. PICK l : l = k + 1 OBVIOUS
<1>9. l \in Nat /\ Listed(out'[r], l) /\ l = Len(out'[r]) BY <1>3, <1>5, <1>7, <1>8 DEF Grown
<1>10. out' = [q \in Ranks |-> IF q = r THEN out'[r] ELSE out[q]] BY <1>4
<1>11. AllOnOne \/ Fits(phase[r], n, k)
  BY <1>1, <1>2 DEF PassInv, PassOK
<1>12. ASSUME ~AllOnOne PROVE k < Layers /\ n = 1 + LayerCalls * l
  <2>1. Fits(phase[r], n, k) BY <1>11, <1>12
  <2>2. phase[r] \in LayerOps BY <2>1 DEF Fits
  <2>3. k < Layers /\ n = 1 + LayerCalls * k + Place(phase[r]) BY <2>1, <2>2 DEF Fits
  <2>4. LayerCalls = Place(phase[r]) /\ LayerCalls \in {1, 2, 4}
    BY <1>12, <2>2, ExchangesByEP DEF LayerCalls, LayerOps, Place
  <2>5. QED BY <1>3, <1>8, <2>3, <2>4
<1>13. CASE k + 1 < Layers
  <2>1. Call(r, "attention", {}) BY <1>2, <1>13 DEF NextLayer
  <2>2. AllOnOne \/ Fits("attention", n + 1, l)
    <3>1. SUFFICES ASSUME ~AllOnOne PROVE Fits("attention", n + 1, l) OBVIOUS
    <3>2. LayerCalls \in {1, 2, 4} /\ "attention" \in LayerOps /\ Place("attention") = 1
      BY DEF LayerCalls, LayerOps, Place
    <3>3. n + 1 = 1 + LayerCalls * l + 1 /\ l < Layers BY <1>3, <1>8, <1>12, <1>13, <3>1, <3>2
    <3>4. QED BY <3>2, <3>3 DEF Fits
  <2>3. DataOK([op |-> "attention", data |-> {}], r) BY DEF DataOK
  <2>4. QED BY <1>1, <1>9, <1>10, <2>1, <2>2, <2>3, NextCall
<1>14. CASE ~(k + 1 < Layers)
  <2>1. Call(r, "logits", {}) BY <1>2, <1>14 DEF NextLayer
  <2>2. AllOnOne \/ Fits("logits", n + 1, l)
    <3>1. SUFFICES ASSUME ~AllOnOne PROVE Fits("logits", n + 1, l) OBVIOUS
    <3>2. LayerCalls \in {1, 2, 4} /\ "logits" \notin LayerOps BY DEF LayerCalls, LayerOps
    <3>3. l = Layers BY <1>3, <1>8, <1>12, <1>14, <3>1, LayersTyped
    <3>4. n + 1 = 2 + LayerCalls * Layers BY <1>3, <1>12, <3>1, <3>2, <3>3, LayersTyped
    <3>5. QED BY <3>2, <3>4 DEF Fits
  <2>3. DataOK([op |-> "logits", data |-> {}], r) BY DEF DataOK
  <2>4. QED BY <1>1, <1>9, <1>10, <2>1, <2>2, <2>3, NextCall
<1>15. QED BY <1>13, <1>14

(* A call inside a layer.                                                  *)
LEMMA LayerCall ==
  ASSUME PassInv, UNCHANGED <<setup, routes, out>>, NEW r \in Ranks, NEW op, NEW data,
         Call(r, op, data), op \in {"attention", "sum", "counts", "dispatch", "combine"},
         DataOK([op |-> op, data |-> data], r),
         phase[r] \in {"embedding", "attention", "counts", "dispatch"},
         AllOnOne \/ (op \in LayerOps /\ (phase[r] = "embedding" <=> op = "attention")
                      /\ (phase[r] # "embedding" => Place(op) = Place(phase[r]) + 1))
  PROVE  PassInv'
<1>1. PICK n : n = Len(calls[r]) OBVIOUS
<1>2. PICK l : l = Len(out'[r]) OBVIOUS
<1>3. l \in Nat /\ Listed(out'[r], l) /\ l = Len(out[r]) /\ n \in Nat
  BY <1>1, <1>2 DEF PassInv, PassTypes, Listed
<1>4. out' = [q \in Ranks |-> IF q = r THEN out'[r] ELSE out[q]] BY DEF PassInv, PassTypes
<1>5. AllOnOne \/ Fits(op, n + 1, l)
  <2>1. SUFFICES ASSUME ~AllOnOne PROVE Fits(op, n + 1, l) OBVIOUS
  <2>2. Fits(phase[r], n, l) BY <1>1, <1>3, <2>1 DEF PassInv, PassOK
  <2>3. LayerCalls \in {1, 2, 4} /\ op \in LayerOps BY <2>1 DEF LayerCalls
  <2>4. l < Layers /\ n + 1 = 1 + LayerCalls * l + Place(op)
    <3>1. CASE phase[r] = "embedding"
      <4>1. n = 1 /\ l = 0 /\ Place(op) = 1 BY <2>1, <2>2, <3>1 DEF Fits, Place
      <4>2. QED BY <2>3, <4>1, LayersTyped
    <3>2. CASE phase[r] # "embedding"
      <4>1. phase[r] \in LayerOps BY <2>2, <3>2 DEF Fits
      <4>2. l < Layers /\ n = 1 + LayerCalls * l + Place(phase[r]) BY <2>2, <4>1 DEF Fits
      <4>3. Place(op) = Place(phase[r]) + 1 /\ Place(phase[r]) \in 1..4 BY <2>1, <3>2 DEF Place
      <4>4. PICK m \in Nat : m = LayerCalls * l BY <1>3, <2>3
      <4>5. PICK p \in 1..4 : p = Place(phase[r]) BY <4>3
      <4>6. n + 1 = 1 + m + (p + 1) BY <4>2, <4>4, <4>5
      <4>7. QED BY <4>2, <4>3, <4>4, <4>5, <4>6
    <3>3. QED BY <3>1, <3>2
  <2>5. QED BY <2>3, <2>4 DEF Fits, LayerOps
<1>6. QED BY <1>1, <1>2, <1>3, <1>4, <1>5, NextCall

LEMMA NoFastPath ==
  ASSUME PassInv, NEW r \in Ranks, phase[r] # "idle", Exchanges, setup.experts > 0, ~AllOnOne
  PROVE  ~LocalOnly(r)
BY DEF PassInv, AllOnOne, Routed

LEMMA PairOfToken ==
  ASSUME NEW p \in 1..Tokens * TopK
  PROVE  TokenOf(p, TopK) \in 1..Tokens /\ ((p - 1) % TopK) + 1 \in 1..TopK
<1>1. Tokens \in Nat /\ TopK \in Nat /\ TopK > 0 BY ForwardAssumption
<1>2. p \in Nat /\ p > 0 BY <1>1
<1>3. PICK d, m \in Int : d = (p - 1) \div TopK /\ m = (p - 1) % TopK BY <1>1, <1>2
<1>4. p - 1 = TopK * d + m /\ m \in 0..TopK - 1 BY <1>1, <1>2, <1>3
<1>5. d >= 0 BY <1>1, <1>2, <1>4
<1>6. d < Tokens
  <2>1. SUFFICES ASSUME d >= Tokens PROVE FALSE BY <1>1, <1>3
  <2>2. TopK * d >= TopK * Tokens BY <1>1, <1>3, <2>1
  <2>3. QED BY <1>1, <1>2, <1>3, <1>4, <2>2
<1>7. QED BY <1>1, <1>3, <1>4, <1>5, <1>6 DEF TokenOf

(* The back end of expert parallelism on a rank that has all the experts   *)
(* finds every pair to be its own.                                         *)
LEMMA AllLocal ==
  ASSUME EngineTypes, Routed, setup.experts > 0, NEW r \in Ranks, ~LocalOnly(r)
  PROVE  UsesEP
<1>1. SUFFICES ASSUME ~UsesEP PROVE LocalOnly(r) OBVIOUS
<1>2. /\ setup.tp \in Nat \ {0} /\ setup.ep \in {1, setup.tp} /\ setup.experts \in Nat
  BY SetupsAssumption DEF EngineTypes
<1>3. setup.ep = 1 BY <1>1, <1>2 DEF UsesEP
<1>4. LocalExperts = setup.experts BY <1>2, <1>3 DEF LocalExperts
<1>5. r % setup.ep = 0 /\ 0 \in Ranks BY <1>2, <1>3 DEF Ranks
<1>6. ASSUME NEW p \in DOMAIN Pairs PROVE Dest(p) = 0
  <2>1. p \in 1..Tokens * TopK BY DEF Pairs
  <2>2. ExpertOf(p) \in 0..setup.experts - 1 BY <2>1, PairOfToken DEF Routed, ExpertOf
  <2>3. QED BY <1>2, <1>4, <2>2 DEF Dest
<1>7. {p \in DOMAIN Pairs : Dest(p) = 0} = 1..Tokens * TopK BY <1>6 DEF Pairs
<1>8. PICK n : n = Tokens * TopK /\ n \in Nat BY ForwardAssumption
<1>9. Cardinality(1..n) = n BY <1>8, FS_Interval
<1>10. Len(Pairs) = n BY <1>8 DEF Pairs
<1>11. SendCounts[0] = n BY <1>5, <1>7, <1>8, <1>9 DEF SendCounts
<1>12. QED BY <1>5, <1>10, <1>11 DEF LocalOnly

(* What a rank finds when the call that it is in has ended.                *)
LEMMA EndedCall ==
  ASSUME PassInv, NEW r \in Ranks, NEW op, Ended(r, op), op \notin {"idle", "asked"}, NEW q \in Ranks
  PROVE  LET call == calls[q][Len(calls[r])] IN call.op = op /\ DataOK(call, q)
<1>1. PICK n : n = Len(calls[r]) OBVIOUS
<1>2. PICK m : m = Len(calls[q]) OBVIOUS
<1>3. /\ n \in Nat /\ m \in Nat /\ calls[r] # <<>> /\ calls[r] = [i \in 1..n |-> calls[r][i]]
  BY <1>1, <1>2 DEF PassInv, PassTypes, Listed, Ended
<1>4. n # 0
  <2>1. SUFFICES ASSUME n = 0 PROVE FALSE OBVIOUS
  <2>2. 1..0 = {} OBVIOUS
  <2>3. calls[r] = [i \in {} |-> calls[r][i]] BY <1>3, <2>1, <2>2
  <2>4. <<>> = [i \in {} |-> calls[r][i]] OBVIOUS
  <2>5. QED BY <1>3, <2>3, <2>4
<1>5. m >= n /\ calls[q][n].op = op BY <1>1, <1>2 DEF Ended
<1>6. n \in 1..m BY <1>3, <1>4, <1>5
<1>7. DataOK(calls[q][n], q) BY <1>2, <1>6 DEF PassInv
<1>8. QED BY <1>1, <1>5, <1>7

LEMMA LogitsGathered ==
  ASSUME PassInv, UNCHANGED <<setup, routes, calls, out>>, NEW r \in Ranks, phase[r] = "logits",
         phase' = [phase EXCEPT ![r] = "done"]
  PROVE  PassInv'
<1>1. Ranks' = Ranks /\ AllOnOne' = AllOnOne BY RoutesSame
<1>2. /\ \A x, m, k : Fits(x, m, k)' <=> Fits(x, m, k)
      /\ \A x, i : CallAt(x, i)' <=> CallAt(x, i)
      /\ \A call, q : DataOK(call, q)' <=> DataOK(call, q)
  BY FitsSame
<1>3. phase' = [q \in Ranks |-> IF q = r THEN "done" ELSE phase[q]] BY DEF PassInv, PassTypes
<1>4. PassTypes'
  <2>1. \A q \in Ranks : phase'[q] \in {"idle", "asked"} <=> phase[q] \in {"idle", "asked"} BY <1>3
  <2>2. phase' = [q \in Ranks |-> phase'[q]] BY <1>3
  <2>3. PassTypes BY DEF PassInv
  <2>4. QED BY <1>1, <2>1, <2>2, <2>3 DEF PassTypes, Listed
<1>5. (setup.experts > 0 => Routed)' BY RoutesSame DEF PassInv
<1>6. ASSUME NEW q \in Ranks, PassOK(q) PROVE PassOK(q)'
  <2>1. CASE q # r
    <3>1. phase'[q] = phase[q] BY <1>3, <2>1
    <3>2. QED BY <1>2, <1>6, <3>1 DEF PassOK
  <2>2. CASE q = r
    <3>1. phase'[q] = "done" BY <1>3, <2>2
    <3>2. \A m, k : Fits("done", m, k) BY DEF Fits, LayerOps
    <3>3. QED BY <1>2, <1>6, <3>1, <3>2 DEF PassOK
  <2>3. QED BY <2>1, <2>2
<1>7. QED BY <1>1, <1>2, <1>4, <1>5, <1>6 DEF PassInv

(* Each step of a forward pass.                                            *)
LEMMA ServePass ==
  ASSUME EngineTypes, ConfigOK, PassInv, NEW r \in Ranks, Serve(r)
  PROVE  PassInv'
<1>1. UsesEP => setup.experts > 0 BY DEF Serve, ConfigOK
<1>2. ForwardStep(r) BY DEF Serve
<1>3. CASE Embed(r)
  <2>1. UNCHANGED <<setup, routes, out>> /\ phase[r] = "asked" /\ Call(r, "embedding", {})
    BY <1>3 DEF Embed
  <2>2. /\ calls[r] = <<>> /\ out[r] = <<>> /\ Listed(out[r], Len(out[r]))
        /\ out' = [q \in Ranks |-> IF q = r THEN out'[r] ELSE out[q]]
    BY <2>1 DEF PassInv, PassTypes
  <2>3. Len(<<>>) = 0 /\ 0 \in Nat OBVIOUS
  <2>4. PICK n : n = Len(calls[r]) OBVIOUS
  <2>5. PICK l : l = Len(out'[r]) OBVIOUS
  <2>6. n = 0 /\ l = 0 /\ l \in Nat /\ Listed(out'[r], l) BY <2>1, <2>2, <2>3, <2>4, <2>5
  <2>7. Fits("embedding", n + 1, l) BY <2>6 DEF Fits, LayerOps
  <2>8. DataOK([op |-> "embedding", data |-> {}], r) BY DEF DataOK
  <2>9. QED BY <2>1, <2>2, <2>4, <2>5, <2>6, <2>7, <2>8, NextCall
<1>4. CASE Attend(r)
  <2>1. UNCHANGED <<setup, routes, out>> /\ phase[r] = "embedding" /\ Call(r, "attention", {})
    BY <1>4 DEF Attend, Ended
  <2>2. DataOK([op |-> "attention", data |-> {}], r) BY DEF DataOK
  <2>3. "attention" \in LayerOps BY DEF LayerOps
  <2>4. QED BY <2>1, <2>2, <2>3, LayerCall
<1>5. ASSUME NEW data, Ended(r, "attention"), ~UsesEP, Call(r, "sum", data), out' = out PROVE PassInv'
  <2>1. UNCHANGED <<setup, routes, out>> /\ phase[r] = "attention" BY <1>5 DEF Ended
  <2>2. DataOK([op |-> "sum", data |-> data], r) BY DEF DataOK
  <2>3. "sum" \in LayerOps /\ Place("sum") = Place("attention") + 1
    BY <1>5, ExchangesByEP DEF LayerOps, Place
  <2>4. QED BY <1>5, <2>1, <2>2, <2>3, LayerCall
<1>6. CASE DenseMLP(r)
  <2>1. ~(0 > 0) OBVIOUS
  <2>2. ~UsesEP BY <1>1, <1>6, <2>1 DEF DenseMLP
  <2>3. QED BY <1>5, <1>6, <2>2 DEF DenseMLP
<1>7. CASE FusedMoE(r)
  <2>1. UNCHANGED <<setup, routes>> /\ phase[r] = "attention" BY <1>7 DEF FusedMoE, Ended
  <2>2. CASE ~UsesEP
    <3>1. PICK data : Call(r, "sum", data) /\ out' = out BY <1>7, <2>2 DEF FusedMoE, AfterExperts
    <3>2. QED BY <1>5, <1>7, <2>2, <3>1 DEF FusedMoE
  <2>3. CASE UsesEP
    <3>1. \E result : NextLayer(r, result) BY <1>7, <2>3 DEF FusedMoE, AfterExperts
    <3>2. ~Exchanges BY <1>7 DEF FusedMoE, Exchanges
    <3>3. QED BY <2>1, <2>3, <3>1, <3>2, NextLayerCall
  <2>4. QED BY <2>2, <2>3
<1>8. CASE SumUp(r)
  <2>1. UNCHANGED <<setup, routes>> /\ phase[r] = "sum" BY <1>8 DEF SumUp, Ended
  <2>2. \E result : NextLayer(r, result) BY <1>8 DEF SumUp
  <2>3. QED BY <2>1, <2>2, NextLayerCall
<1>9. CASE LocalMoE(r)
  <2>1. UNCHANGED <<setup, routes>> /\ phase[r] = "attention" /\ LocalOnly(r) /\ MoeBackend = "ep"
    BY <1>9 DEF LocalMoE, Ended, SkipsExchange
  <2>2. CASE ~UsesEP
    <3>1. PICK data : Call(r, "sum", data) /\ out' = out BY <1>9, <2>2 DEF LocalMoE, AfterExperts
    <3>2. QED BY <1>5, <1>9, <2>2, <3>1 DEF LocalMoE
  <2>3. CASE UsesEP
    <3>1. AllOnOne BY <1>1, <2>1, <2>3, NoFastPath DEF Exchanges
    <3>2. \E result : NextLayer(r, result) BY <1>9, <2>3 DEF LocalMoE, AfterExperts
    <3>3. QED BY <2>1, <3>1, <3>2, NextLayerCall
  <2>4. QED BY <2>2, <2>3
<1>10. CASE GatherCounts(r)
  <2>1. /\ UNCHANGED <<setup, routes, out>> /\ phase[r] = "attention" /\ MoeBackend = "ep"
        /\ setup.experts > 0 /\ ~LocalOnly(r) /\ Call(r, "counts", SendCounts)
    BY <1>10 DEF GatherCounts, Ended, SkipsExchange
  <2>2. Exchanges
    <3>1. Routed BY <2>1 DEF PassInv
    <3>2. UsesEP BY <2>1, <3>1, AllLocal
    <3>3. QED BY <2>1, <3>2 DEF Exchanges
  <2>3. DataOK([op |-> "counts", data |-> SendCounts], r) BY DEF DataOK
  <2>4. "counts" \in LayerOps /\ Place("counts") = Place("attention") + 1
    BY <2>2 DEF LayerOps, Place
  <2>5. QED BY <2>1, <2>3, <2>4, LayerCall
<1>11. CASE Dispatch(r)
  <2>1. PICK rows : Call(r, "dispatch", [rows |-> rows, in |-> SendCounts, out |-> RecvCounts(r)])
    BY <1>11 DEF Dispatch
  <2>2. UNCHANGED <<setup, routes, out>> /\ phase[r] = "counts" /\ Ended(r, "counts")
    BY <1>11 DEF Dispatch, Ended
  <2>3. ASSUME NEW q \in Ranks PROVE Given(q, r) = SendCounts
    <3>1. calls[q][Len(calls[r])].op = "counts" /\ DataOK(calls[q][Len(calls[r])], q)
      BY <2>2, EndedCall
    <3>2. QED BY <3>1 DEF DataOK, Given
  <2>4. RecvCounts(r) = [q \in Ranks |-> SendCounts[r]] BY <2>3 DEF RecvCounts
  <2>5. DataOK([op |-> "dispatch", data |-> [rows |-> rows, in |-> SendCounts, out |-> RecvCounts(r)]], r)
    BY <2>4 DEF DataOK
  <2>6. AllOnOne \/ Exchanges
    <3>1. ASSUME ~AllOnOne PROVE Exchanges BY <2>2, <3>1 DEF PassInv, PassOK, Fits, LayerOps
    <3>2. QED BY <3>1
  <2>7. Exchanges => "dispatch" \in LayerOps /\ Place("dispatch") = Place("counts") + 1 BY DEF LayerOps, Place
  <2>8. QED BY <2>1, <2>2, <2>5, <2>6, <2>7, LayerCall
<1>12. CASE Combine(r)
  <2>1. PICK rows : Call(r, "combine", [rows |-> rows, in |-> Latest(r).data.out,
                                        out |-> Latest(r).data.in])
    BY <1>12 DEF Combine
  <2>2. UNCHANGED <<setup, routes, out>> /\ phase[r] = "dispatch" /\ Ended(r, "dispatch")
    BY <1>12 DEF Combine, Ended
  <2>3. Latest(r).op = "dispatch" /\ DataOK(Latest(r), r)
    BY <2>2, EndedCall DEF Latest
  <2>4. /\ Latest(r).data.out = [q \in Ranks |-> SendCounts[r]]
        /\ Latest(r).data.in = SendCounts
    BY <2>3 DEF DataOK
  <2>5. DataOK([op |-> "combine", data |-> [rows |-> rows, in |-> Latest(r).data.out,
                                            out |-> Latest(r).data.in]], r)
    BY <2>4 DEF DataOK
  <2>6. AllOnOne \/ Exchanges
    <3>1. ASSUME ~AllOnOne PROVE Exchanges BY <2>2, <3>1 DEF PassInv, PassOK, Fits, LayerOps
    <3>2. QED BY <3>1
  <2>7. Exchanges => "combine" \in LayerOps /\ Place("combine") = Place("dispatch") + 1 BY DEF LayerOps, Place
  <2>8. QED BY <2>1, <2>2, <2>5, <2>6, <2>7, LayerCall
<1>13. CASE FinishMoE(r)
  <2>1. UNCHANGED <<setup, routes>> /\ phase[r] = "combine" BY <1>13 DEF FinishMoE, Ended
  <2>2. \E result : NextLayer(r, result) BY <1>13 DEF FinishMoE
  <2>3. QED BY <2>1, <2>2, NextLayerCall
<1>14. CASE GatherLogits(r)
  <2>1. UNCHANGED <<setup, routes, calls, out>> /\ phase[r] = "logits"
        /\ phase' = [phase EXCEPT ![r] = "done"]
    BY <1>14 DEF GatherLogits, Ended
  <2>2. QED BY <2>1, LogitsGathered
<1>15. QED
  BY <1>2, <1>3, <1>4, <1>6, <1>7, <1>8, <1>9, <1>10, <1>11, <1>12, <1>13, <1>14 DEF ForwardStep

(* A batch is routed to TopK experts a token.                              *)
LEMMA AskPass == ASSUME EngineTypes, PassInv, Ask PROVE PassInv'
<1>1. /\ \A r \in Ranks : phase[r] = "idle"
      /\ routes' \in Routings(0..setup.experts - 1)
      /\ phase' = [r \in Ranks |-> "asked"] /\ UNCHANGED <<setup, calls, out>>
  BY DEF Ask, Batch, startVars
<1>2. Ranks' = Ranks BY <1>1 DEF Ranks
<1>3. ASSUME NEW r \in Ranks PROVE phase[r] = "idle" /\ phase'[r] = "asked"
  BY <1>1
<1>4. ASSUME NEW r \in Ranks PROVE calls[r] = <<>> /\ out[r] = <<>> BY <1>1 DEF PassInv, PassTypes
<1>5. PassTypes' BY <1>1, <1>2, <1>3, <1>4 DEF PassInv, PassTypes, Listed
<1>6. ASSUME setup.experts > 0 PROVE Routed'
  <2>1. 1 \in 1..Tokens /\ Tokens \in Nat BY ForwardAssumption
  <2>2. setup.experts \in Nat => 0 \in 0..setup.experts - 1 BY <1>6
  <2>3. setup.experts \in Nat BY SetupsAssumption DEF EngineTypes
  <2>4. routes' \in [1..Tokens -> {s \in [1..TopK -> 0..setup.experts - 1] : IsInjective(s)}]
    BY <1>1, <2>2, <2>3 DEF Routings
  <2>5. DOMAIN routes' = 1..Tokens BY <2>4
  <2>6. DOMAIN <<>> = {} OBVIOUS
  <2>7. ASSUME NEW t \in 1..Tokens, NEW k \in 1..TopK
        PROVE  routes'[t][k] \in 0..setup.experts - 1
    <3>1. routes'[t] \in [1..TopK -> 0..setup.experts - 1] BY <2>4
    <3>2. QED BY <3>1
  <2>8. QED BY <1>1, <2>1, <2>5, <2>6, <2>7 DEF Routed
<1>7. ASSUME NEW r \in Ranks PROVE 1..Len(calls[r]) = {} /\ Len(calls[r]) = 0 /\ Len(out[r]) = 0
  <2>1. Len(<<>>) = 0 /\ 1..0 = {} OBVIOUS
  <2>2. QED BY <1>4, <2>1
<1>8. ASSUME NEW r \in Ranks PROVE PassOK(r)'
  <2>1. Fits("asked", 0, 0)' BY DEF Fits, LayerOps
  <2>2. QED BY <1>1, <1>3, <1>7, <2>1 DEF PassOK
<1>9. QED BY <1>1, <1>2, <1>5, <1>6, <1>7, <1>8 DEF PassInv

LEMMA CallsStep == ASSUME CallsInv, [Next]_vars PROVE CallsInv'
<1>1. EngineTypes' /\ ConfigOK' BY TypesStep, ConfigStep DEF CallsInv
<1>2. CASE UNCHANGED forwardVars
  <2>1. setup' = setup
    BY StepKinds DEF CallsInv, WorkerStep, RankKind, Stays, Fails, Goes, Comes, LearnsFree,
       LearnsPages, Answers, Same
  <2>2. QED BY <1>1, <1>2, <2>1, PassKept DEF CallsInv, forwardVars
<1>3. CASE Ask BY <1>1, <1>3, AskPass DEF CallsInv
<1>4. ASSUME NEW r \in Ranks, Serve(r) PROVE CallsInv' BY <1>1, <1>4, ServePass DEF CallsInv
<1>5. QED BY <1>2, <1>3, <1>4 DEF Next, vars, Start

LEMMA CallsInit == ASSUME Init PROVE CallsInv
<1>1. EngineTypes BY TypesInit
<1>2. ConfigOK BY DEF Init, StartInit, ConfigOK
<1>3. /\ phase = [r \in Ranks |-> "idle"] /\ calls = [r \in Ranks |-> <<>>]
      /\ out = [r \in Ranks |-> <<>>]
  BY DEF Init, ForwardInit
<1>4. Len(<<>>) = 0 /\ 0 \in Nat /\ 1..0 = {} /\ <<>> = [i \in {} |-> <<>>[i]] OBVIOUS
<1>5. Listed(<<>>, 0) BY <1>4 DEF Listed
<1>6. PassTypes BY <1>3, <1>4, <1>5 DEF PassTypes
<1>7. \A r \in Ranks : PassOK(r)
  <2>1. Fits("idle", 0, 0) BY DEF Fits, LayerOps
  <2>2. QED BY <1>3, <1>4, <2>1 DEF PassOK
<1>8. PassInv BY <1>3, <1>4, <1>6, <1>7 DEF PassInv
<1>9. QED BY <1>1, <1>2, <1>8 DEF CallsInv

LEMMA CallsAgree == ASSUME CallsInv PROVE CallsMatch
<1> SUFFICES ASSUME ~AllOnOne, NEW q \in Ranks, NEW r \in Ranks,
                    NEW i \in DOMAIN calls[q] \cap DOMAIN calls[r]
    PROVE /\ calls[q][i].op = calls[r][i].op
          /\ calls[q][i].op \in {"dispatch", "combine"} =>
               calls[q][i].data.in[r] = calls[r][i].data.out[q]
  BY DEF CallsMatch
<1>1. ASSUME NEW p \in Ranks, i \in DOMAIN calls[p]
      PROVE  CallAt(calls[p][i].op, i) /\ DataOK(calls[p][i], p)
  <2>1. calls[p] = [j \in 1..Len(calls[p]) |-> calls[p][j]]
    BY DEF CallsInv, PassInv, PassTypes, Listed
  <2>2. i \in 1..Len(calls[p]) BY <1>1, <2>1
  <2>3. QED BY <2>2 DEF CallsInv, PassInv, PassOK
<1>2. calls[q][i].op = calls[r][i].op BY <1>1, CallsUnique
<1>3. DataOK(calls[q][i], q) /\ DataOK(calls[r][i], r) BY <1>1
<1>4. CASE calls[q][i].op = "dispatch" BY <1>2, <1>3, <1>4 DEF DataOK
<1>5. CASE calls[q][i].op = "combine" BY <1>2, <1>3, <1>5 DEF DataOK
<1>6. QED BY <1>2, <1>4, <1>5

(* Ranks whose lists of calls have an entry of the same number made the    *)
(* same call there, and in an exchange one sends as much as the other      *)
(* expects of it: for any number of ranks, layers, tokens and experts, any *)
(* cut of the weights and either back end, in all batches but those that   *)
(* the exchange would send to a single rank (models/, layers/, moe/).      *)
THEOREM CallsMatchHolds == Spec => []CallsMatch
<1>1. Init => CallsInv BY CallsInit
<1>2. CallsInv /\ [Next]_vars => CallsInv' BY CallsStep
<1>3. CallsInv => CallsMatch BY CallsAgree
<1>4. QED BY <1>1, <1>2, <1>3, PTL DEF Spec

----------------------------------------------------------------------------
(* Quotients.                                                              *)
LEMMA TimesOrder ==
  ASSUME NEW a \in Nat, NEW b \in Nat, NEW c \in Nat, a <= b
  PROVE  a * c <= b * c /\ a * c \in Nat
OBVIOUS

LEMMA QuotientBounds ==
  ASSUME NEW i \in Nat, NEW d \in Nat, d > 0
  PROVE  i \div d \in Nat /\ (i \div d) * d <= i /\ i < (i \div d) * d + d
OBVIOUS

LEMMA QuotientIs ==
  ASSUME NEW i \in Nat, NEW d \in Nat, d > 0, NEW q \in Nat, q * d <= i, i < q * d + d
  PROVE  i \div d = q
<1>1. PICK p \in Nat : p = i \div d BY QuotientBounds
<1>2. p * d <= i /\ i < p * d + d BY <1>1, QuotientBounds
<1>3. PICK x \in Nat : x = p * d BY <1>1
<1>4. PICK y \in Nat : y = q * d OBVIOUS
<1>5. ~(p < q)
  <2>1. SUFFICES ASSUME p + 1 <= q PROVE FALSE OBVIOUS
  <2>2. (p + 1) * d <= q * d BY <2>1, TimesOrder
  <2>3. (p + 1) * d = x + d BY <1>3
  <2>4. QED BY <1>2, <1>3, <1>4, <2>2, <2>3
<1>6. ~(q < p)
  <2>1. SUFFICES ASSUME q + 1 <= p PROVE FALSE OBVIOUS
  <2>2. (q + 1) * d <= p * d BY <2>1, TimesOrder
  <2>3. (q + 1) * d = y + d BY <1>4
  <2>4. QED BY <1>2, <1>3, <1>4, <2>2, <2>3
<1>7. QED BY <1>1, <1>5, <1>6

LEMMA Multiple ==
  ASSUME NEW n \in Nat, NEW d \in Nat, d > 0, n % d = 0
  PROVE  n \div d \in Nat /\ n = (n \div d) * d /\ (n > 0 => n \div d > 0)
<1>1. n \div d \in Nat /\ n = (n \div d) * d OBVIOUS
<1>2. PICK q \in Nat : q = n \div d BY <1>1
<1>3. q = 0 => q * d = 0 OBVIOUS
<1>4. QED BY <1>1, <1>2, <1>3

LEMMA RoundedUp ==
  ASSUME NEW n \in Nat, n > 0, NEW d \in Nat, d > 0
  PROVE  /\ DivCeil(n, d) \in Nat /\ DivCeil(n, d) > 0 /\ n <= DivCeil(n, d) * d
         /\ n % d = 0 => DivCeil(n, d) = n \div d
<1>1. PICK x \in Nat : x = n + d - 1 OBVIOUS
<1>2. PICK p \in Nat : p = x \div d BY QuotientBounds
<1>3. p * d <= x /\ x < p * d + d BY <1>2, QuotientBounds
<1>4. DivCeil(n, d) = p BY <1>1, <1>2 DEF DivCeil
<1>5. PICK y \in Nat : y = p * d OBVIOUS
<1>6. n <= y BY <1>1, <1>3, <1>5
<1>7. p = 0 => y = 0 BY <1>5
<1>8. ASSUME n % d = 0 PROVE p = n \div d
  <2>1. PICK q \in Nat : q = n \div d BY QuotientBounds
  <2>2. n = q * d BY <1>8, <2>1, Multiple
  <2>3. q * d <= x /\ x < q * d + d BY <1>1, <2>2
  <2>4. QED BY <1>2, <2>1, <2>3, QuotientIs
<1>9. QED BY <1>4, <1>5, <1>6, <1>7, <1>8

LEMMA NestedQuotient ==
  ASSUME NEW i \in Nat, NEW d \in Nat, NEW m \in Nat, d > 0, m > 0
  PROVE  i \div (d * m) = (i \div d) \div m
<1>1. PICK x \in Nat : x = i \div d BY QuotientBounds
<1>2. PICK q \in Nat : q = x \div m BY QuotientBounds
<1>3. x * d <= i /\ i < x * d + d BY <1>1, QuotientBounds
<1>4. q * m <= x /\ x < q * m + m BY <1>2, QuotientBounds
<1>5. PICK e \in Nat : e = d * m OBVIOUS
<1>6. e > 0 BY <1>5
<1>7. PICK y \in Nat : y = q * m OBVIOUS
<1>8. y * d = q * e BY <1>5, <1>7
<1>9. y * d <= x * d BY <1>4, <1>7, TimesOrder
<1>10. (x + 1) * d <= (y + m) * d BY <1>4, <1>7, TimesOrder
<1>11. (x + 1) * d = x * d + d /\ (y + m) * d = y * d + m * d /\ m * d = e BY <1>5
<1>12. PICK xd \in Nat : xd = x * d OBVIOUS
<1>13. PICK yd \in Nat : yd = y * d OBVIOUS
<1>14. q * e <= i /\ i < q * e + e
  BY <1>3, <1>8, <1>9, <1>10, <1>11, <1>12, <1>13
<1>15. i \div e = q BY <1>6, <1>14, QuotientIs
<1>16. QED BY <1>1, <1>2, <1>5, <1>15

----------------------------------------------------------------------------
(* The heads of the keys, in numbers.                                      *)
LEMMA ReplicatedHeads ==
  ASSUME NEW kv \in Nat, NEW d \in Nat, NEW m \in Nat, kv > 0, d > 0, m > 0, NEW h \in Nat,
         NEW t \in Nat, t = m * kv, NEW qo \in Nat, qo = d * t, NEW r, r = h \div d
  PROVE  (r * kv) \div t = h \div (qo \div kv)
<1>1. r \in Nat BY QuotientBounds
<1>2. PICK q \in Nat : q = r \div m BY <1>1, QuotientBounds
<1>3. q * m <= r /\ r < q * m + m BY <1>1, <1>2, QuotientBounds
<1>4. PICK e \in Nat : e = d * m OBVIOUS
<1>5. t > 0 OBVIOUS
<1>6. qo \div kv = e
  <2>1. qo = e * kv BY <1>4
  <2>2. qo < qo + kv OBVIOUS
  <2>3. QED BY <2>1, <2>2, QuotientIs
<1>7. h \div e = q BY <1>2, <1>4, NestedQuotient
<1>8. PICK y \in Nat : y = q * m OBVIOUS
<1>9. y * kv = q * t /\ (y + m) * kv = q * t + t BY <1>8
<1>10. y * kv <= r * kv /\ (r + 1) * kv <= (y + m) * kv BY <1>1, <1>3, <1>8, TimesOrder
<1>11. PICK rk \in Nat : rk = r * kv BY <1>1
<1>12. (r + 1) * kv = rk + kv BY <1>1, <1>11
<1>13. PICK qt \in Nat : qt = q * t OBVIOUS
<1>14. q * t <= rk /\ rk < q * t + t BY <1>9, <1>10, <1>11, <1>12, <1>13
<1>15. rk \div t = q BY <1>5, <1>14, QuotientIs
<1>16. QED BY <1>6, <1>7, <1>11, <1>15

LEMMA CutHeads ==
  ASSUME NEW g \in Nat, NEW k \in Nat, g > 0, k > 0, NEW r \in Nat, NEW j \in 0..g * k - 1
  PROVE  /\ (g * k) \div k = g
         /\ j \div g \in 0..k - 1
         /\ (r * (g * k) + j) \div g = r * k + j \div g
<1>1. PICK d \in Nat : d = g * k OBVIOUS
<1>2. j \in Nat /\ j < d BY <1>1
<1>3. d \div k = g
  <2>1. d < d + k OBVIOUS
  <2>2. QED BY <1>1, <2>1, QuotientIs
<1>4. PICK y \in Nat : y = j \div g BY <1>2, QuotientBounds
<1>5. y * g <= j /\ j < y * g + g BY <1>2, <1>4, QuotientBounds
<1>6. PICK yg \in Nat : yg = y * g OBVIOUS
<1>7. y < k
  <2>1. SUFFICES ASSUME k <= y PROVE FALSE BY <1>4
  <2>2. k * g <= y * g BY <2>1, TimesOrder
  <2>3. QED BY <1>1, <1>2, <1>5, <1>6, <2>2
<1>8. PICK z \in Nat : z = r * k OBVIOUS
<1>9. z * g = r * d /\ (z + y) * g = z * g + y * g BY <1>1, <1>8
<1>10. PICK rd \in Nat : rd = r * d OBVIOUS
<1>11. (z + y) * g <= rd + j /\ rd + j < (z + y) * g + g BY <1>2, <1>5, <1>6, <1>9, <1>10
<1>12. (rd + j) \div g = z + y BY <1>2, <1>11, QuotientIs
<1>13. QED BY <1>1, <1>3, <1>4, <1>7, <1>8, <1>10, <1>12

----------------------------------------------------------------------------
(* A dimension that is cut evenly.                                         *)
LEMMA SetupNumbers ==
  ASSUME setup \in Setups
  PROVE  /\ setup.tp \in Nat /\ setup.tp > 0 /\ Ranks = 0..setup.tp - 1
         /\ setup.ep \in Nat /\ (UsesEP => setup.ep = setup.tp) /\ (~UsesEP => setup.ep = 1)
         /\ setup.qo \in Nat /\ setup.qo > 0 /\ setup.kv \in Nat /\ setup.kv > 0
         /\ setup.inter \in Nat /\ setup.inter > 0 /\ setup.vocab \in Nat /\ setup.vocab > 0
         /\ setup.experts \in Nat /\ setup.qo % setup.kv = 0
<1>1. /\ setup.tp \in Nat \ {0} /\ setup.ep \in {1, setup.tp}
      /\ {setup.qo, setup.kv, setup.inter, setup.vocab} \subseteq Nat \ {0}
      /\ setup.qo % setup.kv = 0 /\ setup.experts \in Nat
  BY SetupsAssumption
<1>2. QED BY <1>1 DEF Ranks, UsesEP

(* Each part of it has one rank.                                           *)
LEMMA OneRank ==
  ASSUME setup \in Setups, NEW size \in Nat, size > 0, NEW i \in 0..size - 1
  PROVE  LET r == i \div DivCeil(size, setup.tp)
         IN r \in Ranks /\ \A q : i \in Chunk(size, q) <=> q = r
<1>1. PICK t \in Nat : t = setup.tp /\ t > 0 BY SetupNumbers
<1>2. PICK d \in Nat : d = DivCeil(size, t) BY <1>1, RoundedUp
<1>3. d > 0 /\ size <= d * t BY <1>1, <1>2, RoundedUp
<1>4. PICK r \in Nat : r = i \div d BY <1>3, QuotientBounds
<1>5. r * d <= i BY <1>3, <1>4, QuotientBounds
<1>6. r < t
  <2>1. SUFFICES ASSUME t <= r PROVE FALSE BY <1>1, <1>4
  <2>2. t * d <= r * d BY <2>1, TimesOrder
  <2>3. PICK x \in Nat : x = t * d OBVIOUS
  <2>4. PICK y \in Nat : y = r * d OBVIOUS
  <2>5. d * t = x BY <2>3
  <2>6. QED BY <1>3, <1>5, <2>2, <2>3, <2>4, <2>5
<1>7. r \in Ranks BY <1>1, <1>6, SetupNumbers
<1>8. QED BY <1>1, <1>2, <1>4, <1>7 DEF Chunk

(* A dimension that the ranks divide.                                      *)
LEMMA EvenChunk ==
  ASSUME setup \in Setups, NEW size \in Nat, size > 0, DivEven(size), NEW r \in Ranks
  PROVE  LET d == size \div setup.tp
         IN /\ d \in Nat /\ d > 0 /\ size = d * setup.tp /\ DivCeil(size, setup.tp) = d
            /\ Chunk(size, r) = r * d..r * d + d - 1
<1>1. PICK t \in Nat : t = setup.tp /\ t > 0 BY SetupNumbers
<1>2. size % t = 0 BY <1>1 DEF DivEven
<1>3. PICK d \in Nat : d = size \div t BY <1>1, QuotientBounds
<1>4. size = d * t /\ d > 0 BY <1>1, <1>2, <1>3, Multiple
<1>5. DivCeil(size, t) = d BY <1>1, <1>2, <1>3, RoundedUp
<1>6. r \in Nat /\ r + 1 <= t BY <1>1, SetupNumbers
<1>7. PICK rd \in Nat : rd = r * d BY <1>6
<1>8. rd + d <= size
  <2>1. (r + 1) * d <= t * d BY <1>6, TimesOrder
  <2>2. (r + 1) * d = rd + d BY <1>6, <1>7
  <2>3. t * d = size BY <1>4
  <2>4. QED BY <2>1, <2>2, <2>3
<1>9. ASSUME NEW i \in 0..size - 1 PROVE i \div d = r <=> i \in rd..rd + d - 1
  <2>1. i \in Nat OBVIOUS
  <2>2. i \div d = r => i \in rd..rd + d - 1 BY <1>4, <1>7, <2>1, QuotientBounds
  <2>3. ASSUME i \in rd..rd + d - 1 PROVE i \div d = r
    <3>1. rd <= i /\ i < rd + d BY <2>3
    <3>2. QED BY <1>4, <1>6, <1>7, <2>1, <3>1, QuotientIs
  <2>4. QED BY <2>2, <2>3
<1>10. \A i \in rd..rd + d - 1 : i \in 0..size - 1 BY <1>8
<1>11. Chunk(size, r) = rd..rd + d - 1 BY <1>1, <1>5, <1>9, <1>10 DEF Chunk
<1>12. QED BY <1>1, <1>3, <1>4, <1>5, <1>7, <1>11

(* The place of a number in an interval.                                   *)
LEMMA IntervalPlace ==
  ASSUME NEW a \in Nat, NEW n \in Nat, NEW S, S = a..a + n - 1, NEW h \in S
  PROVE  Cardinality({g \in S : g < h}) = h - a
<1>1. {g \in S : g < h} = a..h - 1 OBVIOUS
<1>2. h - 1 \in Int /\ h \in Int /\ a <= h OBVIOUS
<1>3. Cardinality(a..h - 1) = IF a > h - 1 THEN 0 ELSE h - 1 - a + 1 BY <1>2, FS_Interval
<1>4. PICK c : c = Cardinality(a..h - 1) OBVIOUS
<1>5. c = h - a BY <1>2, <1>3, <1>4
<1>6. QED BY <1>1, <1>4, <1>5

LEMMA IntervalSize ==
  ASSUME NEW a \in Nat, NEW n \in Nat
  PROVE  Cardinality(a..a + n - 1) = n
<1>1. a + n - 1 \in Int OBVIOUS
<1>2. Cardinality(a..a + n - 1) = IF a > a + n - 1 THEN 0 ELSE a + n - 1 - a + 1
  BY <1>1, FS_Interval
<1>3. QED BY <1>2

(* The j-th query head of a rank attends to the head of its group, which   *)
(* the rank has.                                                           *)
LEMMA HeadsMatch ==
  ASSUME setup \in Setups, LayersFit, NEW h \in 0..setup.qo - 1
  PROVE  \E r \in Ranks :
           /\ {q \in Ranks : h \in QoHeads(q)} = {r}
           /\ LET j == Cardinality({g \in QoHeads(r) : g < h})
              IN KvHeadOf(r, j) = h \div (setup.qo \div setup.kv)
<1>1. PICK t \in Nat : t = setup.tp /\ t > 0 BY SetupNumbers
<1>2. PICK qo \in Nat : qo = setup.qo /\ qo > 0 BY SetupNumbers
<1>3. PICK kv \in Nat : kv = setup.kv /\ kv > 0 BY SetupNumbers
<1>4. DivEven(qo) BY <1>2 DEF LayersFit
<1>5. PICK d \in Nat : d = qo \div t BY <1>1, QuotientBounds
<1>6. PICK r : r = h \div DivCeil(qo, t) OBVIOUS
<1>7. r \in Ranks /\ \A q : h \in QoHeads(q) <=> q = r
  BY <1>1, <1>2, <1>6, OneRank DEF QoHeads
<1>8. d > 0 /\ qo = d * t /\ DivCeil(qo, t) = d /\ QoHeads(r) = r * d..r * d + d - 1
  BY <1>1, <1>2, <1>4, <1>5, <1>7, EvenChunk DEF QoHeads
<1>9. r \in Nat /\ r < t BY <1>1, <1>7, SetupNumbers
<1>10. PICK rd \in Nat : rd = r * d BY <1>9
<1>11. h \in rd..rd + d - 1 BY <1>7, <1>8, <1>10
<1>12. PICK j : j = h - rd OBVIOUS
<1>13. j \in 0..d - 1 /\ h = rd + j BY <1>11, <1>12
<1>14. Cardinality({g \in QoHeads(r) : g < h}) = j BY <1>8, <1>10, <1>11, <1>12, IntervalPlace
<1>15. Cardinality(QoHeads(r)) = d BY <1>8, <1>10, IntervalSize
<1>16. ASSUME NEW a \in Nat, NEW n \in Nat, NEW y \in 0..n - 1, KvHeads(r) = a..a + n - 1,
              y = j \div (d \div n)
       PROVE  KvHeadOf(r, j) = a + y
  <2>1. Cardinality(KvHeads(r)) = n BY <1>16, IntervalSize
  <2>2. a + y \in KvHeads(r) BY <1>16
  <2>3. \A x \in KvHeads(r) : Cardinality({g \in KvHeads(r) : g < x}) = x - a
    BY <1>16, IntervalPlace
  <2>4. \A x \in KvHeads(r) : x - a = y <=> x = a + y BY <1>16
  <2>5. KvHeadOf(r, j) =
          CHOOSE x \in KvHeads(r) : Cardinality({g \in KvHeads(r) : g < x}) = y
    BY <1>15, <1>16, <2>1 DEF KvHeadOf
  <2>6. QED BY <2>2, <2>3, <2>4, <2>5
<1>17. CASE kv < t
  <2>1. t % kv = 0 BY <1>1, <1>3, <1>17 DEF LayersFit
  <2>2. PICK m \in Nat : m = t \div kv BY <1>3, QuotientBounds
  <2>3. t = m * kv /\ m > 0 BY <1>1, <1>3, <2>1, <2>2, Multiple
  <2>4. PICK a : a = (r * kv) \div t OBVIOUS
  <2>5. KvHeads(r) = {a} BY <1>1, <1>3, <1>17, <2>4 DEF KvHeads, ReplicatedHead
  <2>6. a \in Nat
    <3>1. PICK x \in Nat : x = r * kv BY <1>9
    <3>2. QED BY <1>1, <2>4, <3>1, QuotientBounds
  <2>7. KvHeads(r) = a..a + 1 - 1 BY <2>5, <2>6
  <2>8. d \div 1 = d /\ j \div d = 0
    <3>1. d * 1 <= d /\ d < d * 1 + 1 OBVIOUS
    <3>2. 0 * d <= j /\ j < 0 * d + d BY <1>13
    <3>3. QED BY <1>8, <1>13, <3>1, <3>2, QuotientIs
  <2>9. KvHeadOf(r, j) = a BY <1>16, <2>6, <2>7, <2>8
  <2>10. h \in Nat /\ r = h \div d BY <1>2, <1>6, <1>8
  <2>11. a = h \div (qo \div kv)
    <3>1. qo = d * t /\ t = m * kv /\ h \in Nat /\ r = h \div d BY <1>8, <2>3, <2>10
    <3>2. d \in Nat /\ m \in Nat /\ t \in Nat /\ qo \in Nat /\ kv \in Nat OBVIOUS
    <3>3. kv > 0 /\ d > 0 /\ m > 0 BY <1>3, <1>8, <2>3
    <3>4. (r * kv) \div t = h \div (qo \div kv) BY ONLY <3>1, <3>2, <3>3, ReplicatedHeads
    <3>5. QED BY <2>4, <3>4
  <2>12. QED BY <1>2, <1>3, <1>7, <1>14, <2>9, <2>11
<1>18. CASE ~(kv < t)
  <2>1. DivEven(kv) BY <1>1, <1>3, <1>18 DEF LayersFit
  <2>2. PICK k \in Nat : k = kv \div t BY <1>1, QuotientBounds
  <2>3. k > 0 /\ kv = k * t /\ Chunk(kv, r) = r * k..r * k + k - 1
    BY <1>1, <1>3, <1>7, <2>1, <2>2, EvenChunk
  <2>4. KvHeads(r) = r * k..r * k + k - 1 BY <1>1, <1>3, <1>18, <2>3 DEF KvHeads
  <2>5. PICK g \in Nat : g = qo \div kv BY <1>3, QuotientBounds
  <2>6. qo = g * kv /\ g > 0 BY <1>2, <1>3, <2>5, Multiple, SetupNumbers
  <2>7. d = g * k
    <3>1. PICK e \in Nat : e = g * k OBVIOUS
    <3>2. e * t = g * kv BY <2>3, <3>1
    <3>3. e * t <= qo /\ qo < e * t + t BY <1>1, <1>2, <2>6, <3>2
    <3>4. QED BY <1>1, <1>5, <3>1, <3>3, QuotientIs
  <2>8. /\ d \div k = g /\ j \div g \in 0..k - 1 /\ (r * d + j) \div g = r * k + j \div g
    BY <1>9, <1>13, <2>3, <2>6, <2>7, CutHeads
  <2>9. PICK rk \in Nat : rk = r * k BY <1>9
  <2>10. KvHeadOf(r, j) = rk + j \div g BY <1>16, <2>4, <2>8, <2>9
  <2>11. QED BY <1>2, <1>3, <1>7, <1>10, <1>13, <1>14, <2>5, <2>8, <2>9, <2>10
<1>19. QED BY <1>17, <1>18

(* A token has one rank that embeds it.                                    *)
LEMMA VocabCovered ==
  ASSUME setup \in Setups, NEW v \in 0..setup.vocab - 1
  PROVE  Cardinality(LookupRanks(v)) = 1
<1>1. PICK r \in Ranks : \A q : v \in Chunk(setup.vocab, q) <=> q = r BY OneRank, SetupNumbers
<1>2. LookupRanks(v) = {r} BY <1>1 DEF LookupRanks, VocabRows
<1>3. QED BY <1>2, FS_Singleton

----------------------------------------------------------------------------
(* Reading the tensors of the experts in any order.  Which experts of a    *)
(* parameter are complete, and which tensors wait for their other half.    *)
Tensor(e, slot) == [expert |-> e, slot |-> slot]
Twin(t) == Tensor(t.expert, IF t.slot = "gate" THEN "up" ELSE "gate")
Slots(param) == IF param = "down" THEN {"down"} ELSE {"gate", "up"}
Parts(param, e) ==
  IF param = "down" THEN <<Tensor(e, "down")>> ELSE <<Tensor(e, "gate"), Tensor(e, "up")>>
Item(r, param, e) == [param |-> param, at |-> e - LocalStart(r), parts |-> Parts(param, e)]
Params == {"gate_up", "down"}

Ready(r, param) == {e \in Kept(r) : \A s \in Slots(param) : Tensor(e, s) \notin todo[r]}
HalfRead(r) == {t \in Tensors(Kept(r)) : t.slot # "down" /\ t \notin todo[r] /\ Twin(t) \in todo[r]}
ItemsOf(r, param, X) == {Item(r, param, e) : e \in X}
Items(r, param) == ItemsOf(r, param, Ready(r, param))
Waits(r, param) == IF Ready(r, param) = Kept(r) THEN {} ELSE Items(r, param)
Stacked(r, param) == [j \in 1..LocalExperts |-> Parts(param, LocalStart(r) + j - 1)]
Loaded(r, param) == IF Ready(r, param) = Kept(r) THEN Stacked(r, param) ELSE <<>>

LoadTypes ==
  /\ todo = [q \in Ranks |-> todo[q]] /\ merging = [q \in Ranks |-> merging[q]]
  /\ stacking = [q \in Ranks |-> stacking[q]]
  /\ weights = [q \in Ranks |-> [gate_up |-> weights[q].gate_up, down |-> weights[q].down]]

LoadOK(r) ==
  /\ todo[r] \subseteq Tensors(Kept(r))
  /\ merging[r] = HalfRead(r)
  /\ stacking[r] = Waits(r, "gate_up") \cup Waits(r, "down")
  /\ \A p \in Params : weights[r][p] = Loaded(r, p)

LEMMA TensorFacts ==
  /\ \A E : \A t \in Tensors(E) :
       t.expert \in E /\ t.slot \in {"gate", "up", "down"} /\ t = Tensor(t.expert, t.slot)
  /\ \A E : \A e \in E : \A s \in {"gate", "up", "down"} : Tensor(e, s) \in Tensors(E)
  /\ \A e, s : Tensor(e, s).expert = e /\ Tensor(e, s).slot = s
  /\ \A d, e, s, u : Tensor(d, s) = Tensor(e, u) => d = e /\ s = u
  /\ \A E : \A t \in Tensors(E) :
       t.slot # "down" => Twin(t) \in Tensors(E) /\ Twin(t).slot # "down" /\ Twin(t) # t
                          /\ Twin(Twin(t)) = t /\ Twin(t).expert = t.expert
<1>1. \A e, s : Tensor(e, s).expert = e /\ Tensor(e, s).slot = s BY DEF Tensor
<1>2. \A d, e, s, u : Tensor(d, s) = Tensor(e, u) => d = e /\ s = u BY <1>1
<1>3. ASSUME NEW E, NEW t \in Tensors(E)
      PROVE  t.expert \in E /\ t.slot \in {"gate", "up", "down"} /\ t = Tensor(t.expert, t.slot)
  BY DEF Tensors, Tensor
<1>4. ASSUME NEW E, NEW e \in E, NEW s \in {"gate", "up", "down"} PROVE Tensor(e, s) \in Tensors(E)
  BY DEF Tensors, Tensor
<1>5. ASSUME NEW E, NEW t \in Tensors(E), t.slot # "down"
      PROVE  Twin(t) \in Tensors(E) /\ Twin(t).slot # "down" /\ Twin(t) # t
             /\ Twin(Twin(t)) = t /\ Twin(t).expert = t.expert
  <2>1. PICK e \in E, s \in {"gate", "up"} : t = Tensor(e, s) BY <1>3, <1>5
  <2>2. PICK u : u = IF s = "gate" THEN "up" ELSE "gate" OBVIOUS
  <2>3. Twin(t) = Tensor(e, u) BY <1>1, <2>1, <2>2 DEF Twin
  <2>4. Twin(Tensor(e, u)) = Tensor(e, s) BY <1>1, <2>1, <2>2 DEF Twin
  <2>5. u \in {"gate", "up"} /\ u # s BY <2>1, <2>2
  <2>6. QED BY <1>1, <1>2, <1>4, <2>1, <2>3, <2>4, <2>5
<1>6. QED BY <1>1, <1>2, <1>3, <1>4, <1>5

LEMMA KeptTyped ==
  ASSUME setup \in Setups, NEW r \in Ranks
  PROVE  /\ LocalExperts \in Nat /\ LocalStart(r) \in Nat
         /\ Kept(r) = LocalStart(r)..LocalStart(r) + LocalExperts - 1
         /\ IsFiniteSet(Kept(r)) /\ Cardinality(Kept(r)) = LocalExperts
<1>1. PICK n \in Nat : n = setup.experts BY SetupNumbers
<1>2. PICK p \in Nat : p = setup.ep /\ p > 0 BY SetupNumbers
<1>3. r \in Nat BY SetupNumbers
<1>4. PICK k \in Nat : k = LocalExperts BY <1>1, <1>2, QuotientBounds DEF LocalExperts
<1>5. PICK m \in Nat : m = r % setup.ep BY <1>2, <1>3
<1>6. PICK x \in Nat : x = m * k OBVIOUS
<1>7. LocalStart(r) \in Nat BY <1>4, <1>5, <1>6 DEF LocalStart
<1>8. PICK a \in Nat : a = LocalStart(r) BY <1>7
<1>9. Kept(r) = a..a + k - 1 BY <1>4, <1>8 DEF Kept
<1>10. a + k - 1 \in Int OBVIOUS
<1>11. IsFiniteSet(Kept(r)) BY <1>9, <1>10, FS_Interval
<1>12. Cardinality(Kept(r)) = k BY <1>9, IntervalSize
<1>13. QED BY <1>4, <1>8, <1>9, <1>11, <1>12

(* The items of some experts.                                              *)
LEMMA ItemsCounted ==
  ASSUME setup \in Setups, NEW r \in Ranks, NEW param, NEW X \in SUBSET Kept(r)
  PROVE  /\ Cardinality(ItemsOf(r, param, X)) = LocalExperts <=> X = Kept(r)
         /\ \A e \in X : \A i \in ItemsOf(r, param, X) :
              i.at = e - LocalStart(r) => i = Item(r, param, e)
<1> DEFINE all == {Item(r, param, e) : e \in X}
           f == [e \in X |-> Item(r, param, e)]
<1>1. PICK a \in Nat : a = LocalStart(r) BY KeptTyped
<1>2. \A e \in X : e \in Nat /\ Item(r, param, e).at = e - a
  <2>1. PICK k \in Nat : k = LocalExperts BY KeptTyped
  <2>2. Kept(r) = a..a + k - 1 BY <1>1, <2>1, KeptTyped
  <2>3. QED BY <1>1, <2>2 DEF Item
<1>3. \A d, e \in X : Item(r, param, d).at = Item(r, param, e).at => d = e BY <1>2
<1>4. \A d, e \in X : f[d] = f[e] => d = e BY <1>3
<1>5. f \in Surjection(X, all)
  BY DEF Surjection
<1>6. f \in Injection(X, all) BY <1>4 DEF Injection, IsInjective
<1>7. IsFiniteSet(X) /\ (Cardinality(X) = LocalExperts <=> X = Kept(r))
  BY KeptTyped, FS_Subset
<1> HIDE DEF f, all
<1>8. Cardinality(all) = Cardinality(X) BY <1>5, <1>6, <1>7, FS_Surjection
<1>9. ASSUME NEW e \in X, NEW i \in all, i.at = e - a PROVE i = Item(r, param, e)
  <2>1. PICK d \in X : i = Item(r, param, d) BY DEF all
  <2>2. d = e BY <1>2, <1>9, <2>1
  <2>3. QED BY <2>1, <2>2
<1>10. ItemsOf(r, param, X) = all BY DEF ItemsOf, all
<1>11. QED BY <1>1, <1>7, <1>8, <1>9, <1>10

(* The last expert of a parameter completes it.                            *)
LEMMA StackStep ==
  ASSUME setup \in Setups, LoadTypes, NEW r \in Ranks, LoadOK(r), NEW p \in Params,
         NEW q \in Params, p # q, NEW e \in Kept(r), e \notin Ready(r, p),
         Stack(r, Item(r, p, e)), NEW X, X = Ready(r, p) \cup {e}
  PROVE  /\ stacking' = [s \in Ranks |-> IF s # r THEN stacking[s]
              ELSE Waits(r, q) \cup IF X = Kept(r) THEN {} ELSE ItemsOf(r, p, X)]
         /\ \/ /\ X = Kept(r)
               /\ weights' = [weights EXCEPT ![r][p] = Stacked(r, p)]
            \/ X # Kept(r) /\ UNCHANGED weights
<1> DEFINE all == {i \in stacking[r] \cup {Item(r, p, e)} : i.param = p}
<1>1. \A x, y : Item(r, x, y).param = x BY DEF Item
<1>2. Ready(r, p) # Kept(r) OBVIOUS
<1>3. stacking[r] = Waits(r, q) \cup Items(r, p) BY <1>2 DEF LoadOK, Params, Waits
<1>4. \A i \in Waits(r, q) : i.param = q BY <1>1 DEF Waits, Items, ItemsOf
<1>5. \A i \in Items(r, p) : i.param = p BY <1>1 DEF Items, ItemsOf
<1>6. all = Items(r, p) \cup {Item(r, p, e)} BY <1>1, <1>3, <1>4, <1>5
<1>7. all = ItemsOf(r, p, X) BY <1>6 DEF Items, ItemsOf
<1>8. X \in SUBSET Kept(r) BY DEF Ready
<1>9. /\ Cardinality(all) = LocalExperts <=> X = Kept(r)
      /\ \A x \in X : \A i \in all : i.at = x - LocalStart(r) => i = Item(r, p, x)
  <2>1. /\ Cardinality(ItemsOf(r, p, X)) = LocalExperts <=> X = Kept(r)
        /\ \A x \in X : \A i \in ItemsOf(r, p, X) :
             i.at = x - LocalStart(r) => i = Item(r, p, x)
    BY <1>8, ItemsCounted
  <2> HIDE DEF all
  <2>2. QED BY <1>7, <2>1
<1>10. Item(r, p, e).param = p BY <1>1
<1> HIDE DEF all
<1>11. CASE X = Kept(r)
  <2>1. /\ stacking' = [stacking EXCEPT ![r] = @ \ all]
        /\ weights' = [weights EXCEPT ![r][p] =
             [j \in 1..LocalExperts |-> (CHOOSE i \in all : i.at = j - 1).parts]]
    BY <1>9, <1>10, <1>11 DEF Stack, all
  <2>2. ASSUME NEW j \in 1..LocalExperts
        PROVE  (CHOOSE i \in all : i.at = j - 1).parts = Parts(p, LocalStart(r) + j - 1)
    <3>1. PICK a \in Nat : a = LocalStart(r) BY KeptTyped
    <3>2. PICK k \in Nat : k = LocalExperts BY KeptTyped
    <3>3. PICK x : x = a + j - 1 OBVIOUS
    <3>4. x \in X /\ x - a = j - 1 BY <1>11, <3>1, <3>2, <3>3, KeptTyped
    <3>5. Item(r, p, x) \in all /\ Item(r, p, x).at = j - 1 BY <1>7, <3>1, <3>4 DEF Item, ItemsOf
    <3>6. \A i \in all : i.at = j - 1 => i = Item(r, p, x) BY <1>9, <3>1, <3>4
    <3>7. (CHOOSE i \in all : i.at = j - 1) = Item(r, p, x) BY <3>5, <3>6
    <3>8. Item(r, p, x).parts = Parts(p, x) BY DEF Item
    <3>9. QED BY <3>1, <3>3, <3>7, <3>8
  <2>3. [j \in 1..LocalExperts |-> (CHOOSE i \in all : i.at = j - 1).parts] = Stacked(r, p)
    BY <2>2 DEF Stacked
  <2>4. stacking[r] \ all = Waits(r, q) BY <1>3, <1>4, <1>5, <1>6, <1>10
  <2>5. stacking' = [s \in Ranks |-> IF s # r THEN stacking[s] ELSE Waits(r, q)]
    BY <2>1, <2>4 DEF LoadTypes
  <2>6. QED BY <1>11, <2>1, <2>3, <2>5
<1>12. CASE X # Kept(r)
  <2>1. /\ stacking' = [stacking EXCEPT ![r] = @ \cup {Item(r, p, e)}]
        /\ UNCHANGED weights
    BY <1>9, <1>10, <1>12 DEF Stack, all
  <2>2. stacking[r] \cup {Item(r, p, e)} = Waits(r, q) \cup all BY <1>3, <1>6
  <2>3. stacking' = [s \in Ranks |-> IF s # r THEN stacking[s] ELSE Waits(r, q) \cup all]
    BY <2>1, <2>2 DEF LoadTypes
  <2>4. QED BY <1>7, <1>12, <2>1, <2>3
<1>13. QED BY <1>11, <1>12

(* What does not depend on what has been read.                             *)
LEMMA LayoutSame ==
  ASSUME setup' = setup
  PROVE  /\ Ranks' = Ranks /\ LocalExperts' = LocalExperts
         /\ \A r : /\ Kept(r)' = Kept(r) /\ LocalStart(r)' = LocalStart(r)
                   /\ todo'[r] = todo[r] =>
                        /\ HalfRead(r)' = HalfRead(r)
                        /\ \A p : /\ Ready(r, p)' = Ready(r, p) /\ Waits(r, p)' = Waits(r, p)
                                  /\ Loaded(r, p)' = Loaded(r, p)
<1>1. Ranks' = Ranks /\ LocalExperts' = LocalExperts BY DEF Ranks, LocalExperts
<1>2. \A r : LocalStart(r)' = LocalStart(r) BY <1>1 DEF LocalStart, UsesEP
<1>3. \A r : Kept(r)' = Kept(r) BY <1>1, <1>2 DEF Kept
<1>4. \A r, p, e : Item(r, p, e)' = Item(r, p, e) BY <1>2 DEF Item, Parts, Tensor
<1>5. \A r, p : Stacked(r, p)' = Stacked(r, p) BY <1>1, <1>2 DEF Stacked, Parts, Tensor
<1>6. ASSUME NEW r, todo'[r] = todo[r]
      PROVE  /\ HalfRead(r)' = HalfRead(r)
             /\ \A p : /\ Ready(r, p)' = Ready(r, p) /\ Waits(r, p)' = Waits(r, p)
                       /\ Loaded(r, p)' = Loaded(r, p)
  <2>1. HalfRead(r)' = HalfRead(r) BY <1>3, <1>6 DEF HalfRead, Tensors, Twin, Tensor
  <2>2. ASSUME NEW p PROVE Ready(r, p)' = Ready(r, p)
    BY <1>3, <1>6 DEF Ready, Slots, Tensor
  <2>3. ASSUME NEW p PROVE Waits(r, p)' = Waits(r, p)
    BY <1>3, <1>4, <2>2 DEF Waits, Items, ItemsOf
  <2>4. ASSUME NEW p PROVE Loaded(r, p)' = Loaded(r, p)
    BY <1>3, <1>5, <2>2 DEF Loaded
  <2>5. QED BY <2>1, <2>2, <2>3, <2>4
<1>7. QED BY <1>1, <1>2, <1>3, <1>6

LEMMA LoadKept ==
  ASSUME setup' = setup, NEW r, LoadOK(r), todo'[r] = todo[r], merging'[r] = merging[r],
         stacking'[r] = stacking[r], weights'[r] = weights[r]
  PROVE  LoadOK(r)'
<1>1. Tensors(Kept(r))' = Tensors(Kept(r)) BY LayoutSame DEF Tensors
<1>2. QED BY <1>1, LayoutSame DEF LoadOK, Params

(* The effect of a tensor on what is complete.                             *)
Completes(r, p, q, e) ==
  /\ Ready(r, p)' = Ready(r, p) \cup {e} /\ e \in Kept(r) \ Ready(r, p)
  /\ Ready(r, q)' = Ready(r, q)

Reads(r, t) ==
  /\ t.slot = "down" =>
       Completes(r, "down", "gate_up", t.expert) /\ HalfRead(r)' = HalfRead(r)
  /\ t.slot # "down" /\ Twin(t) \notin todo[r] =>
       /\ Completes(r, "gate_up", "down", t.expert)
       /\ HalfRead(r)' = HalfRead(r) \ {Twin(t)}
  /\ t.slot # "down" /\ Twin(t) \in todo[r] =>
       /\ Ready(r, "gate_up")' = Ready(r, "gate_up") /\ Ready(r, "down")' = Ready(r, "down")
       /\ HalfRead(r)' = HalfRead(r) \cup {t}

LEMMA TensorRead ==
  ASSUME setup' = setup, setup \in Setups, NEW r, NEW t, t \in todo[r], todo[r] \subseteq Tensors(Kept(r)),
         todo'[r] = todo[r] \ {t}
  PROVE  Reads(r, t)
<1>1. Kept(r)' = Kept(r) BY LayoutSame
<1>2. /\ t.expert \in Kept(r) /\ t.slot \in {"gate", "up", "down"} /\ t = Tensor(t.expert, t.slot)
      /\ t \in Tensors(Kept(r))
  BY TensorFacts
<1>3. /\ Ready(r, "down")' = {e \in Kept(r) : Tensor(e, "down") \notin todo'[r]}
      /\ Ready(r, "down") = {e \in Kept(r) : Tensor(e, "down") \notin todo[r]}
  BY <1>1 DEF Ready, Slots, Tensor
<1>4. /\ Ready(r, "gate_up")' = {e \in Kept(r) : Tensor(e, "gate") \notin todo'[r]
                                                /\ Tensor(e, "up") \notin todo'[r]}
      /\ Ready(r, "gate_up") = {e \in Kept(r) : Tensor(e, "gate") \notin todo[r]
                                               /\ Tensor(e, "up") \notin todo[r]}
  BY <1>1 DEF Ready, Slots, Tensor
<1>5. HalfRead(r)' = {u \in Tensors(Kept(r)) :
                        u.slot # "down" /\ u \notin todo'[r] /\ Twin(u) \in todo'[r]}
  BY <1>1 DEF HalfRead, Tensors, Twin, Tensor
<1>6. \A e, s : Tensor(e, s) = t <=> e = t.expert /\ s = t.slot BY <1>2, TensorFacts
<1>7. ASSUME t.slot = "down"
      PROVE  Completes(r, "down", "gate_up", t.expert) /\ HalfRead(r)' = HalfRead(r)
  <2>1. Ready(r, "down")' = Ready(r, "down") \cup {t.expert} /\ t.expert \notin Ready(r, "down")
    BY <1>2, <1>3, <1>6, <1>7
  <2>2. Ready(r, "gate_up")' = Ready(r, "gate_up") BY <1>4, <1>6, <1>7
  <2>3. \A u \in Tensors(Kept(r)) : u.slot # "down" => u # t /\ Twin(u) # t
    BY <1>7, TensorFacts
  <2>4. HalfRead(r)' = HalfRead(r) BY <1>5, <2>3 DEF HalfRead
  <2>5. QED BY <1>2, <2>1, <2>2, <2>4 DEF Completes
<1>8. ASSUME t.slot # "down"
      PROVE  /\ Ready(r, "down")' = Ready(r, "down")
             /\ t.expert \notin Ready(r, "gate_up")
             /\ Twin(t) \in Tensors(Kept(r)) /\ Twin(t).slot # "down" /\ Twin(t) # t
             /\ Twin(Twin(t)) = t
             /\ \A u \in Tensors(Kept(r)) : u.slot # "down" => (Twin(u) = t <=> u = Twin(t))
             /\ \A e : Tensor(e, "gate") \in {t, Twin(t)} <=> e = t.expert
             /\ \A e : Tensor(e, "up") \in {t, Twin(t)} <=> e = t.expert
             /\ {Tensor(t.expert, "gate"), Tensor(t.expert, "up")} = {t, Twin(t)}
  <2>1. Ready(r, "down")' = Ready(r, "down") BY <1>3, <1>6, <1>8
  <2>2. t.expert \notin Ready(r, "gate_up") BY <1>2, <1>4, <1>6, <1>8
  <2>3. Twin(t) \in Tensors(Kept(r)) /\ Twin(t).slot # "down" /\ Twin(t) # t /\ Twin(Twin(t)) = t
    BY <1>2, <1>8, TensorFacts
  <2>4. ASSUME NEW u \in Tensors(Kept(r)), u.slot # "down" PROVE Twin(u) = t <=> u = Twin(t)
    <3>1. Twin(Twin(u)) = u BY <2>4, TensorFacts
    <3>2. QED BY <2>3, <3>1
  <2>5. {Tensor(t.expert, "gate"), Tensor(t.expert, "up")} = {t, Twin(t)}
    <3>1. t.slot \in {"gate", "up"} BY <1>2, <1>8
    <3>2. CASE t.slot = "gate" BY <1>2, <3>2 DEF Twin
    <3>3. CASE t.slot = "up" BY <1>2, <3>3 DEF Twin
    <3>4. QED BY <3>1, <3>2, <3>3
  <2>6. \A e : Tensor(e, "gate") \in {t, Twin(t)} <=> e = t.expert BY <2>5, TensorFacts
  <2>7. \A e : Tensor(e, "up") \in {t, Twin(t)} <=> e = t.expert BY <2>5, TensorFacts
  <2>8. QED BY <2>1, <2>2, <2>3, <2>4, <2>5, <2>6, <2>7
<1>9. ASSUME t.slot # "down", Twin(t) \notin todo[r]
      PROVE  Completes(r, "gate_up", "down", t.expert) /\ HalfRead(r)' = HalfRead(r) \ {Twin(t)}
  <2>1. Ready(r, "gate_up")' = Ready(r, "gate_up") \cup {t.expert}
    <3>1. ASSUME NEW e \in Kept(r)
          PROVE  e \in Ready(r, "gate_up")' <=> e \in Ready(r, "gate_up") \cup {t.expert}
      <4>1. CASE e = t.expert
        <5>1. Tensor(e, "gate") \notin todo'[r] /\ Tensor(e, "up") \notin todo'[r]
          BY <1>8, <1>9, <4>1
        <5>2. QED BY <1>4, <4>1, <5>1
      <4>2. CASE e # t.expert
        <5>1. Tensor(e, "gate") # t /\ Tensor(e, "up") # t BY <1>6, <4>2
        <5>2. QED BY <1>4, <4>2, <5>1
      <4>3. QED BY <4>1, <4>2
    <3>2. QED BY <1>2, <1>4, <3>1
  <2>2. HalfRead(r)' = HalfRead(r) \ {Twin(t)}
    <3>1. ASSUME NEW u \in Tensors(Kept(r)), u.slot # "down"
          PROVE  u \notin todo'[r] /\ Twin(u) \in todo'[r]
                   <=> u \notin todo[r] /\ Twin(u) \in todo[r] /\ u # Twin(t)
      <4>1. CASE u = t BY <1>9, <4>1
      <4>2. CASE u # t
        <5>1. Twin(u) = t <=> u = Twin(t) BY <1>8, <1>9, <3>1
        <5>2. QED BY <4>2, <5>1
      <4>3. QED BY <4>1, <4>2
    <3>2. QED BY <1>5, <3>1 DEF HalfRead
  <2>3. QED BY <1>2, <1>8, <1>9, <2>1, <2>2 DEF Completes
<1>10. ASSUME t.slot # "down", Twin(t) \in todo[r]
       PROVE  /\ Ready(r, "gate_up")' = Ready(r, "gate_up") /\ Ready(r, "down")' = Ready(r, "down")
              /\ HalfRead(r)' = HalfRead(r) \cup {t}
  <2>1. Ready(r, "gate_up")' = Ready(r, "gate_up")
    <3>1. ASSUME NEW e \in Kept(r)
          PROVE  e \in Ready(r, "gate_up")' <=> e \in Ready(r, "gate_up")
      <4>1. CASE e = t.expert
        <5>1. Twin(t) \in todo'[r] BY <1>8, <1>10
        <5>2. Tensor(e, "gate") \in todo'[r] \/ Tensor(e, "up") \in todo'[r] BY <1>8, <1>10, <4>1, <5>1
        <5>3. QED BY <1>4, <5>2
      <4>2. CASE e # t.expert
        <5>1. Tensor(e, "gate") # t /\ Tensor(e, "up") # t BY <1>6, <4>2
        <5>2. QED BY <1>4, <5>1
      <4>3. QED BY <4>1, <4>2
    <3>2. QED BY <1>4, <3>1
  <2>2. HalfRead(r)' = HalfRead(r) \cup {t}
    <3>1. ASSUME NEW u \in Tensors(Kept(r)), u.slot # "down"
          PROVE  u \notin todo'[r] /\ Twin(u) \in todo'[r]
                   <=> (u \notin todo[r] /\ Twin(u) \in todo[r]) \/ u = t
      <4>1. CASE u = t BY <1>8, <1>10, <4>1
      <4>2. CASE u # t
        <5>1. Twin(u) = t <=> u = Twin(t) BY <1>8, <1>10, <3>1
        <5>2. QED BY <1>10, <4>2, <5>1
      <4>3. QED BY <4>1, <4>2
    <3>2. QED BY <1>2, <1>5, <1>10, <3>1 DEF HalfRead
  <2>3. QED BY <1>8, <1>10, <2>1, <2>2
<1>11. QED BY <1>7, <1>9, <1>10 DEF Reads

(* A tensor is read, stacked if it completes its expert, merged or kept.   *)
LEMMA TensorLoaded ==
  ASSUME setup \in Setups, setup' = setup, LoadTypes, NEW r \in Ranks, LoadOK(r), NEW t,
         LoadTensor(r, t)
  PROVE  LoadOK(r)'
<1>1. /\ t \in todo[r] /\ todo[r] \subseteq Tensors(Kept(r)) /\ todo'[r] = todo[r] \ {t}
      /\ merging[r] = HalfRead(r)
  BY DEF LoadTensor, LoadOK, LoadTypes
<1>2. /\ t.expert \in Kept(r) /\ t.slot \in {"gate", "up", "down"} /\ t = Tensor(t.expert, t.slot)
      /\ t \in Tensors(Kept(r))
  BY <1>1, TensorFacts
<1>3. Reads(r, t) BY <1>1, TensorRead
<1>4. Kept(r)' = Kept(r) /\ LocalStart(r)' = LocalStart(r) /\ LocalExperts' = LocalExperts
  BY LayoutSame
<1>5. todo'[r] \subseteq Tensors(Kept(r))'
  BY <1>1, <1>4 DEF Tensors
<1>6. /\ \A p, e : Item(r, p, e)' = Item(r, p, e)
      /\ \A p : Stacked(r, p)' = Stacked(r, p)
  BY <1>4 DEF Item, Stacked, Parts, Tensor
<1>7. ASSUME NEW p \in Params, NEW q \in Params, p # q, Completes(r, p, q, t.expert),
             Stack(r, Item(r, p, t.expert))
      PROVE  /\ stacking'[r] = Waits(r, p)' \cup Waits(r, q)'
             /\ weights'[r][p] = Loaded(r, p)' /\ weights'[r][q] = Loaded(r, q)'
  <2>1. PICK X : X = Ready(r, p) \cup {t.expert} OBVIOUS
  <2>2. /\ X = Ready(r, p)' /\ t.expert \in Kept(r) /\ t.expert \notin Ready(r, p)
        /\ Ready(r, q)' = Ready(r, q)
    BY <1>7, <2>1 DEF Completes
  <2>3. /\ stacking' = [s \in Ranks |-> IF s # r THEN stacking[s]
              ELSE Waits(r, q) \cup IF X = Kept(r) THEN {} ELSE ItemsOf(r, p, X)]
        /\ \/ /\ X = Kept(r)
              /\ weights' = [weights EXCEPT ![r][p] = Stacked(r, p)]
           \/ X # Kept(r) /\ UNCHANGED weights
    BY <1>7, <2>1, <2>2, StackStep
  <2>4. Waits(r, p)' = IF X = Kept(r) THEN {} ELSE ItemsOf(r, p, X)
    BY <1>4, <1>6, <2>2 DEF Waits, Items, ItemsOf
  <2>5. Waits(r, q)' = Waits(r, q) BY <1>4, <1>6, <2>2 DEF Waits, Items, ItemsOf
  <2>6. Loaded(r, p)' = IF X = Kept(r) THEN Stacked(r, p) ELSE <<>> BY <1>4, <1>6, <2>2 DEF Loaded
  <2>7. Loaded(r, q)' = Loaded(r, q) BY <1>4, <1>6, <2>2 DEF Loaded
  <2>8. Ready(r, p) # Kept(r) BY <2>2
  <2>9. weights[r][p] = <<>> /\ weights[r][q] = Loaded(r, q) BY <2>8 DEF LoadOK, Loaded
  <2>10. weights'[r][p] = Loaded(r, p)' /\ weights'[r][q] = Loaded(r, q)'
    <3>1. CASE X # Kept(r) BY <2>3, <2>6, <2>7, <2>9, <3>1
    <3>2. CASE X = Kept(r)
      <4>1. weights' = [weights EXCEPT ![r][p] = Stacked(r, p)] BY <2>3, <3>2
      <4>2. weights'[r][p] = Stacked(r, p) /\ weights'[r][q] = weights[r][q]
        BY <1>7, <4>1 DEF LoadTypes, Params
      <4>3. QED BY <2>6, <2>7, <2>9, <3>2, <4>2
    <3>3. QED BY <3>1, <3>2
  <2>11. QED BY <2>3, <2>4, <2>5, <2>10
<1>8. ASSUME Ready(r, "gate_up")' = Ready(r, "gate_up"), Ready(r, "down")' = Ready(r, "down"),
             UNCHANGED <<stacking, weights>>
      PROVE  /\ stacking'[r] = Waits(r, "gate_up")' \cup Waits(r, "down")'
             /\ \A p \in Params : weights'[r][p] = Loaded(r, p)'
  <2>1. ASSUME NEW p \in Params PROVE Waits(r, p)' = Waits(r, p) /\ Loaded(r, p)' = Loaded(r, p)
    <3>1. Ready(r, p)' = Ready(r, p) BY <1>8 DEF Params
    <3>2. QED BY <1>4, <1>6, <3>1 DEF Waits, Items, ItemsOf, Loaded
  <2>2. QED BY <1>8, <2>1 DEF LoadOK, Params
<1> DEFINE other == [t EXCEPT !.slot = IF @ = "gate" THEN "up" ELSE "gate"]
<1>9. other = Twin(t) BY <1>2 DEF Twin, Tensor
<1>10. CASE t.slot = "down"
  <2>1. Completes(r, "down", "gate_up", t.expert) /\ HalfRead(r)' = HalfRead(r)
    BY <1>3, <1>10 DEF Reads
  <2>2. /\ Stack(r, [param |-> "down", at |-> t.expert - LocalStart(r), parts |-> <<t>>])
        /\ UNCHANGED merging
    BY <1>10 DEF LoadTensor
  <2>3. [param |-> "down", at |-> t.expert - LocalStart(r), parts |-> <<t>>] = Item(r, "down", t.expert)
    BY <1>2, <1>10 DEF Item, Parts
  <2>4. /\ stacking'[r] = Waits(r, "down")' \cup Waits(r, "gate_up")'
        /\ weights'[r]["down"] = Loaded(r, "down")'
        /\ weights'[r]["gate_up"] = Loaded(r, "gate_up")'
    BY <1>7, <2>1, <2>2, <2>3 DEF Params
  <2>5. merging'[r] = HalfRead(r)' BY <1>1, <2>1, <2>2
  <2>6. QED BY <1>5, <2>4, <2>5 DEF LoadOK, Params
<1>11. CASE t.slot # "down" /\ Twin(t) \notin todo[r]
  <2>1. /\ Completes(r, "gate_up", "down", t.expert)
        /\ HalfRead(r)' = HalfRead(r) \ {Twin(t)}
    BY <1>3, <1>11 DEF Reads
  <2>2. Twin(t) \in merging[r] BY <1>1, <1>2, <1>11, TensorFacts DEF HalfRead
  <2>3. /\ Stack(r, [param |-> "gate_up", at |-> t.expert - LocalStart(r),
                     parts |-> IF t.slot = "gate" THEN <<t, other>> ELSE <<other, t>>])
        /\ merging' = [merging EXCEPT ![r] = @ \ {other}]
    BY <1>9, <1>11, <2>2 DEF LoadTensor
  <2>4. (IF t.slot = "gate" THEN <<t, other>> ELSE <<other, t>>) = Parts("gate_up", t.expert)
    BY <1>2, <1>9, <1>11 DEF Parts, Twin
  <2>5. [param |-> "gate_up", at |-> t.expert - LocalStart(r),
         parts |-> IF t.slot = "gate" THEN <<t, other>> ELSE <<other, t>>] = Item(r, "gate_up", t.expert)
    BY <2>4 DEF Item
  <2>6. Stack(r, Item(r, "gate_up", t.expert)) BY <2>3, <2>5
  <2>7. /\ stacking'[r] = Waits(r, "gate_up")' \cup Waits(r, "down")'
        /\ weights'[r]["down"] = Loaded(r, "down")'
        /\ weights'[r]["gate_up"] = Loaded(r, "gate_up")'
    BY <1>7, <2>1, <2>6 DEF Params
  <2>8. merging'[r] = HalfRead(r)' BY <1>1, <1>9, <2>1, <2>3 DEF LoadTypes
  <2>9. QED BY <1>5, <2>7, <2>8 DEF LoadOK, Params
<1>12. CASE t.slot # "down" /\ Twin(t) \in todo[r]
  <2>1. /\ Ready(r, "gate_up")' = Ready(r, "gate_up") /\ Ready(r, "down")' = Ready(r, "down")
        /\ HalfRead(r)' = HalfRead(r) \cup {t}
    BY <1>3, <1>12 DEF Reads
  <2>2. Twin(t) \notin merging[r] BY <1>1, <1>12 DEF HalfRead
  <2>3. /\ merging' = [merging EXCEPT ![r] = @ \cup {t}]
        /\ UNCHANGED <<stacking, weights>>
    BY <1>9, <1>12, <2>2 DEF LoadTensor
  <2>4. merging'[r] = HalfRead(r)' BY <1>1, <2>1, <2>3 DEF LoadTypes
  <2>5. QED BY <1>5, <1>8, <2>1, <2>3, <2>4 DEF LoadOK
<1>13. QED BY <1>10, <1>11, <1>12

(* Once all are read, every rank holds its experts, in their order.        *)
LEMMA ExpertsHeld ==
  ASSUME setup \in Setups, NEW r \in Ranks, LoadOK(r), todo[r] = {}, LocalExperts > 0
  PROVE  Complete(r) /\ \A e : Holds(r, e) <=> e \in Kept(r)
<1>1. PICK k \in Nat : k = LocalExperts /\ k > 0 BY KeptTyped
<1>2. PICK a \in Nat : a = LocalStart(r) BY KeptTyped
<1>3. Kept(r) = a..a + k - 1 BY <1>1, <1>2, KeptTyped
<1>4. ASSUME NEW p \in Params PROVE weights[r][p] = [j \in 1..k |-> Parts(p, a + j - 1)]
  <2>1. Ready(r, p) = Kept(r) BY DEF Ready
  <2>2. weights[r][p] = Stacked(r, p) BY <2>1 DEF LoadOK, Loaded
  <2>3. QED BY <1>1, <1>2, <2>2 DEF Stacked
<1>5. /\ weights[r].gate_up = [j \in 1..k |-> Parts("gate_up", a + j - 1)]
      /\ weights[r].down = [j \in 1..k |-> Parts("down", a + j - 1)]
  BY <1>4 DEF Params
<1>6. Complete(r)
  <2>1. DOMAIN weights[r].gate_up = 1..k /\ DOMAIN weights[r].down = 1..k BY <1>5
  <2>2. 1 \in 1..k /\ DOMAIN <<>> = {} BY <1>1
  <2>3. QED BY <2>1, <2>2 DEF Complete
<1>7. ASSUME NEW e, NEW x
      PROVE  /\ Whole(e, Parts("gate_up", x), <<"gate", "up">>) <=> x = e
             /\ Whole(e, Parts("down", x), <<"down">>) <=> x = e
  <2>1. [i \in DOMAIN <<"gate", "up">> |-> [expert |-> e, slot |-> <<"gate", "up">>[i]]]
          = <<Tensor(e, "gate"), Tensor(e, "up")>>
    BY DEF Tensor
  <2>2. [i \in DOMAIN <<"down">> |-> [expert |-> e, slot |-> <<"down">>[i]]] = <<Tensor(e, "down")>>
    BY DEF Tensor
  <2>3. Parts("gate_up", x) = <<Tensor(x, "gate"), Tensor(x, "up")>>
        /\ Parts("down", x) = <<Tensor(x, "down")>>
    BY DEF Parts
  <2>4. /\ <<Tensor(x, "gate"), Tensor(x, "up")>> = <<Tensor(e, "gate"), Tensor(e, "up")>> <=> x = e
        /\ <<Tensor(x, "down")>> = <<Tensor(e, "down")>> <=> x = e
    BY TensorFacts
  <2>5. QED BY <2>1, <2>2, <2>3, <2>4 DEF Whole
<1>8. ASSUME NEW e PROVE Holds(r, e) <=> \E j \in 1..k : a + j - 1 = e
  <2>1. \A j \in 1..k : weights[r].gate_up[j] = Parts("gate_up", a + j - 1)
                        /\ weights[r].down[j] = Parts("down", a + j - 1)
    BY <1>5
  <2>2. QED BY <1>1, <1>7, <2>1 DEF Holds
<1>9. ASSUME NEW e PROVE e \in a..a + k - 1 <=> \E j \in 1..k : a + j - 1 = e
  <2>1. ASSUME e \in a..a + k - 1 PROVE \E j \in 1..k : a + j - 1 = e
    <3>1. e - a + 1 \in 1..k /\ a + (e - a + 1) - 1 = e BY <2>1
    <3>2. QED BY <3>1
  <2>2. QED BY <2>1
<1>10. QED BY <1>3, <1>6, <1>8, <1>9

(* Each column of each expert has one rank.                                *)
LEMMA ExpertsCovered ==
  ASSUME setup \in Setups, LayersFit, \A r \in Ranks : LoadOK(r) /\ todo[r] = {},
         NEW e \in 0..setup.experts - 1, NEW c \in 0..setup.inter - 1
  PROVE  Cardinality({r \in Ranks : c \in Columns(r) /\ Complete(r) /\ Holds(r, e)}) = 1
<1> DEFINE S == {r \in Ranks : c \in Columns(r) /\ Complete(r) /\ Holds(r, e)}
<1>1. PICK n \in Nat : n = setup.experts /\ n > 0 BY SetupNumbers
<1>2. PICK t \in Nat : t = setup.tp /\ t > 0 /\ Ranks = 0..t - 1 BY SetupNumbers
<1>3. ASSUME LocalExperts > 0 PROVE S = {r \in Ranks : c \in Columns(r) /\ e \in Kept(r)}
  BY <1>3, ExpertsHeld
<1>4. CASE UsesEP
  <2>1. DivEven(n) BY <1>1, <1>4 DEF LayersFit
  <2>2. PICK d \in Nat : d = n \div t BY <1>2, QuotientBounds
  <2>3. ASSUME NEW r \in Ranks PROVE d > 0 /\ Chunk(n, r) = r * d..r * d + d - 1
    BY <1>1, <1>2, <2>1, <2>2, EvenChunk
  <2>4. 0 \in Ranks BY <1>2
  <2>5. setup.ep = t BY <1>2, <1>4, SetupNumbers
  <2>6. LocalExperts = d /\ d > 0 BY <1>1, <2>2, <2>3, <2>4, <2>5 DEF LocalExperts
  <2>7. ASSUME NEW r \in Ranks PROVE Kept(r) = Chunk(n, r)
    <3>1. r % t = r BY <1>2
    <3>2. LocalStart(r) = r * d BY <1>4, <2>5, <2>6, <3>1 DEF LocalStart
    <3>3. QED BY <2>3, <2>6, <3>2 DEF Kept
  <2>8. PICK r \in Ranks : \A q : e \in Chunk(n, q) <=> q = r BY <1>1, OneRank
  <2>9. S = {r} BY <1>3, <1>4, <2>6, <2>7, <2>8 DEF Columns
  <2>10. QED BY <2>9, FS_Singleton
<1>5. CASE ~UsesEP
  <2>1. setup.ep = 1 BY <1>5, SetupNumbers
  <2>2. n \div 1 = n
    <3>1. n * 1 <= n /\ n < n * 1 + 1 OBVIOUS
    <3>2. QED BY <3>1, QuotientIs
  <2>3. LocalExperts = n BY <1>1, <2>1, <2>2 DEF LocalExperts
  <2>4. \A r \in Ranks : e \in Kept(r) BY <1>1, <1>5, <2>3 DEF Kept, LocalStart
  <2>5. PICK r \in Ranks : \A q : c \in Chunk(setup.inter, q) <=> q = r BY OneRank, SetupNumbers
  <2>6. S = {r} BY <1>1, <1>3, <1>5, <2>3, <2>4, <2>5 DEF Columns
  <2>7. QED BY <2>6, FS_Singleton
<1>6. QED BY <1>4, <1>5

----------------------------------------------------------------------------
(* How far a rank has come.                                                *)
PastLoad == {"pages", "cache", "check", "capture", "io", "report"} \cup Late
PastCreate == {"load"} \cup PastLoad

ShardsInv ==
  /\ EngineTypes /\ LoadTypes
  /\ \A r \in Ranks : /\ LoadOK(r)
                      /\ at[r] \in PastCreate => LayersFit
                      /\ at[r] \in PastLoad => todo[r] = {}

LEMMA ShardsInit == ASSUME Init PROVE ShardsInv
<1>1. EngineTypes BY TypesInit
<1>2. /\ todo = [r \in Ranks |-> Tensors(Kept(r))]
      /\ merging = [r \in Ranks |-> {}] /\ stacking = [r \in Ranks |-> {}]
      /\ weights = [r \in Ranks |-> [gate_up |-> <<>>, down |-> <<>>]]
      /\ setup \in Setups /\ \A r \in Ranks : at[r] = "config"
  BY DEF Init, StartInit, WeightsInit
<1>3. LoadTypes BY <1>2 DEF LoadTypes
<1>4. ASSUME NEW r \in Ranks PROVE LoadOK(r)
  <2>1. todo[r] = Tensors(Kept(r)) /\ merging[r] = {} /\ stacking[r] = {} BY <1>2
  <2>2. HalfRead(r) = {} BY <2>1 DEF HalfRead
  <2>3. ASSUME NEW p \in Params PROVE Ready(r, p) = {}
    <3>1. PICK s \in {"gate", "up", "down"} : s \in Slots(p) BY DEF Params, Slots
    <3>2. \A e \in Kept(r) : Tensor(e, s) \in Tensors(Kept(r)) BY <3>1, TensorFacts
    <3>3. QED BY <2>1, <3>1, <3>2 DEF Ready
  <2>4. ASSUME NEW p \in Params PROVE Waits(r, p) = {} /\ Loaded(r, p) = <<>>
    <3>1. Waits(r, p) = {} BY <2>3, <2>4 DEF Waits, Items, ItemsOf
    <3>2. ASSUME Kept(r) = {} PROVE Stacked(r, p) = <<>>
      <4>1. LocalExperts = 0 BY <1>2, <3>2, KeptTyped, FS_EmptySet
      <4>2. 1..0 = {} OBVIOUS
      <4>3. DOMAIN Stacked(r, p) = {} BY <4>1, <4>2 DEF Stacked
      <4>4. Stacked(r, p) = [j \in {} |-> Stacked(r, p)[j]] BY <4>1, <4>2 DEF Stacked
      <4>5. <<>> = [j \in {} |-> Stacked(r, p)[j]] OBVIOUS
      <4>6. QED BY <4>4, <4>5
    <3>3. Loaded(r, p) = <<>> BY <2>3, <3>2 DEF Loaded
    <3>4. QED BY <3>1, <3>3
  <2>5. weights[r].gate_up = <<>> /\ weights[r].down = <<>> BY <1>2
  <2>6. QED BY <2>1, <2>2, <2>4, <2>5 DEF LoadOK, Params
<1>5. "config" \notin PastCreate /\ "config" \notin PastLoad BY DEF PastCreate, PastLoad, Late
<1>6. QED BY <1>1, <1>2, <1>3, <1>4, <1>5 DEF ShardsInv

(* A rank reads a tensor, or goes on when it may.                          *)
Passes(q) ==
  \/ at'[q] = at[q]
  \/ /\ at'[q] = Following(at[q])
     /\ at[q] = "create" => LayersFit
     /\ at[q] = "load" => todo[q] = {}

LEMMA WeightSteps ==
  ASSUME EngineTypes, [Next]_vars
  PROVE  \/ UNCHANGED <<setup, weightVars>> /\ \A q \in Ranks : Passes(q)
         \/ UNCHANGED <<setup, at>> /\ \E r \in Ranks : \E t : LoadTensor(r, t)
<1> USE DEF launcherVars, socketVars, rankVars, memoryVars
<1>1. setup' = setup
  BY StepKinds DEF WorkerStep, RankKind, Stays, Fails, Goes, Comes, LearnsFree, LearnsPages,
     Answers, Same
<1>2. CASE UNCHANGED <<weightVars, at>> BY <1>1, <1>2 DEF Passes
<1>3. ASSUME NEW r \in Ranks, Start(r)
      PROVE  \/ UNCHANGED weightVars /\ \A q \in Ranks : Passes(q)
             \/ at' = at /\ \E t : LoadTensor(r, t)
  <2>1. RankStep(r) BY <1>3 DEF Start
  <2>2. ASSUME UNCHANGED weightVars, at' = [at EXCEPT ![r] = Following(@)],
               at[r] = "create" => LayersFit, at[r] = "load" => todo[r] = {}
        PROVE  \A q \in Ranks : Passes(q)
    BY <2>2 DEF Passes, EngineTypes
  <2>3. CASE UNCHANGED <<weightVars, at>> BY <2>3 DEF Passes
  <2>4. CASE Enter(r) BY <2>3, <2>4 DEF Enter
  <2>5. CASE Leave(r)
    <3>1. at[r] # "create" /\ at[r] # "load" BY <2>5 DEF Leave, Waiting, EngineTypes, Collectives
    <3>2. QED BY <2>2, <2>5, <3>1 DEF Leave, Advance
  <2>6. CASE SyncMemory(r)
    <3>1. at[r] # "create" /\ at[r] # "load" BY <2>6 DEF SyncMemory, SyncsMemory
    <3>2. QED BY <2>2, <2>3, <2>6, <3>1 DEF SyncMemory, Advance, Die
  <2>7. CASE Timeout(r) BY <2>3, <2>7 DEF Timeout, Die
  <2>8. CASE AdjustConfig(r) BY <2>2, <2>3, <2>8 DEF AdjustConfig, Takes, Use, Advance, Die
  <2>9. CASE CreateModel(r) BY <2>2, <2>3, <2>9 DEF CreateModel, Takes, Use, Advance, Die
  <2>10. CASE LoadOne(r) BY <2>10 DEF LoadOne
  <2>11. CASE LoadStateDict(r) BY <2>2, <2>3, <2>11 DEF LoadStateDict, Takes, Use, Advance, Die
  <2>12. CASE AllocateCache(r) BY <2>2, <2>3, <2>12 DEF AllocateCache, Takes, Use, Advance, Die
  <2>13. CASE InitIO(r) BY <2>2, <2>13 DEF InitIO, Takes, Advance
  <2>14. CASE Report(r) BY <2>2, <2>14 DEF Report, Takes, Advance
  <2>15. CASE AckScheduler(r) BY <2>2, <2>15 DEF AckScheduler, Takes, Advance
  <2>16. QED
    BY <2>1, <2>4, <2>5, <2>6, <2>7, <2>8, <2>9, <2>10, <2>11, <2>12, <2>13, <2>14, <2>15 DEF RankStep
<1>4. ASSUME NEW r \in Ranks, Serve(r) PROVE UNCHANGED <<weightVars, at>>
  <2>1. UNCHANGED weightVars
    BY <1>4 DEF Serve, ForwardStep, Embed, Attend, DenseMLP, FusedMoE, SumUp, LocalMoE, GatherCounts,
       Dispatch, Combine, FinishMoE, GatherLogits, Ended
  <2>2. QED BY <1>4, <2>1 DEF Serve
<1>5. CASE Spawn \/ TakeAck BY <1>2, <1>5 DEF Spawn, TakeAck
<1>6. CASE \E p \in Workers : ConnectWorker(p) \/ AckWorker(p)
  BY <1>2, <1>6 DEF ConnectWorker, AckWorker
<1>7. CASE Ask BY <1>2, <1>7 DEF Ask, startVars
<1>8. CASE UNCHANGED vars BY <1>2, <1>8 DEF vars, startVars
<1>9. QED BY <1>1, <1>2, <1>3, <1>4, <1>5, <1>6, <1>7, <1>8 DEF Next

(* The buffers of the other ranks are theirs.                              *)
LEMMA OthersKept ==
  ASSUME LoadTypes, NEW r \in Ranks, NEW t, LoadTensor(r, t), setup' = setup
  PROVE  /\ LoadTypes'
         /\ \A q \in Ranks \ {r} : /\ todo'[q] = todo[q] /\ merging'[q] = merging[q]
                                   /\ stacking'[q] = stacking[q] /\ weights'[q] = weights[q]
<1>1. Ranks' = Ranks BY DEF Ranks
<1>2. PICK T, M : todo' = [todo EXCEPT ![r] = T]
                  /\ (merging' = merging \/ merging' = [merging EXCEPT ![r] = M])
  BY DEF LoadTensor
<1>3. ASSUME NEW p, NEW w, weights' = [weights EXCEPT ![r][p] = w]
      PROVE  /\ weights' = [q \in Ranks |-> [gate_up |-> weights'[q].gate_up, down |-> weights'[q].down]]
             /\ \A q \in Ranks \ {r} : weights'[q] = weights[q]
  <2>1. PICK old : old = weights[r] OBVIOUS
  <2>2. PICK new : new = [old EXCEPT ![p] = w] OBVIOUS
  <2>3. old = [gate_up |-> old.gate_up, down |-> old.down] BY <2>1 DEF LoadTypes
  <2>4. new = [gate_up |-> new.gate_up, down |-> new.down] BY <2>2, <2>3
  <2>5. weights' = [q \in Ranks |-> IF q = r THEN new ELSE weights[q]]
    BY <1>3, <2>1, <2>2 DEF LoadTypes
  <2>6. \A q \in Ranks : weights[q] = [gate_up |-> weights[q].gate_up, down |-> weights[q].down]
    BY DEF LoadTypes
  <2>7. QED BY <2>4, <2>5, <2>6
<1>4. /\ todo' = [q \in Ranks |-> todo'[q]] /\ merging' = [q \in Ranks |-> merging'[q]]
      /\ \A q \in Ranks \ {r} : todo'[q] = todo[q] /\ merging'[q] = merging[q]
  BY <1>2 DEF LoadTypes
<1>5. ASSUME NEW item, Stack(r, item)
      PROVE  /\ stacking' = [q \in Ranks |-> stacking'[q]]
             /\ weights' = [q \in Ranks |-> [gate_up |-> weights'[q].gate_up, down |-> weights'[q].down]]
             /\ \A q \in Ranks \ {r} : stacking'[q] = stacking[q] /\ weights'[q] = weights[q]
  <2>1. /\ stacking' = [q \in Ranks |-> stacking'[q]]
        /\ \A q \in Ranks \ {r} : stacking'[q] = stacking[q]
    BY <1>5 DEF Stack, LoadTypes
  <2>2. CASE weights' = weights BY <2>1, <2>2 DEF LoadTypes
  <2>3. CASE weights' # weights
    <3>1. PICK w : weights' = [weights EXCEPT ![r][item.param] = w] BY <1>5, <2>3 DEF Stack
    <3>2. QED BY <1>3, <2>1, <3>1
  <2>4. QED BY <2>2, <2>3
<1>6. /\ stacking' = [q \in Ranks |-> stacking'[q]]
      /\ weights' = [q \in Ranks |-> [gate_up |-> weights'[q].gate_up, down |-> weights'[q].down]]
      /\ \A q \in Ranks \ {r} : stacking'[q] = stacking[q] /\ weights'[q] = weights[q]
  <2>1. CASE UNCHANGED <<stacking, weights>> BY <2>1 DEF LoadTypes
  <2>2. UNCHANGED <<stacking, weights>> \/ \E item : Stack(r, item) BY DEF LoadTensor
  <2>3. QED BY <1>5, <2>1, <2>2
<1>7. QED BY <1>1, <1>4, <1>6 DEF LoadTypes

LEMMA ShardsStep == ASSUME ShardsInv, [Next]_vars PROVE ShardsInv'
<1>1. EngineTypes /\ EngineTypes' BY TypesStep DEF ShardsInv
<1>2. setup' = setup => Ranks' = Ranks /\ LayersFit' = LayersFit
  BY DEF Ranks, LayersFit, DivEven, UsesEP
<1>3. CASE UNCHANGED <<setup, weightVars>> /\ \A q \in Ranks : Passes(q)
  <2>1. UNCHANGED <<setup, todo, merging, stacking, weights>> BY <1>3 DEF weightVars
  <2>2. LoadTypes' BY <1>2, <2>1 DEF ShardsInv, LoadTypes
  <2>3. ASSUME NEW r \in Ranks
        PROVE  LoadOK(r)' /\ (at'[r] \in PastCreate => LayersFit) /\ (at'[r] \in PastLoad => todo[r] = {})
    <3>1. LoadOK(r) /\ (at[r] \in PastCreate => LayersFit) /\ (at[r] \in PastLoad => todo[r] = {})
      BY DEF ShardsInv
    <3>2. LoadOK(r)' BY <2>1, <3>1, LoadKept
    <3>3. Passes(r) /\ at[r] \in Steps BY <1>1, <1>3 DEF EngineTypes
    <3>4. /\ Following(at[r]) \in PastCreate => at[r] \in PastCreate \cup {"create"}
          /\ Following(at[r]) \in PastLoad => at[r] \in PastLoad \cup {"load"}
      BY <3>3 DEF Following, PastCreate, PastLoad, Late, Steps
    <3>5. QED BY <3>1, <3>2, <3>3, <3>4 DEF Passes
  <2>4. QED BY <1>1, <1>2, <2>1, <2>2, <2>3 DEF ShardsInv
<1>4. ASSUME NEW r \in Ranks, NEW t, LoadTensor(r, t), UNCHANGED <<setup, at>> PROVE ShardsInv'
  <2>1. LoadTypes /\ setup \in Setups BY DEF ShardsInv, EngineTypes
  <2>2. LoadTypes' BY <1>4, <2>1, OthersKept
  <2>3. t \in todo[r] /\ todo' = [todo EXCEPT ![r] = @ \ {t}] BY <1>4 DEF LoadTensor
  <2>4. ASSUME NEW q \in Ranks
        PROVE  LoadOK(q)' /\ (at[q] \in PastCreate => LayersFit) /\ (at[q] \in PastLoad => todo'[q] = {})
    <3>1. LoadOK(q) /\ (at[q] \in PastCreate => LayersFit) /\ (at[q] \in PastLoad => todo[q] = {})
      BY DEF ShardsInv
    <3>2. CASE q = r
      <4>1. LoadOK(q)' BY <1>4, <2>1, <3>1, <3>2, TensorLoaded
      <4>2. todo[q] # {} BY <2>3, <3>2
      <4>3. QED BY <3>1, <4>1, <4>2
    <3>3. CASE q # r
      <4>1. /\ todo'[q] = todo[q] /\ merging'[q] = merging[q]
            /\ stacking'[q] = stacking[q] /\ weights'[q] = weights[q]
        BY <1>4, <2>1, <3>3, OthersKept
      <4>2. LoadOK(q)' BY <1>4, <3>1, <4>1, LoadKept
      <4>3. QED BY <3>1, <4>1, <4>2
    <3>4. QED BY <3>2, <3>3
  <2>5. QED BY <1>1, <1>2, <1>4, <2>2, <2>4 DEF ShardsInv
<1>5. QED BY <1>1, <1>3, <1>4, WeightSteps

LEMMA ShardsCovered == ASSUME ShardsInv, ReadyMeansAll PROVE ShardsCover
<1> SUFFICES ASSUME server = "ready"
    PROVE /\ \A h \in 0..setup.qo - 1 : \E r \in Ranks :
               /\ {q \in Ranks : h \in QoHeads(q)} = {r}
               /\ LET j == Cardinality({g \in QoHeads(r) : g < h})
                  IN KvHeadOf(r, j) = h \div (setup.qo \div setup.kv)
          /\ \A v \in 0..setup.vocab - 1 : Cardinality(LookupRanks(v)) = 1
          /\ \A e \in 0..setup.experts - 1, c \in 0..setup.inter - 1 :
               Cardinality({r \in Ranks : c \in Columns(r) /\ Complete(r) /\ Holds(r, e)}) = 1
  BY DEF ShardsCover
<1>1. setup \in Setups /\ 0 \in Ranks BY SetupTyped DEF ShardsInv, EngineTypes
<1>2. \A r \in Ranks : at[r] \in PastLoad /\ at[r] \in PastCreate
  BY DEF ReadyMeansAll, PastLoad, PastCreate, Late
<1>3. LayersFit /\ \A r \in Ranks : LoadOK(r) /\ todo[r] = {} BY <1>1, <1>2 DEF ShardsInv
<1>4. QED BY <1>1, <1>3, HeadsMatch, VocabCovered, ExpertsCovered

(* When the server is ready the pieces on the ranks make up the model, for *)
(* any number of ranks, heads, columns, rows and experts that passes the   *)
(* asserts of the layers, and whatever the order of the files: each query  *)
(* head has one rank, and its head of keys is there; each row of the       *)
(* embedding and each column of each expert has one rank (models/weight.py *)
(* and layers/).                                                           *)
THEOREM ShardsCoverHolds == Spec => []ShardsCover
<1>1. Init => ShardsInv BY ShardsInit
<1>2. ShardsInv /\ [Next]_vars => ShardsInv' BY ShardsStep
<1>3. ShardsInv /\ ReadyMeansAll => ShardsCover BY ShardsCovered
<1>4. QED BY <1>1, <1>2, <1>3, ReadyMeansAllHolds, PTL DEF Spec
=============================================================================
