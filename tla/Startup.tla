------------------------------- MODULE Startup -------------------------------
(***************************************************************************)
(* The start of the server: server/launch.py spawns a scheduler for every  *)
(* rank, a detokenizer and the tokenizers, and counts their answers; every *)
(* rank runs Engine.__init__, whose collectives stop it until all ranks    *)
(* have come to them.  A rank that raises is dead; the others wait for it  *)
(* until distributed_timeout.  Memory is counted in pages of the cache.    *)
(***************************************************************************)
EXTENDS Weights

CONSTANTS
  Imbalance,   \* how much the free memory of the ranks may differ: 2 GiB
  ModelSize,   \* memory that the weights take on a rank
  BigMemory    \* from which on larger graphs are captured: 80 GiB

ASSUME MemoryAssumption == {Imbalance, ModelSize, BigMemory} \subseteq Nat
ASSUME TokenizersAssumption == \A s \in Setups : s.tokenizers \in Nat

VARIABLES
  server,   \* the launcher: "spawning", "waiting" for answers, "ready"
  spawned,  \* how many processes it has started
  acks,     \* answers in ack_queue
  got,      \* answers it has taken
  worker,   \* the tokenizers and the detokenizer: "new", "connected", "listening"
  bound,    \* <<address, process>>: the sockets that were bound
  joined,   \* <<address, process>>: the sockets that were connected
  at,       \* the step each rank is at
  entered,  \* the collectives it has entered
  offered,  \* its free memory when it entered them
  dead,     \* the ranks that raised
  free,     \* free memory of each rank
  initFree, \* init_free_memory of each rank
  pages     \* num_pages of each rank, 0 before it is known

launcherVars == <<server, spawned, acks, got, worker>>
socketVars == <<bound, joined>>
rankVars == <<at, entered, offered, dead>>
memoryVars == <<free, initFree, pages>>
startVars == <<setup, weightVars, launcherVars, socketVars, rankVars, memoryVars>>

Scheduler(r) == <<"scheduler", r>>
Detokenizer == <<"detokenizer", 0>>
Frontend == <<"frontend", 0>>
Tokenizers == {<<"tokenizer", i>> : i \in 1..setup.tokenizers}
Workers == {Detokenizer} \cup Tokenizers
Processes == setup.tp + 1 + setup.tokenizers
Position(p) == IF p[1] = "tokenizer" THEN setup.tp + 1 + p[2]
               ELSE IF p[1] = "scheduler" THEN p[2] + 1 ELSE setup.tp + 1

----------------------------------------------------------------------------
(* Who binds which address.                                                *)
ShareTokenizer == setup.tokenizers = 0

(* Mutant of TokenizerAddr: it is not shared.                              *)
OwnAddr == "tokenizer"

TokenizerAddr == IF ShareTokenizer THEN "detokenizer" ELSE "tokenizer"

BackendCreatesLink == ~ShareTokenizer

Open(p, binds, connects) ==
  /\ bound' = bound \cup {<<a, p>> : a \in binds}
  /\ joined' = joined \cup {<<a, p>> : a \in connects}

----------------------------------------------------------------------------
(* The steps of a rank, in the order of Engine and Scheduler.  With NCCL   *)
(* as the default group another one is made for the CPU; with expert       *)
(* parallelism no graph is captured.                                       *)
Steps == {"config", "init", "group", "uid", "comm", "memory", "create", "load", "pages",
          "cache", "check", "capture", "io", "report", "barrier", "ack", "serve"}
Collectives == {"init", "group", "uid", "comm", "memory", "pages", "check", "capture", "barrier"}
SyncsMemory == {"memory", "pages", "check"}

NewGroup == UsesEP \/ (setup.tp > 1 /\ ~setup.pynccl)
InitPyNCCL == setup.tp > 1 /\ setup.pynccl

Following(step) ==
  CASE step = "config" -> "init"
    [] step = "init" -> IF NewGroup THEN "group" ELSE IF InitPyNCCL THEN "uid" ELSE "memory"
    [] step = "group" -> IF InitPyNCCL THEN "uid" ELSE "memory"
    [] step = "uid" -> "comm"
    [] step = "comm" -> "memory"
    [] step = "memory" -> "create"
    [] step = "create" -> "load"
    [] step = "load" -> "pages"
    [] step = "pages" -> "cache"
    [] step = "cache" -> "check"
    [] step = "check" -> IF UsesEP THEN "io" ELSE "capture"
    [] step = "capture" -> "io"
    [] step = "io" -> "report"
    [] step = "report" -> "barrier"
    [] step = "barrier" -> "ack"
    [] OTHER -> "serve"

Alive(r) == r \notin dead /\ spawned > r

StartInit ==
  /\ WeightsInit
  /\ server = "spawning" /\ spawned = 0 /\ acks = 0 /\ got = 0
  /\ worker = [p \in Workers |-> "new"]
  /\ bound = {<<"frontend", Frontend>>} \cup IF ShareTokenizer THEN {} ELSE {<<TokenizerAddr, Frontend>>}
  /\ joined = IF ShareTokenizer THEN {<<TokenizerAddr, Frontend>>} ELSE {}
  /\ at = [r \in Ranks |-> "config"] /\ dead = {}
  /\ entered = [r \in Ranks |-> {}] /\ offered = [r \in Ranks |-> [c \in Collectives |-> 0]]
  /\ free = [r \in Ranks |-> setup.free[r + 1]]
  /\ initFree = [r \in Ranks |-> 0] /\ pages = [r \in Ranks |-> 0]

----------------------------------------------------------------------------
(* The launcher and the workers.                                           *)
Spawn ==
  /\ server = "spawning"
  /\ spawned' = spawned + 1
  /\ server' = IF spawned' = Processes THEN "waiting" ELSE server
  /\ UNCHANGED <<setup, weightVars, acks, got, worker, socketVars, rankVars, memoryVars>>

ConnectWorker(p) ==
  /\ spawned >= Position(p) /\ worker[p] = "new"
  /\ worker' = [worker EXCEPT ![p] = "connected"]
  /\ LET addr == IF p = Detokenizer THEN "detokenizer" ELSE TokenizerAddr
     IN Open(p, IF ShareTokenizer THEN {addr} ELSE {},
                {"backend", "frontend"} \cup IF ShareTokenizer THEN {} ELSE {addr})
  /\ UNCHANGED <<setup, weightVars, server, spawned, acks, got, rankVars, memoryVars>>

AckWorker(p) ==
  /\ worker[p] = "connected"
  /\ worker' = [worker EXCEPT ![p] = "listening"]
  /\ acks' = acks + 1
  /\ UNCHANGED <<setup, weightVars, server, spawned, got, socketVars, rankVars, memoryVars>>

(* Mutant of Expected: the schedulers are not counted.                     *)
WorkersOnly == setup.tokenizers + 1

Expected == setup.tokenizers + 2

TakeAck ==
  /\ server = "waiting" /\ acks > 0
  /\ acks' = acks - 1 /\ got' = got + 1
  /\ server' = IF got' = Expected THEN "ready" ELSE server
  /\ UNCHANGED <<setup, weightVars, spawned, worker, socketVars, rankVars, memoryVars>>

----------------------------------------------------------------------------
(* Collectives.  The ranks make the same ones in the same order.           *)
Waiting(r) == Alive(r) /\ at[r] \in entered[r]
Everyone(r) == \A q \in Ranks : at[r] \in entered[q]
Offers(step) == {offered[q][step] : q \in Ranks}

Enter(r) ==
  /\ Alive(r) /\ at[r] \in Collectives \ entered[r]
  /\ entered' = [entered EXCEPT ![r] = @ \cup {at[r]}]
  /\ offered' = [offered EXCEPT ![r][at[r]] = free[r]]
  /\ UNCHANGED <<setup, weightVars, launcherVars, socketVars, at, dead, memoryVars>>

Advance(r) == at' = [at EXCEPT ![r] = Following(@)]
Die(r) == dead' = dead \cup {r} /\ UNCHANGED <<at, memoryVars>>

Leave(r) ==
  /\ Waiting(r) /\ Everyone(r) /\ at[r] \notin SyncsMemory
  /\ Advance(r)
  /\ UNCHANGED <<setup, weightVars, launcherVars, socketVars, entered, offered, dead, memoryVars>>

(* Mutant of Largest: the rank takes what it sees itself.                  *)
OwnMemory(r) == offered[r][at[r]]

Largest(r) == Max(Offers(at[r]))

(* memory_ratio is 0.9.                                                    *)
NumPages(r) == (initFree[r] * 9) \div 10 - (initFree[r] - Largest(r))

(* _sync_get_memory and what its three callers do with the result.         *)
SyncMemory(r) ==
  /\ Waiting(r) /\ Everyone(r) /\ at[r] \in SyncsMemory
  /\ IF \/ Max(Offers(at[r])) - Min(Offers(at[r])) > Imbalance
        \/ at[r] = "pages" /\ NumPages(r) <= 1
     THEN Die(r)
     ELSE /\ Advance(r)
          /\ initFree' = IF at[r] = "memory" THEN [initFree EXCEPT ![r] = Largest(r)] ELSE initFree
          /\ pages' = IF at[r] = "pages" THEN [pages EXCEPT ![r] = NumPages(r)] ELSE pages
          /\ UNCHANGED <<free, dead>>
  /\ UNCHANGED <<setup, weightVars, launcherVars, socketVars, entered, offered>>

(* distributed_timeout, when the rank waits for one that will not come.    *)
(* The communicator of PyNCCL has no timeout.                              *)
Timeout(r) ==
  /\ Waiting(r) /\ at[r] # "comm"
  /\ \E q \in dead : at[r] \notin entered[q]
  /\ Die(r)
  /\ UNCHANGED <<setup, weightVars, launcherVars, socketVars, entered, offered>>

(* The batch sizes that are captured: the ranks must agree on them, as     *)
(* they capture the collectives of their layers together.                  *)
GraphMaxBs(r) == IF UsesEP THEN 0 ELSE IF initFree[r] > BigMemory THEN 256 ELSE 160

----------------------------------------------------------------------------
(* The steps of a rank of its own.  UNCHANGED but for what it names.       *)
Takes(r, step) == Alive(r) /\ at[r] = step /\ UNCHANGED <<setup, entered, offered>>

(* The rank uses memory, if it has it.                                     *)
Use(r, amount, ok) ==
  IF ok THEN /\ Advance(r) /\ free' = [free EXCEPT ![r] = @ - amount]
             /\ UNCHANGED <<dead, initFree, pages>>
        ELSE Die(r)

(* Of the options it overrides the model needs two: MoeBackend, GraphMaxBs.*)
AdjustConfig(r) ==
  /\ Takes(r, "config")
  /\ Use(r, 0, UsesEP => setup.experts > 0 /\ setup.experts % setup.ep = 0)
  /\ UNCHANGED <<weightVars, launcherVars, socketVars>>

CreateModel(r) ==
  /\ Takes(r, "create")
  /\ Use(r, 0, LayersFit)
  /\ UNCHANGED <<weightVars, launcherVars, socketVars>>

LoadOne(r) ==
  /\ Takes(r, "load")
  /\ \E t \in todo[r] : LoadTensor(r, t)
  /\ UNCHANGED <<launcherVars, socketVars, at, dead, memoryVars>>

LoadStateDict(r) ==
  /\ Takes(r, "load") /\ todo[r] = {}
  /\ Use(r, ModelSize, BuffersEmpty(r) /\ ShapesFit(r))
  /\ UNCHANGED <<weightVars, launcherVars, socketVars>>

CacheFits(r) == pages[r] + 1 <= free[r]

AllocateCache(r) ==
  /\ Takes(r, "cache")
  /\ Use(r, pages[r] + 1, CacheFits(r))
  /\ UNCHANGED <<weightVars, launcherVars, socketVars>>

InitIO(r) ==
  /\ Takes(r, "io")
  /\ IF r # 0 THEN Open(Scheduler(r), {}, {"broadcast"})
     ELSE LET link == {"detokenizer"}
          IN Open(Scheduler(r),
                  {"backend"} \cup (IF BackendCreatesLink THEN link ELSE {})
                              \cup (IF setup.tp > 1 THEN {"broadcast"} ELSE {}),
                  IF BackendCreatesLink THEN {} ELSE link)
  /\ Advance(r)
  /\ UNCHANGED <<weightVars, launcherVars, dead, memoryVars>>

(* _send_metrics: a PUSH socket that was bound blocks without a peer.      *)
Report(r) ==
  /\ Takes(r, "report")
  /\ r = 0 /\ BackendCreatesLink => <<"detokenizer", Detokenizer>> \in joined
  /\ Advance(r)
  /\ UNCHANGED <<weightVars, launcherVars, socketVars, dead, memoryVars>>

AckScheduler(r) ==
  /\ Takes(r, "ack")
  /\ acks' = IF r = 0 THEN acks + 1 ELSE acks
  /\ Advance(r)
  /\ UNCHANGED <<weightVars, server, spawned, got, worker, socketVars, dead, memoryVars>>

RankStep(r) ==
  \/ Enter(r) \/ Leave(r) \/ SyncMemory(r) \/ Timeout(r)
  \/ AdjustConfig(r) \/ CreateModel(r) \/ LoadOne(r) \/ LoadStateDict(r) \/ AllocateCache(r)
  \/ InitIO(r) \/ Report(r) \/ AckScheduler(r)
=============================================================================
