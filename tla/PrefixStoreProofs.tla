--------------------------- MODULE PrefixStoreProofs ---------------------------
(***************************************************************************)
(* What the prefix store promises, proved from its specification alone:    *)
(* for any number of clients and pages.  CacheClients and Scheduler are    *)
(* proved to implement it (CacheClientsProofs, SchedulerProofs) with its   *)
(* invariant as a part of theirs.                                          *)
(***************************************************************************)
EXTENDS PrefixStore, TLAPS

StoreTypeOK == /\ held \in [Clients -> {held[c] : c \in Clients}]
               /\ owned \in [Clients -> SUBSET Pages]
               /\ free \subseteq Pages

StoreInv == StoreTypeOK /\ OnePlace /\ HeldCached /\ Released

(* Initially every page is free and nobody runs.                           *)
LEMMA StoreInit == Init => StoreInv
BY DEF Init, StoreInv, StoreTypeOK, OnePlace, HeldCached, Released, Keys, Active

(* Starting moves no page, and what the client holds is cached.            *)
LEMMA StoreBegin ==
  ASSUME StoreInv, NEW c \in Clients, NEW k, Begin(c, k)
  PROVE  StoreInv'
<1> USE DEF StoreInv, StoreTypeOK, Begin
<1>1. StoreTypeOK' OBVIOUS
<1>2. OnePlace' BY DEF OnePlace, Keys
<1>3. HeldCached' BY DEF HeldCached, Active, Above, Keys
<1>4. Released' BY DEF Released, Active
<1>5. QED BY <1>1, <1>2, <1>3, <1>4

(* A page is taken from the free pages, by one client.                     *)
LEMMA StoreTake == ASSUME StoreInv, Take PROVE StoreInv'
<1> USE DEF StoreInv, StoreTypeOK, Take
<1>1. StoreTypeOK'
  <2>1. \A c \in Clients : owned'[c] \subseteq Pages OBVIOUS
  <2>2. QED BY <2>1
<1>2. OnePlace' BY <1>1 DEF OnePlace, Keys
<1>3. HeldCached' BY DEF HeldCached, Active, Above, Keys
<1>4. Released' BY DEF Released, Active
<1>5. QED BY <1>1, <1>2, <1>3, <1>4

(* Caching and ending move pages of one client to the store or back to the *)
(* free pages; what the others hold stays cached.                          *)
LEMMA StoreSettle ==
  ASSUME StoreInv, NEW c \in Clients, NEW k, Settle(c, k)
  PROVE  StoreInv'
<1> DEFINE added == {store'[q] : q \in Above(k) \ Keys}
<1>0. /\ c \in Active /\ Kept
      /\ DOMAIN store' = Keys \cup Above(k)
      /\ added \subseteq owned[c]
      /\ \A q, r \in Above(k) \ Keys : store'[q] = store'[r] => q = r
      /\ owned'[c] \subseteq owned[c] \ added
      /\ owned' = [owned EXCEPT ![c] = owned'[c]]
      /\ free' = free \cup (owned[c] \ (added \cup owned'[c]))
      /\ \/ held' = [held EXCEPT ![c] = k] /\ k # Nobody
         \/ held' = [held EXCEPT ![c] = Nobody] /\ owned'[c] = {}
  BY DEF Settle
<1> USE DEF StoreInv
<1>1. StoreTypeOK' BY <1>0 DEF StoreTypeOK
<1>2. \A q \in Keys' : \/ q \in Keys /\ store'[q] = store[q]
                       \/ q \in Above(k) \ Keys /\ store'[q] \in added
  BY <1>0 DEF Kept, Keys
<1>3. \A d \in Clients \ {c} : owned'[d] = owned[d] BY <1>0 DEF StoreTypeOK
<1>4. OnePlace'
  <2>1. \A q, r \in Keys' : store'[q] = store'[r] => q = r
    BY <1>0, <1>2 DEF OnePlace
  <2>2. \A q \in Keys' : store'[q] \notin free'
    BY <1>0, <1>2 DEF OnePlace
  <2>3. \A d \in Clients : \A p \in owned'[d] : p \notin free' /\ \A q \in Keys' : store'[q] # p
    BY <1>0, <1>2, <1>3 DEF OnePlace
  <2>4. \A d, e \in Clients : d # e => owned'[d] \cap owned'[e] = {}
    BY <1>0, <1>3 DEF OnePlace
  <2>5. free' \cup {store'[q] : q \in Keys'} \cup UNION {owned'[d] : d \in Clients} = Pages
    <3>1. {store'[q] : q \in Keys'} = {store[q] : q \in Keys} \cup added
      BY <1>0, <1>2 DEF Kept, Keys
    <3>2. free \cup owned[c] = free' \cup added \cup owned'[c]
      BY <1>0 DEF OnePlace
    <3>3. UNION {owned[d] : d \in Clients} = owned[c] \cup UNION {owned[d] : d \in Clients \ {c}}
      OBVIOUS
    <3>4. UNION {owned'[d] : d \in Clients} = owned'[c] \cup UNION {owned[d] : d \in Clients \ {c}}
      BY <1>3
    <3>5. QED BY <3>1, <3>2, <3>3, <3>4 DEF OnePlace
  <2>6. QED BY <2>1, <2>2, <2>3, <2>4, <2>5 DEF OnePlace
<1>5. HeldCached' BY <1>0 DEF HeldCached, Active, Above, Keys, StoreTypeOK
<1>6. Released' BY <1>0 DEF Released, Active, StoreTypeOK
<1>7. QED BY <1>1, <1>4, <1>5, <1>6

(* Eviction moves pages from the store to the free pages.                  *)
LEMMA StoreDrop == ASSUME StoreInv, Drop PROVE StoreInv'
<1> USE DEF StoreInv, Drop
<1>1. \A q \in Keys' : q \in Keys /\ store'[q] = store[q] BY DEF Kept, Keys
<1>2. StoreTypeOK' BY DEF StoreTypeOK, OnePlace, Keys
<1>3. OnePlace'
  <2>1. \A q \in Keys' : store'[q] \notin free' BY <1>1 DEF OnePlace, Keys
  <2>2. \A d \in Clients : \A p \in owned[d] : p \notin free' BY DEF OnePlace, Keys
  <2>3. free' \cup {store'[q] : q \in Keys'} = free \cup {store[q] : q \in Keys}
    BY <1>1 DEF Keys
  <2>4. QED BY <1>1, <2>1, <2>2, <2>3 DEF OnePlace
<1>4. HeldCached' BY DEF HeldCached, Active, Above, Keys
<1>5. Released' BY DEF Released, Active
<1>6. QED BY <1>2, <1>3, <1>4, <1>5

LEMMA StoreStutters == ASSUME StoreInv, UNCHANGED vars PROVE StoreInv'
BY DEF StoreInv, StoreTypeOK, OnePlace, HeldCached, Released, Keys, Active, Above, vars

(* The promise of the prefix store: every page is in one place, what a     *)
(* client holds stays cached, and a client that ended owns nothing.        *)
THEOREM StoreSafe == Spec => [](OnePlace /\ HeldCached /\ Released)
<1>1. StoreInv /\ [Next]_vars => StoreInv'
  BY StoreBegin, StoreTake, StoreSettle, StoreDrop, StoreStutters DEF Next
<1>2. StoreInv => OnePlace /\ HeldCached /\ Released BY DEF StoreInv
<1>3. QED BY StoreInit, <1>1, <1>2, PTL DEF Spec
=============================================================================
