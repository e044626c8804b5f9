----------------------------- MODULE PrefixStore -----------------------------
(***************************************************************************)
(* What the cache manager promises its clients, without radix nodes,       *)
(* reference counts, timestamps, lists or page tables: a finite set of     *)
(* pages, a map from cached key prefixes to pages, and for each client the *)
(* prefix it holds and the pages it owns.                                  *)
(*                                                                         *)
(* A held prefix never leaves the store and never moves to another page;   *)
(* a page is handed to a client only when it is free; and everything a     *)
(* client owns goes back to the store or to the free pages.                *)
(***************************************************************************)
EXTENDS Integers, Sequences, SequencesExt

CONSTANTS
  Clients,     \* the requests
  Pages,       \* the pages of the KV cache
  Nobody       \* held[c] of a client that is not running

VARIABLES
  store,       \* store[k]: the page of the cached key prefix k
  free,        \* the free pages
  held,        \* held[c]: the key prefix client c has locked, or Nobody
  owned        \* owned[c]: the pages only client c uses

vars == <<store, free, held, owned>>

Keys == DOMAIN store
Active == {c \in Clients : held[c] # Nobody}
Above(k) == {q \in Prefixes(k) : q # <<>>}
Kept == \A k \in Keys \cap DOMAIN store' : store'[k] = store[k]

Init == /\ store = <<>>
        /\ free = Pages
        /\ held = [c \in Clients |-> Nobody]
        /\ owned = [c \in Clients |-> {}]

(* A client starts, holding a prefix that is cached (or the empty one).    *)
Begin(c, k) ==
  /\ c \notin Active /\ k # Nobody
  /\ Above(k) \subseteq Keys
  /\ held' = [held EXCEPT ![c] = k]
  /\ UNCHANGED <<store, free, owned>>

(* Clients take free pages, each page for one of them.                     *)
Take ==
  /\ \A c \in Clients : owned[c] \subseteq owned'[c] /\ owned'[c] \ owned[c] \subseteq free
  /\ \A c \in Clients \ Active : owned'[c] = owned[c]
  /\ \A c, d \in Clients : c # d => (owned'[c] \ owned[c]) \cap (owned'[d] \ owned[d]) = {}
  /\ owned' = [c \in Clients |-> owned'[c]]
  /\ free' = free \ UNION {owned'[c] : c \in Clients}
  /\ UNCHANGED <<store, held>>

(* A client caches the key k with pages it owns and gives back the pages   *)
(* it has no use for; it goes on holding k, or ends and keeps nothing.     *)
Settle(c, k) ==
  LET added == {store'[q] : q \in Above(k) \ Keys}
  IN /\ c \in Active /\ IsPrefix(held[c], k)
     /\ DOMAIN store' = Keys \cup Above(k)
     /\ Kept
     /\ added \subseteq owned[c]
     /\ \A q, r \in Above(k) \ Keys : store'[q] = store'[r] => q = r
     /\ owned'[c] \subseteq owned[c] \ added
     /\ owned' = [owned EXCEPT ![c] = owned'[c]]
     /\ free' = free \cup (owned[c] \ (added \cup owned'[c]))
     /\ \/ held' = [held EXCEPT ![c] = k] /\ k # Nobody
        \/ held' = [held EXCEPT ![c] = Nobody] /\ owned'[c] = {}

(* Prefixes that nobody holds leave the store, the longer ones first.      *)
Drop ==
  /\ DOMAIN store' \subseteq Keys
  /\ Kept
  /\ \A k \in DOMAIN store' : Above(k) \subseteq DOMAIN store'
  /\ \A c \in Active : Above(held[c]) \subseteq DOMAIN store'
  /\ free' = free \cup {store[k] : k \in Keys \ DOMAIN store'}
  /\ UNCHANGED <<held, owned>>

Next == \/ \E c \in Clients, k \in Keys \cup {<<>>} : Begin(c, k)
        \/ Take
        \/ \E c \in Clients, k \in DOMAIN store' \cup {<<>>} : Settle(c, k)
        \/ Drop

Spec == Init /\ [][Next]_vars

----------------------------------------------------------------------------
(* Every page is in one place: free, cached under one key, or owned by one *)
(* client.                                                                 *)
OnePlace ==
  /\ free \cup {store[k] : k \in Keys} \cup UNION {owned[c] : c \in Clients} = Pages
  /\ \A k, l \in Keys : store[k] = store[l] => k = l
  /\ \A k \in Keys : store[k] \notin free
  /\ \A c \in Clients : \A p \in owned[c] : p \notin free /\ \A k \in Keys : store[k] # p
  /\ \A c, d \in Clients : c # d => owned[c] \cap owned[d] = {}

(* What a client holds is cached, all of it.                               *)
HeldCached == \A c \in Active : Above(held[c]) \subseteq Keys

(* A client that does not run owns nothing.                                *)
Released == \A c \in Clients \ Active : owned[c] = {}
=============================================================================
