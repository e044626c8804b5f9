------------------------------- MODULE Metrics -------------------------------
(***************************************************************************)
(* metrics/collector.py: what the scheduler counts of its requests.  The   *)
(* times that the collector takes, what it derives from them and the gauges*)
(* that it reports are left out; each operation is a function from the     *)
(* collector before it to the collector after it.                          *)
(***************************************************************************)
EXTENDS Naturals, Functions

NewCollector == [active    |-> <<>>,   \* _active_requests: tokens of each uid
                 completed |-> 0,      \* _total_completed
                 input     |-> 0,      \* _total_input_tokens
                 output    |-> 0]      \* _total_output_tokens

Tracked(m) == DOMAIN m.active

RequestArrived(m, u, tokens) ==
  [m EXCEPT !.active = [v \in Tracked(m) \cup {u} |-> IF v = u THEN 0 ELSE m.active[v]],
            !.input = @ + tokens]

RequestOutputToken(m, u) ==
  IF u \in Tracked(m) THEN [m EXCEPT !.active[u] = @ + 1] ELSE m

Forgotten(m, u) == [m EXCEPT !.active = Restrict(m.active, Tracked(m) \ {u})]

(* Mutant of RequestCompleted: a completed request is still tracked.       *)
CompletedKept(m, u) ==
  IF u \in Tracked(m) THEN [m EXCEPT !.completed = @ + 1, !.output = @ + m.active[u]] ELSE m

RequestCompleted(m, u) ==
  IF u \in Tracked(m)
  THEN [Forgotten(m, u) EXCEPT !.completed = @ + 1, !.output = @ + m.active[u]]
  ELSE m

(* Mutant of RequestAborted: an aborted request is still tracked.          *)
AbortedKept(m, u) == m

RequestAborted(m, u) == Forgotten(m, u)
=============================================================================
