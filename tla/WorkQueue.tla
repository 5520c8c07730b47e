------------------------------ MODULE WorkQueue ------------------------------
(***************************************************************************)
(* What the queue of media jobs promises, with no statuses, no kinds, no   *)
(* backoff and no worker in sight: a clip has one order at a time, an      *)
(* order is tried within a budget that only the runs that are lost extend, *)
(* and it is closed by the run that made its clip ready, or given up when  *)
(* the budget is spent or no run can help.                                 *)
(* Module MediaJobs implements it (MediaJobs!QueuePromise).                *)
(***************************************************************************)
EXTENDS Naturals

CONSTANTS
  Clip,      \* what is ordered
  Foreign,   \* the clips no run can help from the start
  Budget     \* how often an order is tried

VARIABLES
  open,      \* the orders: of which clip, how often tried and how often lost
  running,   \* the clip whose order is being run, if any
  closed,    \* the clips whose orders were closed, and as what
  ready,     \* the clips an encode was finished for
  hopeless   \* the clips no run can help

vars == <<open, running, closed, ready, hopeless>>

Init ==
  /\ open = {}
  /\ running = {}
  /\ closed = {}
  /\ ready = {}
  /\ hopeless = Foreign

Request(c) ==
  /\ \A w \in open : w.clip # c
  /\ open' = open \cup {[clip |-> c, tries |-> 0, lost |-> 0]}
  /\ UNCHANGED <<running, closed, ready, hopeless>>

Despair(c) ==
  /\ hopeless' = hopeless \cup {c}
  /\ UNCHANGED <<open, running, closed, ready>>

\* One order is run at a time.
Try(w) ==
  /\ running = {}
  /\ w.tries < Budget + w.lost
  /\ running' = {w.clip}
  /\ open' = (open \ {w}) \cup {[w EXCEPT !.tries = @ + 1]}
  /\ UNCHANGED <<closed, ready, hopeless>>

Deliver(w) ==
  /\ running = {w.clip}
  /\ ready' = ready \cup {w.clip}
  /\ UNCHANGED <<open, running, closed, hopeless>>

\* A run ends: without a result while there is budget, lost, or for good.
Ends(w) == running = {w.clip} /\ running' = {} /\ UNCHANGED <<ready, hopeless>>

Retry(w) ==
  /\ Ends(w)
  /\ w.tries < Budget
  /\ UNCHANGED <<open, closed>>

Lose(w) ==
  /\ Ends(w)
  /\ open' = (open \ {w}) \cup {[w EXCEPT !.lost = @ + 1]}
  /\ UNCHANGED closed

Finish(w) ==
  /\ Ends(w)
  /\ w.clip \in ready
  /\ open' = open \ {w}
  /\ closed' = closed \cup {<<w.clip, "done">>}

GiveUp(w) ==
  /\ Ends(w)
  /\ w.tries >= Budget \/ w.clip \in hopeless
  /\ open' = open \ {w}
  /\ closed' = closed \cup {<<w.clip, "failed">>}

Next ==
  \/ \E c \in Clip : Request(c) \/ Despair(c)
  \/ \E w \in open : Try(w) \/ Deliver(w) \/ Retry(w) \/ Lose(w) \/ Finish(w) \/ GiveUp(w)

Spec == Init /\ [][Next]_vars

================================================================================
