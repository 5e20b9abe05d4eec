----------------------------- MODULE AtomicStore -----------------------------
(***************************************************************************)
(* What the local store promises its callers, with no journal, no locks    *)
(* and no crashes in sight.  The canonical files (graph, history, cases,   *)
(* evidence, receipts, ...) form one store.  An operation takes effect on  *)
(* all the files it asked for in one step or on none, takes effect at most *)
(* once, is acknowledged only after it took effect, and a snapshot returns *)
(* the store as it is at one instant.                                      *)
(***************************************************************************)
CONSTANTS Proc,     \* the threads and processes that share the .intent directory
          Target,   \* the canonical files
          Op        \* the operations they may perform

VARIABLES store,    \* [Target -> SUBSET Op]: the records each file holds
          request,  \* [Op -> SUBSET Target]: the files an operation is to write
          acked,    \* the operations that returned normally
          view      \* [Proc -> [Target -> SUBSET Op]]: the last snapshot read

vars == <<store, request, acked, view>>

Nothing == [t \in Target |-> {}]

Init == /\ store = Nothing
        /\ request = [o \in Op |-> {}]
        /\ acked = {}
        /\ view = [p \in Proc |-> Nothing]

(* The operation o is asked for, on the files W. *)
Begin(o, W) == /\ request[o] = {}
               /\ request' = [request EXCEPT ![o] = W]
               /\ UNCHANGED <<store, acked, view>>

(* The single instant at which all of o's effects appear. *)
Commit(o) == /\ request[o] # {}
             /\ \A t \in Target : o \notin store[t]
             /\ store' = [t \in Target |-> IF t \in request[o]
                                             THEN store[t] \cup {o}
                                             ELSE store[t]]
             /\ UNCHANGED <<request, acked, view>>

(* An operation may return normally only once its effects are there. *)
Ack(o) == /\ request[o] # {}
          /\ \A t \in request[o] : o \in store[t]
          /\ acked' = acked \cup {o}
          /\ UNCHANGED <<store, request, view>>

(* A snapshot observes every file at the same instant. *)
Read(p) == /\ view' = [view EXCEPT ![p] = store]
           /\ UNCHANGED <<store, request, acked>>

Next == \/ \E o \in Op : (\E W \in SUBSET Target : Begin(o, W)) \/ Commit(o) \/ Ack(o)
        \/ \E p \in Proc : Read(p)

Spec == Init /\ [][Next]_vars
=============================================================================
