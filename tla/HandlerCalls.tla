---------------------------- MODULE HandlerCalls ----------------------------
(***************************************************************************)
(* What an informer promises the agent's handlers: one call at a time; an  *)
(* object is added before it is updated or deleted, and not added again    *)
(* before it was deleted.  A new process starts knowing nothing.           *)
(***************************************************************************)
CONSTANTS Keys, Obj

VARIABLES view, call

Init == view = [k \in Keys |-> {}] /\ call = {}

OnAdd(k, o) ==
    /\ call = {} /\ view[k] = {}
    /\ view' = [view EXCEPT ![k] = {o}] /\ call' = {<<"OnAdd", k>>}

OnUpdate(k, o) ==
    /\ call = {} /\ view[k] # {}
    /\ view' = [view EXCEPT ![k] = {o}] /\ call' = {<<"OnUpdate", k>>}

OnDelete(k) ==
    /\ call = {} /\ view[k] # {}
    /\ view' = [view EXCEPT ![k] = {}] /\ call' = {<<"OnDelete", k>>}

Return == call # {} /\ call' = {} /\ UNCHANGED view

ProcessEnds == view' = [k \in Keys |-> {}] /\ call' = {}

Next ==
    \/ \E k \in Keys : OnDelete(k) \/ \E o \in Obj : OnAdd(k, o) \/ OnUpdate(k, o)
    \/ Return \/ ProcessEnds

Spec == Init /\ [][Next]_<<view, call>>
=============================================================================
