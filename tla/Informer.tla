------------------------------ MODULE Informer ------------------------------
(***************************************************************************)
(* One informer, as CreateResourceController makes them: a reflector that  *)
(* lists and watches the API server, a DeltaFIFO, and the goroutine that   *)
(* pops an object's deltas and calls the agent's handlers.  Pop holds the  *)
(* lock of the queue while the handlers run, so the reflector waits.       *)
(*                                                                         *)
(* The API server is the history of its states; a resource version is a    *)
(* position in it.  An object carries the version it was created and last  *)
(* changed at.  There is no periodic resync (its period is 0).             *)
(***************************************************************************)
EXTENDS Naturals, Sequences, FiniteSets

CONSTANTS
    Keys,
    MaxChanges,  \* bound: changes of objects in the API server
    MaxCloses    \* bound: watches that end with an error, crashes of the agent

ASSUME KeysAssumption == IsFiniteSet(Keys)
ASSUME BoundAssumption == MaxChanges \in Nat /\ MaxCloses \in Nat

Version == 1 .. (MaxChanges + 1)
Obj == [born : Version, rv : Version]

\* A Deleted delta without an object is a DeletedFinalStateUnknown.
Delta == [type : {"Added", "Updated", "Deleted", "Sync"}, obj : SUBSET Obj]

Deltas == Seq(Delta)
KeyQueue == Seq(Keys)
History == Seq([Keys -> SUBSET Obj])

VARIABLES
    hist,    \* the states of the API server
    rpc,     \* reflector: about to list, or watching
    rv,      \* reflector: its resource version
    items, queue,  \* the DeltaFIFO
    known,   \* clientState, the store of the informer
    jobkey, job,   \* the deltas that are being processed
    call,    \* the handler that runs
    raced,   \* keys for which the last list came at a bad time (history)
    closes

vars == <<hist, rpc, rv, items, queue, known, jobkey, job, call, raced, closes>>

Current == hist[Len(hist)]

\* Every variable keeps its type.
TypeOK ==
    /\ hist \in History /\ rpc \in {"list", "watch"} /\ rv \in 1 .. Len(hist)
    /\ items \in [Keys -> Deltas] /\ queue \in KeyQueue
    /\ known \in [Keys -> SUBSET Obj] /\ jobkey \subseteq Keys /\ job \in Deltas
    /\ call \subseteq {"OnAdd", "OnUpdate", "OnDelete"} \X Keys
    /\ raced \subseteq Keys /\ closes \in 0 .. MaxCloses

Init ==
    /\ hist = <<[k \in Keys |-> {}]>> /\ rv = 1 /\ closes = 0
    /\ rpc = "list" /\ items = [k \in Keys |-> <<>>] /\ queue = <<>>
    /\ known = [k \in Keys |-> {}] /\ jobkey = {} /\ job = <<>> /\ call = {} /\ raced = {}

----------------------------------------------------------------------------
(* The API server *)

Change(k, o) ==
    /\ Len(hist) <= MaxChanges
    /\ hist' = Append(hist, [Current EXCEPT ![k] = o])
    /\ UNCHANGED <<rpc, rv, items, queue, known, jobkey, job, call, raced, closes>>

CreateObject(k) ==
    LET v == Len(hist) + 1 IN Current[k] = {} /\ Change(k, {[born |-> v, rv |-> v]})

ModifyObject(k) == \E o \in Current[k] : Change(k, {[o EXCEPT !.rv = Len(hist) + 1]})

DeleteObject(k) == Current[k] # {} /\ Change(k, {})

----------------------------------------------------------------------------
(* The DeltaFIFO *)

\* The lock is free: no deltas are being processed.
Unlocked == jobkey = {}

WillBeDeleted(ds) == ds # <<>> /\ ds[Len(ds)].type = "Deleted"

\* Mutant of Deduped: two deletions in a row are both kept.
DedupedNever(ds) == ds

\* Of two deletions in a row the one that has the object is kept.
Deduped(ds) ==
    LET n == Len(ds) IN
    IF n < 2 \/ ds[n].type # "Deleted" \/ ds[n - 1].type # "Deleted" THEN ds
    ELSE Append(SubSeq(ds, 1, n - 2), IF ds[n - 1].obj = {} THEN ds[n] ELSE ds[n - 1])

\* queueActionLocked.
Queued(ds, d) ==
    IF d.type = "Sync" /\ WillBeDeleted(ds) THEN ds ELSE Deduped(Append(ds, d))

\* Mutant of Enqueued: a key that is in the queue already is added again.
EnqueuedAgain(new) ==
    LET ks == {k \in Keys : items[k] # new[k]} IN
    \E s \in [1 .. Cardinality(ks) -> ks] :
        ks = {s[i] : i \in DOMAIN s} /\ queue' = queue \o s

\* Keys with new items go to the end of the queue, in any order.
Enqueued(new) ==
    LET ks == {k \in Keys : items[k] = <<>> /\ new[k] # <<>>} IN
    \E s \in [1 .. Cardinality(ks) -> ks] :
        ks = {s[i] : i \in DOMAIN s} /\ queue' = queue \o s

\* Mutant of Replaced: what is not in the list is forgotten silently.
ReplacedSilently(list) ==
    [k \in Keys |->
        IF list[k] # {} THEN Queued(items[k], [type |-> "Sync", obj |-> list[k]]) ELSE items[k]]

\* Replace: a Sync for what is in the list; a deletion for what is known and
\* not in it.
Replaced(list) ==
    [k \in Keys |->
        IF list[k] # {} THEN Queued(items[k], [type |-> "Sync", obj |-> list[k]])
        ELSE IF known[k] # {} THEN Queued(items[k], [type |-> "Deleted", obj |-> {}])
        ELSE items[k]]

----------------------------------------------------------------------------
(* The reflector *)

\* The list comes too early: the deletion that is still in the queue hides
\* an object that exists, or an object that was never processed and is gone
\* gets no deletion.
RacedBy(list) ==
    {k \in Keys :
        \/ list[k] # {} /\ WillBeDeleted(items[k])
        \/ list[k] = {} /\ known[k] = {} /\ items[k] # <<>> /\ ~WillBeDeleted(items[k])}

\* Mutant of WatchFrom: the watch starts behind the next change.
WatchFromNext(i) == i + 1

\* The resource version of the first watch is the one of the list.
WatchFrom(i) == i

\* ListAndWatch lists, from a cache that may lag behind.
List(i) ==
    /\ rpc = "list" /\ Unlocked
    /\ items' = Replaced(hist[i]) /\ Enqueued(items')
    /\ raced' = RacedBy(hist[i]) /\ rv' = WatchFrom(i) /\ rpc' = "watch"
    /\ UNCHANGED <<hist, known, jobkey, job, call, closes>>

\* Mutant of SkipsDelete: a deletion is skipped whenever the store does not
\* have the object.
SkipsUnknown(k) == known[k] = {}

\* Delete skips an object that is neither known nor queued.
SkipsDelete(k) == known[k] = {} /\ items[k] = <<>>

\* What the watch event from version rv to the next does to a key's items.
Watched(k) ==
    LET old == hist[rv][k]  new == hist[rv + 1][k] IN
    IF new = {} THEN IF SkipsDelete(k) THEN items[k]
                     ELSE Queued(items[k], [type |-> "Deleted", obj |-> old])
    ELSE Queued(items[k], [type |-> IF old = {} THEN "Added" ELSE "Updated", obj |-> new])

WatchEvent ==
    /\ rpc = "watch" /\ Unlocked /\ rv < Len(hist)
    /\ \E k \in Keys :
        /\ hist[rv][k] # hist[rv + 1][k]
        /\ items' = [items EXCEPT ![k] = Watched(k)] /\ raced' = raced \ {k}
    /\ Enqueued(items') /\ rv' = rv + 1
    /\ UNCHANGED <<hist, rpc, known, jobkey, job, call, closes>>

\* The watch ends with an error and ListAndWatch is started again.
WatchFails ==
    /\ rpc = "watch" /\ closes < MaxCloses /\ closes' = closes + 1
    /\ rpc' = "list"
    /\ UNCHANGED <<hist, rv, items, queue, known, jobkey, job, call, raced>>

----------------------------------------------------------------------------
(* The controller *)

Pop ==
    /\ Unlocked /\ queue # <<>>
    /\ jobkey' = {Head(queue)} /\ job' = items[Head(queue)]
    /\ items' = [items EXCEPT ![Head(queue)] = <<>>] /\ queue' = Tail(queue)
    /\ UNCHANGED <<hist, rpc, rv, known, call, raced, closes>>

\* The store is brought up to date and the handler is called.
Process ==
    /\ job # <<>> /\ call = {} /\ \A k \in jobkey : Head(job).obj # {}
    /\ \E k \in jobkey :
        IF Head(job).type = "Deleted"
        THEN known' = [known EXCEPT ![k] = {}] /\ call' = {<<"OnDelete", k>>}
        ELSE /\ known' = [known EXCEPT ![k] = Head(job).obj]
             /\ call' = {<<IF known[k] = {} THEN "OnAdd" ELSE "OnUpdate", k>>}
    /\ job' = Tail(job)
    /\ UNCHANGED <<hist, rpc, rv, items, queue, jobkey, raced, closes>>

\* A handler returns; after the last delta, so does Pop.
HandlerReturns ==
    /\ call # {} /\ call' = {} /\ jobkey' = IF job = <<>> THEN {} ELSE jobkey
    /\ UNCHANGED <<hist, rpc, rv, items, queue, known, job, raced, closes>>

\* A process that ends, and the next one.
ProcessEnds ==
    /\ rpc' = "list" /\ items' = [k \in Keys |-> <<>>] /\ queue' = <<>>
    /\ known' = [k \in Keys |-> {}] /\ jobkey' = {} /\ job' = <<>> /\ call' = {} /\ raced' = {}
    /\ UNCHANGED <<hist, rv>>

\* DeleteFunc asserts the type of the object, which panics for a
\* DeletedFinalStateUnknown.
HandlerPanics ==
    /\ job # <<>> /\ call = {} /\ Head(job).obj = {}
    /\ ProcessEnds /\ UNCHANGED closes

Crash == closes < MaxCloses /\ closes' = closes + 1 /\ ProcessEnds

ReflectorNext == (\E i \in 1 .. Len(hist) : List(i)) \/ WatchEvent
ControllerNext == Pop \/ Process \/ HandlerReturns \/ HandlerPanics

Next ==
    \/ \E k \in Keys : CreateObject(k) \/ ModifyObject(k) \/ DeleteObject(k)
    \/ ReflectorNext \/ WatchFails \/ ControllerNext \/ Crash

Spec == Init /\ [][Next]_vars

\* Both goroutines run; strong fairness for the reflector, which waits for a
\* lock.  That handlers return and the API server answers is an assumption
\* about what they call: nothing in the agent bounds the time a request takes.
FairSpec == Spec /\ WF_vars(ControllerNext) /\ SF_vars(ReflectorNext)

----------------------------------------------------------------------------
(* Properties *)

\* What the store will have of a key once the queue is processed.
Expected(k) ==
    LET ds == (IF k \in jobkey THEN job ELSE <<>>) \o items[k] IN
    IF ds = <<>> THEN known[k] ELSE IF WillBeDeleted(ds) THEN {} ELSE ds[Len(ds)].obj

\* The queue leads the store to what the reflector has seen of the API
\* server, through stale lists, repeated events and merged deltas; the only
\* exceptions are the two races between a list and a queue not yet empty.
QueueLeadsToAPI ==
    rpc = "watch" => \A k \in Keys \ raced : Expected(k) = hist[rv][k]

\* The queue has exactly the keys that have items, once each: none is
\* processed without deltas or left behind.
QueueHasItems ==
    /\ \A k \in Keys : items[k] # <<>> <=> \E i \in 1 .. Len(queue) : queue[i] = k
    /\ \A i, j \in 1 .. Len(queue) : queue[i] = queue[j] => i = j

\* Handlers are called one at a time and in an order that makes sense for
\* each object, whatever the API server and the watches do.
Calls == INSTANCE HandlerCalls WITH view <- known
CallsSpec == Calls!Spec

\* When the cluster comes to rest the agent knows what exists, unless a list
\* came at a bad time and nothing happened to the object since.
CatchesUp == <>[](\A k \in Keys \ raced : known[k] = Current[k])
=============================================================================
