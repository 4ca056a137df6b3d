--------------------------- MODULE InformerProofs ---------------------------
(***************************************************************************)
(* Theorems about Informer, for any finite set of objects and any number   *)
(* of changes, failing watches and crashes: the queue of the DeltaFIFO has *)
(* exactly the keys with items, the queue leads the store to what the      *)
(* reflector has seen, and the informer implements HandlerCalls.           *)
(***************************************************************************)
EXTENDS Informer, FiniteSetTheorems, SequenceTheorems, TLAPS

----------------------------------------------------------------------------
(* The inductive invariant *)

\* At most one object.
Single(o) == o = {} \/ \E x \in Obj : o = {x}

\* Changes are made one key at a time.
HistoryRight ==
    /\ \A i \in 1 .. Len(hist) : \A k \in Keys : Single(hist[i][k])
    /\ \A i \in 1 .. (Len(hist) - 1) :
        \E k \in Keys : \A j \in Keys : j # k => hist[i + 1][j] = hist[i][j]

\* Pop holds the lock from the first delta of a key to the return of its last
\* handler, so nothing is queued for the key meanwhile.
JobRight ==
    /\ \A k, j \in jobkey : k = j
    /\ \A k \in jobkey : items[k] = <<>>
    /\ jobkey = {} => job = <<>> /\ call = {}

\* Deltas in an order that makes sense for an object of which the store has
\* kn: a deletion comes neither first for an object the store does not have
\* nor right behind another deletion; the other deltas have one object.
Sensible(ds, kn) ==
    \A i \in 1 .. Len(ds) :
        IF ds[i].type = "Deleted"
        THEN (i = 1 => kn # {}) /\ (i > 1 => ds[i - 1].type # "Deleted")
        ELSE \E x \in Obj : ds[i].obj = {x}

\* The deltas of a key that the store does not show yet.
Pending(k) == IF k \in jobkey THEN job ELSE items[k]

DeltasRight == \A k \in Keys : Single(known[k]) /\ Sensible(Pending(k), known[k])

IInv == TypeOK /\ HistoryRight /\ JobRight /\ DeltasRight /\ QueueHasItems /\ QueueLeadsToAPI

----------------------------------------------------------------------------
(* Sequences of deltas *)

\* What appending a delta does.
LEMMA AppendedDelta ==
    ASSUME NEW ds \in Deltas, NEW d \in Delta
    PROVE  /\ Append(ds, d) \in Deltas /\ Len(ds) \in Nat /\ Len(Append(ds, d)) = Len(ds) + 1
           /\ Append(ds, d) # <<>> /\ Append(ds, d)[Len(ds) + 1] = d
           /\ \A i \in 1 .. Len(ds) : Append(ds, d)[i] = ds[i]
           /\ WillBeDeleted(Append(ds, d)) <=> d.type = "Deleted"
<1>1. /\ Append(ds, d) \in Deltas /\ Len(ds) \in Nat /\ Len(Append(ds, d)) = Len(ds) + 1
      /\ Append(ds, d)[Len(ds) + 1] = d /\ \A i \in 1 .. Len(ds) : Append(ds, d)[i] = ds[i]
    BY DEF Deltas
<1>2. Append(ds, d) # <<>>
    BY AppendProperties DEF Deltas
<1> QED BY <1>1, <1>2 DEF WillBeDeleted

\* queueActionLocked: a Sync behind a deletion is dropped, two deletions in a
\* row are made one, everything else is appended.
LEMMA QueuedIs ==
    ASSUME NEW ds \in Deltas, NEW d \in Delta
    PROVE  /\ d.type = "Sync" /\ WillBeDeleted(ds) => Queued(ds, d) = ds
           /\ d.type # "Sync" \/ ~WillBeDeleted(ds) => Queued(ds, d) = Deduped(Append(ds, d))
           /\ d.type # "Deleted" \/ ~WillBeDeleted(ds) => Deduped(Append(ds, d)) = Append(ds, d)
<1>1. /\ d.type = "Sync" /\ WillBeDeleted(ds) => Queued(ds, d) = ds
      /\ d.type # "Sync" \/ ~WillBeDeleted(ds) => Queued(ds, d) = Deduped(Append(ds, d))
    BY DEF Queued
<1>2. ASSUME d.type # "Deleted" \/ ~WillBeDeleted(ds)
      PROVE  Deduped(Append(ds, d)) = Append(ds, d)
    <2> DEFINE a == Append(ds, d)
    <2>1. Len(a) = Len(ds) + 1 /\ Len(ds) \in Nat /\ a[Len(a)] = d /\ \A i \in 1 .. Len(ds) : a[i] = ds[i]
        BY AppendedDelta
    <2>2. CASE ds = <<>>
        <3>1. Len(a) = 1
            BY <2>2
        <3> QED BY <3>1 DEF Deduped
    <2>3. CASE ds # <<>>
        <3>1. Len(ds) \in 1 .. Len(ds)
            BY <2>1, <2>3 DEF Deltas
        <3>2. a[Len(a) - 1] = ds[Len(ds)]
            BY <2>1, <3>1
        <3>3. a[Len(a)].type # "Deleted" \/ a[Len(a) - 1].type # "Deleted"
            BY <1>2, <2>1, <2>3, <3>2 DEF WillBeDeleted
        <3> HIDE DEF a
        <3> QED BY <3>3 DEF Deduped, a
    <2> QED BY <2>2, <2>3
<1> QED BY <1>1, <1>2

\* Two deletions in a row become one, in the place of the first.
LEMMA DeletedTwice ==
    ASSUME NEW ds \in Deltas, NEW d \in Delta, d.type = "Deleted", WillBeDeleted(ds)
    PROVE  /\ Queued(ds, d) \in Deltas /\ Len(Queued(ds, d)) = Len(ds) /\ Len(ds) \in Nat \ {0}
           /\ Queued(ds, d)[Len(ds)].type = "Deleted"
           /\ \A i \in 1 .. (Len(ds) - 1) : Queued(ds, d)[i] = ds[i]
<1> DEFINE a == Append(ds, d)
           n == Len(a)
           x == IF a[n - 1].obj = {} THEN a[n] ELSE a[n - 1]
           b == SubSeq(a, 1, n - 2)
<1>1. /\ a \in Deltas /\ n = Len(ds) + 1 /\ Len(ds) \in Nat \ {0} /\ a[n] = d
      /\ \A i \in 1 .. Len(ds) : a[i] = ds[i]
    <2>1. Len(ds) # 0
        BY DEF WillBeDeleted, Deltas
    <2> QED BY <2>1, AppendedDelta
<1>2. a[n - 1] = ds[Len(ds)] /\ ds[Len(ds)] \in Delta /\ ds[Len(ds)].type = "Deleted"
    BY <1>1 DEF Deltas, WillBeDeleted
<1>3. Queued(ds, d) = Append(b, x)
    <2>1. Queued(ds, d) = Deduped(a)
        BY QueuedIs
    <2>2. n >= 2 /\ a[n].type = "Deleted" /\ a[n - 1].type = "Deleted"
        BY <1>1, <1>2
    <2> HIDE DEF a
    <2> QED BY <2>1, <2>2 DEF Deduped
<1>4. x \in Delta /\ x.type = "Deleted"
    BY <1>1, <1>2
<1>5. b \in Deltas /\ Len(b) = Len(ds) - 1 /\ \A i \in 1 .. (Len(ds) - 1) : b[i] = ds[i]
    <2> HIDE DEF a
    <2>1. n - 2 \in Nat /\ n - 2 <= Len(a)
        BY <1>1
    <2>2. b \in Deltas /\ Len(b) = n - 2 /\ \A i \in 1 .. (n - 2) : b[i] = a[i]
        <3>1. \A i \in 1 .. (n - 2) : a[i] \in Delta
            BY <1>1, <2>1 DEF Deltas
        <3>2. /\ SubSeq(a, 1, n - 2) \in Seq(Delta)
              /\ Len(SubSeq(a, 1, n - 2)) = IF 1 <= n - 2 THEN n - 2 - 1 + 1 ELSE 0
              /\ \A i \in 1 .. n - 2 - 1 + 1 : SubSeq(a, 1, n - 2)[i] = a[1 + i - 1]
            BY <2>1, <3>1, SubSeqProperties
        <3> HIDE DEF n
        <3> QED BY <2>1, <3>2 DEF Deltas
    <2> QED BY <1>1, <2>2
<1> HIDE DEF a, n, x, b
<1>6. /\ Append(b, x) \in Deltas /\ Len(Append(b, x)) = Len(b) + 1 /\ Append(b, x)[Len(b) + 1] = x
      /\ \A i \in 1 .. Len(b) : Append(b, x)[i] = b[i]
    BY <1>4, <1>5, AppendedDelta
<1>7. Len(b) + 1 = Len(ds)
    BY <1>1, <1>5
<1> QED BY <1>1, <1>3, <1>4, <1>5, <1>6, <1>7

\* What can be said of queued deltas without looking inside.
LEMMA QueuedFacts ==
    ASSUME NEW ds \in Deltas, NEW d \in Delta
    PROVE  /\ Queued(ds, d) \in Deltas /\ Queued(ds, d) # <<>>
           /\ d.type = "Deleted" => WillBeDeleted(Queued(ds, d))
           /\ d.type # "Deleted" /\ (d.type = "Sync" => ~WillBeDeleted(ds)) =>
                ~WillBeDeleted(Queued(ds, d)) /\ Queued(ds, d)[Len(Queued(ds, d))] = d
<1>1. CASE d.type = "Sync" /\ WillBeDeleted(ds)
    BY <1>1, QueuedIs DEF WillBeDeleted
<1>2. CASE d.type = "Deleted" /\ WillBeDeleted(ds)
    <2>1. Queued(ds, d) # <<>>
        BY <1>2, DeletedTwice DEF Deltas
    <2> QED BY <1>2, <2>1, DeletedTwice DEF WillBeDeleted
<1>3. CASE ~WillBeDeleted(ds) \/ d.type \notin {"Sync", "Deleted"}
    <2>1. Queued(ds, d) = Append(ds, d)
        BY <1>3, QueuedIs
    <2> QED BY <2>1, AppendedDelta
<1> QED BY <1>1, <1>2, <1>3

\* Queueing keeps the order sensible.
LEMMA QueuedSensible ==
    ASSUME NEW ds \in Deltas, NEW d \in Delta, NEW kn, Sensible(ds, kn),
           d.type = "Deleted" => ds # <<>> \/ kn # {},
           d.type # "Deleted" => \E x \in Obj : d.obj = {x}
    PROVE  Sensible(Queued(ds, d), kn)
<1>1. CASE d.type = "Sync" /\ WillBeDeleted(ds)
    BY <1>1, QueuedIs
<1>2. CASE d.type = "Deleted" /\ WillBeDeleted(ds)
    <2> DEFINE q == Queued(ds, d)
    <2>1. /\ Len(q) = Len(ds) /\ Len(ds) \in Nat \ {0} /\ q[Len(ds)].type = "Deleted"
          /\ \A i \in 1 .. (Len(ds) - 1) : q[i] = ds[i]
        BY <1>2, DeletedTwice
    <2>2. ds[Len(ds)].type = "Deleted"
        BY <1>2 DEF WillBeDeleted
    <2> HIDE DEF q
    <2> SUFFICES ASSUME NEW i \in 1 .. Len(q)
                 PROVE  IF q[i].type = "Deleted"
                        THEN (i = 1 => kn # {}) /\ (i > 1 => q[i - 1].type # "Deleted")
                        ELSE \E x \in Obj : q[i].obj = {x}
        BY DEF Sensible, q
    <2>3. i \in 1 .. Len(ds) /\ (i > 1 => i - 1 \in 1 .. (Len(ds) - 1))
        BY <2>1
    <2>4. IF ds[i].type = "Deleted"
          THEN (i = 1 => kn # {}) /\ (i > 1 => ds[i - 1].type # "Deleted")
          ELSE \E x \in Obj : ds[i].obj = {x}
        BY <2>3 DEF Sensible
    <2>5. i > 1 => q[i - 1] = ds[i - 1]
        BY <2>1, <2>3
    <2>6. CASE i = Len(ds)
        BY <2>1, <2>2, <2>4, <2>5, <2>6
    <2>7. CASE i # Len(ds)
        <3>1. i \in 1 .. (Len(ds) - 1)
            BY <2>1, <2>3, <2>7
        <3>2. q[i] = ds[i]
            BY <2>1, <3>1
        <3> QED BY <2>4, <2>5, <3>2
    <2> QED BY <2>6, <2>7
<1>3. CASE ~WillBeDeleted(ds) \/ d.type \notin {"Sync", "Deleted"}
    <2> DEFINE q == Append(ds, d)
    <2>1. Queued(ds, d) = q
        BY <1>3, QueuedIs
    <2>2. Len(q) = Len(ds) + 1 /\ Len(ds) \in Nat /\ q[Len(ds) + 1] = d /\ \A i \in 1 .. Len(ds) : q[i] = ds[i]
        BY AppendedDelta
    <2>3. d.type = "Deleted" /\ ds # <<>> => ds[Len(ds)].type # "Deleted"
        BY <1>3 DEF WillBeDeleted
    <2>4. ds # <<>> <=> Len(ds) > 0
        BY DEF Deltas
    <2> HIDE DEF q
    <2> SUFFICES ASSUME NEW i \in 1 .. Len(q)
                 PROVE  IF q[i].type = "Deleted"
                        THEN (i = 1 => kn # {}) /\ (i > 1 => q[i - 1].type # "Deleted")
                        ELSE \E x \in Obj : q[i].obj = {x}
        BY <2>1 DEF Sensible
    <2>5. CASE i = Len(ds) + 1
        <3>1. i > 1 => q[i - 1] = ds[Len(ds)]
            BY <2>2, <2>5
        <3> QED BY <2>2, <2>3, <2>4, <2>5, <3>1
    <2>6. CASE i # Len(ds) + 1
        <3>1. i \in 1 .. Len(ds) /\ (i > 1 => i - 1 \in 1 .. Len(ds))
            BY <2>2, <2>6
        <3>2. q[i] = ds[i] /\ (i > 1 => q[i - 1] = ds[i - 1])
            BY <2>2, <3>1
        <3> QED BY <3>1, <3>2 DEF Sensible
    <2> QED BY <2>5, <2>6
<1> QED BY <1>1, <1>2, <1>3

\* So does processing the first of them.
LEMMA TailSensible ==
    ASSUME NEW ds \in Deltas, ds # <<>>, NEW kn, Sensible(ds, kn)
    PROVE  /\ Head(ds) \in Delta /\ Tail(ds) \in Deltas
           /\ Head(ds).type = "Deleted" => kn # {} /\ Sensible(Tail(ds), {})
           /\ Head(ds).type # "Deleted" =>
                (\E x \in Obj : Head(ds).obj = {x}) /\ Sensible(Tail(ds), Head(ds).obj)
<1> DEFINE t == Tail(ds)
<1>1. /\ Len(ds) \in Nat \ {0} /\ Head(ds) = ds[1] /\ Head(ds) \in Delta /\ t \in Deltas
      /\ Len(t) = Len(ds) - 1 /\ \A i \in 1 .. Len(t) : t[i] = ds[i + 1]
    BY DEF Deltas
<1>2. 1 \in 1 .. Len(ds)
    BY <1>1
<1>3. IF ds[1].type = "Deleted" THEN kn # {} ELSE \E x \in Obj : ds[1].obj = {x}
    BY <1>2 DEF Sensible
<1> HIDE DEF t
<1>4. ASSUME NEW kn2, ds[1].type # "Deleted" => kn2 # {}
      PROVE  Sensible(t, kn2)
    <2> SUFFICES ASSUME NEW i \in 1 .. Len(t)
                 PROVE  IF t[i].type = "Deleted"
                        THEN (i = 1 => kn2 # {}) /\ (i > 1 => t[i - 1].type # "Deleted")
                        ELSE \E x \in Obj : t[i].obj = {x}
        BY DEF Sensible
    <2>1. i + 1 \in 1 .. Len(ds) /\ i + 1 > 1 /\ (i + 1) - 1 = i /\ (i > 1 => i - 1 \in 1 .. Len(t) /\ (i - 1) + 1 = i)
        BY <1>1
    <2>2. t[i] = ds[i + 1] /\ (i > 1 => t[i - 1] = ds[i])
        BY <1>1, <2>1
    <2>3. IF ds[i + 1].type = "Deleted" THEN ds[i].type # "Deleted" ELSE \E x \in Obj : ds[i + 1].obj = {x}
        BY <2>1 DEF Sensible
    <2> QED BY <1>4, <2>2, <2>3
<1> QED BY <1>1, <1>3, <1>4 DEF t

----------------------------------------------------------------------------
(* The parts of the invariant, in terms of pending deltas *)

\* What the store has of a key after the deltas ds.
Ahead(ds, kn) == IF ds = <<>> THEN kn ELSE IF WillBeDeleted(ds) THEN {} ELSE ds[Len(ds)].obj

PendingNext(k) == IF k \in jobkey' THEN job' ELSE items'[k]

\* Nothing is queued for the key of the job, so its deltas are all there are.
LEMMA OneSource ==
    ASSUME NEW jb \in Deltas, NEW it \in Deltas, NEW B \in BOOLEAN, B => it = <<>>
    PROVE  (IF B THEN jb ELSE <<>>) \o it = IF B THEN jb ELSE it
BY ConcatEmptySeq DEF Deltas

\* Expected, said with the pending deltas.
LEMMA ExpectedIs ==
    ASSUME TypeOK, JobRight, NEW k \in Keys
    PROVE  Expected(k) = Ahead(Pending(k), known[k])
<1>1. (IF k \in jobkey THEN job ELSE <<>>) \o items[k] = Pending(k)
    BY OneSource DEF TypeOK, JobRight, Pending
<1> QED BY <1>1 DEF Expected, Ahead

\* The same in the next state: what a step has to show for QueueLeadsToAPI.
LEMMA LeadsNext ==
    ASSUME TypeOK', JobRight',
           rpc' = "watch" => \A k \in Keys \ raced' : Ahead(PendingNext(k), known'[k]) = hist'[rv'][k]
    PROVE  QueueLeadsToAPI'
<1> SUFFICES ASSUME rpc' = "watch", NEW k \in Keys \ raced'
             PROVE  Expected(k)' = hist'[rv'][k]
    BY DEF QueueLeadsToAPI
<1>1. (IF k \in jobkey' THEN job' ELSE <<>>) \o items'[k] = PendingNext(k)
    BY OneSource DEF TypeOK, JobRight, PendingNext
<1>2. Expected(k)' = Ahead(PendingNext(k), known'[k])
    BY <1>1 DEF Expected, Ahead, WillBeDeleted
<1> QED BY <1>2

\* What a step has to show for DeltasRight.
LEMMA DeltasNext ==
    ASSUME \A k \in Keys : Single(known'[k]) /\ Sensible(PendingNext(k), known'[k])
    PROVE  DeltasRight'
BY DEF DeltasRight, Pending, PendingNext, Single, Sensible

\* A function from 1 .. Cardinality(T) onto T is a list of T without repetition.
LEMMA Enumerated ==
    ASSUME NEW T, IsFiniteSet(T), NEW n \in Nat, n = Cardinality(T),
           NEW s \in [1 .. n -> T], \A t \in T : \E i \in 1 .. n : s[i] = t
    PROVE  \A i, j \in 1 .. n : s[i] = s[j] => i = j
<1>1. s \in Surjection(1 .. n, T)
    BY DEF Surjection
<1>2. IsFiniteSet(1 .. n) /\ Cardinality(1 .. n) = n
    <2>1. 1 \in Int /\ n \in Int
        OBVIOUS
    <2>2. IsFiniteSet(1 .. n) /\ Cardinality(1 .. n) = IF 1 > n THEN 0 ELSE n - 1 + 1
        BY <2>1, FS_Interval, Zenon
    <2> QED BY <2>2
<1>3. s \in Injection(1 .. n, T)
    BY <1>1, <1>2, FS_Surjection
<1> QED BY <1>3 DEF Injection, IsInjective

\* New keys go to the end of the queue, once each.
LEMMA EnqueuedRight ==
    ASSUME TypeOK, QueueHasItems, NEW new \in [Keys -> Deltas], items' = new, Enqueued(new),
           \A k \in Keys : items[k] # <<>> => new[k] # <<>>
    PROVE  queue' \in KeyQueue /\ QueueHasItems'
<1> DEFINE ks == {k \in Keys : items[k] = <<>> /\ new[k] # <<>>}
           n == Cardinality(ks)
<1>1. PICK s \in [1 .. n -> ks] : ks = {s[i] : i \in DOMAIN s} /\ queue' = queue \o s
    BY DEF Enqueued
<1>2. n \in Nat /\ IsFiniteSet(ks) /\ n = Cardinality(ks)
    BY KeysAssumption, FS_Subset, FS_CardinalityType
<1>3. queue \in Seq(Keys) /\ ks \in SUBSET Keys
    BY DEF TypeOK, KeyQueue
<1> HIDE DEF n, ks
<1>4. \A i, j \in 1 .. n : s[i] = s[j] => i = j
    <2>1. s \in [1 .. n -> ks]
        OBVIOUS
    <2>2. \A t \in ks : \E i \in 1 .. n : s[i] = t
        BY <1>1, <2>1
    <2> QED BY <1>2, <2>1, <2>2, Enumerated
<1>5. /\ queue' \in Seq(Keys) /\ Len(queue) \in Nat /\ Len(queue') = Len(queue) + n
      /\ \A i \in 1 .. Len(queue) + n : queue'[i] = IF i <= Len(queue) THEN queue[i] ELSE s[i - Len(queue)]
    <2>1. s \in Seq(Keys) /\ Len(s) = n /\ Len(queue) \in Nat
        BY <1>2, <1>3
    <2>2. /\ queue \o s \in Seq(Keys) /\ Len(queue \o s) = Len(queue) + Len(s)
          /\ \A i \in 1 .. Len(queue) + Len(s) : (queue \o s)[i] = IF i <= Len(queue) THEN queue[i] ELSE s[i - Len(queue)]
        BY <1>3, <2>1, ConcatProperties, Zenon
    <2> QED BY <1>1, <2>1, <2>2, Zenon
<1> USE DEF ks
<1>6. \A k \in Keys : new[k] # <<>> <=> \E i \in 1 .. Len(queue') : queue'[i] = k
    <2> SUFFICES ASSUME NEW k \in Keys
                 PROVE  new[k] # <<>> <=> \E i \in 1 .. Len(queue') : queue'[i] = k
        OBVIOUS
    <2>1. ASSUME items[k] # <<>>
          PROVE  \E i \in 1 .. Len(queue') : queue'[i] = k
        <3>1. PICK i \in 1 .. Len(queue) : queue[i] = k
            BY <2>1 DEF QueueHasItems
        <3>2. i \in 1 .. Len(queue) + n /\ i <= Len(queue)
            BY <1>2, <1>5
        <3> QED BY <1>5, <3>1, <3>2
    <2>2. ASSUME k \in ks
          PROVE  \E i \in 1 .. Len(queue') : queue'[i] = k
        <3>1. PICK i \in 1 .. n : s[i] = k
            BY <1>1, <2>2
        <3>2. Len(queue) + i \in 1 .. Len(queue) + n /\ ~(Len(queue) + i <= Len(queue)) /\ (Len(queue) + i) - Len(queue) = i
            BY <1>2, <1>5
        <3> QED BY <1>5, <3>1, <3>2
    <2>3. ASSUME NEW i \in 1 .. Len(queue'), queue'[i] = k
          PROVE  new[k] # <<>>
        <3>1. CASE i <= Len(queue)
            <4>1. i \in 1 .. Len(queue) /\ queue[i] = k
                BY <1>2, <1>5, <2>3, <3>1
            <4> QED BY <4>1 DEF QueueHasItems
        <3>2. CASE ~(i <= Len(queue))
            <4>1. i - Len(queue) \in 1 .. n /\ s[i - Len(queue)] = k
                BY <1>2, <1>5, <2>3, <3>2
            <4> QED BY <1>1, <4>1
        <3> QED BY <3>1, <3>2
    <2> QED BY <2>1, <2>2, <2>3
<1>7. ASSUME NEW i \in 1 .. Len(queue'), NEW j \in 1 .. Len(queue'), queue'[i] = queue'[j]
      PROVE  i = j
    <2>1. ASSUME NEW a \in 1 .. Len(queue'), NEW b \in 1 .. Len(queue'), a <= Len(queue), ~(b <= Len(queue))
          PROVE  queue'[a] # queue'[b]
        <3>1. a \in 1 .. Len(queue) /\ queue'[a] = queue[a]
            BY <1>2, <1>5, <2>1
        <3>2. b - Len(queue) \in 1 .. n /\ queue'[b] = s[b - Len(queue)]
            BY <1>2, <1>5, <2>1
        <3>3. queue[a] \in Keys /\ items[queue[a]] # <<>>
            BY <3>1 DEF QueueHasItems, TypeOK, KeyQueue
        <3>4. s[b - Len(queue)] \in ks
            BY <1>1, <3>2
        <3> QED BY <3>1, <3>2, <3>3, <3>4
    <2>2. CASE i <= Len(queue) /\ j <= Len(queue)
        <3>1. i \in 1 .. Len(queue) /\ j \in 1 .. Len(queue) /\ queue[i] = queue[j]
            BY <1>2, <1>5, <1>7, <2>2
        <3> QED BY <3>1 DEF QueueHasItems
    <2>3. CASE ~(i <= Len(queue)) /\ ~(j <= Len(queue))
        <3>1. i - Len(queue) \in 1 .. n /\ j - Len(queue) \in 1 .. n /\ s[i - Len(queue)] = s[j - Len(queue)]
            BY <1>2, <1>5, <1>7, <2>3
        <3>2. i - Len(queue) = j - Len(queue)
            BY <1>4, <3>1
        <3> QED BY <1>5, <3>2
    <2> QED BY <1>7, <2>1, <2>2, <2>3
<1> QED BY <1>5, <1>6, <1>7 DEF QueueHasItems, KeyQueue

----------------------------------------------------------------------------
(* The steps of the API server *)

\* The initial state.
LEMMA InitIInv == Init => IInv
<1> SUFFICES ASSUME Init PROVE IInv
    OBVIOUS
<1> DEFINE none == [k \in Keys |-> {}]
<1>1. none \in [Keys -> SUBSET Obj] /\ hist = <<none>> /\ hist \in History /\ Len(hist) = 1 /\ hist[1] = none
    BY DEF Init, History
<1>2. TypeOK
    <2>1. <<>> \in Deltas /\ <<>> \in KeyQueue
        BY DEF Deltas, KeyQueue
    <2> QED BY <1>1, <2>1, BoundAssumption DEF Init, TypeOK
<1>3. HistoryRight
    BY <1>1 DEF HistoryRight, Single
<1>4. JobRight
    BY DEF Init, JobRight
<1>5. DeltasRight
    <2>1. Len(<<>>) = 0
        OBVIOUS
    <2>2. \A k \in Keys : Pending(k) = <<>> /\ known[k] = {}
        BY DEF Pending, Init
    <2> QED BY <2>1, <2>2 DEF DeltasRight, Single, Sensible
<1>6. QueueHasItems
    BY DEF Init, QueueHasItems
<1>7. QueueLeadsToAPI
    BY DEF Init, QueueLeadsToAPI
<1> QED BY <1>2, <1>3, <1>4, <1>5, <1>6, <1>7 DEF IInv

\* A new state of the API server leaves the reflector and the queue where
\* they are.
LEMMA ChangeIInv ==
    ASSUME IInv, NEW k \in Keys, NEW o \in SUBSET Obj, Single(o), Change(k, o)
    PROVE  IInv'
<1> DEFINE n == Len(hist)
           c == [Current EXCEPT ![k] = o]
<1>1. n \in Nat \ {0} /\ hist \in Seq([Keys -> SUBSET Obj]) /\ rv \in 1 .. n
    BY DEF IInv, TypeOK, History
<1>2. Current = hist[n] /\ Current \in [Keys -> SUBSET Obj]
    BY <1>1 DEF Current
<1>3. c \in [Keys -> SUBSET Obj] /\ c[k] = o /\ \A j \in Keys : j # k => c[j] = hist[n][j]
    BY <1>2
<1> HIDE DEF c
<1>4. hist' = Append(hist, c)
    BY DEF Change, c
<1>5. /\ hist' \in History /\ Len(hist') = n + 1 /\ hist'[n + 1] = c
      /\ \A i \in 1 .. n : hist'[i] = hist[i]
    BY <1>1, <1>3, <1>4 DEF History
<1> HIDE DEF n
<1>6. UNCHANGED <<rpc, rv, items, queue, known, jobkey, job, call, raced, closes>>
    BY DEF Change
<1>7. TypeOK'
    <2>1. rv \in 1 .. n + 1
        BY <1>1
    <2> QED BY <1>5, <1>6, <2>1 DEF IInv, TypeOK
<1>8. HistoryRight'
    <2>1. ASSUME NEW i \in 1 .. n + 1, NEW j \in Keys
          PROVE  Single(hist'[i][j])
        <3>1. CASE i = n + 1
            <4>1. j # k => Single(hist[n][j])
                BY <1>1 DEF IInv, HistoryRight, n
            <4> QED BY <1>3, <1>5, <3>1, <4>1
        <3>2. CASE i # n + 1
            <4>1. i \in 1 .. n
                BY <1>1, <3>2
            <4> QED BY <1>5, <4>1 DEF IInv, HistoryRight, n
        <3> QED BY <3>1, <3>2
    <2>2. ASSUME NEW i \in 1 .. (n + 1) - 1
          PROVE  \E kk \in Keys : \A j \in Keys : j # kk => hist'[i + 1][j] = hist'[i][j]
        <3>1. CASE i = n
            <4>1. hist'[n + 1] = c /\ hist'[n] = hist[n]
                BY <1>1, <1>5
            <4> QED BY <1>3, <3>1, <4>1
        <3>2. CASE i # n
            <4>1. i \in 1 .. (n - 1) /\ i \in 1 .. n /\ i + 1 \in 1 .. n
                BY <1>1, <3>2
            <4>2. hist'[i + 1] = hist[i + 1] /\ hist'[i] = hist[i]
                BY <1>5, <4>1
            <4> QED BY <4>1, <4>2 DEF IInv, HistoryRight, n
        <3> QED BY <3>1, <3>2
    <2> QED BY <1>5, <2>1, <2>2 DEF HistoryRight, Single
<1>9. JobRight' /\ DeltasRight' /\ QueueHasItems'
    BY <1>6 DEF IInv, JobRight, DeltasRight, Pending, QueueHasItems
<1>10. QueueLeadsToAPI'
    <2>1. hist'[rv] = hist[rv]
        BY <1>1, <1>5
    <2> QED BY <1>6, <2>1 DEF IInv, QueueLeadsToAPI, Expected
<1> QED BY <1>7, <1>8, <1>9, <1>10 DEF IInv

\* CreateObject, ModifyObject and DeleteObject change one key and leave it
\* with at most one object.
LEMMA ObjectIInv ==
    ASSUME IInv, NEW k \in Keys, CreateObject(k) \/ ModifyObject(k) \/ DeleteObject(k)
    PROVE  IInv'
<1>1. Len(hist) \in Nat \ {0} /\ Current \in [Keys -> SUBSET Obj]
    BY DEF IInv, TypeOK, History, Current
<1>2. ASSUME NEW o, Change(k, o)
      PROVE  Len(hist) + 1 \in Version
    BY <1>1, <1>2, BoundAssumption DEF Change, Version
<1>3. CASE CreateObject(k)
    <2> DEFINE v == Len(hist) + 1
               x == [born |-> v, rv |-> v]
    <2>1. Change(k, {x})
        BY <1>3 DEF CreateObject
    <2>2. x \in Obj
        BY <1>2, <2>1 DEF Obj
    <2> HIDE DEF x
    <2>3. {x} \in SUBSET Obj /\ Single({x})
        BY <2>2 DEF Single
    <2> QED BY <2>1, <2>3, ChangeIInv
<1>4. CASE ModifyObject(k)
    <2>1. PICK o \in Current[k] : Change(k, {[o EXCEPT !.rv = Len(hist) + 1]})
        BY <1>4 DEF ModifyObject
    <2> DEFINE x == [o EXCEPT !.rv = Len(hist) + 1]
    <2>2. x \in Obj
        BY <1>1, <1>2, <2>1 DEF Obj
    <2> HIDE DEF x
    <2>3. {x} \in SUBSET Obj /\ Single({x})
        BY <2>2 DEF Single
    <2> QED BY <2>1, <2>3, ChangeIInv DEF x
<1>5. CASE DeleteObject(k)
    BY <1>5, ChangeIInv DEF DeleteObject, Single
<1> QED BY <1>3, <1>4, <1>5

----------------------------------------------------------------------------
(* The steps of the reflector *)

\* What a list or a watch event has to show for the deltas of every key: they
\* stay, in a sensible order, and lead to what was seen.  The queue follows.
LEMMA ReflectorStep ==
    ASSUME IInv, Unlocked, NEW new \in [Keys -> Deltas], items' = new, Enqueued(new),
           rv' \in 1 .. Len(hist), rpc' = "watch", raced' \subseteq Keys,
           UNCHANGED <<hist, known, jobkey, job, call, closes>>,
           \A k \in Keys : /\ items[k] # <<>> => new[k] # <<>>
                           /\ Sensible(new[k], known[k])
                           /\ k \notin raced' => Ahead(new[k], known[k]) = hist[rv'][k]
    PROVE  IInv'
<1>1. queue' \in KeyQueue /\ QueueHasItems'
    BY EnqueuedRight DEF IInv
<1>2. TypeOK'
    BY <1>1 DEF IInv, TypeOK
<1>3. HistoryRight'
    BY DEF IInv, HistoryRight
<1>4. JobRight'
    BY DEF IInv, JobRight, Unlocked
<1>5. \A k \in Keys : PendingNext(k) = new[k]
    BY DEF PendingNext, Unlocked
<1>6. DeltasRight'
    BY <1>5, DeltasNext DEF IInv, DeltasRight
<1>7. QueueLeadsToAPI'
    BY <1>2, <1>4, <1>5, LeadsNext
<1> QED BY <1>1, <1>2, <1>3, <1>4, <1>6, <1>7 DEF IInv

\* With the lock free the pending deltas of a key are its items.
LEMMA FreePending ==
    ASSUME IInv, Unlocked, NEW k \in Keys
    PROVE  /\ items[k] \in Deltas /\ known[k] \in SUBSET Obj /\ Sensible(items[k], known[k])
           /\ Expected(k) = Ahead(items[k], known[k])
<1>1. Pending(k) = items[k]
    BY DEF Pending, Unlocked
<1> QED BY <1>1, ExpectedIs DEF IInv, TypeOK, DeltasRight

\* Replace leads every key to what is in the list, but for the two races.
LEMMA ListIInv ==
    ASSUME IInv, NEW i \in 1 .. Len(hist), List(i)
    PROVE  IInv'
<1> DEFINE list == hist[i]
           new == Replaced(list)
<1>1. list \in [Keys -> SUBSET Obj] /\ \A k \in Keys : Single(list[k])
    BY DEF IInv, TypeOK, History, HistoryRight
<1>2. ASSUME NEW k \in Keys
      PROVE  /\ new[k] \in Deltas
             /\ items[k] # <<>> => new[k] # <<>>
             /\ Sensible(new[k], known[k])
             /\ k \notin RacedBy(list) => Ahead(new[k], known[k]) = list[k]
    <2>1. items[k] \in Deltas /\ Sensible(items[k], known[k])
        BY FreePending DEF List
    <2>2. CASE list[k] # {}
        <3> DEFINE d == [type |-> "Sync", obj |-> list[k]]
        <3>1. new[k] = Queued(items[k], d)
            BY <2>2 DEF Replaced
        <3>2. d \in Delta /\ d.type = "Sync" /\ d.obj = list[k] /\ \E x \in Obj : d.obj = {x}
            BY <1>1, <2>2 DEF Delta, Single
        <3> HIDE DEF d
        <3>3. Sensible(new[k], known[k])
            BY <2>1, <3>1, <3>2, QueuedSensible
        <3>4. k \notin RacedBy(list) => ~WillBeDeleted(items[k])
            BY <2>2 DEF RacedBy
        <3> QED BY <2>1, <3>1, <3>2, <3>3, <3>4, QueuedFacts DEF Ahead
    <2>3. CASE list[k] = {} /\ known[k] # {}
        <3> DEFINE d == [type |-> "Deleted", obj |-> {}]
        <3>1. new[k] = Queued(items[k], d)
            BY <2>3 DEF Replaced
        <3>2. d \in Delta /\ d.type = "Deleted"
            BY DEF Delta
        <3> HIDE DEF d
        <3>3. Sensible(new[k], known[k])
            BY <2>1, <2>3, <3>1, <3>2, QueuedSensible
        <3> QED BY <2>1, <2>3, <3>1, <3>2, <3>3, QueuedFacts DEF Ahead
    <2>4. CASE list[k] = {} /\ known[k] = {}
        <3>1. new[k] = items[k]
            BY <2>4 DEF Replaced
        <3>2. k \notin RacedBy(list) => items[k] = <<>> \/ WillBeDeleted(items[k])
            BY <2>4 DEF RacedBy
        <3> QED BY <2>1, <2>4, <3>1, <3>2 DEF Ahead
    <2> QED BY <2>2, <2>3, <2>4
<1>3. new \in [Keys -> Deltas]
    <2>1. new = [k \in Keys |-> new[k]]
        BY DEF Replaced
    <2> HIDE DEF new
    <2> QED BY <1>2, <2>1
<1>4. /\ Unlocked /\ items' = new /\ Enqueued(new) /\ raced' = RacedBy(list) /\ rv' = i /\ rpc' = "watch"
      /\ UNCHANGED <<hist, known, jobkey, job, call, closes>>
    BY DEF List, WatchFrom
<1>5. raced' \subseteq Keys
    BY <1>4 DEF RacedBy
<1> HIDE DEF new
<1> QED BY <1>2, <1>3, <1>4, <1>5, ReflectorStep

\* A watch event moves one key to the next state of the API server.
LEMMA WatchEventIInv == ASSUME IInv, WatchEvent PROVE IInv'
<1>1. PICK k \in Keys : /\ hist[rv][k] # hist[rv + 1][k]
                        /\ items' = [items EXCEPT ![k] = Watched(k)] /\ raced' = raced \ {k}
    BY DEF WatchEvent
<1>2. /\ rpc = "watch" /\ Unlocked /\ rv < Len(hist) /\ Enqueued(items') /\ rv' = rv + 1
      /\ UNCHANGED <<hist, rpc, known, jobkey, job, call, closes>>
    BY DEF WatchEvent
<1>3. rv \in 1 .. Len(hist) /\ rv + 1 \in 1 .. Len(hist) /\ rv \in 1 .. (Len(hist) - 1)
    BY <1>2 DEF IInv, TypeOK, History
<1>4. \A j \in Keys : j # k => hist[rv + 1][j] = hist[rv][j]
    <2>1. PICK kk \in Keys : \A j \in Keys : j # kk => hist[rv + 1][j] = hist[rv][j]
        BY <1>3 DEF IInv, HistoryRight
    <2> QED BY <1>1, <2>1
<1> DEFINE old == hist[rv][k]
           seen == hist[rv + 1][k]
<1>5. old \in SUBSET Obj /\ seen \in SUBSET Obj /\ Single(seen)
    BY <1>3 DEF IInv, TypeOK, History, HistoryRight
<1> HIDE DEF old, seen
<1>6. /\ Watched(k) \in Deltas
      /\ items[k] # <<>> => Watched(k) # <<>>
      /\ Sensible(Watched(k), known[k])
      /\ Ahead(Watched(k), known[k]) = seen
    <2>1. items[k] \in Deltas /\ Sensible(items[k], known[k])
        BY <1>2, FreePending
    <2>2. CASE seen = {} /\ SkipsDelete(k)
        <3>1. Watched(k) = items[k]
            BY <2>2 DEF Watched, seen
        <3> QED BY <2>1, <2>2, <3>1 DEF Ahead, SkipsDelete
    <2>3. CASE seen = {} /\ ~SkipsDelete(k)
        <3> DEFINE d == [type |-> "Deleted", obj |-> old]
        <3>1. Watched(k) = Queued(items[k], d)
            BY <2>3 DEF Watched, seen, old
        <3>2. d \in Delta /\ d.type = "Deleted"
            BY <1>5 DEF Delta
        <3>3. items[k] # <<>> \/ known[k] # {}
            BY <2>3 DEF SkipsDelete
        <3> HIDE DEF d
        <3>4. Sensible(Watched(k), known[k])
            BY <2>1, <3>1, <3>2, <3>3, QueuedSensible
        <3> QED BY <2>1, <2>3, <3>1, <3>2, <3>4, QueuedFacts DEF Ahead
    <2>4. CASE seen # {}
        <3> DEFINE d == [type |-> IF old = {} THEN "Added" ELSE "Updated", obj |-> seen]
        <3>1. Watched(k) = Queued(items[k], d)
            BY <2>4 DEF Watched, seen, old
        <3>2. d \in Delta /\ d.type \in {"Added", "Updated"} /\ d.obj = seen /\ \E x \in Obj : d.obj = {x}
            BY <1>5, <2>4 DEF Delta, Single
        <3> HIDE DEF d
        <3>3. Sensible(Watched(k), known[k])
            BY <2>1, <3>1, <3>2, QueuedSensible
        <3> QED BY <2>1, <3>1, <3>2, <3>3, QueuedFacts DEF Ahead
    <2> QED BY <2>2, <2>3, <2>4
<1>7. items' \in [Keys -> Deltas] /\ items'[k] = Watched(k) /\ \A j \in Keys : j # k => items'[j] = items[j]
    BY <1>1, <1>6 DEF IInv, TypeOK
<1>8. ASSUME NEW j \in Keys
      PROVE  /\ items[j] # <<>> => items'[j] # <<>>
             /\ Sensible(items'[j], known[j])
             /\ j \notin raced' => Ahead(items'[j], known[j]) = hist[rv'][j]
    <2>1. CASE j = k
        BY <1>2, <1>6, <1>7, <2>1 DEF seen
    <2>2. CASE j # k
        <3>1. j \notin raced' => Expected(j) = hist[rv][j]
            BY <1>1, <1>2, <2>2 DEF IInv, QueueLeadsToAPI
        <3> QED BY <1>2, <1>4, <1>7, <2>2, <3>1, FreePending
    <2> QED BY <2>1, <2>2
<1>9. raced' \subseteq Keys /\ rv' \in 1 .. Len(hist) /\ rpc' = "watch"
    BY <1>1, <1>2, <1>3 DEF IInv, TypeOK
<1> QED BY <1>2, <1>7, <1>8, <1>9, ReflectorStep

\* After an error of the watch nothing is promised until the next list.
LEMMA WatchFailsIInv == ASSUME IInv, WatchFails PROVE IInv'
<1>1. TypeOK'
    <2>1. closes' \in 0 .. MaxCloses
        BY BoundAssumption DEF IInv, TypeOK, WatchFails
    <2> QED BY <2>1 DEF IInv, TypeOK, WatchFails
<1>2. HistoryRight' /\ JobRight' /\ DeltasRight' /\ QueueHasItems'
    BY DEF IInv, WatchFails, HistoryRight, JobRight, DeltasRight, Pending, QueueHasItems
<1>3. QueueLeadsToAPI'
    BY DEF WatchFails, QueueLeadsToAPI
<1> QED BY <1>1, <1>2, <1>3 DEF IInv

----------------------------------------------------------------------------
(* The steps of the controller *)

\* Pop moves the items of the first key in the queue to the job.
LEMMA PopIInv == ASSUME IInv, Pop PROVE IInv'
<1> DEFINE h == Head(queue)
<1>1. /\ jobkey = {} /\ queue # <<>> /\ jobkey' = {h} /\ job' = items[h]
      /\ items' = [items EXCEPT ![h] = <<>>] /\ queue' = Tail(queue)
      /\ UNCHANGED <<hist, rpc, rv, known, call, raced, closes>>
    BY DEF Pop, Unlocked
<1>2. /\ Len(queue) \in Nat \ {0} /\ h = queue[1] /\ h \in Keys /\ queue' \in Seq(Keys)
      /\ Len(queue') = Len(queue) - 1 /\ \A i \in 1 .. Len(queue') : queue'[i] = queue[i + 1]
    BY <1>1 DEF IInv, TypeOK, KeyQueue
<1> HIDE DEF h
<1>3. items' \in [Keys -> Deltas] /\ items'[h] = <<>> /\ \A k \in Keys : k # h => items'[k] = items[k]
    <2>1. <<>> \in Deltas
        BY DEF Deltas
    <2> QED BY <1>1, <1>2, <2>1 DEF IInv, TypeOK
<1>4. TypeOK'
    BY <1>1, <1>2, <1>3 DEF IInv, TypeOK, KeyQueue
<1>5. HistoryRight'
    BY <1>1 DEF IInv, HistoryRight
<1>6. JobRight'
    BY <1>1, <1>3 DEF IInv, JobRight
<1>7. \A k \in Keys : PendingNext(k) = Pending(k)
    BY <1>1, <1>3 DEF PendingNext, Pending
<1>8. DeltasRight'
    BY <1>1, <1>7, DeltasNext DEF IInv, DeltasRight
<1>9. QueueLeadsToAPI'
    <2>1. rpc = "watch" => \A k \in Keys \ raced : Ahead(Pending(k), known[k]) = hist[rv][k]
        BY ExpectedIs DEF IInv, QueueLeadsToAPI
    <2> QED BY <1>1, <1>4, <1>6, <1>7, <2>1, LeadsNext
<1>10. QueueHasItems'
    <2>1. ASSUME NEW i \in 1 .. Len(queue')
          PROVE  i \in 1 .. Len(queue) /\ i + 1 \in 1 .. Len(queue) /\ i + 1 # 1 /\ queue'[i] = queue[i + 1]
        BY <1>2
    <2>2. 1 \in 1 .. Len(queue)
        BY <1>2
    <2>3. \A i \in 1 .. Len(queue') : queue'[i] # h
        BY <1>2, <2>1, <2>2 DEF IInv, QueueHasItems
    <2>4. ASSUME NEW k \in Keys, k # h
          PROVE  (\E i \in 1 .. Len(queue') : queue'[i] = k) <=> \E i \in 1 .. Len(queue) : queue[i] = k
        <3>1. ASSUME NEW i \in 1 .. Len(queue), queue[i] = k
              PROVE  \E j \in 1 .. Len(queue') : queue'[j] = k
            <4>1. i # 1
                BY <1>2, <2>4, <3>1
            <4>2. i - 1 \in 1 .. Len(queue') /\ (i - 1) + 1 = i
                BY <1>2, <4>1
            <4> QED BY <2>1, <3>1, <4>2
        <3> QED BY <2>1, <3>1
    <2>5. \A k \in Keys : items'[k] # <<>> <=> \E i \in 1 .. Len(queue') : queue'[i] = k
        BY <1>3, <2>3, <2>4 DEF IInv, QueueHasItems
    <2>6. ASSUME NEW i \in 1 .. Len(queue'), NEW j \in 1 .. Len(queue'), queue'[i] = queue'[j]
          PROVE  i = j
        <3>1. i + 1 = j + 1
            BY <2>1, <2>6 DEF IInv, QueueHasItems
        <3> QED BY <3>1, <1>2
    <2> QED BY <2>5, <2>6 DEF QueueHasItems
<1> QED BY <1>4, <1>5, <1>6, <1>8, <1>9, <1>10 DEF IInv

\* Processing the first delta brings the store one step closer.
LEMMA AheadTail ==
    ASSUME NEW ds \in Deltas, ds # <<>>, NEW kn
    PROVE  Ahead(Tail(ds), IF Head(ds).type = "Deleted" THEN {} ELSE Head(ds).obj) = Ahead(ds, kn)
<1> DEFINE t == Tail(ds)
<1>1. /\ Len(ds) \in Nat \ {0} /\ Head(ds) = ds[1] /\ t \in Deltas
      /\ Len(t) = Len(ds) - 1 /\ \A i \in 1 .. Len(t) : t[i] = ds[i + 1]
    BY DEF Deltas
<1> HIDE DEF t
<1>2. t = <<>> <=> Len(ds) = 1
    <2>1. t = <<>> <=> Len(t) = 0
        BY <1>1, EmptySeq DEF Deltas
    <2> QED BY <1>1, <2>1
<1>3. CASE Len(ds) = 1
    BY <1>1, <1>2, <1>3 DEF Ahead, WillBeDeleted, t
<1>4. CASE Len(ds) # 1
    <2>1. Len(t) \in 1 .. Len(t) /\ Len(t) + 1 = Len(ds)
        BY <1>1, <1>4
    <2>2. t[Len(t)] = ds[Len(ds)] /\ t # <<>>
        BY <1>1, <1>2, <1>4, <2>1
    <2> QED BY <2>2 DEF Ahead, WillBeDeleted, t
<1> QED BY <1>3, <1>4

\* The key of the job, and what the first delta does to the store.
LEMMA ProcessIs ==
    ASSUME IInv, Process
    PROVE  \E k \in jobkey :
             /\ k \in Keys /\ jobkey = {k} /\ Sensible(job, known[k]) /\ job \in Deltas /\ job # <<>>
             /\ known' = [known EXCEPT ![k] = IF Head(job).type = "Deleted" THEN {} ELSE Head(job).obj]
             /\ call' = {<<IF Head(job).type = "Deleted" THEN "OnDelete"
                           ELSE IF known[k] = {} THEN "OnAdd" ELSE "OnUpdate", k>>}
<1>1. PICK k \in jobkey :
        IF Head(job).type = "Deleted"
        THEN known' = [known EXCEPT ![k] = {}] /\ call' = {<<"OnDelete", k>>}
        ELSE /\ known' = [known EXCEPT ![k] = Head(job).obj]
             /\ call' = {<<IF known[k] = {} THEN "OnAdd" ELSE "OnUpdate", k>>}
    BY DEF Process
<1>2. k \in Keys /\ jobkey = {k} /\ job \in Deltas /\ job # <<>>
    BY DEF IInv, TypeOK, JobRight, Process
<1>3. Pending(k) = job
    BY <1>2 DEF Pending
<1>4. Sensible(job, known[k])
    BY <1>2, <1>3 DEF IInv, DeltasRight
<1> QED BY <1>1, <1>2, <1>4

\* Process.
LEMMA ProcessIInv == ASSUME IInv, Process PROVE IInv'
<1>1. PICK k \in jobkey :
        /\ k \in Keys /\ jobkey = {k} /\ Sensible(job, known[k]) /\ job \in Deltas /\ job # <<>>
        /\ known' = [known EXCEPT ![k] = IF Head(job).type = "Deleted" THEN {} ELSE Head(job).obj]
        /\ call' = {<<IF Head(job).type = "Deleted" THEN "OnDelete"
                      ELSE IF known[k] = {} THEN "OnAdd" ELSE "OnUpdate", k>>}
    BY ProcessIs
<1>2. job' = Tail(job) /\ UNCHANGED <<hist, rpc, rv, items, queue, jobkey, raced, closes>>
    BY DEF Process
<1> DEFINE o == IF Head(job).type = "Deleted" THEN {} ELSE Head(job).obj
<1>3. /\ Tail(job) \in Deltas /\ o \in SUBSET Obj /\ Single(o) /\ Sensible(Tail(job), o)
      /\ Ahead(Tail(job), o) = Ahead(job, known[k])
    <2>1. Head(job) \in Delta
        BY <1>1, TailSensible
    <2>2. o \in SUBSET Obj
        BY <2>1 DEF Delta
    <2>3. Ahead(Tail(job), o) = Ahead(job, known[k])
        BY <1>1, AheadTail
    <2> QED BY <1>1, <2>2, <2>3, TailSensible DEF Single
<1> HIDE DEF o
<1>4. known' \in [Keys -> SUBSET Obj] /\ known'[k] = o /\ \A j \in Keys : j # k => known'[j] = known[j]
    BY <1>1, <1>3 DEF IInv, TypeOK, o
<1>5. TypeOK'
    <2>1. call' \subseteq {"OnAdd", "OnUpdate", "OnDelete"} \X Keys
        BY <1>1
    <2> QED BY <1>2, <1>3, <1>4, <2>1 DEF IInv, TypeOK
<1>6. HistoryRight' /\ QueueHasItems'
    BY <1>2 DEF IInv, HistoryRight, QueueHasItems
<1>7. JobRight'
    BY <1>1, <1>2 DEF IInv, JobRight
<1>8. ASSUME NEW j \in Keys
      PROVE  IF j = k THEN PendingNext(j) = Tail(job) /\ Pending(j) = job ELSE PendingNext(j) = Pending(j)
    BY <1>1, <1>2 DEF PendingNext, Pending
<1>9. DeltasRight'
    <2>1. ASSUME NEW j \in Keys
          PROVE  Single(known'[j]) /\ Sensible(PendingNext(j), known'[j])
        BY <1>3, <1>4, <1>8 DEF IInv, DeltasRight
    <2> QED BY <2>1, DeltasNext
<1>10. QueueLeadsToAPI'
    <2>1. ASSUME NEW j \in Keys
          PROVE  Ahead(PendingNext(j), known'[j]) = Expected(j)
        BY <1>3, <1>4, <1>8, ExpectedIs DEF IInv
    <2>2. rpc' = "watch" => \A j \in Keys \ raced' : Ahead(PendingNext(j), known'[j]) = hist'[rv'][j]
        BY <1>2, <2>1 DEF IInv, QueueLeadsToAPI
    <2> QED BY <1>5, <1>7, <2>2, LeadsNext
<1> QED BY <1>5, <1>6, <1>7, <1>9, <1>10 DEF IInv

\* After the last delta the lock is free and nothing is pending for the key.
LEMMA HandlerReturnsIInv == ASSUME IInv, HandlerReturns PROVE IInv'
<1>1. /\ call' = {} /\ jobkey' = (IF job = <<>> THEN {} ELSE jobkey)
      /\ UNCHANGED <<hist, rpc, rv, items, queue, known, job, raced, closes>>
    BY DEF HandlerReturns
<1>2. TypeOK'
    BY <1>1 DEF IInv, TypeOK
<1>3. HistoryRight' /\ QueueHasItems' /\ JobRight'
    BY <1>1 DEF IInv, HistoryRight, QueueHasItems, JobRight
<1>4. \A k \in Keys : PendingNext(k) = Pending(k)
    BY <1>1 DEF PendingNext, Pending, IInv, JobRight
<1>5. DeltasRight'
    BY <1>1, <1>4, DeltasNext DEF IInv, DeltasRight
<1>6. QueueLeadsToAPI'
    <2>1. rpc = "watch" => \A k \in Keys \ raced : Ahead(Pending(k), known[k]) = hist[rv][k]
        BY ExpectedIs DEF IInv, QueueLeadsToAPI
    <2> QED BY <1>1, <1>2, <1>3, <1>4, <2>1, LeadsNext
<1> QED BY <1>2, <1>3, <1>5, <1>6 DEF IInv

\* The next process starts with nothing, behind the same API server.
LEMMA ProcessEndsIInv == ASSUME IInv, ProcessEnds, closes' \in 0 .. MaxCloses PROVE IInv'
<1>1. TypeOK'
    <2>1. <<>> \in Deltas /\ <<>> \in KeyQueue
        BY DEF Deltas, KeyQueue
    <2> QED BY <2>1 DEF IInv, TypeOK, ProcessEnds
<1>2. HistoryRight' /\ JobRight'
    BY DEF IInv, HistoryRight, JobRight, ProcessEnds
<1>3. DeltasRight'
    <2>1. Len(<<>>) = 0
        OBVIOUS
    <2>2. \A k \in Keys : PendingNext(k) = <<>> /\ known'[k] = {}
        BY DEF PendingNext, ProcessEnds
    <2>3. \A k \in Keys : Single(known'[k]) /\ Sensible(PendingNext(k), known'[k])
        BY <2>1, <2>2 DEF Single, Sensible
    <2> QED BY <2>3, DeltasNext
<1>4. QueueHasItems'
    BY DEF ProcessEnds, QueueHasItems
<1>5. QueueLeadsToAPI'
    BY DEF ProcessEnds, QueueLeadsToAPI
<1> QED BY <1>1, <1>2, <1>3, <1>4, <1>5 DEF IInv

----------------------------------------------------------------------------
(* The theorems *)

\* Every step keeps the invariant.
LEMMA NextIInv == IInv /\ [Next]_vars => IInv'
<1> SUFFICES ASSUME IInv, [Next]_vars PROVE IInv'
    OBVIOUS
<1>1. CASE \E k \in Keys : CreateObject(k) \/ ModifyObject(k) \/ DeleteObject(k)
    BY <1>1, ObjectIInv
<1>2. CASE \E i \in 1 .. Len(hist) : List(i)
    BY <1>2, ListIInv
<1>3. CASE WatchEvent
    BY <1>3, WatchEventIInv
<1>4. CASE WatchFails
    BY <1>4, WatchFailsIInv
<1>5. CASE Pop
    BY <1>5, PopIInv
<1>6. CASE Process
    BY <1>6, ProcessIInv
<1>7. CASE HandlerReturns
    BY <1>7, HandlerReturnsIInv
<1>8. CASE HandlerPanics
    BY <1>8, ProcessEndsIInv DEF HandlerPanics, IInv, TypeOK
<1>9. CASE Crash
    <2>1. closes' \in 0 .. MaxCloses
        BY <1>9, BoundAssumption DEF Crash, IInv, TypeOK
    <2> QED BY <1>9, <2>1, ProcessEndsIInv DEF Crash
<1>10. CASE UNCHANGED vars
    <2>1. TypeOK' /\ HistoryRight' /\ JobRight' /\ DeltasRight' /\ QueueHasItems'
        BY <1>10 DEF vars, IInv, TypeOK, HistoryRight, JobRight, DeltasRight, Pending, QueueHasItems
    <2>2. QueueLeadsToAPI'
        BY <1>10 DEF vars, IInv, QueueLeadsToAPI, Expected
    <2> QED BY <2>1, <2>2 DEF IInv
<1> QED BY <1>1, <1>2, <1>3, <1>4, <1>5, <1>6, <1>7, <1>8, <1>9, <1>10
        DEF Next, ReflectorNext, ControllerNext

\* The inductive invariant holds of every reachable state of an informer.
THEOREM Invariance == Spec => []IInv
BY InitIInv, NextIInv, PTL DEF Spec

\* Every variable of the informer keeps its type.
THEOREM TypeCorrect == Spec => []TypeOK
<1>1. IInv => TypeOK
    BY DEF IInv
<1> QED BY <1>1, Invariance, PTL

\* The queue of the DeltaFIFO has exactly the keys that have deltas, once
\* each: Pop never finds a key without deltas and no key is left behind.
THEOREM QueueCorrect == Spec => []QueueHasItems
<1>1. IInv => QueueHasItems
    BY DEF IInv
<1> QED BY <1>1, Invariance, PTL

\* Through stale lists, repeated events, merged deltas, failing watches and
\* crashes the queue leads the store to what the reflector has seen, but for
\* the two races of a list with a queue that is not empty.
THEOREM QueueLeads == Spec => []QueueLeadsToAPI
<1>1. IInv => QueueLeadsToAPI
    BY DEF IInv
<1> QED BY <1>1, Invariance, PTL

\* A step of the informer is a handler call that makes sense, the return of
\* one, the end of the process or no step for the handlers at all.
LEMMA StepIsCall == IInv /\ [Next]_vars => [Calls!Next]_<<known, call>>
<1> SUFFICES ASSUME IInv, Next, ~UNCHANGED <<known, call>> PROVE Calls!Next
    BY DEF vars
<1>1. CASE Process
    <2>1. PICK k \in jobkey :
            /\ k \in Keys /\ jobkey = {k} /\ Sensible(job, known[k]) /\ job \in Deltas /\ job # <<>>
            /\ known' = [known EXCEPT ![k] = IF Head(job).type = "Deleted" THEN {} ELSE Head(job).obj]
            /\ call' = {<<IF Head(job).type = "Deleted" THEN "OnDelete"
                          ELSE IF known[k] = {} THEN "OnAdd" ELSE "OnUpdate", k>>}
        BY <1>1, ProcessIs
    <2>2. call = {}
        BY <1>1 DEF Process
    <2>3. CASE Head(job).type = "Deleted"
        <3>1. known[k] # {}
            BY <2>1, <2>3, TailSensible
        <3> QED BY <2>1, <2>2, <2>3, <3>1 DEF Calls!Next, Calls!OnDelete
    <2>4. CASE Head(job).type # "Deleted"
        <3>1. PICK x \in Obj : Head(job).obj = {x}
            BY <2>1, <2>4, TailSensible
        <3>2. Calls!OnAdd(k, x) \/ Calls!OnUpdate(k, x)
            BY <2>1, <2>2, <2>4, <3>1 DEF Calls!OnAdd, Calls!OnUpdate
        <3> QED BY <2>1, <3>1, <3>2 DEF Calls!Next
    <2> QED BY <2>3, <2>4
<1>2. CASE HandlerReturns
    BY <1>2 DEF HandlerReturns, Calls!Next, Calls!Return
<1>3. CASE HandlerPanics \/ Crash
    BY <1>3 DEF HandlerPanics, Crash, ProcessEnds, Calls!Next, Calls!ProcessEnds
<1>4. CASE \/ \E k \in Keys : CreateObject(k) \/ ModifyObject(k) \/ DeleteObject(k)
           \/ (\E i \in 1 .. Len(hist) : List(i)) \/ WatchEvent \/ WatchFails \/ Pop
    BY <1>4 DEF CreateObject, ModifyObject, DeleteObject, Change, List, WatchEvent, WatchFails, Pop
<1> QED BY <1>1, <1>2, <1>3, <1>4 DEF Next, ReflectorNext, ControllerNext

\* The informer keeps the promise of HandlerCalls: one call at a time, an
\* object is added before it is updated or deleted and never added twice,
\* whatever the API server and the watches do.
THEOREM CallsMakeSense == Spec => CallsSpec
<1>1. Init => Calls!Init
    BY DEF Init, Calls!Init
<1>2. Spec => [][Calls!Next]_<<known, call>>
    BY Invariance, StepIsCall, PTL DEF Spec
<1> QED BY <1>1, <1>2, PTL DEF Spec, CallsSpec, Calls!Spec
=============================================================================
