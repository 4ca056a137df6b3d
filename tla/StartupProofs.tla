--------------------------- MODULE StartupProofs ---------------------------
(***************************************************************************)
(* Theorems about Startup: an agent that gets ready has one Domain with    *)
(* both policies and prefixes that partition the ClusterCIDR, and the      *)
(* leftovers of Doomed are there for good, for any configurations, address *)
(* widths and number of failures.                                          *)
(***************************************************************************)
EXTENDS Startup, FiniteSetTheorems, TLAPS

----------------------------------------------------------------------------
(* The inductive invariant *)

\* Types, without configuration and prefixes.
VSDType ==
    /\ vdoms \subseteq Dom /\ Domain \subseteq Dom /\ pc \in PC
    /\ vpols \in [Dom -> SUBSET Type] /\ policies \subseteq Type /\ vdraft \subseteq Type
    /\ late \subseteq Type

\* The steps at which the Domain has been looked up, and after which policies
\* are live.
DomainKnown ==
    {"cidrs", "getpolicies", "egress", "egressdraft", "ingress", "ingressdraft", "cni", "k8s", "ready"}
EgressDone == {"ingress", "ingressdraft", "cni", "k8s", "ready"}
AllDone == {"cni", "k8s", "ready"}

\* Domain is what the lookup, or the creation, makes of the Domains there are,
\* and it is not nil once initPolicies has dereferenced it.
DomainRight ==
    /\ pc \in DomainKnown => vdoms # {} /\ Domain = Chosen(vdoms)
    /\ pc \in DomainKnown \ {"cidrs", "getpolicies"} => Domain # {}
    /\ pc \in {"template", "domcreate"} => vdoms = {}

\* What was found is live, and what was applied too, unless its job was late.
PoliciesLive ==
    /\ pc \notin DomainKnown \ {"cidrs", "getpolicies"} => policies = {}
    /\ \A d \in Domain :
        /\ policies \subseteq vpols[d]
        /\ pc \in EgressDone => "egress" \in vpols[d] \cup late
        /\ pc \in AllDone => "ingress" \in vpols[d] \cup late

\* Drafts are in the Domain of the configured Enterprise, and never clash.  A
\* job left behind may apply or drop the draft that the process has made.
DraftsRight ==
    /\ vdraft # {} \/ late # {} => vdoms = {"own"}
    /\ vdraft \cap vclash = {} /\ late \cap vclash = {}
    /\ pc \in {"egressdraft", "ingressdraft"} => vdoms = {"own"}
    /\ pc = "egressdraft" => "egress" \in (vdraft \cup vpols["own"] \cup late) \ vclash
    /\ pc = "ingressdraft" => "ingress" \in (vdraft \cup vpols["own"] \cup late) \ vclash

\* A configuration that is refused is refused before anything depends on it.
ConfigChecked ==
    /\ pc \notin {"down", "config", "etcd", "elect", "readK8S", "connect"} => conf.named
    /\ pc \in DomainKnown \ {"cidrs"} => conf.cidr # {}

IInv == VSDType /\ DomainRight /\ PoliciesLive /\ DraftsRight /\ ConfigChecked

----------------------------------------------------------------------------
(* Lists of Domains *)

\* How many Domains of the configured name a lookup may find.
LEMMA DomainCount ==
    ASSUME NEW S \in SUBSET Dom
    PROVE  /\ Cardinality(S) = 1 <=> S = {"own"} \/ S = {"other"}
           /\ Cardinality(S) > 1 <=> S = Dom
<1>1. S = {} \/ S = {"own"} \/ S = {"other"} \/ S = Dom
    BY DEF Dom
<1>2. Cardinality({}) = 0 /\ Cardinality({"own"}) = 1 /\ Cardinality({"other"}) = 1
    BY FS_EmptySet, FS_Singleton
<1>3. Cardinality(Dom) = 2
    <2>1. IsFiniteSet({"own"}) /\ "other" \notin {"own"} /\ Dom = {"own"} \cup {"other"}
        BY FS_Singleton DEF Dom
    <2> QED BY <2>1, <1>2, FS_AddElement
<1>4. Dom # {"own"} /\ Dom # {"other"}
    BY DEF Dom
<1> QED BY <1>1, <1>2, <1>3, <1>4

\* The Domain is kept if it is the only one.
LEMMA ChosenIs ==
    ASSUME NEW S \in SUBSET Dom
    PROVE  Chosen(S) = IF S = Dom THEN {} ELSE S
<1>1. S = {} \/ S = {"own"} \/ S = {"other"} \/ S = Dom
    BY DEF Dom
<1>2. Dom # {"own"} /\ Dom # {"other"} /\ Dom # {} /\ {} # {"own"} /\ {} # {"other"}
    BY DEF Dom
<1> QED BY <1>1, <1>2, DomainCount DEF Chosen

----------------------------------------------------------------------------
(* The prefixes that initCIDRs makes *)

\* What a quotient is.
LEMMA Quotient ==
    ASSUME NEW a \in Int, NEW k \in Nat \ {0}, NEW q \in Int
    PROVE  a \div k = q <=> q * k <= a /\ a < (q + 1) * k
<1> DEFINE d == a \div k
<1>1. d \in Int /\ d * k <= a /\ a < (d + 1) * k
    OBVIOUS
<1> HIDE DEF d
<1>2. ASSUME q * k <= a, a < (q + 1) * k
      PROVE  d = q
    <2>1. ASSUME d < q PROVE FALSE
        <3>1. (d + 1) * k <= q * k
            BY <2>1, <1>1
        <3> QED BY <3>1, <1>1, <1>2
    <2>2. ASSUME q < d PROVE FALSE
        <3>1. (q + 1) * k <= d * k
            BY <2>2, <1>1
        <3> QED BY <3>1, <1>1, <1>2
    <2> QED BY <2>1, <2>2, <1>1
<1> QED BY <1>1, <1>2 DEF d

\* Number a is in block q of n * k iff it is in one of the n blocks of k that
\* block q is cut into.
CutInto(a, k, n, q) == a \div (n * k) = q <=> \E i \in 0 .. (n - 1) : a \div k = q * n + i

\* Blocks of n * k are cut into n blocks of k.
LEMMA Blocks ==
    ASSUME NEW a \in Int, NEW k \in Nat \ {0}, NEW n \in Nat \ {0}, NEW q \in Int
    PROVE  CutInto(a, k, n, q)
<1> DEFINE d == a \div k
<1>1. d \in Int /\ d * k <= a /\ a < (d + 1) * k
    OBVIOUS
<1>2. n * k \in Nat \ {0} /\ q * n \in Int /\ (q + 1) * n = q * n + n
    OBVIOUS
<1>3. a \div (n * k) = q <=> q * (n * k) <= a /\ a < (q + 1) * (n * k)
    BY <1>2, Quotient
<1>4. q * (n * k) = (q * n) * k /\ (q + 1) * (n * k) = (q * n + n) * k
    BY <1>2
<1> HIDE DEF d
<1>5. ASSUME NEW x \in Int
      PROVE  (x * k <= a <=> x <= d) /\ (a < x * k <=> d < x)
    <2>1. x <= d => x * k <= d * k
        BY <1>1
    <2>2. d < x => (d + 1) * k <= x * k
        BY <1>1
    <2> QED BY <2>1, <2>2, <1>1
<1>6. a \div (n * k) = q <=> q * n <= d /\ d < q * n + n
    BY <1>2, <1>3, <1>4, <1>5
<1>7. q * n <= d /\ d < q * n + n <=> \E i \in 0 .. (n - 1) : d = q * n + i
    <2> DEFINE z == q * n
    <2>1. z \in Int
        OBVIOUS
    <2> HIDE DEF z
    <2>2. z <= d /\ d < z + n <=> \E i \in 0 .. (n - 1) : d = z + i
        <3>1. ASSUME z <= d, d < z + n PROVE \E i \in 0 .. (n - 1) : d = z + i
            <4>1. d - z \in 0 .. (n - 1) /\ d = z + (d - z)
                BY <3>1, <2>1, <1>1
            <4> QED BY <4>1
        <3> QED BY <3>1, <2>1, <1>1
    <2> QED BY <2>2 DEF z
<1> QED BY <1>6, <1>7 DEF d, CutInto

\* The size of a subnet and the number of subnets of a ClusterCIDR.
Size(c, slen) == 2^(W - SMask(c, slen))
Number(slen) == 2^slen

\* The addresses of a ClusterCIDR are Number times Size, a fraction of all.
LEMMA Sizes ==
    ASSUME NEW c \in ParsedCIDR, NEW slen \in Int, ValidLength(c, slen)
    PROVE  /\ Size(c, slen) \in Nat \ {0} /\ Number(slen) \in Nat \ {0}
           /\ 2^(W - c.cmask) = Number(slen) * Size(c, slen)
           /\ 2^W \in Nat \ {0} /\ 2^c.cmask \in Nat \ {0}
           /\ 2^W = 2^c.cmask * 2^(W - c.cmask)
<1> DEFINE m == c.cmask
           s == W - (m + slen)
<1>1. W \in Nat /\ m \in 0 .. W /\ slen \in 0 .. W /\ s \in 0 .. W
    BY WidthAssumption DEF ParsedCIDR, ValidLength, SMask
<1>2. W - m \in 0 .. W /\ slen + s = W - m /\ m + (W - m) = W
    BY <1>1
<1>3. Size(c, slen) = 2^s
    BY DEF Size, SMask
<1> HIDE DEF m, s
<1>4. 2^s \in Nat \ {0} /\ 2^slen \in Nat \ {0} /\ 2^m \in Nat \ {0} /\ 2^(slen + s) = 2^slen * 2^s
    BY <1>1, PowerLaws
<1>5. W \in 0 .. W
    BY <1>1
<1>6. 2^W \in Nat \ {0} /\ 2^(m + (W - m)) = 2^m * 2^(W - m)
    BY <1>1, <1>2, <1>5, PowerLaws
<1>7. 2^(slen + s) = 2^(W - m) /\ 2^(m + (W - m)) = 2^W
    BY <1>2
<1>8. m = c.cmask
    BY DEF m
<1> QED BY <1>3, <1>4, <1>6, <1>7, <1>8 DEF Number

\* The loop makes min(2^slen, MAX_SUBNETS) rounds.
LEMMA RoundsIs ==
    ASSUME NEW c \in ParsedCIDR, NEW slen \in Int, ValidLength(c, slen)
    PROVE  Rounds(slen) = IF Number(slen) < MAX_SUBNETS THEN Number(slen) ELSE MAX_SUBNETS
<1>1. slen \in 0 .. (IntW - 2)
    BY WidthAssumption DEF ParsedCIDR, ValidLength, SMask
<1>2. ShiftedOne(slen) = Number(slen)
    BY <1>1 DEF ShiftedOne, Number
<1> QED BY <1>2 DEF Rounds

\* The prefix of round i: neither the shift nor the addition overflows, and it
\* is the i-th block of the ClusterCIDR.
LEMMA PrefixIs ==
    ASSUME NEW c \in ParsedCIDR, NEW slen \in Int, ValidLength(c, slen),
           NEW i \in 0 .. (Number(slen) - 1)
    PROVE  /\ NewPrefix(c, slen, i) \in 0 .. (2^W - 1)
           /\ NewPrefix(c, slen, i) \div Size(c, slen)
                = (c.ip \div 2^(W - c.cmask)) * Number(slen) + i
<1> DEFINE k == Size(c, slen)
           n == Number(slen)
           h == n * k
           m == 2^c.cmask
           t == 2^W
           q == c.ip \div h
<1>1. /\ k \in Nat \ {0} /\ n \in Nat \ {0} /\ m \in Nat \ {0} /\ t \in Nat \ {0}
      /\ 2^(W - c.cmask) = h /\ t = m * h
    BY Sizes
<1>2. h \in Nat \ {0} /\ i \in 0 .. (n - 1)
    BY <1>1
<1>3. c.ip \in 0 .. (t - 1) /\ c.ip % h = 0
    BY <1>1 DEF ParsedCIDR
<1>4. i * ShiftedOne(W - SMask(c, slen)) = i * k
    <2>1. CASE slen = 0
        <3>1. ShiftedOne(W - SMask(c, slen)) \in Int
            BY WidthAssumption DEF ShiftedOne, ParsedCIDR, SMask
        <3>2. i = 0
            BY <2>1 DEF Number
        <3> QED BY <1>1, <3>1, <3>2
    <2>2. CASE slen # 0
        <3>1. W - SMask(c, slen) \in 0 .. (IntW - 2)
            BY <2>2, WidthAssumption DEF ParsedCIDR, ValidLength, SMask
        <3> QED BY <3>1 DEF ShiftedOne, Size
    <2> QED BY <2>1, <2>2
<1>5. NewPrefix(c, slen, i) = (c.ip + i * k) % t
    BY <1>4 DEF NewPrefix
<1>6. Number(slen) = n /\ Size(c, slen) = k
    OBVIOUS
<1> HIDE DEF k, n, m, t
<1>7. q \in Nat /\ c.ip = q * h
    BY <1>2, <1>3
<1>8. q < m
    <2>1. ASSUME m <= q PROVE FALSE
        <3>1. m * h <= q * h
            BY <2>1, <1>1, <1>2, <1>7
        <3> QED BY <3>1, <1>1, <1>3, <1>7
    <2> QED BY <2>1, <1>1, <1>7
<1> HIDE DEF q
<1>9. c.ip + i * k \in 0 .. (t - 1)
    <2>1. i * k \in Nat /\ i * k < n * k
        BY <1>1, <1>2
    <2>2. (q + 1) * h <= m * h
        BY <1>1, <1>2, <1>7, <1>8
    <2>3. (q + 1) * h = q * h + h /\ q * h \in Nat
        BY <1>2, <1>7
    <2> QED BY <1>1, <1>2, <1>7, <2>1, <2>2, <2>3
<1>10. (c.ip + i * k) % t = c.ip + i * k
    BY <1>1, <1>9
<1>11. c.ip + i * k = (q * n + i) * k
    BY <1>1, <1>2, <1>7
<1>12. (c.ip + i * k) \div k = q * n + i
    <2>1. q * n + i \in Int /\ (q * n + i) * k \in Int
        BY <1>1, <1>2, <1>7
    <2>2. (q * n + i) * k <= (q * n + i) * k /\ (q * n + i) * k < (q * n + i + 1) * k
        BY <1>1, <2>1
    <2> QED BY <1>1, <1>11, <2>1, <2>2, Quotient
<1>13. q = c.ip \div 2^(W - c.cmask)
    BY <1>1 DEF q
<1> QED BY <1>5, <1>6, <1>9, <1>10, <1>12, <1>13 DEF t

\* The prefixes partition the ClusterCIDR, or are as many as allowed.
LEMMA InitCIDRsPartition ==
    ASSUME NEW c \in ParsedCIDR, NEW slen \in Int, ValidLength(c, slen)
    PROVE  Partitions(InitCIDRs(c, slen), c, slen)
<1> DEFINE k == Size(c, slen)
           n == Number(slen)
           r == Rounds(slen)
           p(i) == NewPrefix(c, slen, i)
           f(i) == [prefix |-> p(i), mask |-> {SMask(c, slen)}]
           A(i) == Addresses(p(i), SMask(c, slen))
           q == c.ip \div 2^(W - c.cmask)
           cluster == Addresses(c.ip, c.cmask)
           free == InitCIDRs(c, slen)
<1>1. /\ k \in Nat \ {0} /\ n \in Nat \ {0} /\ 2^(W - c.cmask) = n * k
      /\ r = (IF n < MAX_SUBNETS THEN n ELSE MAX_SUBNETS)
    BY Sizes, RoundsIs
<1>2. r \in Nat /\ r <= n /\ 0 .. (r - 1) \subseteq 0 .. (n - 1)
    BY <1>1, WidthAssumption
<1>3. ASSUME NEW i \in 0 .. (n - 1)
      PROVE  p(i) \in Int /\ p(i) \div k = q * n + i
    BY <1>1, PrefixIs
<1>4. q \in Int
    BY <1>1 DEF ParsedCIDR
<1>5. ASSUME NEW i \in 0 .. (n - 1)
      PROVE  A(i) = {a \in 0 .. (2^W - 1) : a \div k = q * n + i}
    BY <1>3 DEF Addresses, Size
<1>6. cluster = {a \in 0 .. (2^W - 1) : a \div (n * k) = q}
    BY <1>1 DEF Addresses
<1>7. free = {f(i) : i \in 0 .. (r - 1)}
    <2>1. {SMask(c, slen)} \cap 0 .. W = {SMask(c, slen)}
        BY WidthAssumption DEF ParsedCIDR, SMask, ValidLength
    <2> QED BY <2>1 DEF InitCIDRs
<1>8. \A i \in 0 .. (r - 1) : f(i).prefix = p(i) /\ f(i).mask = {SMask(c, slen)}
    OBVIOUS
<1>9. ASSUME NEW a \in 0 .. (2^W - 1)
      PROVE  a \div (n * k) = q <=> \E i \in 0 .. (n - 1) : a \div k = q * n + i
    <2>1. 2^W \in Nat
        BY Sizes
    <2>2. a \in Int
        BY <2>1
    <2>3. k \in Nat \ {0} /\ n \in Nat \ {0}
        BY <1>1
    <2> HIDE DEF k, n, q
    <2>4. CutInto(a, k, n, q)
        BY <1>4, <2>2, <2>3, Blocks
    <2> QED BY <2>4 DEF CutInto
<1>10. ASSUME NEW i \in 0 .. (n - 1), NEW j \in 0 .. (n - 1), p(i) = p(j)
       PROVE  i = j
    <2>1. q * n + i = q * n + j /\ q * n \in Int
        BY <1>1, <1>3, <1>4, <1>10
    <2> QED BY <2>1
<1> HIDE DEF k, n, r, q, p, A, cluster, free, f
<1>11. ASSUME NEW i \in 0 .. (n - 1)
       PROVE  A(i) \subseteq cluster
    BY <1>5, <1>6, <1>9
<1>12. ASSUME NEW i \in 0 .. (n - 1), NEW j \in 0 .. (n - 1), i # j
       PROVE  A(i) \cap A(j) = {}
    <2>1. q * n \in Int
        BY <1>1, <1>4
    <2>2. q * n + i # q * n + j
        BY <2>1, <1>12
    <2> QED BY <1>5, <2>2
<1>13. \/ Cardinality(free) = MAX_SUBNETS
       \/ UNION {Addresses(g.prefix, SMask(c, slen)) : g \in free} = cluster
    <2>1. CASE n < MAX_SUBNETS
        <3>1. r = n
            BY <1>1, <2>1
        <3>2. {Addresses(g.prefix, SMask(c, slen)) : g \in free} = {A(i) : i \in 0 .. (n - 1)}
            BY <1>7, <1>8, <3>1 DEF A
        <3>3. \A a \in cluster : \E i \in 0 .. (n - 1) : a \in A(i)
            BY <1>5, <1>6, <1>9
        <3>4. UNION {A(i) : i \in 0 .. (n - 1)} = cluster
            BY <1>11, <3>3
        <3> QED BY <3>2, <3>4
    <2>2. CASE ~(n < MAX_SUBNETS)
        <3>1. r = MAX_SUBNETS
            BY <1>1, <2>2
        <3> DEFINE b == [x \in 1 .. r |-> f(x - 1)]
        <3>2. ASSUME NEW x \in 1 .. r
              PROVE  x - 1 \in 0 .. (r - 1) /\ b[x] = f(x - 1) /\ b[x] \in free /\ b[x].prefix = p(x - 1)
            <4>1. x - 1 \in 0 .. (r - 1)
                BY <1>2
            <4> QED BY <4>1, <1>7, <1>8
        <3>3. b \in [1 .. r -> free]
            BY <3>2
        <3>4. \A g \in free : \E x \in 1 .. r : b[x] = g
            <4>1. SUFFICES ASSUME NEW i \in 0 .. (r - 1) PROVE \E x \in 1 .. r : b[x] = f(i)
                BY <1>7
            <4>2. i + 1 \in 1 .. r /\ (i + 1) - 1 = i
                BY <1>2
            <4> QED BY <4>2, <3>2
        <3>5. ASSUME NEW x \in 1 .. r, NEW y \in 1 .. r, b[x] = b[y]
              PROVE  x = y
            <4>1. p(x - 1) = p(y - 1)
                BY <3>2, <3>5
            <4>2. x - 1 = y - 1
                BY <1>2, <1>10, <3>2, <4>1
            <4> QED BY <4>2, <1>2
        <3> HIDE DEF b
        <3>6. b \in Bijection(1 .. r, free)
            BY <3>3, <3>4, <3>5 DEF Bijection, Injection, Surjection, IsInjective
        <3>7. Cardinality(free) = r
            BY <1>2, <3>6, FS_CountingElements DEF ExistsBijection
        <3> QED BY <3>1, <3>7
    <2> QED BY <2>1, <2>2
<1>14. \A g \in free :
        /\ g.mask = {SMask(c, slen)}
        /\ Addresses(g.prefix, SMask(c, slen)) \subseteq cluster
        /\ \A g2 \in free : g # g2 =>
            Addresses(g.prefix, SMask(c, slen)) \cap Addresses(g2.prefix, SMask(c, slen)) = {}
    <2>1. SUFFICES ASSUME NEW i \in 0 .. (r - 1), NEW j \in 0 .. (r - 1)
                   PROVE  /\ f(i).mask = {SMask(c, slen)} /\ A(i) \subseteq cluster
                          /\ f(i) # f(j) => A(i) \cap A(j) = {}
        BY <1>7, <1>8 DEF A
    <2> QED BY <1>2, <1>8, <1>11, <1>12
<1> QED BY <1>13, <1>14 DEF Partitions, free, cluster

\* initCIDRs makes prefixes of addresses, whatever the configuration.
LEMMA InitCIDRsType ==
    ASSUME NEW c \in ParsedCIDR, NEW slen \in Int
    PROVE  InitCIDRs(c, slen) \subseteq Prefix
<1>1. W \in 0 .. W /\ W - SMask(c, slen) \in Int
    BY WidthAssumption DEF ParsedCIDR, SMask
<1>2. 2^W \in Nat \ {0}
    BY <1>1, PowerLaws
<1>3. ASSUME NEW n \in Int PROVE ShiftedOne(n) \in Int
    BY WidthAssumption DEF ShiftedOne
<1>4. Rounds(slen) \in Int
    BY <1>3, WidthAssumption DEF Rounds
<1>5. ASSUME NEW i \in 0 .. (Rounds(slen) - 1)
      PROVE  NewPrefix(c, slen, i) \in 0 .. (2^W - 1)
    <2>1. i * ShiftedOne(W - SMask(c, slen)) \in Int
        BY <1>1, <1>3, <1>4
    <2>2. c.ip \in Int
        BY <1>2 DEF ParsedCIDR
    <2> QED BY <1>2, <2>1, <2>2 DEF NewPrefix
<1> QED BY <1>5 DEF InitCIDRs, Prefix

----------------------------------------------------------------------------
(* The invariant is inductive *)

\* The VSD as some start finds it is all right for the first one.
LEMMA InitIInv == Init => IInv
BY DEF Init, Consistent, IInv, VSDType, PC, DomainRight, PoliciesLive, DraftsRight, ConfigChecked,
       DomainKnown, EgressDone, AllDone

\* The end of a process that leaves the VSD as it is.
LEMMA EndsIInv ==
    ASSUME IInv, Ends, UNCHANGED <<conf, vsdVars>>
    PROVE  IInv'
BY DEF IInv, VSDType, PC, DomainRight, PoliciesLive, DraftsRight, ConfigChecked,
       DomainKnown, EgressDone, AllDone, Ends, vsdVars

\* The end of a process in a VSD whose Domains and policies may have grown.
LEMMA EndsInChangedVSD ==
    ASSUME IInv, Ends, UNCHANGED <<conf, vclash>>,
           vdoms' \subseteq Dom, vpols' \in [Dom -> SUBSET Type], vdraft' \subseteq vdraft,
           vdraft' # {} => vdoms' = {"own"}
    PROVE  IInv'
<1>1. pc' = "down" /\ Domain' = {} /\ policies' = {} /\ late' = {}
    BY DEF Ends
<1>2. VSDType' /\ DraftsRight'
    BY <1>1 DEF IInv, VSDType, PC, DraftsRight
<1>3. DomainRight' /\ PoliciesLive' /\ ConfigChecked'
    BY <1>1 DEF DomainRight, PoliciesLive, ConfigChecked, DomainKnown
<1> QED BY <1>2, <1>3 DEF IInv

\* A step before the Domain is looked up.
LEMMA EarlyStep ==
    ASSUME IInv, NEW next \in PC \ (DomainKnown \cup {"template", "domcreate"}), Goto(next), pc \notin DomainKnown,
           UNCHANGED <<conf, vdoms, vpols, vclash, vdraft>>,
           next \notin {"down", "config", "etcd", "elect", "readK8S", "connect"} => conf.named
    PROVE  IInv'
BY DEF IInv, VSDType, PC, DomainRight, PoliciesLive, DraftsRight, ConfigChecked,
       DomainKnown, EgressDone, AllDone, Goto, procVars

\* The steps of start-up up to the Domain keep the invariant.
LEMMA EarlyIInv ==
    ASSUME IInv,
           Launch \/ LoadAgentConfig \/ EtcdInitClient \/ LeaderElection \/ ReadK8Sconfig
           \/ MakeX509conn \/ FindEnterprise \/ CreateEnterprise
    PROVE  IInv'
<1>1. CASE Fails /\ UNCHANGED conf
    BY <1>1, EndsIInv DEF Fails, vsdVars
<1>2. CASE Launch
    BY <1>2, EarlyStep DEF Launch, vsdVars, PC, DomainKnown
<1>3. CASE LoadAgentConfig /\ ~Fails
    BY <1>3, EarlyStep DEF LoadAgentConfig, Plain, vsdVars, PC, DomainKnown
<1>4. CASE EtcdInitClient /\ ~Fails
    BY <1>4, EarlyStep DEF EtcdInitClient, Plain, vsdVars, PC, DomainKnown
<1>5. CASE LeaderElection /\ ~Fails
    BY <1>5, EarlyStep DEF LeaderElection, Plain, vsdVars, PC, DomainKnown
<1>6. CASE ReadK8Sconfig /\ ~Fails
    BY <1>6, EarlyStep DEF ReadK8Sconfig, Plain, vsdVars, PC, DomainKnown
<1>7. CASE MakeX509conn /\ ~Fails
    BY <1>7, EarlyStep, EndsIInv DEF MakeX509conn, vsdVars, PC, DomainKnown
<1>8. CASE FindEnterprise /\ ~Fails
    <2>1. conf.named
        BY <1>8 DEF FindEnterprise, IInv, ConfigChecked
    <2>2. Goto("domain") \/ Goto("entcreate")
        BY <1>8 DEF FindEnterprise
    <2> QED BY <2>1, <2>2, <1>8, EarlyStep DEF FindEnterprise, vsdVars, PC, DomainKnown
<1>9. CASE CreateEnterprise /\ ~Fails
    <2>1. pc = "entcreate" /\ conf.named /\ UNCHANGED <<conf, vdoms, vpols, vclash, vdraft>>
        BY <1>9 DEF CreateEnterprise, IInv, ConfigChecked
    <2>2. Goto("domain") \/ Ends
        BY <1>9 DEF CreateEnterprise, Created
    <2>3. CASE Goto("domain")
        BY <2>1, <2>3, EarlyStep DEF PC, DomainKnown
    <2>4. CASE Ends
        BY <2>1, <2>4, EndsInChangedVSD DEF IInv, VSDType, DraftsRight
    <2> QED BY <2>2, <2>3, <2>4
<1> QED
    BY <1>1, <1>2, <1>3, <1>4, <1>5, <1>6, <1>7, <1>8, <1>9
    DEF Launch, LoadAgentConfig, EtcdInitClient, LeaderElection, ReadK8Sconfig, MakeX509conn,
        Plain, FindEnterprise, CreateEnterprise

\* Finding or creating the Domain.
LEMMA DomainIInv ==
    ASSUME IInv, FindDomain \/ CreateTemplate \/ CreateDomain \/ MakeCIDRs
    PROVE  IInv'
<1>1. CASE Fails /\ UNCHANGED conf
    BY <1>1, EndsIInv DEF Fails, vsdVars
<1>2. CASE FindDomain /\ ~Fails
    <2>1. /\ pc = "domain" /\ Domain' = Chosen(vdoms) /\ UNCHANGED <<conf, vsdVars, policies, late>>
          /\ pc' = IF vdoms = {} THEN "template" ELSE "cidrs"
        BY <1>2 DEF FindDomain
    <2>2. Chosen(vdoms) \subseteq Dom
        BY ChosenIs DEF IInv, VSDType
    <2> QED
        BY <2>1, <2>2 DEF IInv, VSDType, PC, DomainRight, PoliciesLive, DraftsRight, ConfigChecked,
            DomainKnown, EgressDone, AllDone, vsdVars, Chosen
<1>3. CASE CreateTemplate /\ ~Fails
    <2>1. pc = "template" /\ UNCHANGED <<conf, vdoms, vpols, vclash, vdraft>> /\ (Goto("domcreate") \/ Ends)
        BY <1>3 DEF CreateTemplate, Created, vsdVars
    <2>2. CASE Goto("domcreate")
        BY <2>1, <2>2 DEF IInv, VSDType, PC, DomainRight, PoliciesLive, DraftsRight, ConfigChecked,
            DomainKnown, EgressDone, AllDone, Goto, procVars
    <2>3. CASE Ends
        BY <2>1, <2>3, EndsInChangedVSD DEF IInv, VSDType, DraftsRight
    <2> QED BY <2>1, <2>2, <2>3
<1>4. CASE CreateDomain /\ ~Fails
    <2>1. /\ pc = "domcreate" /\ vdoms = {} /\ vdoms' = {"own"} /\ vdraft = {} /\ late = {}
          /\ UNCHANGED <<conf, vpols, vclash, vdraft>>
        BY <1>4 DEF CreateDomain, IInv, DomainRight, DraftsRight
    <2>2. CASE Ends
        BY <2>1, <2>2, EndsInChangedVSD DEF IInv, VSDType, Dom
    <2>3. CASE pc' = "cidrs" /\ Domain' = {"own"} /\ UNCHANGED <<policies, late>>
        <3>1. Chosen({"own"}) = {"own"}
            BY ChosenIs DEF Dom
        <3> QED
            BY <2>1, <2>3, <3>1 DEF IInv, VSDType, PC, DomainRight, PoliciesLive, DraftsRight,
                ConfigChecked, DomainKnown, EgressDone, AllDone, Dom
    <2> QED BY <1>4, <2>2, <2>3 DEF CreateDomain
<1>5. CASE MakeCIDRs
    <2>1. CASE Ends
        BY <1>5, <2>1, EndsIInv DEF MakeCIDRs
    <2>2. CASE /\ pc' = "getpolicies" /\ conf.cidr # {} /\ UNCHANGED <<Domain, policies, late>>
        BY <1>5, <2>2 DEF MakeCIDRs, IInv, VSDType, PC, DomainRight, PoliciesLive, DraftsRight,
            ConfigChecked, DomainKnown, EgressDone, AllDone, vsdVars
    <2> QED BY <1>5, <2>1, <2>2 DEF MakeCIDRs
<1> QED
    BY <1>1, <1>2, <1>3, <1>4, <1>5 DEF FindDomain, CreateTemplate, CreateDomain

----------------------------------------------------------------------------
(* Policies *)

\* Once it is known to be there the Domain is the only one.
LEMMA OneDomain ==
    ASSUME IInv, pc \in DomainKnown \ {"cidrs", "getpolicies"}
    PROVE  Domain = vdoms /\ (Domain = {"own"} \/ Domain = {"other"})
<1>1. Domain = Chosen(vdoms) /\ Domain # {} /\ vdoms \in SUBSET Dom
    BY DEF IInv, VSDType, DomainRight
<1>2. vdoms = {} \/ vdoms = {"own"} \/ vdoms = {"other"} \/ vdoms = Dom
    BY <1>1 DEF Dom
<1>3. Domain = IF vdoms = Dom THEN {} ELSE vdoms
    BY <1>1, ChosenIs
<1> QED BY <1>1, <1>2, <1>3

\* Reading the policies.
LEMMA GetPoliciesIInv ==
    ASSUME IInv, GetPolicies
    PROVE  IInv'
<1>1. CASE Ends /\ UNCHANGED <<conf, vsdVars>>
    BY <1>1, EndsIInv
<1>2. CASE /\ pc = "getpolicies" /\ pc' = "egress" /\ Domain # {}
           /\ \E d \in Domain : policies' \subseteq vpols[d]
           /\ UNCHANGED <<conf, vsdVars, Domain, late>>
    <2>1. Domain = {"own"} \/ Domain = {"other"}
        <3>1. Domain = Chosen(vdoms) /\ vdoms \in SUBSET Dom
            BY <1>2 DEF IInv, VSDType, DomainRight, DomainKnown
        <3>2. vdoms = {} \/ vdoms = {"own"} \/ vdoms = {"other"} \/ vdoms = Dom
            BY <3>1 DEF Dom
        <3>3. Domain = IF vdoms = Dom THEN {} ELSE vdoms
            BY <3>1, ChosenIs
        <3> QED BY <1>2, <3>2, <3>3
    <2>2. policies' \subseteq Type /\ \A d \in Domain : policies' \subseteq vpols[d]
        BY <1>2, <2>1 DEF IInv, VSDType, Dom
    <2> QED
        BY <1>2, <2>2 DEF IInv, VSDType, PC, DomainRight, PoliciesLive, DraftsRight, ConfigChecked,
            DomainKnown, EgressDone, AllDone, vsdVars
<1>3. GetPolicies => \/ Ends /\ UNCHANGED <<conf, vsdVars>>
                     \/ /\ pc = "getpolicies" /\ pc' = "egress" /\ Domain # {}
                        /\ \E d \in Domain : policies' \subseteq vpols[d]
                        /\ UNCHANGED <<conf, vsdVars, Domain, late>>
    BY DEF GetPolicies, Fails
<1> QED BY <1>1, <1>2, <1>3

\* A policy that was found, or whose draft is made.
LEMMA BeginIInv ==
    ASSUME IInv, NEW t, NEW at, NEW draft, NEW next,
           \/ t = "egress" /\ at = "egress" /\ draft = "egressdraft" /\ next = "ingress"
           \/ t = "ingress" /\ at = "ingress" /\ draft = "ingressdraft" /\ next = "cni",
           BeginPolicy(t, at, draft, next)
    PROVE  IInv'
<1>1. pc = at /\ UNCHANGED conf
    BY DEF BeginPolicy
<1>2. Domain = vdoms /\ (Domain = {"own"} \/ Domain = {"other"})
    BY <1>1, OneDomain DEF DomainKnown
<1>3. CASE Ends /\ UNCHANGED vsdVars
    BY <1>1, <1>3, EndsIInv
<1>4. CASE Found(t) /\ Goto(next) /\ UNCHANGED vsdVars
    BY <1>1, <1>4 DEF Found, Goto, procVars, IInv, VSDType, PC, DomainRight, PoliciesLive, DraftsRight,
        ConfigChecked, DomainKnown, EgressDone, AllDone, vsdVars
<1>5. CASE /\ Begins(t) /\ pc' = draft /\ UNCHANGED <<vdoms, vpols, vclash, Domain, policies>>
           /\ \/ vdraft' = vdraft \cup {t} /\ UNCHANGED late
              \/ late' = late \cup {t} /\ UNCHANGED vdraft
    <2>1. Domain = {"own"} /\ t \notin vclash
        BY <1>2, <1>5 DEF Begins, Refused
    <2>2. t \in Type
        BY DEF Type
    <2>3. VSDType' /\ DomainRight'
        BY <1>1, <1>5, <2>2 DEF IInv, VSDType, DomainRight, PC, DomainKnown
    <2>4. PoliciesLive' /\ ConfigChecked'
        BY <1>1, <1>5 DEF IInv, PoliciesLive, ConfigChecked, DomainKnown, EgressDone, AllDone
    <2>5. DraftsRight'
        BY <1>1, <1>2, <1>5, <2>1 DEF IInv, DraftsRight
    <2> QED BY <2>3, <2>4, <2>5 DEF IInv
<1>6. CASE vdraft' \in {vdraft, {}} /\ Ends /\ UNCHANGED <<vdoms, vpols, vclash>>
    BY <1>1, <1>6, EndsInChangedVSD DEF IInv, VSDType, DraftsRight
<1>7. \/ Ends /\ UNCHANGED vsdVars
      \/ Found(t) /\ Goto(next) /\ UNCHANGED vsdVars
      \/ /\ Begins(t) /\ pc' = draft /\ UNCHANGED <<vdoms, vpols, vclash, Domain, policies>>
         /\ \/ vdraft' = vdraft \cup {t} /\ UNCHANGED late
            \/ late' = late \cup {t} /\ UNCHANGED vdraft
      \/ vdraft' \in {vdraft, {}} /\ Ends /\ UNCHANGED <<vdoms, vpols, vclash>>
    BY DEF BeginPolicy, Fails, Goto, procVars, vsdVars
<1> QED BY <1>3, <1>4, <1>5, <1>6, <1>7

\* What an APPLY job does to the policies of the Domains.
LEMMA AppliedPolicies ==
    ASSUME IInv, DraftsApplied
    PROVE  /\ vpols' \in [Dom -> SUBSET Type] /\ vdraft' = {}
           /\ vpols'["own"] = vpols["own"] \cup vdraft
           /\ vpols'["other"] = vpols["other"]
BY DEF DraftsApplied, IInv, VSDType, Dom

\* Drafts that become live, a job that is late, or the end of the process at
\* that point.
LEMMA ApplyIInv ==
    ASSUME IInv, NEW t, NEW at, NEW next,
           \/ t = "egress" /\ at = "egressdraft" /\ next = "ingress"
           \/ t = "ingress" /\ at = "ingressdraft" /\ next = "cni",
           ApplyPolicy(t, at, next)
    PROVE  IInv'
<1>1. pc = at /\ UNCHANGED <<conf, vdoms, vclash>>
    BY DEF ApplyPolicy
<1>2. Domain = vdoms /\ vdoms = {"own"}
    BY <1>1, OneDomain DEF IInv, DraftsRight, DomainKnown
<1>3. CASE vdraft' \in {vdraft, {}} /\ Ends /\ UNCHANGED vpols
    BY <1>1, <1>2, <1>3, EndsInChangedVSD DEF IInv, VSDType
<1>4. CASE DraftsApplied /\ Created(next)
    <2>1. /\ vpols' \in [Dom -> SUBSET Type] /\ vdraft' = {}
          /\ vpols'["own"] = vpols["own"] \cup vdraft
        BY <1>4, AppliedPolicies
    <2>2. CASE Ends
        BY <1>1, <2>1, <2>2, EndsInChangedVSD DEF IInv, VSDType
    <2>3. CASE Goto(next)
        BY <1>1, <1>2, <2>1, <2>3 DEF Goto, procVars, IInv, VSDType, PC, DomainRight,
            PoliciesLive, DraftsRight, ConfigChecked, DomainKnown, EgressDone, AllDone
    <2> QED BY <1>4, <2>2, <2>3 DEF Created
<1>5. CASE pc' = next /\ late' = late \cup {t} /\ UNCHANGED <<vpols, vdraft, Domain, policies>>
    <2>1. t \notin vclash
        BY <1>1 DEF IInv, DraftsRight
    <2>2. VSDType' /\ DomainRight' /\ ConfigChecked'
        BY <1>1, <1>5 DEF IInv, VSDType, DomainRight, ConfigChecked, PC, DomainKnown, Type
    <2>3. PoliciesLive' /\ DraftsRight'
        BY <1>1, <1>2, <1>5, <2>1 DEF IInv, PoliciesLive, DraftsRight, DomainKnown, EgressDone, AllDone
    <2> QED BY <2>2, <2>3 DEF IInv
<1> QED BY <1>3, <1>4, <1>5 DEF ApplyPolicy

\* A job that was left behind ends.
LEMMA JobIInv ==
    ASSUME IInv, NEW j, JobEnds(j)
    PROVE  IInv'
<1>1. UNCHANGED <<conf, vdoms, vclash, pc, Domain, policies>>
    BY DEF JobEnds
<1>2. Drafting \subseteq Type /\ (pc = "egressdraft" => "egress" \in Drafting)
      /\ (pc = "ingressdraft" => "ingress" \in Drafting)
    BY DEF Drafting, Type
<1>3. CASE UNCHANGED <<vpols, vdraft, late>>
    BY <1>1, <1>3 DEF IInv, VSDType, DomainRight, PoliciesLive, DraftsRight, ConfigChecked
<1>4. CASE DraftsApplied /\ UNCHANGED late
    <2>1. /\ vpols' \in [Dom -> SUBSET Type] /\ vdraft' = {}
          /\ vpols'["own"] = vpols["own"] \cup vdraft /\ vpols'["other"] = vpols["other"]
        BY <1>4, AppliedPolicies
    <2>2. \A d \in Dom : vpols[d] \subseteq vpols'[d]
        BY <2>1 DEF Dom
    <2>3. VSDType' /\ DomainRight' /\ ConfigChecked'
        BY <1>1, <1>4, <2>1 DEF IInv, VSDType, DomainRight, ConfigChecked
    <2>4. PoliciesLive'
        BY <1>1, <1>4, <2>2 DEF IInv, VSDType, PoliciesLive
    <2>5. DraftsRight'
        BY <1>1, <1>4, <2>1 DEF IInv, DraftsRight
    <2> QED BY <2>3, <2>4, <2>5 DEF IInv
<1>5. CASE vdraft' = {} /\ late' = late \cup (Drafting \cap vdraft) /\ UNCHANGED vpols
    <2>1. VSDType' /\ DomainRight' /\ ConfigChecked' /\ PoliciesLive'
        BY <1>1, <1>2, <1>5 DEF IInv, VSDType, DomainRight, ConfigChecked, PoliciesLive
    <2>2. DraftsRight'
        BY <1>1, <1>2, <1>5 DEF IInv, DraftsRight
    <2> QED BY <2>1, <2>2 DEF IInv
<1> QED BY <1>3, <1>4, <1>5 DEF JobEnds

\* The last steps.
LEMMA LateIInv ==
    ASSUME IInv, CniInitClient \/ K8sInitClient \/ Crash
    PROVE  IInv'
<1>1. CASE Fails /\ UNCHANGED conf
    BY <1>1, EndsIInv DEF Fails, vsdVars
<1>2. CASE /\ pc \in {"cni", "k8s"} /\ pc' \in {"k8s", "ready"}
           /\ UNCHANGED <<conf, vsdVars, procVars>>
    BY <1>2 DEF IInv, VSDType, PC, DomainRight, PoliciesLive, DraftsRight, ConfigChecked,
        DomainKnown, EgressDone, AllDone, vsdVars, procVars
<1> QED BY <1>1, <1>2 DEF CniInitClient, K8sInitClient, Crash, Plain, Goto

\* Every step keeps the invariant.
LEMMA NextIInv ==
    ASSUME IInv, [Next]_vars
    PROVE  IInv'
<1>1. CASE UNCHANGED vars
    BY <1>1 DEF vars, vsdVars, procVars, IInv, VSDType, DomainRight, PoliciesLive, DraftsRight,
        ConfigChecked
<1>2. CASE InitPolicies
    BY <1>2, GetPoliciesIInv, BeginIInv, ApplyIInv DEF InitPolicies
<1> QED
    BY <1>1, <1>2, EarlyIInv, DomainIInv, LateIInv, JobIInv DEF Next, Step

----------------------------------------------------------------------------
(* The theorems *)

\* The invariant of start-up: it says at every step of main and InitClient
\* what the process may rely on in the VSD, whatever failed before and
\* whatever jobs were late.
THEOREM Invariance == Spec => []IInv
BY InitIInv, NextIInv, PTL DEF Spec

\* An agent that gets as far as its informers has exactly one Domain, with
\* the egress and the ingress policy live in it, but for a policy that a job
\* not done in time has lost in this very start.
THEOREM Complete == Spec => []ReadyComplete
<1>1. ASSUME IInv
      PROVE  ReadyComplete
    <2>1. CASE pc # "ready"
        BY <2>1 DEF ReadyComplete
    <2>2. CASE pc = "ready"
        <3>1. Domain = vdoms /\ (Domain = {"own"} \/ Domain = {"other"})
            BY <1>1, <2>2, OneDomain DEF DomainKnown
        <3>2. Cardinality(Domain) = 1
            BY <3>1, DomainCount DEF Dom
        <3>3. \A d \in Domain : vpols[d] \cup late = Type
            BY <1>1, <2>2, <3>1 DEF IInv, VSDType, PoliciesLive, EgressDone, AllDone, Type, Dom
        <3> QED BY <3>1, <3>2, <3>3 DEF ReadyComplete
    <2> QED BY <2>1, <2>2
<1> QED BY <1>1, Invariance, PTL

\* Doomed, without cardinalities.
LEMMA DoomedCases ==
    ASSUME IInv
    PROVE  Doomed <=>
             \/ ~conf.named \/ conf.cidr = {}
             \/ vdoms = {} /\ vtempl /\ pc # "domcreate"
             \/ vdoms = Dom
             \/ /\ vdoms = {"own"} \/ vdoms = {"other"}
                /\ \E d \in vdoms, t \in Type : t \notin vpols[d] /\ Refused(d, t)
<1>1. vdoms \in SUBSET Dom
    BY DEF IInv, VSDType
<1> QED BY <1>1, DomainCount DEF Doomed

\* What a step may change: Domains are only added, by CreateDomain, and only
\* drafts become live.
LEMMA VSDSteps ==
    ASSUME IInv, [Next]_vars
    PROVE  /\ UNCHANGED <<conf, vclash>>
           /\ vtempl => vtempl'
           /\ vdoms' = vdoms \/ (pc = "domcreate" /\ vdoms = {})
           /\ pc' = "domcreate" => pc = "domcreate" \/ ~vtempl
           /\ vpols' = vpols \/ DraftsApplied
<1> USE DEF vsdVars, procVars
<1>1. CASE UNCHANGED vars
    BY <1>1 DEF vars
<1>2. CASE Launch \/ LoadAgentConfig \/ EtcdInitClient \/ LeaderElection \/ ReadK8Sconfig \/ MakeX509conn
    BY <1>2 DEF Launch, LoadAgentConfig, EtcdInitClient, LeaderElection, ReadK8Sconfig, MakeX509conn,
        Plain, Goto, Fails, Ends
<1>3. CASE FindEnterprise \/ CreateEnterprise
    BY <1>3 DEF FindEnterprise, CreateEnterprise, Created, Goto, Fails, Ends
<1>4. CASE FindDomain \/ CreateTemplate \/ MakeCIDRs
    BY <1>4 DEF FindDomain, CreateTemplate, MakeCIDRs, Created, Goto, Fails, Ends
<1>5. CASE CreateDomain
    BY <1>5 DEF CreateDomain, Fails, Ends, IInv, DomainRight
<1>6. CASE \/ GetPolicies \/ ApplyPolicy("egress", "egressdraft", "ingress")
           \/ ApplyPolicy("ingress", "ingressdraft", "cni")
    BY <1>6 DEF GetPolicies, ApplyPolicy, Created, Goto, Fails, Ends
<1>7. CASE \/ BeginPolicy("egress", "egress", "egressdraft", "ingress")
           \/ BeginPolicy("ingress", "ingress", "ingressdraft", "cni")
    BY <1>7 DEF BeginPolicy, Goto, Fails, Ends
<1>8. CASE CniInitClient \/ K8sInitClient \/ Crash
    BY <1>8 DEF CniInitClient, K8sInitClient, Crash, Plain, Goto, Fails, Ends
<1>9. CASE \E j \in Command : JobEnds(j)
    BY <1>9 DEF JobEnds
<1> QED BY <1>1, <1>2, <1>3, <1>4, <1>5, <1>6, <1>7, <1>8, <1>9 DEF Next, Step, InitPolicies

\* An agent that is ready.
IsReady == pc = "ready"

\* It is not doomed.
LEMMA ReadyNotDoomed == IInv => ~(IsReady /\ Doomed)
<1> SUFFICES ASSUME IInv, pc = "ready"
             PROVE  ~Doomed
    BY DEF IsReady
<1>1. Domain = vdoms /\ (Domain = {"own"} \/ Domain = {"other"})
    BY OneDomain DEF DomainKnown
<1>2. \A d \in Domain, t \in Type : t \in vpols[d] \cup late
    BY DEF IInv, PoliciesLive, EgressDone, AllDone, Type
<1>2a. \A d \in Domain, t \in late : ~(t \notin vpols[d] /\ Refused(d, t))
    BY <1>1 DEF IInv, DraftsRight, Refused
<1>3. conf.named /\ conf.cidr # {}
    BY DEF IInv, ConfigChecked, DomainKnown
<1>4. Dom # {"own"} /\ Dom # {"other"}
    BY DEF Dom
<1> QED BY <1>1, <1>2, <1>2a, <1>3, <1>4, DoomedCases

\* A leftover template whose Domain was never made, several Domains of the
\* configured name, or a policy that cannot be applied stays in the way of
\* InitClient: no later start gets ready, whatever succeeds or fails.
THEOREM DoomedStays == Spec => DoomedForGood
<1>1. ASSUME IInv, IInv', [Next]_vars, Doomed
      PROVE  Doomed'
    <2>1. UNCHANGED <<conf, vclash>> /\ (vtempl => vtempl')
          /\ (pc' = "domcreate" => pc = "domcreate" \/ ~vtempl)
        BY <1>1, VSDSteps
    <2>2. vdoms' = vdoms \/ (pc = "domcreate" /\ vdoms = {})
        BY <1>1, VSDSteps
    <2>3. CASE ~conf.named \/ conf.cidr = {}
        BY <2>1, <2>3 DEF Doomed
    <2>4. CASE vdoms = {} /\ vtempl /\ pc # "domcreate"
        BY <2>1, <2>2, <2>4 DEF Doomed
    <2>5. CASE vdoms = Dom
        <3>1. Cardinality(vdoms) > 1
            BY <2>5, DomainCount
        <3>2. vdoms' = vdoms
            BY <2>2, <2>5 DEF Dom
        <3> QED BY <3>1, <3>2 DEF Doomed
    <2>6. CASE /\ vdoms = {"own"} \/ vdoms = {"other"}
               /\ \E d \in vdoms, t \in Type : t \notin vpols[d] /\ Refused(d, t)
        <3>1. vdoms' = vdoms
            BY <2>2, <2>6
        <3>2. PICK d \in vdoms, t \in Type : t \notin vpols[d] /\ Refused(d, t)
            BY <2>6
        <3>3. vdoms \subseteq Dom /\ vpols \in [Dom -> SUBSET Type]
            BY <1>1 DEF IInv, VSDType
        <3>4. t \notin vpols'[d]
            <4>1. CASE d # "own"
                BY <1>1, <3>2, <3>3, <4>1, VSDSteps DEF DraftsApplied
            <4>2. CASE d = "own"
                <5>1. t \in vclash /\ t \notin vdraft
                    BY <1>1, <3>2, <4>2 DEF Refused, IInv, DraftsRight
                <5> QED BY <1>1, <3>2, <3>3, <4>2, <5>1, VSDSteps DEF DraftsApplied
            <4> QED BY <4>1, <4>2
        <3>5. d # "own" \/ t \in vclash'
            BY <2>1, <3>2 DEF Refused
        <3>6. Cardinality(vdoms) = 1
            BY <2>6, <3>3, DomainCount
        <3> QED BY <3>1, <3>2, <3>4, <3>5, <3>6 DEF Doomed, Refused
    <2> QED BY <1>1, <2>3, <2>4, <2>5, <2>6, DoomedCases
<1>2. IInv' => ~(IsReady' /\ Doomed')
    BY ReadyNotDoomed, PTL
<1>3. IInv' => (Doomed' => pc' # "ready")
    BY <1>2 DEF IsReady
<1>4. IInv /\ IInv' /\ [Next]_vars => [Doomed => Doomed' /\ pc' # "ready"]_vars
    BY <1>1, <1>3
<1> QED BY <1>4, Invariance, PTL DEF Spec, DoomedForGood
----------------------------------------------------------------------------
(* Types and prefixes *)

\* The prefixes are there from initCIDRs on, and are those of the
\* configuration.
CidrsRight ==
    pc \in DomainKnown \ {"cidrs"} => \E c \in conf.cidr : FreeCIDRs = InitCIDRs(c, conf.slen)

PInv == TypeOK /\ CidrsRight

\* What a configuration holds.
LEMMA ConfigParts ==
    ASSUME TypeOK
    PROVE  conf.slen \in Int /\ \A c \in conf.cidr : c \in ParsedCIDR
<1>1. conf \in Config
    BY ConfigAssumption DEF TypeOK
<1> QED BY <1>1 DEF Config

\* A step of the process that changes no prefixes keeps PInv if it keeps the
\* other types.
LEMMA KeepsPInv ==
    ASSUME PInv, UNCHANGED conf, pc' \in PC, Domain' \subseteq Dom, policies' \subseteq Type,
           late' \subseteq Type, faults' = faults \/ Fault,
           vent' \in BOOLEAN, vtempl' \in BOOLEAN, vdoms' \subseteq Dom,
           vpols' \in [Dom -> SUBSET Type], vclash' \subseteq Type, vdraft' \subseteq Type, vjobs' \subseteq Command,
           \/ FreeCIDRs' = {} /\ pc' \notin DomainKnown \ {"cidrs"}
           \/ /\ UNCHANGED FreeCIDRs
              /\ pc' \in DomainKnown \ {"cidrs"} => pc \in DomainKnown \ {"cidrs"}
    PROVE  PInv'
<1>1. faults' \in 0 .. MaxFaults
    BY FaultAssumption DEF PInv, TypeOK, Fault
<1>2. FreeCIDRs' \subseteq Prefix /\ conf' \in Configs
    BY DEF PInv, TypeOK
<1>3. CidrsRight'
    BY DEF PInv, CidrsRight
<1>4. TypeOK'
    BY <1>1, <1>2 DEF TypeOK
<1> QED BY <1>3, <1>4 DEF PInv

\* A call fails, or the process dies.
LEMMA FailsPInv ==
    ASSUME PInv, Ends, UNCHANGED conf, faults' = faults \/ Fault,
           vent' \in BOOLEAN, vtempl' \in BOOLEAN, vdoms' \subseteq Dom,
           vpols' \in [Dom -> SUBSET Type], vclash' \subseteq Type, vdraft' \subseteq Type, vjobs' \subseteq Command
    PROVE  PInv'
<1>1. /\ pc' \in PC /\ pc' \notin DomainKnown /\ Domain' \subseteq Dom /\ policies' \subseteq Type
      /\ FreeCIDRs' = {} /\ late' = {}
    BY DEF Ends, PC, DomainKnown
<1> QED BY <1>1, KeepsPInv

\* The VSD is left as it is.
LEMMA SameVSD ==
    ASSUME PInv, UNCHANGED vsdVars
    PROVE  /\ vent' \in BOOLEAN /\ vtempl' \in BOOLEAN /\ vdoms' \subseteq Dom
           /\ vpols' \in [Dom -> SUBSET Type] /\ vclash' \subseteq Type /\ vdraft' \subseteq Type
           /\ vjobs' \subseteq Command
BY DEF PInv, TypeOK, vsdVars

\* The process goes on in a VSD whose types are kept.
LEMMA GotoPInv ==
    ASSUME PInv, NEW next \in PC, Goto(next), UNCHANGED conf, faults' = faults \/ Fault,
           next \in DomainKnown \ {"cidrs"} => pc \in DomainKnown \ {"cidrs"},
           vent' \in BOOLEAN, vtempl' \in BOOLEAN, vdoms' \subseteq Dom,
           vpols' \in [Dom -> SUBSET Type], vclash' \subseteq Type, vdraft' \subseteq Type, vjobs' \subseteq Command
    PROVE  PInv'
<1>1. pc' = next /\ UNCHANGED <<Domain, policies, FreeCIDRs, late>>
    BY DEF Goto, procVars
<1>2. Domain' \subseteq Dom /\ policies' \subseteq Type /\ late' \subseteq Type
    BY <1>1 DEF PInv, TypeOK
<1> QED BY <1>1, <1>2, KeepsPInv

\* Steps that only read, connect or wait.
LEMMA PlainPInv ==
    ASSUME PInv, NEW at \in PC, NEW next \in PC, Plain(at, next),
           next \in DomainKnown \ {"cidrs"} => at \in DomainKnown \ {"cidrs"}
    PROVE  PInv'
<1>1. UNCHANGED <<conf, vsdVars>> /\ pc = at
    BY DEF Plain, Fails
<1>2. CASE Goto(next) /\ UNCHANGED faults
    BY <1>1, <1>2, GotoPInv, SameVSD
<1>3. CASE Fails
    BY <1>1, <1>3, FailsPInv, SameVSD DEF Fails
<1> QED BY <1>2, <1>3 DEF Plain

\* The steps up to the Enterprise.
LEMMA EarlyPInv ==
    ASSUME PInv,
           Launch \/ LoadAgentConfig \/ EtcdInitClient \/ LeaderElection \/ ReadK8Sconfig
           \/ CniInitClient \/ K8sInitClient \/ MakeX509conn \/ FindEnterprise \/ CreateEnterprise
    PROVE  PInv'
<1>1. /\ {"config", "etcd", "elect", "readK8S", "connect", "enterprise", "entcreate", "domain"}
            \subseteq PC \ DomainKnown
      /\ {"cni", "k8s", "ready"} \subseteq PC \cap (DomainKnown \ {"cidrs"})
    BY DEF PC, DomainKnown
<1>2. CASE Launch
    <2>1. Goto("config") /\ UNCHANGED <<conf, vsdVars, faults>>
        BY <1>2 DEF Launch
    <2> QED BY <1>1, <2>1, GotoPInv, SameVSD
<1>3. CASE LoadAgentConfig \/ EtcdInitClient \/ LeaderElection \/ ReadK8Sconfig
    BY <1>1, <1>3, PlainPInv DEF LoadAgentConfig, EtcdInitClient, LeaderElection, ReadK8Sconfig
<1>4. CASE CniInitClient \/ K8sInitClient
    BY <1>1, <1>4, PlainPInv DEF CniInitClient, K8sInitClient
<1>5. CASE MakeX509conn
    <2>1. UNCHANGED <<conf, vsdVars>>
        BY <1>5 DEF MakeX509conn, Fails
    <2>2. \/ Goto("enterprise") /\ UNCHANGED faults
          \/ Ends /\ (faults' = faults \/ Fault)
        BY <1>5 DEF MakeX509conn, Fails
    <2> QED BY <1>1, <2>1, <2>2, GotoPInv, FailsPInv, SameVSD
<1>6. CASE FindEnterprise
    <2>1. UNCHANGED <<conf, vsdVars>>
        BY <1>6 DEF FindEnterprise, Fails
    <2>2. \/ Goto("domain") /\ UNCHANGED faults
          \/ Goto("entcreate") /\ UNCHANGED faults
          \/ Ends /\ Fault
        BY <1>6 DEF FindEnterprise, Fails
    <2> QED BY <1>1, <2>1, <2>2, GotoPInv, FailsPInv, SameVSD
<1>7. CASE CreateEnterprise
    <2>1. CASE Fails
        BY <1>7, <2>1, FailsPInv, SameVSD DEF Fails, CreateEnterprise
    <2>2. CASE Created("domain") /\ vent' = TRUE /\ UNCHANGED <<vtempl, vdoms, vpols, vclash, vdraft, vjobs>>
        <3>1. /\ vent' \in BOOLEAN /\ vtempl' \in BOOLEAN /\ vdoms' \subseteq Dom
              /\ vpols' \in [Dom -> SUBSET Type] /\ vclash' \subseteq Type /\ vdraft' \subseteq Type
              /\ vjobs' \subseteq Command
            BY <2>2 DEF PInv, TypeOK
        <3>2. (Goto("domain") /\ UNCHANGED faults) \/ (Fault /\ Ends)
            BY <2>2 DEF Created
        <3>3. UNCHANGED conf
            BY <1>7 DEF CreateEnterprise
        <3> QED BY <1>1, <3>1, <3>2, <3>3, GotoPInv, FailsPInv
    <2> QED BY <1>7, <2>1, <2>2 DEF CreateEnterprise
<1> QED BY <1>2, <1>3, <1>4, <1>5, <1>6, <1>7

\* The steps that find or make the Domain, and those that die on their own.
LEMMA DomainPInv ==
    ASSUME PInv, FindDomain \/ CreateTemplate \/ CreateDomain \/ Crash
    PROVE  PInv'
<1>1. {"template", "domcreate", "cidrs"} \subseteq PC \ (DomainKnown \ {"cidrs"}) /\ "own" \in Dom
    BY DEF PC, DomainKnown, Dom
<1>2. UNCHANGED conf
    BY DEF FindDomain, CreateTemplate, CreateDomain, Crash
<1>3. CASE Fails
    BY <1>2, <1>3, FailsPInv, SameVSD DEF Fails
<1>4. CASE FindDomain /\ ~Fails
    <2>1. /\ pc' \in {"template", "cidrs"} /\ Domain' = Chosen(vdoms)
          /\ UNCHANGED <<vsdVars, policies, FreeCIDRs, late, faults>>
        BY <1>4 DEF FindDomain
    <2>2. Domain' \subseteq Dom /\ policies' \subseteq Type /\ late' \subseteq Type
        BY <2>1 DEF PInv, TypeOK, Chosen
    <2> QED BY <1>1, <1>2, <2>1, <2>2, KeepsPInv, SameVSD
<1>5. CASE CreateTemplate /\ ~Fails
    <2>1. CASE Ends /\ UNCHANGED <<vsdVars, faults>>
        BY <1>2, <2>1, FailsPInv, SameVSD
    <2>2. CASE /\ Created("domcreate") /\ vtempl' = TRUE
               /\ UNCHANGED <<vent, vdoms, vpols, vclash, vdraft, vjobs>>
        <3>1. /\ vent' \in BOOLEAN /\ vtempl' \in BOOLEAN /\ vdoms' \subseteq Dom
              /\ vpols' \in [Dom -> SUBSET Type] /\ vclash' \subseteq Type /\ vdraft' \subseteq Type
              /\ vjobs' \subseteq Command
            BY <2>2 DEF PInv, TypeOK
        <3>2. (Goto("domcreate") /\ UNCHANGED faults) \/ (Fault /\ Ends)
            BY <2>2 DEF Created
        <3> QED BY <1>1, <1>2, <3>1, <3>2, GotoPInv, FailsPInv
    <2> QED BY <1>5, <2>1, <2>2 DEF CreateTemplate
<1>6. CASE CreateDomain /\ ~Fails
    <2>1. /\ vdoms' = vdoms \cup {"own"} /\ UNCHANGED <<vent, vtempl, vpols, vclash, vdraft, vjobs>>
          /\ \/ pc' = "cidrs" /\ Domain' = {"own"} /\ UNCHANGED <<policies, FreeCIDRs, late, faults>>
             \/ Fault /\ Ends
        BY <1>6 DEF CreateDomain
    <2>2. /\ vent' \in BOOLEAN /\ vtempl' \in BOOLEAN /\ vdoms' \subseteq Dom
          /\ vpols' \in [Dom -> SUBSET Type] /\ vclash' \subseteq Type /\ vdraft' \subseteq Type
          /\ vjobs' \subseteq Command
        BY <1>1, <2>1 DEF PInv, TypeOK
    <2>3. CASE pc' = "cidrs" /\ Domain' = {"own"} /\ UNCHANGED <<policies, FreeCIDRs, late, faults>>
        <3>1. Domain' \subseteq Dom /\ policies' \subseteq Type /\ late' \subseteq Type
            BY <1>1, <2>3 DEF PInv, TypeOK
        <3> QED BY <1>1, <1>2, <2>2, <2>3, <3>1, KeepsPInv
    <2> QED BY <1>2, <2>1, <2>2, <2>3, FailsPInv
<1> QED BY <1>3, <1>4, <1>5, <1>6 DEF Crash

\* initCIDRs makes the prefixes of the configuration.
LEMMA MakeCIDRsPInv ==
    ASSUME PInv, MakeCIDRs
    PROVE  PInv'
<1>1. UNCHANGED <<conf, vsdVars, faults>>
    BY DEF MakeCIDRs
<1>2. CASE Ends
    BY <1>1, <1>2, FailsPInv, SameVSD
<1>3. CASE /\ \E c \in conf.cidr : FreeCIDRs' = InitCIDRs(c, conf.slen)
           /\ pc' = "getpolicies" /\ UNCHANGED <<Domain, policies, late>>
    <2>1. PICK c \in conf.cidr : FreeCIDRs' = InitCIDRs(c, conf.slen)
        BY <1>3
    <2>2. FreeCIDRs' \subseteq Prefix
        BY <2>1, ConfigParts, InitCIDRsType DEF PInv
    <2>3. "getpolicies" \in PC
        BY DEF PC
    <2>4. TypeOK'
        BY <1>1, <1>3, <2>2, <2>3, SameVSD DEF PInv, TypeOK
    <2>5. CidrsRight'
        BY <1>1, <2>1 DEF CidrsRight
    <2> QED BY <2>4, <2>5 DEF PInv
<1> QED BY <1>2, <1>3 DEF MakeCIDRs

\* The steps of initPolicies.
LEMMA PoliciesPInv ==
    ASSUME PInv, InitPolicies
    PROVE  PInv'
<1>1. {"getpolicies", "egress", "egressdraft", "ingress", "ingressdraft", "cni"}
        \subseteq PC \cap (DomainKnown \ {"cidrs"})
    BY DEF PC, DomainKnown
<1>2. CASE GetPolicies
    <2>1. UNCHANGED <<conf, vsdVars>> /\ pc = "getpolicies"
        BY <1>2 DEF GetPolicies, Fails
    <2>2. CASE Ends /\ (UNCHANGED faults \/ Fault)
        BY <2>1, <2>2, FailsPInv, SameVSD
    <2>3. CASE /\ Domain # {} /\ pc' = "egress"
               /\ \E d \in Domain :
                   \/ policies' = vpols[d] /\ UNCHANGED faults
                   \/ Fault /\ policies' \in SUBSET vpols[d] \ {vpols[d]}
               /\ UNCHANGED <<Domain, FreeCIDRs, late>>
        <3>1. Domain' \subseteq Dom /\ policies' \subseteq Type /\ late' \subseteq Type
            BY <2>3 DEF PInv, TypeOK
        <3>2. faults' = faults \/ Fault
            BY <2>3
        <3> QED BY <1>1, <2>1, <2>3, <3>1, <3>2, KeepsPInv, SameVSD
    <2> QED BY <1>2, <2>2, <2>3 DEF GetPolicies, Fails
<1>3. ASSUME NEW t \in Type, NEW at \in PC \cap (DomainKnown \ {"cidrs"}),
             NEW draft \in PC \cap (DomainKnown \ {"cidrs"}), NEW next \in PC \cap (DomainKnown \ {"cidrs"}),
             BeginPolicy(t, at, draft, next)
      PROVE  PInv'
    <2>1. UNCHANGED conf /\ pc = at
        BY <1>3 DEF BeginPolicy
    <2>2. /\ UNCHANGED <<vent, vtempl, vdoms, vpols, vclash>>
          /\ vdraft' \in {vdraft, vdraft \cup {t}, {}} /\ vjobs' \in {vjobs, vjobs \cup {"DISCARD"}}
        BY <1>3 DEF BeginPolicy, Fails, vsdVars
    <2>3. /\ vent' \in BOOLEAN /\ vtempl' \in BOOLEAN /\ vdoms' \subseteq Dom
          /\ vpols' \in [Dom -> SUBSET Type] /\ vclash' \subseteq Type /\ vdraft' \subseteq Type
          /\ vjobs' \subseteq Command
        BY <2>2 DEF PInv, TypeOK, Command
    <2>4. \/ Goto(next) /\ UNCHANGED faults
          \/ Goto(draft) /\ UNCHANGED faults
          \/ Ends /\ (faults' = faults \/ Fault)
          \/ /\ Fault /\ pc' = draft /\ late' = late \cup {t}
             /\ UNCHANGED <<Domain, policies, FreeCIDRs>>
        BY <1>3 DEF BeginPolicy, Fails
    <2>5. CASE /\ Fault /\ pc' = draft /\ late' = late \cup {t}
               /\ UNCHANGED <<Domain, policies, FreeCIDRs>>
        <3>1. Domain' \subseteq Dom /\ policies' \subseteq Type /\ late' \subseteq Type
            BY <2>5 DEF PInv, TypeOK
        <3> QED BY <2>1, <2>3, <2>5, <3>1, KeepsPInv
    <2> QED BY <2>1, <2>3, <2>4, <2>5, GotoPInv, FailsPInv
<1>4. ASSUME NEW t \in Type, NEW at \in PC \cap (DomainKnown \ {"cidrs"}),
             NEW next \in PC \cap (DomainKnown \ {"cidrs"}), ApplyPolicy(t, at, next)
      PROVE  PInv'
    <2>1. /\ UNCHANGED <<conf, vent, vtempl, vdoms, vclash>> /\ pc = at /\ vdraft' \in {vdraft, {}}
          /\ vjobs' = vjobs \/ \E j \in Command : vjobs' = vjobs \cup {j}
        BY <1>4 DEF ApplyPolicy, DraftsApplied, Command
    <2>2. vpols' = vpols \/ vpols' = [vpols EXCEPT !["own"] = @ \cup vdraft]
        BY <1>4 DEF ApplyPolicy, DraftsApplied
    <2>3. vpols' \in [Dom -> SUBSET Type]
        BY <2>2 DEF PInv, TypeOK, Dom
    <2>4. /\ vent' \in BOOLEAN /\ vtempl' \in BOOLEAN /\ vdoms' \subseteq Dom
          /\ vclash' \subseteq Type /\ vdraft' \subseteq Type /\ vjobs' \subseteq Command
        BY <2>1 DEF PInv, TypeOK
    <2>5. \/ Goto(next) /\ UNCHANGED faults
          \/ Ends /\ Fault
          \/ /\ Fault /\ pc' = next /\ late' = late \cup {t}
             /\ UNCHANGED <<Domain, policies, FreeCIDRs>>
        BY <1>4 DEF ApplyPolicy, Created
    <2>6. CASE /\ Fault /\ pc' = next /\ late' = late \cup {t}
               /\ UNCHANGED <<Domain, policies, FreeCIDRs>>
        <3>1. Domain' \subseteq Dom /\ policies' \subseteq Type /\ late' \subseteq Type
            BY <2>6 DEF PInv, TypeOK
        <3> QED BY <2>1, <2>3, <2>4, <2>6, <3>1, KeepsPInv
    <2> QED BY <2>1, <2>3, <2>4, <2>5, <2>6, GotoPInv, FailsPInv
<1>5. Type = {"egress", "ingress"}
    BY DEF Type
<1> QED BY <1>1, <1>2, <1>3, <1>4, <1>5 DEF InitPolicies

\* A job that was left behind ends.
LEMMA JobPInv ==
    ASSUME PInv, NEW j, JobEnds(j)
    PROVE  PInv'
<1>1. UNCHANGED <<conf, vent, vtempl, vdoms, vclash, pc, Domain, policies, FreeCIDRs, faults>>
    BY DEF JobEnds
<1>2. /\ vdraft' \in {vdraft, {}} /\ vjobs' \subseteq vjobs
      /\ vpols' = vpols \/ vpols' = [vpols EXCEPT !["own"] = @ \cup vdraft]
    BY DEF JobEnds, DraftsApplied
<1>3. /\ vpols' \in [Dom -> SUBSET Type] /\ vdraft' \subseteq Type /\ vjobs' \subseteq Command
    BY <1>2 DEF PInv, TypeOK, Dom
<1>4. late' \subseteq Type
    BY DEF JobEnds, Drafting, PInv, TypeOK
<1>5. TypeOK' /\ CidrsRight'
    BY <1>1, <1>3, <1>4 DEF PInv, TypeOK, CidrsRight
<1> QED BY <1>5 DEF PInv

\* Every step keeps types and prefixes.
LEMMA NextPInv ==
    ASSUME PInv, [Next]_vars
    PROVE  PInv'
<1>1. CASE UNCHANGED vars
    BY <1>1 DEF vars, vsdVars, procVars, PInv, TypeOK, CidrsRight
<1> QED BY <1>1, EarlyPInv, DomainPInv, MakeCIDRsPInv, PoliciesPInv, JobPInv DEF Next, Step

\* FreeCIDRs holds what initCIDRs makes of the configuration from there on.
THEOREM PrefixInvariance == Spec => []PInv
<1>1. Init => PInv
    BY FaultAssumption DEF Init, PInv, TypeOK, PC, CidrsRight, DomainKnown
<1> QED BY <1>1, NextPInv, PTL DEF Spec

\* Every variable of the start keeps its type; no overflow of initCIDRs makes a
\* prefix that is not an address.
THEOREM TypeCorrect == Spec => []TypeOK
<1>1. PInv => TypeOK
    BY DEF PInv
<1> QED BY <1>1, PrefixInvariance, PTL

\* For every ClusterCIDR and every hostSubnetLength that leaves room for
\* hosts, the subnets of an agent that is ready are disjoint, of the configured
\* size, within the ClusterCIDR, and together all of it or MAX_SUBNETS.
THEOREM Partition == Spec => []PrefixesPartition
<1>1. ASSUME PInv PROVE PrefixesPartition
    <2>1. SUFFICES ASSUME NEW c \in conf.cidr, pc = "ready", ValidLength(c, conf.slen)
                   PROVE  Partitions(FreeCIDRs, c, conf.slen)
        BY DEF PrefixesPartition
    <2>2. conf.slen \in Int /\ \A x \in conf.cidr : x \in ParsedCIDR
        BY <1>1, ConfigParts DEF PInv
    <2>3. \A x \in conf.cidr : x = c
        <3>1. conf \in Config
            BY <1>1, ConfigAssumption DEF PInv, TypeOK
        <3> QED BY <3>1 DEF Config
    <2>4. FreeCIDRs = InitCIDRs(c, conf.slen)
        BY <1>1, <2>1, <2>3 DEF PInv, CidrsRight, DomainKnown
    <2> QED BY <2>1, <2>2, <2>4, InitCIDRsPartition
<1> QED BY <1>1, PrefixInvariance, PTL
=============================================================================
