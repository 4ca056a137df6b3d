---------------------------- MODULE ClusterCIDR ----------------------------
(***************************************************************************)
(* initCIDRs: how the ClusterCIDR is cut into the prefixes of FreeCIDRs.   *)
(* An address is a number below 2^W (W is 32 in the code), a configuration *)
(* a network address, the length of its mask and hostSubnetLength, which   *)
(* nothing validates.                                                      *)
(***************************************************************************)
EXTENDS Integers, FiniteSets

CONSTANTS
    W,          \* bits of an address
    IntW,       \* bits of an int
    MAX_SUBNETS

ASSUME WidthAssumption == W \in Nat \ {0} /\ IntW \in Nat /\ IntW > W /\ MAX_SUBNETS \in Nat

\* Two laws of exponentiation that hold for every W: TLAPS knows neither, TLC
\* evaluates them for the W of a run.
ASSUME PowerLaws == \A a, b \in 0 .. W : 2^a \in Nat \ {0} /\ 2^(a + b) = 2^a * 2^b

\* What net.ParseCIDR returns: the host bits of the address are cleared.
ParsedCIDR == {c \in [ip : 0 .. (2^W - 1), cmask : 0 .. W] : c.ip % 2^(W - c.cmask) = 0}

\* 1 << uint(n) as an int: a negative n is a huge count, which shifts the
\* one out, and the sign bit makes the result negative.
ShiftedOne(n) == IF n \in 0 .. (IntW - 2) THEN 2^n ELSE IF n = IntW - 1 THEN -(2^n) ELSE 0

\* The length of the subnets' mask (a uint, never negative in what follows:
\* with a negative SubnetLength the loop has no rounds).
SMask(c, slen) == c.cmask + slen

\* The number of rounds of the loop.
Rounds(slen) == IF ShiftedOne(slen) < MAX_SUBNETS THEN ShiftedOne(slen) ELSE MAX_SUBNETS

\* Mutant of NewPrefix: subnets are half of what their mask says.
HalfPrefix(c, slen, i) == (c.ip + i * ShiftedOne(W - SMask(c, slen) - 1)) % 2^W

\* Mutant of NewPrefix: steps of the size of the ClusterCIDR, not wrapped.
WidePrefix(c, slen, i) == c.ip + i * ShiftedOne(W - c.cmask)

\* intToIP(ipToInt(ccidr.IP) + int32(i*(1<<(32-smask)))), all of it modulo 2^W.
NewPrefix(c, slen, i) == (c.ip + i * ShiftedOne(W - SMask(c, slen))) % 2^W

\* FreeCIDRs after initCIDRs.  An impossible mask length is only logged, and
\* net.CIDRMask makes a nil mask of it, which is the empty set.
InitCIDRs(c, slen) ==
    {[prefix |-> NewPrefix(c, slen, i), mask |-> {SMask(c, slen)} \cap 0 .. W] :
        i \in 0 .. (Rounds(slen) - 1)}

----------------------------------------------------------------------------
(* The reference: subnets as sets of addresses *)

Addresses(ip, mask) == {a \in 0 .. (2^W - 1) : a \div 2^(W - mask) = ip \div 2^(W - mask)}

\* The configuration leaves room for subnets with hosts.
ValidLength(c, slen) == slen >= 0 /\ SMask(c, slen) < W

\* The prefixes are distinct subnets of the configured size within the
\* ClusterCIDR, all of them unless there are more than MAX_SUBNETS.
Partitions(free, c, slen) ==
    /\ \A f \in free :
        /\ f.mask = {SMask(c, slen)}
        /\ Addresses(f.prefix, SMask(c, slen)) \subseteq Addresses(c.ip, c.cmask)
        /\ \A g \in free : f # g =>
            Addresses(f.prefix, SMask(c, slen)) \cap Addresses(g.prefix, SMask(c, slen)) = {}
    /\ \/ Cardinality(free) = MAX_SUBNETS
       \/ UNION {Addresses(f.prefix, SMask(c, slen)) : f \in free} = Addresses(c.ip, c.cmask)
=============================================================================
