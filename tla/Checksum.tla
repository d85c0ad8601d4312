------------------------------ MODULE Checksum ------------------------------
(***************************************************************************)
(* The Internet checksum arithmetic of the datapath, on words 0 .. Mask:   *)
(* the incremental updates of NAT and the pseudo-header exchange of NAT64, *)
(* and what a receiver accepts.                                            *)
(*                                                                         *)
(* An IPv4 address counts as one word and an IPv6 address as two, where    *)
(* the code has two and eight words of 16 bits.                            *)
(***************************************************************************)
EXTENDS Integers

CONSTANTS
    Mask,       \* the largest word: 2^16 - 1 in the code
    WordOf(_),  \* the word of an IPv4 address
    HostOf(_),  \* the word that an IPv6 address of a guest adds
    Prefix64,   \* the word of 64:ff9b::/96
    L4Len       \* the word of the L4 length

ASSUME ChecksumAssumption ==
    /\ Mask \in Nat /\ Mask >= 9
    /\ Prefix64 \in 0 .. Mask
    /\ L4Len \in 0 .. Mask

Not(w) == Mask - w
FoldOnce(s) == (s % (Mask + 1)) + (s \div (Mask + 1))

\* Mutant: the carries are not folded in.
Fold_Unfolded(s) == s

\* Two folds, then the cast to a word.
Fold(s) == FoldOnce(FoldOnce(s)) % (Mask + 1)

\* Stand-ins that fit into a small word: UDP is 17 in the code.
ProtoWord(proto) == CASE proto = "tcp" -> 6 [] proto = "udp" -> 2 [] proto = "icmp" -> 1

\* Pseudo-headers of the two families.
pseudo_v4(src, dst, proto) == Fold(WordOf(src) + WordOf(dst) + ProtoWord(proto) + L4Len)
pseudo_v6(src, dst, proto) == Fold(src[1] + src[2] + dst[1] + dst[2] + ProtoWord(proto) + L4Len)

\* 64:ff9b::/96 with an IPv4 address embedded; the address of a guest.
nat64_embed(ip) == <<Prefix64, WordOf(ip)>>
Addr6(g) == <<HostOf(g), WordOf(g)>>

\* HC' = ~(~HC + ~m + m').
csum_replace(ck, old, new) == Not(Fold(Not(ck) + Not(old) + new))

\* Mutant: the port change is not accounted for.
tcp_udp_v6_to_v4_NoPort(ck, src6, dst6, src, dst, proto, old, new) ==
    Not(Fold(Not(ck) + Not(pseudo_v6(src6, dst6, proto)) + pseudo_v4(src, dst, proto)))

tcp_udp_v6_to_v4(ck, src6, dst6, src, dst, proto, old, new) ==
    Not(Fold(Not(ck) + Not(pseudo_v6(src6, dst6, proto)) + pseudo_v4(src, dst, proto)
               + Not(old) + new))
tcp_udp_v4_to_v6(ck, src, dst, src6, dst6, proto) ==
    Not(Fold(Not(ck) + Not(pseudo_v4(src, dst, proto)) + pseudo_v6(src6, dst6, proto)))

\* Type and code of the echo messages; 9 stands for 129.
EchoRequest4 == 8
EchoReply6 == 9
EchoLen == 8

\* The checksum of the eight bytes of an echo header; over IPv6 a pseudo-
\* header with a length of eight comes first.
icmpv4_echo_checksum(id) == Not(Fold(EchoRequest4 + id))
icmpv6_echo_checksum(src, dst, id) ==
    Not(Fold(src[1] + src[2] + dst[1] + dst[2] + EchoLen + ProtoWord("icmp") + EchoReply6 + id))

\* What a sender computes and a receiver accepts: the words of the message
\* and of its pseudo-header, checksum included, sum up to all ones.
Sum(pseudo, k, payload) == pseudo + k.sport + k.dport + payload
Computed(pseudo, k, payload) == Not(Fold(Sum(pseudo, k, payload)))
Accepts(pseudo, k, payload, ck) == Fold(Sum(pseudo, k, payload) + ck) = Mask
AcceptsEcho(type, id, payload, ck) == Fold(type + id + payload + ck) = Mask
=============================================================================
