----------------------------- MODULE Nat64Proofs -----------------------------
(***************************************************************************)
(* Proofs about Nat64, for any number of guests, ports and CPUs, any word  *)
(* size and every payload.                                                 *)
(***************************************************************************)
EXTENDS Nat64, NatConntrackProofs

(***************************************************************************)
(* The checksum arithmetic: words are added modulo Mask, and a sum that is *)
(* not zero is never folded to zero.                                       *)
(***************************************************************************)

\* Division with remainder.
LEMMA DivMod ==
    ASSUME NEW s \in Nat, NEW n \in Nat \ {0}
    PROVE  s = n * (s \div n) + (s % n) /\ s \div n \in Int /\ s % n \in 0 .. (n - 1)
  OBVIOUS

\* One fold takes Mask off for every carry.
LEMMA FoldOnceLaw ==
    ASSUME NEW s \in Nat, NEW n \in 1 .. 10, s <= n * Mask
    PROVE  \E q \in 0 .. (n - 1), r \in 0 .. Mask :
              /\ s = q + r + Mask * q
              /\ FoldOnce(s) = r + q
<1> DEFINE q == s \div (Mask + 1)
           r == s % (Mask + 1)
<1>1. Mask \in Nat /\ Mask >= 9
  BY ChecksumAssumption
<1>2. s = (Mask + 1) * q + r /\ q \in Int /\ r \in 0 .. Mask
  <2>1. PICK n1 \in Nat \ {0} : n1 = Mask + 1
    BY <1>1
  <2>2. s = n1 * (s \div n1) + (s % n1) /\ s \div n1 \in Int /\ s % n1 \in 0 .. (n1 - 1)
    BY DivMod
  <2> QED
    BY <1>1, <2>1, <2>2
<1>3. FoldOnce(s) = r + q
  BY DEF FoldOnce
<1> HIDE DEF q, r
<1>4. q >= 0
  <2> SUFFICES ASSUME q <= -1 PROVE FALSE
    BY <1>2
  <2>1. (Mask + 1) * q <= -(Mask + 1)
    BY <1>1, <1>2
  <2> QED
    BY <1>1, <1>2, <2>1
<1>5. q <= n - 1
  <2> SUFFICES ASSUME q >= n PROVE FALSE
    BY <1>2
  <2>1. (Mask + 1) * q >= (Mask + 1) * n
    BY <1>1, <1>2
  <2>2. (Mask + 1) * n = n * Mask + n
    BY <1>1
  <2>3. n * Mask \in Int
    BY <1>1
  <2> QED
    BY <1>1, <1>2, <2>1, <2>2, <2>3
<1>6. s = q + r + Mask * q
  BY <1>1, <1>2
<1> QED
  BY <1>2, <1>3, <1>4, <1>5, <1>6

\* Fold yields a word that is congruent to the sum, and zero for zero only.
LEMMA FoldLaw ==
    ASSUME NEW s \in Nat, s <= 10 * Mask
    PROVE  /\ Fold(s) \in 0 .. Mask
           /\ s # 0 => Fold(s) # 0
           /\ \E q \in Int : s = Fold(s) + Mask * q
<1>1. Mask \in Nat /\ Mask >= 9
  BY ChecksumAssumption
<1>2. PICK q1 \in 0 .. 9, r1 \in 0 .. Mask : s = q1 + r1 + Mask * q1 /\ FoldOnce(s) = r1 + q1
  <2>1. 10 \in 1 .. 10 /\ 10 - 1 = 9
    OBVIOUS
  <2> QED
    BY <2>1, FoldOnceLaw
<1>3. PICK t : t = FoldOnce(s)
  OBVIOUS
<1>4. t \in Nat /\ t <= 2 * Mask
  BY <1>1, <1>2, <1>3
<1>5. PICK q2 \in 0 .. 1, r2 \in 0 .. Mask : t = q2 + r2 + Mask * q2 /\ FoldOnce(t) = r2 + q2
  <2>1. 2 \in 1 .. 10 /\ 2 - 1 = 1
    OBVIOUS
  <2> QED
    BY <1>4, <2>1, FoldOnceLaw
<1>6. r2 + q2 \in 0 .. Mask
  <2>1. CASE q2 = 0
    BY <1>1, <2>1
  <2>2. CASE q2 = 1
    <3>1. t = 1 + r2 + Mask
      BY <1>1, <1>5, <2>2
    <3> QED
      BY <1>1, <1>4, <2>2, <3>1
  <2> QED
    BY <2>1, <2>2
<1>7. Fold(s) = r2 + q2
  <2>1. Fold(s) = (r2 + q2) % (Mask + 1)
    BY <1>3, <1>5 DEF Fold
  <2>2. PICK w : w = r2 + q2
    OBVIOUS
  <2>3. w % (Mask + 1) = w
    BY <1>1, <1>6, <2>2
  <2> QED
    BY <2>1, <2>2, <2>3
<1>8. s = Fold(s) + Mask * (q1 + q2)
  <2>1. Mask * (q1 + q2) = Mask * q1 + Mask * q2
    BY <1>1
  <2>2. Mask * q1 \in Int /\ Mask * q2 \in Int
    BY <1>1
  <2> QED
    BY <1>1, <1>2, <1>3, <1>5, <1>7, <2>1, <2>2
<1>9. s # 0 => Fold(s) # 0
  <2> SUFFICES ASSUME Fold(s) = 0 PROVE s = 0
    OBVIOUS
  <2>1. q2 = 0 /\ r2 = 0
    BY <1>7
  <2>2. t = 0
    BY <1>1, <1>5, <2>1
  <2>3. q1 = 0 /\ r1 = 0
    BY <1>2, <1>3, <2>2
  <2> QED
    BY <1>1, <1>2, <2>3
<1> QED
  BY <1>6, <1>7, <1>8, <1>9

\* A sum that is a multiple of Mask, and not zero, folds to all ones.
LEMMA FoldOnes ==
    ASSUME NEW s \in Nat, s # 0, s <= 10 * Mask, NEW m \in Int, s = Mask * m
    PROVE  Fold(s) = Mask
<1>1. Mask \in Nat /\ Mask >= 9
  BY ChecksumAssumption
<1>2. PICK f : f = Fold(s)
  OBVIOUS
<1>3. PICK q \in Int : s = f + Mask * q /\ f \in 1 .. Mask
  <2>1. f \in 0 .. Mask /\ f # 0 /\ \E q \in Int : s = f + Mask * q
    BY <1>2, FoldLaw
  <2>2. f \in 1 .. Mask
    BY <1>1, <2>1
  <2> QED
    BY <2>1, <2>2
<1>4. PICK x \in Int : x = m - q
  OBVIOUS
<1>5. f = Mask * x
  <2>1. Mask * x = Mask * m - Mask * q
    BY <1>1, <1>4
  <2>2. Mask * m \in Int /\ Mask * q \in Int
    BY <1>1
  <2> QED
    BY <1>3, <2>1, <2>2
<1>6. x = 1
  <2>1. ASSUME x <= 0 PROVE FALSE
    <3>1. Mask * x <= 0
      BY <1>1, <2>1
    <3> QED
      BY <1>3, <1>5, <3>1
  <2>2. ASSUME x >= 2 PROVE FALSE
    <3>1. Mask * x >= 2 * Mask
      BY <1>1, <2>2
    <3> QED
      BY <1>1, <1>3, <1>5, <3>1
  <2> QED
    BY <2>1, <2>2
<1> QED
  BY <1>1, <1>2, <1>5, <1>6

\* u sums up a segment with pseudo-header o and port a, and v what becomes of
\* it when p and b replace them.
Exchange(p, o, a, b, x, d, u, v) ==
    /\ p \in 1 .. Mask
    /\ {o, a, b, x, d} \subseteq 0 .. Mask
    /\ u = Fold(o + a + x + d)
    /\ v = Fold(u + (Mask - o) + p + (Mask - a) + b)

\* Taking one pseudo-header and port out of a checksum and putting others in
\* leaves a checksum that verifies (tcp_udp_v6_to_v4).
LEMMA ExchangeVerifies ==
    ASSUME NEW p, NEW o, NEW a, NEW b, NEW x, NEW d, NEW u, NEW v, Exchange(p, o, a, b, x, d, u, v)
    PROVE  /\ v \in 0 .. Mask
           /\ Fold(p + b + x + d + (Mask - v)) = Mask
<1>0. /\ p \in 1 .. Mask /\ o \in 0 .. Mask /\ a \in 0 .. Mask /\ b \in 0 .. Mask
      /\ x \in 0 .. Mask /\ d \in 0 .. Mask
      /\ u = Fold(o + a + x + d)
      /\ v = Fold(u + (Mask - o) + p + (Mask - a) + b)
  BY DEF Exchange
<1>1. Mask \in Nat /\ Mask >= 9
  BY ChecksumAssumption
<1> USE <1>0
<1>2. PICK q1 \in Int : o + a + x + d = u + Mask * q1 /\ u \in 0 .. Mask
  <2>1. PICK s \in Nat : s = o + a + x + d
    BY <1>1
  <2>2. s <= 10 * Mask
    BY <1>1, <2>1
  <2> QED
    BY <2>1, <2>2, FoldLaw
<1>3. PICK q2 \in Int :
         u + (Mask - o) + p + (Mask - a) + b = v + Mask * q2 /\ v \in 0 .. Mask
  <2>1. PICK s \in Nat : s = u + (Mask - o) + p + (Mask - a) + b
    BY <1>1, <1>2
  <2>2. s <= 10 * Mask
    BY <1>1, <1>2, <2>1
  <2> QED
    BY <2>1, <2>2, FoldLaw
<1>4. PICK s : s = p + b + x + d + (Mask - v)
  OBVIOUS
<1>5. s \in Nat /\ s # 0 /\ s <= 10 * Mask
  BY <1>1, <1>3, <1>4
<1>6. PICK m \in Int : m = q1 + q2 - 1
  OBVIOUS
<1>7. s = Mask * m
  <2>1. Mask * m = Mask * q1 + Mask * q2 - Mask
    BY <1>1, <1>6
  <2>2. PICK y1 \in Int, y2 \in Int : y1 = Mask * q1 /\ y2 = Mask * q2
    BY <1>1
  <2>3. /\ o + a + x + d = u + y1 /\ u + (Mask - o) + p + (Mask - a) + b = v + y2
        /\ u \in Int /\ v \in Int
    BY <1>2, <1>3, <2>2
  <2>4. s = y1 + y2 - Mask
    BY <1>1, <1>4, <2>3
  <2> QED
    BY <2>1, <2>2, <2>4
<1> QED
  BY <1>3, <1>4, <1>5, <1>7, FoldOnes

\* Fold with its quotient.
LEMMA FoldPick ==
    ASSUME NEW s \in Nat, s <= 10 * Mask
    PROVE  \E q \in Int, y \in Int : y = Mask * q /\ s = Fold(s) + y /\ Fold(s) \in 0 .. Mask
<1>1. Mask \in Nat
  BY ChecksumAssumption
<1>2. PICK q \in Int : s = Fold(s) + Mask * q /\ Fold(s) \in 0 .. Mask
  BY FoldLaw
<1>3. Mask * q \in Int
  BY <1>1
<1> QED
  BY <1>2, <1>3

\* The sums on the way of a reply: ck of the segment received, with an IPv4
\* pseudo-header of base and w, t and u after address and port were rewritten
\* to w2 and x2, v after p6 replaced the pseudo-header.
Rewriting(base, w, w2, a, x, x2, d, p6, p, p2, ck, t, u, v) ==
    /\ base \in 0 .. (3 * Mask)
    /\ {w, w2, a, x, x2, d} \subseteq 0 .. Mask
    /\ p6 \in 1 .. Mask
    /\ p = Fold(base + w) /\ p2 = Fold(base + w2)
    /\ ck = Fold(p + a + x + d)
    /\ t = Fold(ck + (Mask - w) + w2)
    /\ u = Fold(t + (Mask - x) + x2)
    /\ v = Fold(u + (Mask - p2) + p6)

\* Rewriting address and port of a reply, word by word, and then exchanging
\* its pseudo-header leaves a checksum that verifies (ct_apply and
\* tcp_udp_v4_to_v6).
LEMMA ReplyVerifies ==
    ASSUME NEW base, NEW w, NEW w2, NEW a, NEW x, NEW x2, NEW d, NEW p6, NEW p, NEW p2, NEW ck,
           NEW t, NEW u, NEW v, Rewriting(base, w, w2, a, x, x2, d, p6, p, p2, ck, t, u, v)
    PROVE  /\ v \in 0 .. Mask
           /\ Fold(p6 + a + x2 + d + (Mask - v)) = Mask
<1>0. /\ base \in 0 .. (3 * Mask) /\ w \in 0 .. Mask /\ w2 \in 0 .. Mask /\ a \in 0 .. Mask
      /\ x \in 0 .. Mask /\ x2 \in 0 .. Mask /\ d \in 0 .. Mask /\ p6 \in 1 .. Mask
      /\ p = Fold(base + w) /\ p2 = Fold(base + w2)
      /\ ck = Fold(p + a + x + d)
      /\ t = Fold(ck + (Mask - w) + w2)
      /\ u = Fold(t + (Mask - x) + x2)
      /\ v = Fold(u + (Mask - p2) + p6)
  BY DEF Rewriting
<1> USE <1>0
<1>1. Mask \in Nat /\ Mask >= 9
  BY ChecksumAssumption
<1>2. PICK q1 \in Int, y1 \in Int : y1 = Mask * q1 /\ base + w = p + y1 /\ p \in 0 .. Mask
  <2>1. PICK s \in Nat : s = base + w
    BY <1>1
  <2>2. s <= 10 * Mask
    BY <1>1, <2>1
  <2> QED
    BY <2>1, <2>2, FoldPick
<1>3. PICK q6 \in Int, y6 \in Int : y6 = Mask * q6 /\ base + w2 = p2 + y6 /\ p2 \in 0 .. Mask
  <2>1. PICK s \in Nat : s = base + w2
    BY <1>1
  <2>2. s <= 10 * Mask
    BY <1>1, <2>1
  <2> QED
    BY <2>1, <2>2, FoldPick
<1>p. p \in 0 .. Mask /\ p2 \in 0 .. Mask
  BY <1>2, <1>3
<1>4. PICK q2 \in Int, y2 \in Int : y2 = Mask * q2 /\ p + a + x + d = ck + y2 /\ ck \in 0 .. Mask
  <2>1. PICK s \in Nat : s = p + a + x + d
    BY <1>1, <1>p
  <2>2. s <= 10 * Mask
    BY <1>1, <1>p, <2>1
  <2> QED
    BY <2>1, <2>2, FoldPick
<1>c. ck \in 0 .. Mask
  BY <1>4
<1>5. PICK q3 \in Int, y3 \in Int : y3 = Mask * q3 /\ ck + (Mask - w) + w2 = t + y3 /\ t \in 0 .. Mask
  <2>1. PICK s \in Nat : s = ck + (Mask - w) + w2
    BY <1>1, <1>c
  <2>2. s <= 10 * Mask
    BY <1>1, <1>c, <2>1
  <2> QED
    BY <2>1, <2>2, FoldPick
<1>t. t \in 0 .. Mask
  BY <1>5
<1>6. PICK q4 \in Int, y4 \in Int : y4 = Mask * q4 /\ t + (Mask - x) + x2 = u + y4 /\ u \in 0 .. Mask
  <2>1. PICK s \in Nat : s = t + (Mask - x) + x2
    BY <1>1, <1>t
  <2>2. s <= 10 * Mask
    BY <1>1, <1>t, <2>1
  <2> QED
    BY <2>1, <2>2, FoldPick
<1>u. u \in 0 .. Mask
  BY <1>6
<1>7. PICK q5 \in Int, y5 \in Int :
         y5 = Mask * q5 /\ u + (Mask - p2) + p6 = v + y5 /\ v \in 0 .. Mask
  <2>1. PICK s \in Nat : s = u + (Mask - p2) + p6
    BY <1>1, <1>p, <1>u
  <2>2. s <= 10 * Mask
    BY <1>1, <1>p, <1>u, <2>1
  <2> QED
    BY <2>1, <2>2, FoldPick
<1>v. v \in 0 .. Mask
  BY <1>7
<1>8. PICK s : s = p6 + a + x2 + d + (Mask - v)
  OBVIOUS
<1>9. s \in Nat /\ s # 0 /\ s <= 10 * Mask
  BY <1>1, <1>v, <1>8
<1>10. /\ base + w = p + y1 /\ base + w2 = p2 + y6 /\ p + a + x + d = ck + y2
       /\ ck + (Mask - w) + w2 = t + y3 /\ t + (Mask - x) + x2 = u + y4
       /\ u + (Mask - p2) + p6 = v + y5
  BY <1>2, <1>3, <1>4, <1>5, <1>6, <1>7
<1> HIDE <1>0
<1>11. s = y1 + y2 + y3 + y4 + y5 - y6 - Mask - Mask
  <2>1. /\ base \in Int /\ w \in Int /\ w2 \in Int /\ a \in Int /\ x \in Int /\ x2 \in Int
        /\ d \in Int /\ p6 \in Int /\ p \in Int /\ p2 \in Int /\ ck \in Int /\ t \in Int
        /\ u \in Int /\ v \in Int /\ Mask \in Int
    BY <1>0, <1>1, <1>p, <1>c, <1>t, <1>u, <1>v
  <2>2. s = a + x2 + d - u + p2 + y5
    <3>1. u + (Mask - p2) + p6 = v + y5
      BY <1>10
    <3>2. v = u + (Mask - p2) + p6 - y5
      BY <2>1, <3>1
    <3> QED
      BY <1>8, <2>1, <3>2
  <2>3. s = a + x + d - t - Mask + p2 + y5 + y4
    BY <1>10, <2>1, <2>2
  <2>4. s = a + x + d - ck + w - w2 - Mask - Mask + p2 + y5 + y4 + y3
    BY <1>10, <2>1, <2>3
  <2>5. s = w - w2 - p - Mask - Mask + p2 + y5 + y4 + y3 + y2
    BY <1>10, <2>1, <2>4
  <2> QED
    BY <1>10, <2>1, <2>5
<1>12. PICK m \in Int : m = q1 + q2 + q3 + q4 + q5 - q6 - 2
  OBVIOUS
<1>13. Mask * m = Mask * q1 + Mask * q2 + Mask * q3 + Mask * q4 + Mask * q5 - Mask * q6 - Mask - Mask
  BY <1>1, <1>12
<1>14. /\ y1 = Mask * q1 /\ y2 = Mask * q2 /\ y3 = Mask * q3 /\ y4 = Mask * q4 /\ y5 = Mask * q5
       /\ y6 = Mask * q6
  BY <1>2, <1>3, <1>4, <1>5, <1>6, <1>7
<1>15. s = Mask * m
  BY <1>11, <1>13, <1>14
<1> QED
  BY <1>v, <1>8, <1>9, <1>15, FoldOnes

(***************************************************************************)
(* The checksums of the packets.                                           *)
(***************************************************************************)

\* The protocol always adds to a pseudo-header.
LEMMA ProtoWordType ==
    ASSUME NEW proto \in Protos
    PROVE  ProtoWord(proto) \in 1 .. 6
  BY DEF ProtoWord, Protos

\* Words of addresses and ports.
LEMMA WordTypes ==
    /\ \A a \in Addr : WordOf(a) \in 0 .. Mask
    /\ \A g \in Guests : HostOf(g) \in 0 .. Mask
    /\ \A p \in Port : p \in 0 .. Mask
    /\ \A d \in Payloads : d \in 0 .. Mask
<1>1. Mask \in Nat /\ W \in Nat /\ W <= Mask
  BY ChecksumAssumption, NatAssumption, Nat64Assumption
<1>2. \A p \in Port : p \in 0 .. Mask
  BY <1>1 DEF Port
<1> QED
  BY <1>2, Nat64Assumption

\* An IPv4 pseudo-header is a word other than zero.
LEMMA PseudoV4Type ==
    ASSUME NEW src \in Addr, NEW dst \in Addr, NEW proto \in Protos
    PROVE  pseudo_v4(src, dst, proto) \in 1 .. Mask
<1>1. Mask \in Nat /\ Mask >= 9 /\ L4Len \in 0 .. Mask
  BY ChecksumAssumption
<1>2. WordOf(src) \in 0 .. Mask /\ WordOf(dst) \in 0 .. Mask /\ ProtoWord(proto) \in 1 .. 6
  BY WordTypes, ProtoWordType
<1>3. PICK s : s = WordOf(src) + WordOf(dst) + ProtoWord(proto) + L4Len
  OBVIOUS
<1>4. s \in Nat /\ s # 0 /\ s <= 10 * Mask
  BY <1>1, <1>2, <1>3
<1>5. Fold(s) \in 0 .. Mask /\ Fold(s) # 0
  BY <1>4, FoldLaw
<1>6. pseudo_v4(src, dst, proto) = Fold(s)
  BY <1>3 DEF pseudo_v4
<1>7. PICK f : f = Fold(s)
  OBVIOUS
<1>8. f \in 1 .. Mask
  BY <1>1, <1>5, <1>7
<1> QED
  BY <1>6, <1>7, <1>8

\* So is an IPv6 one.
LEMMA PseudoV6Type ==
    ASSUME NEW src, NEW dst, NEW proto \in Protos,
           src[1] \in 0 .. Mask, src[2] \in 0 .. Mask, dst[1] \in 0 .. Mask, dst[2] \in 0 .. Mask
    PROVE  pseudo_v6(src, dst, proto) \in 1 .. Mask
<1>1. Mask \in Nat /\ Mask >= 9 /\ L4Len \in 0 .. Mask
  BY ChecksumAssumption
<1>2. ProtoWord(proto) \in 1 .. 6
  BY ProtoWordType
<1>3. PICK s : s = src[1] + src[2] + dst[1] + dst[2] + ProtoWord(proto) + L4Len
  OBVIOUS
<1>4. s \in Nat /\ s # 0 /\ s <= 10 * Mask
  BY <1>1, <1>2, <1>3
<1>5. Fold(s) \in 0 .. Mask /\ Fold(s) # 0
  BY <1>4, FoldLaw
<1>6. pseudo_v6(src, dst, proto) = Fold(s)
  BY <1>3 DEF pseudo_v6
<1>7. PICK f : f = Fold(s)
  OBVIOUS
<1>8. f \in 1 .. Mask
  BY <1>1, <1>5, <1>7
<1> QED
  BY <1>6, <1>7, <1>8

\* The words of the IPv6 addresses of a guest and of a peer.
LEMMA Addr6Types ==
    ASSUME NEW g \in Guests, NEW ip \in Addr
    PROVE  /\ Addr6(g)[1] \in 0 .. Mask /\ Addr6(g)[2] \in 0 .. Mask
           /\ nat64_embed(ip)[1] \in 0 .. Mask /\ nat64_embed(ip)[2] \in 0 .. Mask
<1>1. g \in Addr
  BY DEF Addr
<1> QED
  BY <1>1, WordTypes, ChecksumAssumption DEF Addr6, nat64_embed

\* The checksum of a packet that nat64_egress translated is a word, and that
\* of a TCP or UDP packet verifies behind the NAT address.
LEMMA TranslatedVerifies ==
    ASSUME NEW s, s.pkt \in CtKey, s.pkt.src \in Guests, s.cfg.ip \in Addr,
           NEW port \in Port, NEW d \in Payloads
    PROVE  /\ Translated(s, port, d) \in 0 .. Mask
           /\ s.pkt.proto # "icmp" =>
                 Accepts(pseudo_v4(s.cfg.ip, s.pkt.dst, s.pkt.proto), SourceAs(s.pkt, s.cfg.ip, port), d,
                         Translated(s, port, d))
<1>1. PICK k : k = s.pkt
  OBVIOUS
<1>2. /\ k \in CtKey /\ k.src \in Guests /\ k.src \in Addr /\ k.dst \in Addr /\ k.sport \in Port
      /\ k.dport \in Port /\ k.proto \in Protos
  BY <1>1 DEF CtKey
<1>3. Mask \in Nat /\ Mask >= 9
  BY ChecksumAssumption
<1>4. CASE k.proto = "icmp"
  <2>1. PICK x \in Nat : x = EchoRequest4 + port
    BY NatAssumption DEF EchoRequest4, Port
  <2>2. port \in 0 .. Mask
    BY WordTypes
  <2>3. x <= 10 * Mask
    BY <1>3, <2>1, <2>2 DEF EchoRequest4
  <2>4. Fold(x) \in 0 .. Mask
    BY <2>3, FoldLaw
  <2>5. PICK f : f = Fold(x)
    OBVIOUS
  <2>6. Translated(s, port, d) = Mask - f
    BY <1>1, <1>4, <2>1, <2>5 DEF Translated, icmpv4_echo_checksum, Not
  <2> QED
    BY <1>1, <1>3, <1>4, <2>4, <2>5, <2>6
<1>5. CASE k.proto # "icmp"
  <2>1. PICK p, o : /\ p = pseudo_v4(s.cfg.ip, k.dst, k.proto)
                    /\ o = pseudo_v6(Addr6(k.src), nat64_embed(k.dst), k.proto)
    OBVIOUS
  <2>2. p \in 1 .. Mask
    BY <1>2, <2>1, PseudoV4Type
  <2>3. o \in 1 .. Mask
    BY <1>2, <2>1, Addr6Types, PseudoV6Type
  <2>4. o \in 0 .. Mask
    BY <1>3, <2>3
  <2>5. PICK a, b, x : a = k.sport /\ b = port /\ x = k.dport
    OBVIOUS
  <2>6. a \in 0 .. Mask /\ b \in 0 .. Mask /\ x \in 0 .. Mask /\ d \in 0 .. Mask
    BY <1>2, <2>5, WordTypes
  <2>7. PICK u : u = Fold(o + a + x + d)
    OBVIOUS
  <2>8. PICK v : v = Fold(u + (Mask - o) + p + (Mask - a) + b)
    OBVIOUS
  <2>9. v \in 0 .. Mask /\ Fold(p + b + x + d + (Mask - v)) = Mask
    <3>1. Exchange(p, o, a, b, x, d, u, v)
      BY <2>2, <2>4, <2>6, <2>7, <2>8 DEF Exchange
    <3> QED
      BY <3>1, ExchangeVerifies
  <2>10. u \in Int
    <3>1. PICK y \in Nat : y = o + a + x + d
      BY <1>3, <2>4, <2>6
    <3>2. y <= 10 * Mask
      BY <1>3, <2>4, <2>6, <3>1
    <3> QED
      BY <1>3, <2>7, <3>1, <3>2, FoldLaw
  <2>11. Mask - (Mask - u) = u
    BY <1>3, <2>10
  <2>12. Computed(o, k, d) = Mask - u
    BY <2>5, <2>7 DEF Computed, Sum, Not
  <2>13. Translated(s, port, d) = Mask - v
    BY <1>1, <1>5, <2>1, <2>5, <2>8, <2>11, <2>12 DEF Translated, tcp_udp_v6_to_v4, Not
  <2>14. Mask - v \in 0 .. Mask
    BY <1>3, <2>9
  <2>15. /\ SourceAs(k, s.cfg.ip, port).sport = b
         /\ SourceAs(k, s.cfg.ip, port).dport = x
    BY <1>2, <1>5, <2>5 DEF SourceAs, CtKey
  <2>16. Accepts(p, SourceAs(k, s.cfg.ip, port), d, Mask - v)
    BY <2>9, <2>15 DEF Accepts, Sum
  <2> QED
    BY <1>1, <2>1, <2>13, <2>14, <2>16
<1> QED
  BY <1>4, <1>5

\* What ct_apply makes of a reply: only its destination changes.
LEMMA ApplyReply ==
    ASSUME NEW k \in CtKey, NEW e \in CtEntry, e.kind = "dnat", NEW r, r = ct_apply(k, e)
    PROVE  /\ r \in CtKey /\ r.dst = e.xip /\ r.src = k.src /\ r.proto = k.proto
           /\ k.proto # "icmp" => r.sport = k.sport
  BY KeyTypes DEF ct_apply, DestAs, CtKey, CtEntry

\* The checksum of a reply that nat64_ingress translated is a word, and that
\* of a TCP or UDP packet verifies over IPv6.
LEMMA ReplyChecksumVerifies ==
    ASSUME NEW k \in CtKey, NEW e \in CtEntry, e.kind = "dnat", NEW r, r = ct_apply(k, e),
           r.dst \in Guests, NEW d \in Payloads
    PROVE  /\ ReplyChecksum(k, r, d) \in 0 .. Mask
           /\ r.proto # "icmp" =>
                 Accepts(pseudo_v6(nat64_embed(r.src), Addr6(r.dst), r.proto), r, d,
                         ReplyChecksum(k, r, d))
<1>1. /\ r \in CtKey /\ r.src = k.src /\ r.proto = k.proto
      /\ k.proto # "icmp" => r.sport = k.sport
  BY ApplyReply
<1>2. /\ k.src \in Addr /\ k.dst \in Addr /\ k.sport \in Port /\ k.dport \in Port /\ k.proto \in Protos
      /\ r.dst \in Addr /\ r.dport \in Port
  BY <1>1 DEF CtKey
<1>3. Mask \in Nat /\ Mask >= 9 /\ L4Len \in 0 .. Mask
  BY ChecksumAssumption
<1>4. PICK src6, dst6 : src6 = nat64_embed(k.src) /\ dst6 = Addr6(r.dst)
  OBVIOUS
<1>5. src6[1] \in 0 .. Mask /\ src6[2] \in 0 .. Mask /\ dst6[1] \in 0 .. Mask /\ dst6[2] \in 0 .. Mask
  BY <1>2, <1>4, Addr6Types
<1>6. CASE k.proto = "icmp"
  <2>1. PICK y : y = src6[1] + src6[2] + dst6[1] + dst6[2] + EchoLen + ProtoWord("icmp") + EchoReply6
                       + r.dport
    OBVIOUS
  <2>2. r.dport \in 0 .. Mask /\ ProtoWord("icmp") \in 1 .. 6
    BY <1>2, WordTypes, ProtoWordType DEF Protos
  <2>3. y \in Nat /\ y <= 10 * Mask
    BY <1>3, <1>5, <2>1, <2>2 DEF EchoLen, EchoReply6
  <2>4. Fold(y) \in 0 .. Mask
    BY <2>3, FoldLaw
  <2>5. PICK f : f = Fold(y)
    OBVIOUS
  <2>6. ReplyChecksum(k, r, d) = Mask - f
    BY <1>4, <1>6, <2>1, <2>5 DEF ReplyChecksum, icmpv6_echo_checksum, Not
  <2> QED
    BY <1>1, <1>3, <1>6, <2>4, <2>5, <2>6
<1>7. CASE k.proto # "icmp"
  <2>1. PICK w, w2, base : /\ w = WordOf(k.dst) /\ w2 = WordOf(r.dst)
                           /\ base = WordOf(k.src) + ProtoWord(k.proto) + L4Len
    OBVIOUS
  <2>2. w \in 0 .. Mask /\ w2 \in 0 .. Mask /\ WordOf(k.src) \in 0 .. Mask /\ ProtoWord(k.proto) \in 1 .. 6
    BY <1>2, <2>1, WordTypes, ProtoWordType
  <2>3. base \in 0 .. (3 * Mask)
    BY <1>3, <2>1, <2>2
  <2>4. PICK a, x, x2 : a = k.sport /\ x = k.dport /\ x2 = r.dport
    OBVIOUS
  <2>5. a \in 0 .. Mask /\ x \in 0 .. Mask /\ x2 \in 0 .. Mask /\ d \in 0 .. Mask
    BY <1>2, <2>4, WordTypes
  <2>6. PICK p6 : p6 = pseudo_v6(src6, dst6, k.proto)
    OBVIOUS
  <2>7. p6 \in 1 .. Mask
    BY <1>2, <1>5, <2>6, PseudoV6Type
  <2>8. PICK p, p2 : p = Fold(base + w) /\ p2 = Fold(base + w2)
    OBVIOUS
  <2>9. p = pseudo_v4(k.src, k.dst, k.proto) /\ p2 = pseudo_v4(k.src, r.dst, k.proto)
    <3>1. /\ base + w = WordOf(k.src) + WordOf(k.dst) + ProtoWord(k.proto) + L4Len
          /\ base + w2 = WordOf(k.src) + WordOf(r.dst) + ProtoWord(k.proto) + L4Len
      BY <1>3, <2>1, <2>2
    <3> QED
      BY <2>8, <3>1 DEF pseudo_v4
  <2>10. PICK ck : ck = Fold(p + a + x + d)
    OBVIOUS
  <2>11. PICK t : t = Fold(ck + (Mask - w) + w2)
    OBVIOUS
  <2>12. PICK u : u = Fold(t + (Mask - x) + x2)
    OBVIOUS
  <2>13. PICK v : v = Fold(u + (Mask - p2) + p6)
    OBVIOUS
  <2>14. v \in 0 .. Mask /\ Fold(p6 + a + x2 + d + (Mask - v)) = Mask
    <3>1. Rewriting(base, w, w2, a, x, x2, d, p6, p, p2, ck, t, u, v)
      BY <2>2, <2>3, <2>5, <2>7, <2>8, <2>10, <2>11, <2>12, <2>13 DEF Rewriting
    <3> QED
      BY <3>1, ReplyVerifies
  <2>15. p \in 1 .. Mask /\ p2 \in 1 .. Mask
    BY <1>2, <2>9, PseudoV4Type
  <2>16. ck \in 0 .. Mask
    <3>1. PICK y \in Nat : y = p + a + x + d
      BY <1>3, <2>15, <2>5
    <3>2. y <= 10 * Mask
      BY <1>3, <2>15, <2>5, <3>1
    <3> QED
      BY <2>10, <3>1, <3>2, FoldLaw
  <2>17. t \in 0 .. Mask
    <3>1. PICK y \in Nat : y = ck + (Mask - w) + w2
      BY <1>3, <2>2, <2>16
    <3>2. y <= 10 * Mask
      BY <1>3, <2>2, <2>16, <3>1
    <3> QED
      BY <2>11, <3>1, <3>2, FoldLaw
  <2>18. u \in 0 .. Mask
    <3>1. PICK y \in Nat : y = t + (Mask - x) + x2
      BY <1>3, <2>5, <2>17
    <3>2. y <= 10 * Mask
      BY <1>3, <2>5, <2>17, <3>1
    <3> QED
      BY <2>12, <3>1, <3>2, FoldLaw
  <2>19. Mask - (Mask - ck) = ck /\ Mask - (Mask - t) = t /\ Mask - (Mask - u) = u
    BY <1>3, <2>16, <2>17, <2>18
  <2>20. Computed(p, k, d) = Mask - ck
    BY <2>4, <2>10 DEF Computed, Sum, Not
  <2>21. csum_replace(Mask - ck, w, w2) = Mask - t
    BY <2>11, <2>19 DEF csum_replace, Not
  <2>22. csum_replace(Mask - t, x, x2) = Mask - u
    BY <2>12, <2>19 DEF csum_replace, Not
  <2>23. tcp_udp_v4_to_v6(Mask - u, k.src, r.dst, src6, dst6, k.proto) = Mask - v
    BY <2>6, <2>9, <2>13, <2>19 DEF tcp_udp_v4_to_v6, Not
  <2>24. ReplyChecksum(k, r, d) = Mask - v
    BY <1>4, <1>7, <2>1, <2>4, <2>9, <2>20, <2>21, <2>22, <2>23 DEF ReplyChecksum
  <2>25. Mask - v \in 0 .. Mask
    BY <1>3, <2>14
  <2>26. Accepts(p6, r, d, Mask - v)
    BY <1>1, <1>7, <2>4, <2>14 DEF Accepts, Sum
  <2> QED
    BY <1>1, <1>4, <2>6, <2>24, <2>25, <2>26
<1> QED
  BY <1>6, <1>7

(***************************************************************************)
(* The steps of NAT64 as steps of the IPv4 NAT.                            *)
(***************************************************************************)

\* The IPv4 programs, the sweep and the control plane take part unchanged.
LEMMA IPv4Next ==
    /\ \A c \in Cpus : Step4(c) => Next
    /\ Elsewhere4 => Next
  BY DEF Step4, Elsewhere4, Next

\* A lookup that finds no port to reuse is the one of nat_snat_egress.
LEMMA ReuseMiss ==
    ASSUME NEW c \in Cpus, Nat64Reuse(c), ~Return(c)
    PROVE  NatReusePort(c)
  BY DEF Nat64Reuse, Reusable, Emit, NatReusePort

\* A packet that is translated keeps its configuration on the stack.
LEMMA ConfigStack ==
    ASSUME Inv, NEW c \in Cpus, NEW k \in GuestPackets, Nat64Config(c, k)
    PROVE  \E s : /\ Set(c, s) /\ s \in CpuState /\ StackOwned(s)
                  /\ s.pc = "natfwd" /\ s.pkt = k /\ s.cfg = nat[k.src]
                  /\ k.src \in DOMAIN nat /\ k \in CtKey /\ k.src \in Guests
<1>s. PICK s : s = [IdleCpu EXCEPT !.pc = "natfwd", !.pkt = k, !.cfg = nat[k.src]]
  OBVIOUS
<1>1. k \in CtKey /\ k.src \in DOMAIN nat /\ PortRange(nat[k.src]) # 0
  BY PacketTypes DEF Nat64Config
<1>2. /\ k.src \in Guests /\ nat[k.src] \in NatValue /\ nat[k.src].ip \in NatIps
      /\ GrantedTo(k.src, nat[k.src])
  BY <1>1 DEF Inv, TypeOK, OwnershipInv
<1>3. s \in CpuState /\ s.pc = "natfwd" /\ s.pkt = k /\ s.cfg = nat[k.src]
  BY <1>s, <1>1, <1>2, IdleCpuType DEF CpuState, Pc
<1>4. StackOwned(s)
  BY <1>1, <1>2, <1>3 DEF StackOwned
<1>5. Set(c, s)
  BY <1>s DEF Nat64Config
<1> QED
  BY <1>1, <1>2, <1>3, <1>4, <1>5

\* The two programs of NAT64 keep conntrack typed and owned.
LEMMA Nat64Keeps ==
    ASSUME Inv, NEW c \in Cpus, Nat64Step(c)
    PROVE  Inv'
<1>1. cpu[c] \in CpuState /\ StackOwned(cpu[c])
  BY DEF Inv, TypeOK, OwnershipInv
<1>i. StackOwned(IdleCpu) /\ IdleCpu \in CpuState
  BY IdleCpuType, PlainStack
<1>2. ASSUME NEW k \in GuestPackets, Nat64Config(c, k) PROVE Inv'
  <2>2. PICK s : Set(c, s) /\ s \in CpuState /\ StackOwned(s)
    BY <1>2, ConfigStack
  <2>3. UNCHANGED <<maps, gcVars, ctlVars, history>> /\ sent' \in 0 .. MaxPackets
    BY <1>2, NatAssumption DEF Nat64Config, Inv, TypeOK
  <2> QED
    BY <2>2, <2>3, CpuMove
<1>3. CASE Nat64Reuse(c)
  <2>1. CASE Return(c)
    BY <1>3, <2>1, ReturnKeeps DEF Nat64Reuse
  <2>2. CASE ~Return(c)
    BY <1>3, <2>2, ReuseMiss, AllocatorKeeps
  <2> QED
    BY <2>1, <2>2
<1>4. CASE Nat64Probe(c) \/ Nat64InsertRev(c)
  BY <1>4, AllocatorKeeps DEF Nat64Probe, Nat64InsertRev
<1>5. CASE Nat64InsertFwd(c)
  <2>1. PICK k, e : /\ k = cpu[c].pkt
                    /\ e = [kind |-> "snat", xip |-> cpu[c].cfg.ip, xport |-> cpu[c].port,
                            tcp |-> "none", idle |-> 0]
    OBVIOUS
  <2>2. /\ cpu[c].pc = "insfwd" /\ conntrack' = Upsert(conntrack, k, e) /\ Set(c, IdleCpu)
        /\ UNCHANGED <<nat, natIps, gcVars, ctlVars, sent, history>>
    BY <1>5, <2>1 DEF Nat64InsertFwd, At, Emit, Return
  <2>3. /\ k \in CtKey /\ cpu[c].port \in Port /\ cpu[c].cfg.ip \in NatIps
        /\ GrantedTo(k.src, cpu[c].cfg) /\ cpu[c].port \in PortsOf(cpu[c].cfg)
    BY <1>1, <2>1, <2>2 DEF CpuState, StackOwned
  <2>4. e \in CtEntry
    BY <2>1, <2>3, NatAssumption DEF CtEntry, TcpState, Idle, Addr
  <2>5. Owned(k, e)
    BY <2>1, <2>3 DEF Owned, GrantedTo
  <2> QED
    BY <1>i, <2>2, <2>3, <2>4, <2>5, CpuInsert
<1>6. CASE Nat64Ingress(c)
  <2>1. /\ cpu[c].pc = "itouch" /\ Set(c, IdleCpu)
        /\ conntrack' = Upsert(conntrack, cpu[c].key, Touched(cpu[c].entry, cpu[c].flags))
        /\ UNCHANGED <<nat, natIps, gcVars, ctlVars, sent, history>>
    BY <1>6 DEF Nat64Ingress, At, Return
  <2> QED
    BY <1>i, <2>1, TouchOwned, CpuInsert
<1> QED
  BY <1>2, <1>3, <1>4, <1>5, <1>6 DEF Nat64Step

\* The inductive invariant of the IPv4 NAT holds with NAT64 beside it.
LEMMA NextInv64 == Inv /\ [Next64]_vars64 => Inv'
<1> SUFFICES ASSUME Inv, [Next64]_vars64 PROVE Inv'
  OBVIOUS
<1>1. CASE Next64
  BY <1>1, IPv4Next, NextInv, Nat64Keeps DEF Next64
<1>2. CASE UNCHANGED vars64
  BY <1>2, NextInv DEF vars64
<1> QED
  BY <1>1, <1>2

\* The configuration that a delete_nat took out of NAT is not in it before the
\* call gives the mutex back.
Unmarking == inner.op = "unmark" => inner.guest \notin DOMAIN nat

\* No step of the IPv4 NAT puts it back.
LEMMA UnmarkingKept == Inv /\ Unmarking /\ [Next]_vars => Unmarking'
<1> SUFFICES ASSUME Inv, Unmarking, [Next]_vars PROVE Unmarking'
  OBVIOUS
<1>1. ASSUME nat' = nat, inner' = inner PROVE Unmarking'
  BY <1>1 DEF Unmarking
<1>2. ASSUME NEW c \in Cpus, Arrival(c) PROVE Unmarking'
  <2>1. ASSUME NEW k, NEW fl, EgressLookup(c, k, fl) \/ IngressDemux(c, k, fl)
        PROVE  nat' = nat /\ inner' = inner
    BY <2>1 DEF EgressLookup, IngressDemux, maps, ctlVars
  <2> QED
    BY <1>1, <1>2, <2>1 DEF Arrival
<1>3. ASSUME NEW c \in Cpus, CpuStep(c) PROVE Unmarking'
  <2>1. nat' = nat /\ UNCHANGED ctlVars
    BY <1>3 DEF CpuStep, EgressTouch, EgressRouteMiss, EgressNatConfig, NatReusePort, NatProbe,
       NatInsertRev, NatInsertFwd, EgressTrack, InsertDefault, SeedLookup, InsertSeed, IngressLookup,
       IngressTouch, IngressElsewhere, IngressKnown, IngressFirewall, IngressTrack, IngressRefresh,
       maps
  <2> QED
    BY <1>1, <2>1 DEF ctlVars
<1>4. CASE Tick \/ Gc \/ \E k \in DOMAIN conntrack : LruEvict(k)
  <2>1. nat' = nat /\ UNCHANGED ctlVars
    BY <1>4 DEF Tick, Gc, GcCollect, GcLock, GcRemove, LruEvict, maps
  <2> QED
    BY <1>1, <2>1 DEF ctlVars
<1>5. ASSUME NEW g \in Guests, NEW ip \in NatIps, NEW r \in NatRequests, CreateNat(g, ip, r)
      PROVE  Unmarking'
  BY <1>5 DEF CreateNat, Unmarking, Locked
<1>6. ASSUME NEW g \in Guests, DeleteNat(g) PROVE Unmarking'
  BY <1>6 DEF DeleteNat, Unmarking, Locked, Without, Restrict
<1>7. ASSUME NEW g \in Guests, AttachInterface(g) PROVE Unmarking'
  BY <1>1, <1>7 DEF AttachInterface, maps
<1>8. ASSUME NEW g \in Guests, DetachInterface(g) PROVE Unmarking'
  BY <1>8 DEF DetachInterface, InnerFree, Unmarking
<1>9. CASE MarkNatIp \/ UnmarkNatIp
  BY <1>9 DEF MarkNatIp, UnmarkNatIp, Unmarking, Unlocked
<1>10. CASE (\E q \in flushReq : FlushCollect(q)) \/ FlushDone \/ \E k \in flushKeys : FlushRemove(k)
  BY <1>1, <1>10 DEF FlushCollect, FlushDone, FlushRemove, maps
<1>11. CASE UNCHANGED vars
  BY <1>1, <1>11 DEF vars, maps, ctlVars
<1> QED
  BY <1>2, <1>3, <1>4, <1>5, <1>6, <1>7, <1>8, <1>9, <1>10, <1>11 DEF Next, Control

\* What EmittedInRange needs of the IPv4 NAT.
RangeInv == CoverInv /\ (Unwrapped => Ascending) /\ Unmarking

\* The programs of NAT64 keep the entries within what is to be flushed.
LEMMA Nat64Covers ==
    ASSUME Inv, CoverInv, NEW c \in Cpus, Nat64Step(c)
    PROVE  CoverInv'
<1>i. Plain(IdleCpu)
  BY PlainStacks
<1>1. ASSUME NEW k \in GuestPackets, Nat64Config(c, k) PROVE CoverInv'
  <2>2. PICK s : /\ Set(c, s) /\ s.pc = "natfwd" /\ s.pkt = k /\ s.cfg = nat[k.src]
                 /\ k.src \in DOMAIN nat
    BY <1>1, ConfigStack
  <2>3. CpuOnly /\ conntrack' = conntrack
    BY <1>1 DEF Nat64Config, CpuOnly, maps
  <2>4. \A g \in Guests \ (late \cup gone) : StackCovered(g, s)
    BY <2>2 DEF StackCovered, Serves
  <2> QED
    BY <2>2, <2>3, <2>4, MoveCovers
<1>2. CASE Nat64Reuse(c)
  <2>1. CASE Return(c)
    <3>1. Set(c, IdleCpu) /\ UNCHANGED <<maps, gcVars, ctlVars, history>>
      BY <1>2, <2>1 DEF Nat64Reuse, Return
    <3> QED
      BY <1>i, <3>1, PlainMove
  <2>2. CASE ~Return(c)
    BY <1>2, <2>2, ReuseMiss, CopiesCover
  <2> QED
    BY <2>1, <2>2
<1>3. CASE Nat64Probe(c)
  BY <1>3, CopiesCover DEF Nat64Probe
<1>4. CASE Nat64InsertRev(c)
  BY <1>4, WritesCover DEF Nat64InsertRev
<1>5. CASE Nat64InsertFwd(c)
  <2>1. PICK k, e : /\ k = cpu[c].pkt
                    /\ e = [kind |-> "snat", xip |-> cpu[c].cfg.ip, xport |-> cpu[c].port,
                            tcp |-> "none", idle |-> 0]
    OBVIOUS
  <2>2. /\ cpu[c].pc = "insfwd" /\ conntrack' = Upsert(conntrack, k, e) /\ Set(c, IdleCpu) /\ CpuOnly
    BY <1>5, <2>1 DEF Nat64InsertFwd, At, Emit, Return, CpuOnly
  <2>3. \A g \in Guests \ (late \cup gone) : Covered(g, k, e)
    BY <2>1, <2>2, AllocatedCovered DEF CoverInv
  <2> QED
    BY <1>i, <2>2, <2>3, PlainInsert
<1>6. CASE Nat64Ingress(c)
  <2>1. /\ cpu[c].pc = "itouch" /\ Set(c, IdleCpu) /\ CpuOnly
        /\ conntrack' = Upsert(conntrack, cpu[c].key, Touched(cpu[c].entry, cpu[c].flags))
    BY <1>6 DEF Nat64Ingress, At, Return, CpuOnly
  <2>2. \A g \in Guests \ (late \cup gone) :
           Covered(g, cpu[c].key, Touched(cpu[c].entry, cpu[c].flags))
    BY <2>1, TouchCovered DEF CoverInv
  <2> QED
    BY <1>i, <2>1, <2>2, PlainInsert
<1> QED
  BY <1>1, <1>2, <1>3, <1>4, <1>5, <1>6 DEF Nat64Step

\* Every step does.
LEMMA RangeKept == Inv /\ RangeInv /\ [Next64]_vars64 => RangeInv'
<1> SUFFICES ASSUME Inv, RangeInv, [Next64]_vars64 PROVE RangeInv'
  OBVIOUS
<1>1. ASSUME [Next]_vars PROVE RangeInv'
  BY <1>1, CoverKept, AscendingKept, UnmarkingKept DEF RangeInv
<1>2. ASSUME NEW c \in Cpus, Nat64Step(c) PROVE RangeInv'
  <2>1. CoverInv'
    BY <1>2, Nat64Covers DEF RangeInv
  <2>2. nat' = nat /\ inner' = inner /\ flushReq' = flushReq
    <3>1. ASSUME NEW k, Nat64Config(c, k) PROVE nat' = nat /\ inner' = inner /\ flushReq' = flushReq
      BY <3>1 DEF Nat64Config, maps, ctlVars
    <3>2. CASE Nat64Reuse(c) \/ Nat64Probe(c) \/ Nat64InsertRev(c) \/ Nat64InsertFwd(c) \/ Nat64Ingress(c)
      BY <3>2 DEF Nat64Reuse, Nat64Probe, NatProbe, Nat64InsertRev, NatInsertRev, Nat64InsertFwd,
         Nat64Ingress, maps, ctlVars
    <3> QED
      BY <1>2, <3>1, <3>2 DEF Nat64Step
  <2>3. Unmarking'
    BY <2>2 DEF RangeInv, Unmarking
  <2>4. Ascending => Ascending'
    BY <2>2 DEF Ascending, Serves
  <2> QED
    BY <2>1, <2>3, <2>4 DEF RangeInv
<1>3. CASE Next64
  BY <1>1, <1>2, <1>3, IPv4Next DEF Next64
<1>4. CASE UNCHANGED vars64
  BY <1>1, <1>4 DEF vars64
<1> QED
  BY <1>3, <1>4

(***************************************************************************)
(* The flag CT_F_NAT64.                                                    *)
(***************************************************************************)

\* The programs of NAT64 look up or store as those of IPv4 do, once the packet
\* has its configuration.
LEMMA Nat64Effect ==
    ASSUME Inv, NEW c \in Cpus,
           \/ Nat64Reuse(c) \/ Nat64Probe(c) \/ Nat64InsertRev(c) \/ Nat64InsertFwd(c)
           \/ Nat64Ingress(c)
    PROVE  \E t : CpuEffect(c, t)
<1>1. PICK s : s = cpu[c]
  OBVIOUS
<1>2. CASE Nat64Reuse(c)
  <2>1. CASE Return(c)
    <3>1. s.pc = "natfwd" /\ conntrack' = conntrack
      BY <1>1, <1>2 DEF Nat64Reuse, At, maps
    <3>2. Loads(s, IdleCpu)
      BY <3>1, IdleCpuType DEF Loads
    <3> QED
      BY <1>1, <2>1, <3>1, <3>2 DEF CpuEffect, Return
  <2>2. CASE ~Return(c)
    BY <1>2, <2>2, ReuseMiss, LoadEffect
  <2> QED
    BY <2>1, <2>2
<1>3. CASE Nat64Probe(c)
  BY <1>3, LoadEffect DEF Nat64Probe
<1>4. CASE Nat64InsertRev(c)
  BY <1>4, StoreEffect DEF Nat64InsertRev
<1>5. CASE Nat64InsertFwd(c)
  <2>1. PICK e : e = [kind |-> "snat", xip |-> s.cfg.ip, xport |-> s.port,
                      tcp |-> "none", idle |-> 0]
    OBVIOUS
  <2>2. s.pc = "insfwd" /\ conntrack' = Upsert(conntrack, s.pkt, e) /\ Set(c, IdleCpu)
    BY <1>1, <1>5, <2>1 DEF Nat64InsertFwd, At, Emit, Return
  <2>3. Stores(s, s.pkt, e) /\ After(s, IdleCpu)
    BY <2>1, <2>2, IdleCpuType DEF Stores, After
  <2> QED
    BY <1>1, <2>2, <2>3 DEF CpuEffect
<1>6. CASE Nat64Ingress(c)
  <2>1. /\ s.pc = "itouch" /\ Set(c, IdleCpu)
        /\ conntrack' = Upsert(conntrack, s.key, Touched(s.entry, s.flags))
    BY <1>1, <1>6 DEF Nat64Ingress, At, Return
  <2>2. Stores(s, s.key, Touched(s.entry, s.flags)) /\ After(s, IdleCpu)
    BY <2>1, IdleCpuType DEF Stores, After
  <2> QED
    BY <1>1, <2>1, <2>2 DEF CpuEffect
<1> QED
  BY <1>2, <1>3, <1>4, <1>5, <1>6

\* The key that a step stores under, if it stores.
LEMMA WritesOf ==
    ASSUME NEW c \in Cpus
    PROVE  /\ \A k, e : Stores(cpu[c], k, e) => Writes(c) = {k}
           /\ \A t : Loads(cpu[c], t) => Writes(c) = {}
<1>1. PICK s : s = cpu[c]
  OBVIOUS
<1>2. ASSUME NEW k, NEW e, Stores(s, k, e) PROVE Writes(c) = {k}
  BY <1>1, <1>2 DEF Stores, Writes, Refreshing
<1>3. ASSUME NEW t, Loads(s, t) PROVE Writes(c) = {}
  BY <1>1, <1>3 DEF Loads, Writes, Refreshing
<1> QED
  BY <1>1, <1>2, <1>3

\* The flagged entries, the flagged copies, the CPUs in nat64_egress, and the
\* kind of entry a reply is translated with.
TableFlags == n64 \subseteq DOMAIN conntrack /\ \A k \in n64 : conntrack[k].kind \in {"snat", "dnat"}
CopyFlags ==
    \A c \in copy64 : c \in Cpus /\ cpu[c].pc \in Refreshing /\ cpu[c].entry.kind \in {"snat", "dnat"}
ViaFlags == \A c \in via64 : c \in Cpus /\ cpu[c].pc \in {"natfwd", "probe", "insrev", "insfwd"}
ReverseCopies == \A c \in Cpus : cpu[c].pc = "itouch" => cpu[c].entry.kind = "dnat"

FlagInv == TableFlags /\ CopyFlags /\ ViaFlags /\ ReverseCopies

\* The stacks after a step of one CPU.
LEMMA StacksAfter ==
    ASSUME Inv, NEW c \in Cpus, NEW t, Set(c, t)
    PROVE  cpu'[c] = t /\ \A d \in Cpus : d # c => cpu'[d] = cpu[d]
  BY DEF Inv, TypeOK, Set

\* A copy is of the kind of its entry.
LEMMA CopyKind ==
    ASSUME Inv, NEW k \in DOMAIN conntrack
    PROVE  SameTranslation(conntrack[k], Copy(k))
<1>1. conntrack[k] \in CtEntry
  BY DEF Inv, TypeOK
<1> QED
  BY <1>1 DEF Copy, CtEntry, SameTranslation

\* A step sets the flag of translating entries only.
LEMMA TableFlagsKept ==
    ASSUME Inv, TableFlags, CopyFlags, NEW c \in Cpus, NEW t, CpuEffect(c, t),
           \/ n64' = n64 \ Writes(c)
           \/ n64' = n64 \cup Writes(c) /\ (c \in copy64 \/ cpu[c].pc \in {"insrev", "insfwd"})
    PROVE  TableFlags'
<1>1. PICK s : s = cpu[c]
  OBVIOUS
<1>2. CASE conntrack' = conntrack /\ Loads(s, t)
  <2>1. Writes(c) = {}
    BY <1>1, <1>2, WritesOf
  <2> QED
    BY <1>2, <2>1 DEF TableFlags
<1>3. ASSUME NEW k, NEW e, Stores(s, k, e), conntrack' = Upsert(conntrack, k, e)
      PROVE  TableFlags'
  <2>1. Writes(c) = {k}
    BY <1>1, <1>3, WritesOf
  <2>2. /\ DOMAIN conntrack' = DOMAIN conntrack \cup {k} /\ conntrack'[k] = e
        /\ \A x \in DOMAIN conntrack : x # k => conntrack'[x] = conntrack[x]
    BY <1>3 DEF Upsert
  <2>3. CASE n64' = n64 \ {k}
    BY <2>2, <2>3 DEF TableFlags
  <2>4. CASE n64' = n64 \cup {k} /\ e.kind \in {"snat", "dnat"}
    BY <2>2, <2>4 DEF TableFlags
  <2>5. ASSUME c \in copy64 PROVE e.kind \in {"snat", "dnat"}
    <3>1. s.pc \in Refreshing /\ s.entry.kind \in {"snat", "dnat"}
      BY <1>1, <2>5 DEF CopyFlags
    <3>2. e = Touched(s.entry, s.flags)
      BY <1>3, <3>1 DEF Stores, Refreshing
    <3>3. s.entry \in CtEntry /\ s.flags \in Flags
      BY <1>1 DEF Inv, TypeOK, CpuState
    <3> QED
      BY <3>1, <3>2, <3>3, TouchedType
  <2>6. ASSUME s.pc \in {"insrev", "insfwd"} PROVE e.kind \in {"snat", "dnat"}
    BY <1>3, <2>6 DEF Stores
  <2> QED
    BY <1>1, <2>1, <2>3, <2>4, <2>5, <2>6
<1> QED
  BY <1>1, <1>2, <1>3 DEF CpuEffect

\* A copy has the flag of the entry it was taken from.
LEMMA CopyFlagsKept ==
    ASSUME Inv, TableFlags, CopyFlags, NEW c \in Cpus, NEW t, CpuEffect(c, t),
           \/ copy64' = copy64 \ {c}
           \/ copy64' = copy64 \cup {c} /\ t.pc \in Refreshing /\ t.key \in n64
    PROVE  CopyFlags'
<1>1. cpu'[c] = t /\ \A d \in Cpus : d # c => cpu'[d] = cpu[d]
  BY StacksAfter DEF CpuEffect
<1>2. ASSUME NEW d \in copy64', d # c
      PROVE  d \in Cpus /\ cpu'[d].pc \in Refreshing /\ cpu'[d].entry.kind \in {"snat", "dnat"}
  BY <1>1, <1>2 DEF CopyFlags
<1>3. ASSUME c \in copy64'
      PROVE  cpu'[c].pc \in Refreshing /\ cpu'[c].entry.kind \in {"snat", "dnat"}
  <2>1. t.pc \in Refreshing /\ t.key \in n64
    BY <1>3
  <2>2. t.key \in DOMAIN conntrack /\ t.entry = Copy(t.key)
    BY <2>1 DEF CpuEffect, Loads, After, Refreshing
  <2>3. conntrack[t.key].kind \in {"snat", "dnat"} /\ SameTranslation(conntrack[t.key], t.entry)
    BY <2>1, <2>2, CopyKind DEF TableFlags
  <2> QED
    BY <1>1, <2>1, <2>3 DEF SameTranslation
<1> QED
  BY <1>2, <1>3 DEF CopyFlags

\* nat64_egress ends where its CPU leaves the set.
LEMMA ViaFlagsKept ==
    ASSUME Inv, ViaFlags, NEW c \in Cpus, NEW t, Set(c, t),
           \A d \in via64' : d = c \/ d \in via64,
           c \in via64' => t.pc \in {"natfwd", "probe", "insrev", "insfwd"}
    PROVE  ViaFlags'
<1>1. cpu'[c] = t /\ \A d \in Cpus : d # c => cpu'[d] = cpu[d]
  BY StacksAfter
<1> QED
  BY <1>1 DEF ViaFlags

\* try_uplink_rx applies reverse entries only.
LEMMA ReverseKept ==
    ASSUME Inv, ReverseCopies, NEW c \in Cpus, NEW t, CpuEffect(c, t)
    PROVE  ReverseCopies'
<1>1. cpu'[c] = t /\ \A d \in Cpus : d # c => cpu'[d] = cpu[d]
  BY StacksAfter DEF CpuEffect
<1>2. ASSUME t.pc = "itouch" PROVE t.entry.kind = "dnat"
  <2>1. t.key \in DOMAIN conntrack /\ t.entry = Copy(t.key) /\ conntrack[t.key].kind = "dnat"
    BY <1>2 DEF CpuEffect, Loads, After
  <2> QED
    BY <2>1, CopyKind DEF SameTranslation
<1> QED
  BY <1>1, <1>2 DEF ReverseCopies

\* The flags after a step of an IPv4 program.
LEMMA Step4Flags ==
    ASSUME Inv, FlagInv, NEW c \in Cpus, Step4(c)
    PROVE  FlagInv'
<1>1. PICK t : CpuEffect(c, t)
  BY ProgramEffect DEF Step4
<1>2. cpu'[c] = t
  BY <1>1, StacksAfter DEF CpuEffect
<1>3. TableFlags'
  <2>1. \/ n64' = n64 \ Writes(c)
        \/ n64' = n64 \cup Writes(c) /\ c \in copy64
    BY DEF Step4
  <2> QED
    BY <1>1, <2>1, TableFlagsKept DEF FlagInv
<1>4. CopyFlags'
  <2>1. \/ copy64' = copy64 \ {c}
        \/ copy64' = copy64 \cup {c} /\ t.pc \in Refreshing /\ t.key \in n64
    BY <1>2 DEF Step4
  <2> QED
    BY <1>1, <2>1, CopyFlagsKept DEF FlagInv
<1>5. ViaFlags'
  <2>1. c \notin via64 /\ via64' = via64
    BY DEF Step4
  <2> QED
    BY <1>1, <2>1, ViaFlagsKept DEF FlagInv, CpuEffect
<1>6. ReverseCopies'
  BY <1>1, ReverseKept DEF FlagInv
<1> QED
  BY <1>3, <1>4, <1>5, <1>6 DEF FlagInv

\* The labels of nat64_egress.
LEMMA EgressLabels ==
    ASSUME Inv, NEW c \in Cpus, c \in via64, NEW t, CpuEffect(c, t),
           \/ Nat64Reuse(c) \/ Nat64Probe(c) \/ Nat64InsertRev(c) \/ Nat64InsertFwd(c)
    PROVE  /\ cpu[c].pc \in {"natfwd", "probe", "insrev", "insfwd"}
           /\ c \in via64' => t.pc \in {"natfwd", "probe", "insrev", "insfwd"}
<1>1. PICK s : s = cpu[c]
  OBVIOUS
<1>2. s \in CpuState
  BY <1>1 DEF Inv, TypeOK
<1>3. cpu'[c] = t
  BY StacksAfter DEF CpuEffect
<1>s. ASSUME NEW r, Set(c, r) PROVE t = r
  BY <1>3, <1>s, StacksAfter
<1>4. CASE Nat64Reuse(c)
  <2>1. s.pc = "natfwd"
    BY <1>1, <1>4 DEF Nat64Reuse, At
  <2>2. CASE via64' = via64 \ {c}
    BY <1>1, <2>1, <2>2
  <2>3. CASE via64' # via64 \ {c}
    <3>1. PICK r : r = [s EXCEPT !.pc = "probe", !.port = ProbePort(s.cfg, s.pkt, 0)]
      OBVIOUS
    <3>2. Set(c, r)
      BY <1>1, <1>4, <2>3, <3>1 DEF Nat64Reuse, Emit
    <3>3. r.pc = "probe"
      BY <1>2, <3>1 DEF CpuState
    <3> QED
      BY <1>1, <1>s, <2>1, <3>2, <3>3
  <2> QED
    BY <2>2, <2>3
<1>5. CASE Nat64Probe(c)
  <2>1. PICK x : x = ProbePort(s.cfg, s.pkt, s.probe)
    OBVIOUS
  <2>2. PICK r : Set(c, r) /\ \/ r = [s EXCEPT !.pc = "insfwd"]
                              \/ r = [s EXCEPT !.pc = "insrev", !.port = x]
                              \/ r = [s EXCEPT !.probe = @ + 1]
    BY <1>1, <1>5, <2>1 DEF Nat64Probe, NatProbe, Goto
  <2>3. s.pc = "probe"
    BY <1>1, <1>5 DEF Nat64Probe, NatProbe, At
  <2>4. r.pc \in {"probe", "insrev", "insfwd"}
    BY <1>2, <2>2, <2>3 DEF CpuState
  <2> QED
    BY <1>1, <1>s, <2>2, <2>3, <2>4
<1>6. CASE Nat64InsertRev(c)
  <2>1. PICK r : r = [s EXCEPT !.pc = "insfwd"]
    OBVIOUS
  <2>2. Set(c, r) /\ s.pc = "insrev"
    BY <1>1, <1>6, <2>1 DEF Nat64InsertRev, NatInsertRev, At, Goto
  <2>3. r.pc = "insfwd"
    BY <1>2, <2>1 DEF CpuState
  <2> QED
    BY <1>1, <1>s, <2>2, <2>3
<1>7. CASE Nat64InsertFwd(c)
  BY <1>7 DEF Nat64InsertFwd, At, Emit
<1> QED
  BY <1>4, <1>5, <1>6, <1>7

\* The flags after a step of nat64_egress or nat64_ingress.
LEMMA Nat64Flags ==
    ASSUME Inv, FlagInv, NEW c \in Cpus, Nat64Step(c)
    PROVE  FlagInv'
<1>1. ASSUME NEW k \in GuestPackets, Nat64Config(c, k) PROVE FlagInv'
  <2>1. PICK s : Set(c, s) /\ s.pc = "natfwd"
    BY <1>1, ConfigStack
  <2>2. cpu'[c] = s /\ \A d \in Cpus : d # c => cpu'[d] = cpu[d]
    BY <2>1, StacksAfter
  <2>3. /\ cpu[c].pc = "idle" /\ conntrack' = conntrack /\ n64' = n64 /\ copy64' = copy64
        /\ via64' = via64 \cup {c}
    BY <1>1 DEF Nat64Config, At, maps
  <2>4. ViaFlags'
    BY <2>1, <2>3, ViaFlagsKept DEF FlagInv
  <2>5. CopyFlags'
    BY <2>2, <2>3 DEF FlagInv, CopyFlags, Refreshing
  <2>6. ReverseCopies'
    BY <2>1, <2>2 DEF FlagInv, ReverseCopies
  <2>7. TableFlags'
    BY <2>3 DEF FlagInv, TableFlags
  <2> QED
    BY <2>4, <2>5, <2>6, <2>7 DEF FlagInv
<1>2. ASSUME Nat64Reuse(c) \/ Nat64Probe(c) \/ Nat64InsertRev(c) \/ Nat64InsertFwd(c)
      PROVE  FlagInv'
  <2>1. PICK t : CpuEffect(c, t)
    BY <1>2, Nat64Effect
  <2>2. c \in via64 /\ copy64' = copy64 /\ via64' \subseteq via64
    BY <1>2 DEF Nat64Reuse, Nat64Probe, Nat64InsertRev, Nat64InsertFwd, Emit
  <2>3. /\ cpu[c].pc \in {"natfwd", "probe", "insrev", "insfwd"}
        /\ c \in via64' => t.pc \in {"natfwd", "probe", "insrev", "insfwd"}
    BY <1>2, <2>1, <2>2, EgressLabels
  <2>4. \/ n64' = n64 \cup Writes(c) /\ cpu[c].pc \in {"insrev", "insfwd"}
        \/ n64' = n64 /\ cpu[c].pc \in {"natfwd", "probe"}
    BY <1>2 DEF Nat64Reuse, Nat64Probe, NatProbe, Nat64InsertRev, NatInsertRev, Nat64InsertFwd, At
  <2>5. ASSUME cpu[c].pc \in {"natfwd", "probe"} PROVE Writes(c) = {}
    BY <2>5 DEF Writes, Refreshing
  <2>6. TableFlags'
    <3>1. \/ n64' = n64 \ Writes(c)
          \/ n64' = n64 \cup Writes(c) /\ (c \in copy64 \/ cpu[c].pc \in {"insrev", "insfwd"})
      BY <2>4, <2>5
    <3> QED
      BY <2>1, <3>1, TableFlagsKept DEF FlagInv
  <2>7. CopyFlags'
    <3>1. copy64' = copy64 \ {c}
      BY <2>2, <2>3 DEF FlagInv, CopyFlags, Refreshing
    <3> QED
      BY <2>1, <3>1, CopyFlagsKept DEF FlagInv
  <2>8. ViaFlags'
    BY <2>1, <2>2, <2>3, ViaFlagsKept DEF FlagInv, CpuEffect
  <2>9. ReverseCopies'
    BY <2>1, ReverseKept DEF FlagInv
  <2> QED
    BY <2>6, <2>7, <2>8, <2>9 DEF FlagInv
<1>3. CASE Nat64Ingress(c)
  <2>1. PICK t : CpuEffect(c, t)
    BY <1>3, Nat64Effect
  <2>2. /\ cpu[c].pc = "itouch" /\ c \in copy64 /\ copy64' = copy64 \ {c} /\ via64' = via64
        /\ n64' = n64 \cup Writes(c)
    BY <1>3 DEF Nat64Ingress, At
  <2>3. c \notin via64
    BY <2>2 DEF FlagInv, ViaFlags
  <2>4. TableFlags'
    BY <2>1, <2>2, TableFlagsKept DEF FlagInv
  <2>5. CopyFlags'
    BY <2>1, <2>2, CopyFlagsKept DEF FlagInv
  <2>6. ViaFlags'
    BY <2>1, <2>2, <2>3, ViaFlagsKept DEF FlagInv, CpuEffect
  <2>7. ReverseCopies'
    BY <2>1, ReverseKept DEF FlagInv
  <2> QED
    BY <2>4, <2>5, <2>6, <2>7 DEF FlagInv
<1> QED
  BY <1>1, <1>2, <1>3 DEF Nat64Step

\* The flags after a step of the sweep, the control plane or the kernel.
LEMMA ElsewhereFlags ==
    ASSUME Inv, FlagInv, Elsewhere4
    PROVE  FlagInv'
<1>1. /\ cpu' = cpu
      /\ DOMAIN conntrack' \subseteq DOMAIN conntrack
      /\ \A k \in DOMAIN conntrack' : SameTranslation(conntrack[k], conntrack'[k])
  BY OthersRemove DEF Elsewhere4
<1>2. n64' = n64 \cap DOMAIN conntrack' /\ copy64' = copy64 /\ via64' = via64
  BY DEF Elsewhere4
<1>3. TableFlags'
  BY <1>1, <1>2 DEF FlagInv, TableFlags, SameTranslation
<1> QED
  BY <1>1, <1>2, <1>3 DEF FlagInv, CopyFlags, ViaFlags, ReverseCopies

\* Every step keeps the flags.
LEMMA FlagsKept == Inv /\ FlagInv /\ [Next64]_vars64 => FlagInv'
<1> SUFFICES ASSUME Inv, FlagInv, [Next64]_vars64 PROVE FlagInv'
  OBVIOUS
<1>1. CASE Next64
  BY <1>1, Step4Flags, Nat64Flags, ElsewhereFlags DEF Next64
<1>2. CASE UNCHANGED vars64
  BY <1>2 DEF vars64, vars, maps, FlagInv, TableFlags, CopyFlags, ViaFlags, ReverseCopies
<1> QED
  BY <1>1, <1>2

(***************************************************************************)
(* The packet that a step sends.                                           *)
(***************************************************************************)

\* The checksums of a packet are words.
OutTyped == out.dir # "none" => out.ck \in [Payloads -> 0 .. Mask]

OutInv == OutTyped /\ SegmentAccepted /\ EmittedInRange

\* A step that sends nothing says nothing wrong.
LEMMA SilentOut ==
    ASSUME Silent
    PROVE  OutInv'
<1>1. out'.dir = "none"
  BY DEF Silent, NoPacket
<1> QED
  BY <1>1 DEF OutInv, OutTyped, SegmentAccepted, EmittedInRange

\* A packet with its source rewritten.
LEMMA SourceFields ==
    ASSUME NEW k \in CtKey, NEW ip, NEW port
    PROVE  LET m == SourceAs(k, ip, port) IN
           m.src = ip /\ m.dst = k.dst /\ m.sport = port /\ m.proto = k.proto
  BY DEF SourceAs, CtKey

\* The receiver of a packet from nat64_egress accepts its checksum.
LEMMA EmitAccepted ==
    ASSUME Inv, NEW c \in Cpus, cpu[c].pc \in {"natfwd", "insfwd"}, NEW port \in Port,
           Emit(c, port)
    PROVE  OutTyped' /\ SegmentAccepted'
<1>1. CASE Silent
  BY <1>1, SilentOut DEF OutInv
<1>2. CASE ~Silent
  <2>1. PICK s : s = cpu[c]
    OBVIOUS
  <2>2. s.pkt \in CtKey /\ s.cfg.ip \in Addr /\ s.pkt.src \in Guests
    <3>1. s \in CpuState /\ StackOwned(s)
      BY <2>1 DEF Inv, TypeOK, OwnershipInv
    <3>2. s.cfg.ip \in NatIps /\ s.pkt \in CtKey
      BY <2>1, <3>1 DEF StackOwned, CpuState
    <3> QED
      BY <2>1, <3>2, AllocatorGuest DEF Addr
  <2>3. PICK m : m = SourceAs(s.pkt, s.cfg.ip, port)
    OBVIOUS
  <2>4. m.src = s.cfg.ip /\ m.dst = s.pkt.dst /\ m.proto = s.pkt.proto
    BY <2>2, <2>3, SourceFields
  <2>5. PICK ck : ck = [d \in Payloads |-> Translated(s, port, d)]
    OBVIOUS
  <2>6. out'.dir = "out" /\ out'.pkt = m /\ out'.ck = ck
    BY <1>2, <2>1, <2>3, <2>5 DEF Emit
  <2>7. ASSUME NEW d \in Payloads
        PROVE  /\ ck[d] \in 0 .. Mask
               /\ m.proto # "icmp" => Accepts(pseudo_v4(m.src, m.dst, m.proto), m, d, ck[d])
    <3>1. ck[d] = Translated(s, port, d)
      BY <2>5
    <3>2. /\ Translated(s, port, d) \in 0 .. Mask
          /\ s.pkt.proto # "icmp" =>
                Accepts(pseudo_v4(s.cfg.ip, s.pkt.dst, s.pkt.proto), SourceAs(s.pkt, s.cfg.ip, port), d,
                        Translated(s, port, d))
      BY <2>2, TranslatedVerifies
    <3> QED
      BY <2>3, <2>4, <3>1, <3>2
  <2>8. ck \in [Payloads -> 0 .. Mask]
    BY <2>5, <2>7
  <2>9. OutTyped'
    BY <2>6, <2>8 DEF OutTyped
  <2>10. SegmentAccepted'
    BY <2>6, <2>7 DEF SegmentAccepted
  <2> QED
    BY <2>9, <2>10
<1> QED
  BY <1>1, <1>2

\* The guest accepts the checksum of a reply from nat64_ingress.
LEMMA IngressAccepted ==
    ASSUME Inv, FlagInv, NEW c \in Cpus, Nat64Ingress(c)
    PROVE  OutInv'
<1>1. PICK s, r : s = cpu[c] /\ r = ct_apply(s.pkt, s.entry)
  OBVIOUS
<1>2. CASE r.dst \notin Dual
  <2>1. Silent
    BY <1>1, <1>2 DEF Nat64Ingress, Silent
  <2> QED
    BY <2>1, SilentOut
<1>3. CASE r.dst \in Dual
  <2>1. PICK ck : ck = [d \in Payloads |-> ReplyChecksum(s.pkt, r, d)]
    OBVIOUS
  <2>2. out'.dir = "in" /\ out'.guest = r.dst /\ out'.pkt = r /\ out'.ck = ck
    BY <1>1, <1>3, <2>1 DEF Nat64Ingress
  <2>3. s.pkt \in CtKey /\ s.entry \in CtEntry /\ s.entry.kind = "dnat"
    <3>1. s \in CpuState /\ s.pc = "itouch"
      BY <1>1 DEF Inv, TypeOK, Nat64Ingress, At
    <3> QED
      BY <1>1, <3>1 DEF CpuState, FlagInv, ReverseCopies
  <2>4. r.dst \in Guests
    BY <1>3, Nat64Assumption
  <2>5. ASSUME NEW d \in Payloads
        PROVE  /\ ck[d] \in 0 .. Mask
               /\ r.proto # "icmp" =>
                     Accepts(pseudo_v6(nat64_embed(r.src), Addr6(r.dst), r.proto), r, d, ck[d])
    <3>1. ck[d] = ReplyChecksum(s.pkt, r, d)
      BY <2>1
    <3> QED
      BY <1>1, <2>3, <2>4, <3>1, ReplyChecksumVerifies
  <2>6. ck \in [Payloads -> 0 .. Mask]
    BY <2>1, <2>5
  <2>7. OutTyped'
    BY <2>2, <2>6 DEF OutTyped
  <2>8. SegmentAccepted'
    BY <2>2, <2>5 DEF SegmentAccepted
  <2>9. EmittedInRange'
    BY <2>2 DEF EmittedInRange
  <2> QED
    BY <2>7, <2>8, <2>9 DEF OutInv
<1> QED
  BY <1>2, <1>3

\* The port of a flow that is known lies in the range configured now: the
\* entry was written under a configuration that is not flushed yet, and of
\* those a guest has one at a time.
LEMMA ReusedInRange ==
    ASSUME Inv, RangeInv, NEW c \in Cpus, cpu[c].pc = "natfwd", Reusable(cpu[c].pkt),
           cpu[c].pkt.src \notin late \cup gone \cup GuestsOf(flushReq \cup flushing)
    PROVE  conntrack[cpu[c].pkt].xport \in PortsOf(cpu[c].cfg)
<1>1. PICK s, g, e : s = cpu[c] /\ g = s.pkt.src /\ e = conntrack[s.pkt]
  OBVIOUS
<1>2. g \in Guests \ (late \cup gone)
  BY <1>1, AllocatorGuest
<1>3. s.pkt \in DOMAIN conntrack /\ e.kind = "snat"
  <2>1. s.pkt \in DOMAIN conntrack /\ e.kind \in {"snat", "dnat"}
    BY <1>1 DEF Reusable
  <2>2. Owned(s.pkt, e)
    BY <1>1, <2>1 DEF Inv, OwnershipInv, NatOwnership
  <2>3. e.kind = "dnat" => g = Zero
    BY <1>1, <2>2 DEF Owned
  <2> QED
    BY <1>2, <2>1, <2>3, AddrAssumption
<1>4. Covered(g, s.pkt, e) /\ StackCovered(g, s)
  BY <1>1, <1>2, <1>3 DEF RangeInv, CoverInv, TableCovered, StacksCovered
<1>5. Serves(g, s.cfg)
  BY <1>1, <1>4 DEF StackCovered
<1>6. g \notin GuestsOf(flushing) /\ \A q \in flushReq : q.guest # g
  BY <1>1 DEF GuestsOf
<1>7. PICK v \in NatValue : Serves(g, v) /\ From(v, s.pkt, e)
  <2>1. Translates(g, s.pkt, e)
    BY <1>1, <1>3 DEF Translates
  <2> QED
    BY <1>3, <1>4, <1>6, <2>1 DEF Covered
<1>8. v = s.cfg
  BY <1>5, <1>6, <1>7 DEF Serves, RangeInv, Unmarking
<1> QED
  BY <1>1, <1>3, <1>7, <1>8 DEF From

\* What the two emitting steps of nat64_egress send.
LEMMA EmitRange ==
    ASSUME Inv, RangeInv, NEW c \in Cpus, NEW port, Emit(c, port),
           UNCHANGED <<late, gone, flushReq, flushing>>,
           \/ cpu[c].pc = "insfwd" /\ port = cpu[c].port
           \/ cpu[c].pc = "natfwd" /\ Reusable(cpu[c].pkt) /\ port = conntrack[cpu[c].pkt].xport
    PROVE  EmittedInRange'
<1>1. CASE Silent
  BY <1>1, SilentOut DEF OutInv
<1>2. CASE ~Silent
  <2>1. PICK s : s = cpu[c]
    OBVIOUS
  <2>2. s \in CpuState /\ StackOwned(s)
    BY <2>1 DEF Inv, TypeOK, OwnershipInv
  <2>3. PICK m : m = SourceAs(s.pkt, s.cfg.ip, port)
    OBVIOUS
  <2>4. m.sport = port
    BY <2>2, <2>3, SourceFields DEF CpuState
  <2>5. out'.dir = "out" /\ out'.pkt = m /\ out'.guest = s.pkt.src /\ out'.cfg = s.cfg
    BY <1>2, <2>1, <2>3 DEF Emit
  <2>6. ASSUME s.pkt.src \notin late \cup gone \cup GuestsOf(flushReq \cup flushing)
        PROVE  port \in PortsOf(s.cfg)
    <3>1. CASE s.pc = "insfwd" /\ port = s.port
      BY <2>2, <3>1 DEF StackOwned
    <3>2. CASE s.pc = "natfwd" /\ Reusable(s.pkt) /\ port = conntrack[s.pkt].xport
      BY <2>1, <2>6, <3>2, ReusedInRange
    <3> QED
      BY <2>1, <3>1, <3>2
  <2>7. GuestsOf(flushReq \cup flushing)' = GuestsOf(flushReq \cup flushing)
    BY DEF GuestsOf
  <2>8. PortsOf(out.cfg)' = PortsOf(s.cfg)
    BY <2>5 DEF PortsOf, PortRange
  <2> QED
    BY <2>4, <2>5, <2>6, <2>7, <2>8 DEF EmittedInRange
<1> QED
  BY <1>1, <1>2

\* Whatever a step sends is as it should be.
LEMMA OutKept == Inv /\ FlagInv /\ RangeInv /\ OutInv /\ [Next64]_vars64 => OutInv'
<1> SUFFICES ASSUME Inv, FlagInv, RangeInv, OutInv, [Next64]_vars64 PROVE OutInv'
  OBVIOUS
<1>1. CASE Elsewhere4 \/ \E c \in Cpus : Step4(c)
  BY <1>1, SilentOut DEF Elsewhere4, Step4
<1>2. ASSUME NEW c \in Cpus, NEW k, Nat64Config(c, k) PROVE OutInv'
  BY <1>2, SilentOut DEF Nat64Config
<1>3. ASSUME NEW c \in Cpus, Nat64Probe(c) \/ Nat64InsertRev(c) PROVE OutInv'
  BY <1>3, SilentOut DEF Nat64Probe, Nat64InsertRev
<1>4. ASSUME NEW c \in Cpus, Nat64Reuse(c) PROVE OutInv'
  <2>1. CASE Silent
    BY <2>1, SilentOut
  <2>2. CASE ~Silent
    <3>1. PICK port : port = conntrack[cpu[c].pkt].xport
      OBVIOUS
    <3>2. cpu[c].pc = "natfwd" /\ Reusable(cpu[c].pkt) /\ Emit(c, port)
      BY <1>4, <2>2, <3>1 DEF Nat64Reuse, At
    <3>3. port \in Port
      BY <3>1, <3>2 DEF Reusable, Inv, TypeOK, CtEntry
    <3>4. UNCHANGED <<late, gone, flushReq, flushing>>
      BY <1>4 DEF Nat64Reuse, history, ctlVars
    <3> QED
      BY <3>1, <3>2, <3>3, <3>4, EmitAccepted, EmitRange DEF OutInv
  <2> QED
    BY <2>1, <2>2
<1>5. ASSUME NEW c \in Cpus, Nat64InsertFwd(c) PROVE OutInv'
  <2>1. PICK port : port = cpu[c].port
    OBVIOUS
  <2>2. cpu[c].pc = "insfwd" /\ Emit(c, port)
    BY <1>5, <2>1 DEF Nat64InsertFwd, At
  <2>3. port \in Port
    BY <2>1 DEF Inv, TypeOK, CpuState
  <2>4. UNCHANGED <<late, gone, flushReq, flushing>>
    BY <1>5 DEF Nat64InsertFwd, history, ctlVars
  <2> QED
    BY <2>1, <2>2, <2>3, <2>4, EmitAccepted, EmitRange DEF OutInv
<1>6. ASSUME NEW c \in Cpus, Nat64Ingress(c) PROVE OutInv'
  BY <1>6, IngressAccepted
<1>7. CASE UNCHANGED vars64
  BY <1>7 DEF vars64, vars, ctlVars, history, OutInv, OutTyped, SegmentAccepted, EmittedInRange
<1> QED
  BY <1>1, <1>2, <1>3, <1>4, <1>5, <1>6, <1>7 DEF Next64, Nat64Step

(***************************************************************************)
(* The family that replies are translated to.                              *)
(***************************************************************************)

\* A reverse entry of family f stored under k belongs to a socket of U.
RevFamily(k, e, f, U) == e.kind = "dnat" => <<e.xip, e.xport, k.proto, f>> \in U

Family(flagged) == IF flagged THEN 6 ELSE 4

\* The same of the copy on a stack, of family f, and of the reverse entry that
\* it is to be given; v is the family of the program that runs.
StackFamily(s, f, v, U) ==
    /\ s.pc \in Refreshing => RevFamily(s.key, s.entry, f, U)
    /\ s.pc \in {"natfwd", "probe", "insrev"} => <<s.pkt.src, s.pkt.sport, s.pkt.proto, v>> \in U
    /\ s.pc \in {"touch", "route"} /\ s.pkt.src \in Guests =>
          <<s.pkt.src, s.pkt.sport, s.pkt.proto, 4>> \in U

\* The inductive form of ReplyFamily.
TableFamilies == \A k \in DOMAIN conntrack : RevFamily(k, conntrack[k], Family(k \in n64), used)
StackFamilies == \A c \in Cpus : StackFamily(cpu[c], Family(c \in copy64), Family(c \in via64), used)
FamilyInv == TableFamilies /\ StackFamilies

\* It says what is promised.
LEMMA FamilyReply == FamilyInv => ReplyFamily
  BY DEF FamilyInv, TableFamilies, RevFamily, Family, ReplyFamily

\* Sockets are never taken out of the history.
LEMMA FamilyGrows ==
    ASSUME NEW U, NEW V, U \subseteq V
    PROVE  /\ \A k, e, f : RevFamily(k, e, f, U) => RevFamily(k, e, f, V)
           /\ \A s, f, v : StackFamily(s, f, v, U) => StackFamily(s, f, v, V)
<1>1. \A k, e, f : RevFamily(k, e, f, U) => RevFamily(k, e, f, V)
  BY DEF RevFamily
<1> QED
  BY <1>1 DEF StackFamily

\* How a step of CPU c, which ends in stack t, carries the flag along: an entry
\* gets the flag of the copy or of the program that writes it, a copy that of
\* its entry.
Carries(c, t) ==
    /\ used \subseteq used'
    /\ \A k : k \notin Writes(c) => (k \in n64' <=> k \in n64)
    /\ \A d : d # c => (d \in copy64' <=> d \in copy64) /\ (d \in via64' <=> d \in via64)
    /\ cpu[c].pc \in Refreshing => \A k \in Writes(c) : k \in n64' <=> c \in copy64
    /\ cpu[c].pc = "insrev" => \A k \in Writes(c) : k \in n64' <=> c \in via64
    /\ t.pc \in Refreshing => (c \in copy64' <=> t.key \in n64)
    /\ t.pc = "natfwd" => c \notin via64'
    /\ t.pc \in {"probe", "insrev"} => (c \in via64' <=> c \in via64)
    /\ cpu[c].pc = "idle" /\ t.pkt.src \in Guests =>
          <<t.pkt.src, t.pkt.sport, t.pkt.proto, 4>> \in used'

\* The table after such a step.
LEMMA TableFamiliesKept ==
    ASSUME Inv, FamilyInv, NEW c \in Cpus, NEW t, CpuEffect(c, t), Carries(c, t)
    PROVE  TableFamilies'
<1>1. PICK s : s = cpu[c]
  OBVIOUS
<1>2. s \in CpuState
  BY <1>1 DEF Inv, TypeOK
<1>3. ASSUME NEW k \in DOMAIN conntrack, k \notin Writes(c)
      PROVE  RevFamily(k, conntrack[k], Family(k \in n64'), used')
  <2>1. RevFamily(k, conntrack[k], Family(k \in n64), used)
    BY DEF FamilyInv, TableFamilies
  <2>2. RevFamily(k, conntrack[k], Family(k \in n64), used')
    BY <2>1, FamilyGrows DEF Carries
  <2>3. k \in n64' <=> k \in n64
    BY <1>3 DEF Carries
  <2> QED
    BY <2>2, <2>3 DEF Family
<1>4. CASE conntrack' = conntrack /\ Loads(s, t)
  <2>1. Writes(c) = {}
    BY <1>1, <1>4, WritesOf
  <2> QED
    BY <1>3, <1>4, <2>1 DEF TableFamilies, Family
<1>5. ASSUME NEW k, NEW e, Stores(s, k, e), conntrack' = Upsert(conntrack, k, e)
      PROVE  TableFamilies'
  <2>1. Writes(c) = {k}
    BY <1>1, <1>5, WritesOf
  <2>2. /\ DOMAIN conntrack' = DOMAIN conntrack \cup {k} /\ conntrack'[k] = e
        /\ \A x \in DOMAIN conntrack : x # k => conntrack'[x] = conntrack[x]
    BY <1>5 DEF Upsert
  <2>3. StackFamily(s, Family(c \in copy64), Family(c \in via64), used')
    <3>1. StackFamily(s, Family(c \in copy64), Family(c \in via64), used)
      BY <1>1 DEF FamilyInv, StackFamilies
    <3> QED
      BY <3>1, FamilyGrows DEF Carries
  <2>4. RevFamily(k, e, Family(k \in n64'), used')
    <3>1. CASE s.pc \in Refreshing
      <4>1. k = s.key /\ e = Touched(s.entry, s.flags)
        BY <1>5, <3>1 DEF Stores, Refreshing
      <4>2. e.kind = s.entry.kind /\ e.xip = s.entry.xip /\ e.xport = s.entry.xport
        BY <1>2, <4>1, TouchedType DEF CpuState
      <4>3. k \in n64' <=> c \in copy64
        BY <1>1, <2>1, <3>1 DEF Carries
      <4>4. RevFamily(s.key, s.entry, Family(c \in copy64), used')
        BY <2>3, <3>1 DEF StackFamily
      <4> QED
        BY <4>1, <4>2, <4>3, <4>4 DEF RevFamily, Family
    <3>2. CASE s.pc = "insrev"
      <4>1. /\ k = RevKey(s.cfg.ip, s.port, s.pkt.proto)
            /\ e.xip = s.pkt.src /\ e.xport = s.pkt.sport
        BY <1>5, <3>2 DEF Stores
      <4>2. k.proto = s.pkt.proto
        BY <4>1 DEF RevKey
      <4>3. k \in n64' <=> c \in via64
        BY <1>1, <2>1, <3>2 DEF Carries
      <4>4. <<s.pkt.src, s.pkt.sport, s.pkt.proto, Family(c \in via64)>> \in used'
        BY <2>3, <3>2 DEF StackFamily
      <4> QED
        BY <4>1, <4>2, <4>3, <4>4 DEF RevFamily, Family
    <3>3. CASE s.pc \in {"insfwd", "insdef", "insseed"}
      <4>1. e.kind # "dnat"
        BY <1>5, <3>3 DEF Stores, DefaultEntry
      <4> QED
        BY <4>1 DEF RevFamily
    <3> QED
      BY <1>5, <3>1, <3>2, <3>3 DEF Stores, Refreshing
  <2>5. ASSUME NEW x \in DOMAIN conntrack'
        PROVE  RevFamily(x, conntrack'[x], Family(x \in n64'), used')
    BY <1>3, <2>1, <2>2, <2>4
  <2> QED
    BY <2>5 DEF TableFamilies, RevFamily, Family
<1> QED
  BY <1>1, <1>4, <1>5 DEF CpuEffect

\* The stack after such a step.
LEMMA StackFamilyAfter ==
    ASSUME Inv, FamilyInv, NEW c \in Cpus, NEW t, CpuEffect(c, t), Carries(c, t)
    PROVE  StackFamily(t, Family(c \in copy64'), Family(c \in via64'), used')
<1>1. PICK s : s = cpu[c]
  OBVIOUS
<1>2. s \in CpuState /\ StackOwned(s)
  BY <1>1 DEF Inv, TypeOK, OwnershipInv
<1>3. StackFamily(s, Family(c \in copy64), Family(c \in via64), used')
  <2>1. StackFamily(s, Family(c \in copy64), Family(c \in via64), used)
    BY <1>1 DEF FamilyInv, StackFamilies
  <2> QED
    BY <2>1, FamilyGrows DEF Carries
<1>e. Loads(s, t) \/ After(s, t)
  BY <1>1 DEF CpuEffect
<1>4. ASSUME t.pc \in Refreshing
      PROVE  RevFamily(t.key, t.entry, Family(c \in copy64'), used')
  <2>1. t.key \in DOMAIN conntrack /\ t.entry = Copy(t.key)
    BY <1>e, <1>4 DEF Loads, After, Refreshing
  <2>2. RevFamily(t.key, conntrack[t.key], Family(t.key \in n64), used')
    <3>1. RevFamily(t.key, conntrack[t.key], Family(t.key \in n64), used)
      BY <2>1 DEF FamilyInv, TableFamilies
    <3> QED
      BY <3>1, FamilyGrows DEF Carries
  <2>3. c \in copy64' <=> t.key \in n64
    BY <1>4 DEF Carries
  <2>4. SameTranslation(conntrack[t.key], t.entry)
    BY <2>1, CopyKind
  <2> QED
    BY <2>2, <2>3, <2>4 DEF RevFamily, SameTranslation, Family
<1>5. ASSUME t.pc = "natfwd"
      PROVE  <<t.pkt.src, t.pkt.sport, t.pkt.proto, Family(c \in via64')>> \in used'
  <2>1. s.pc = "route" /\ t.pkt = s.pkt /\ s.pkt.src \in Guests
    BY <1>e, <1>5 DEF Loads, After, Inv, TypeOK
  <2>2. c \notin via64'
    BY <1>5 DEF Carries
  <2> QED
    BY <1>3, <2>1, <2>2 DEF StackFamily, Family
<1>6. ASSUME t.pc \in {"probe", "insrev"}
      PROVE  <<t.pkt.src, t.pkt.sport, t.pkt.proto, Family(c \in via64')>> \in used'
  <2>1. s.pc \in {"natfwd", "probe"} /\ t.pkt = s.pkt
    BY <1>e, <1>6 DEF Loads, After
  <2>2. c \in via64' <=> c \in via64
    BY <1>6 DEF Carries
  <2> QED
    BY <1>3, <2>1, <2>2 DEF StackFamily, Family
<1>7. ASSUME t.pc \in {"touch", "route"}, t.pkt.src \in Guests
      PROVE  <<t.pkt.src, t.pkt.sport, t.pkt.proto, 4>> \in used'
  <2>1. CASE Loads(s, t)
    <3>1. s.pc = "idle"
      BY <1>7, <2>1 DEF Loads
    <3> QED
      BY <1>1, <1>7, <3>1 DEF Carries
  <2>2. CASE After(s, t)
    <3>1. /\ s.pc = "touch"
          /\ t.pkt = IF s.entry.kind = "snat" THEN ct_apply(s.pkt, s.entry) ELSE s.pkt
      BY <1>7, <2>2 DEF After
    <3>2. CASE s.entry.kind = "snat"
      <4>1. Owned(s.key, s.entry)
        BY <1>2, <3>1 DEF StackOwned
      <4>2. s.entry.xip \in NatIps
        BY <3>2, <4>1 DEF Owned, Inv, TypeOK
      <4>3. PICK port : t.pkt = SourceAs(s.pkt, s.entry.xip, port)
        BY <3>1, <3>2 DEF ct_apply
      <4>4. t.pkt.src = s.entry.xip
        BY <1>2, <4>3, SourceFields DEF CpuState
      <4> QED
        BY <1>7, <4>2, <4>4, AddrAssumption
    <3>3. CASE s.entry.kind # "snat"
      BY <1>3, <1>7, <3>1, <3>3 DEF StackFamily
    <3> QED
      BY <3>2, <3>3
  <2> QED
    BY <1>e, <2>1, <2>2
<1> QED
  BY <1>4, <1>5, <1>6, <1>7 DEF StackFamily

\* The stacks of the other CPUs.
LEMMA OtherFamilies ==
    ASSUME StackFamilies, NEW d \in Cpus, cpu'[d] = cpu[d],
           used \subseteq used', d \in copy64' <=> d \in copy64, d \in via64' <=> d \in via64
    PROVE  StackFamily(cpu[d], Family(d \in copy64), Family(d \in via64), used)'
<1>1. PICK s : s = cpu[d]
  OBVIOUS
<1>2. StackFamily(s, Family(d \in copy64), Family(d \in via64), used)
  BY <1>1 DEF StackFamilies
<1>3. StackFamily(s, Family(d \in copy64), Family(d \in via64), used')
  BY <1>2, FamilyGrows
<1>4. Family(d \in copy64) = Family(d \in copy64') /\ Family(d \in via64) = Family(d \in via64')
  BY DEF Family
<1>5. StackFamily(s, Family(d \in copy64'), Family(d \in via64'), used')
  BY <1>3, <1>4
<1> QED
  BY <1>1, <1>5 DEF StackFamily, RevFamily, Family, Refreshing

\* A step that carries the flag along keeps the families.
LEMMA CarriesFamilies ==
    ASSUME Inv, FamilyInv, NEW c \in Cpus, NEW t, CpuEffect(c, t), Carries(c, t)
    PROVE  FamilyInv'
<1>1. cpu'[c] = t /\ \A d \in Cpus : d # c => cpu'[d] = cpu[d]
  BY StacksAfter DEF CpuEffect
<1>2. ASSUME NEW d \in Cpus
      PROVE  StackFamily(cpu[d], Family(d \in copy64), Family(d \in via64), used)'
  <2>1. CASE d = c
    <3>1. StackFamily(t, Family(c \in copy64'), Family(c \in via64'), used')
      BY StackFamilyAfter
    <3> QED
      BY <1>1, <2>1, <3>1 DEF StackFamily, RevFamily, Family, Refreshing
  <2>2. CASE d # c
    <3>1. used \subseteq used' /\ (d \in copy64' <=> d \in copy64) /\ (d \in via64' <=> d \in via64)
      BY <2>2 DEF Carries
    <3> QED
      BY <1>1, <2>2, <3>1, OtherFamilies DEF FamilyInv
  <2> QED
    BY <2>1, <2>2
<1>3. TableFamilies'
  BY TableFamiliesKept
<1> QED
  BY <1>2, <1>3 DEF FamilyInv, StackFamilies

\* The IPv4 programs carry the flag along.
LEMMA Step4Carries ==
    ASSUME Inv, NEW c \in Cpus, NEW t, CpuEffect(c, t), Step4(c)
    PROVE  Carries(c, t)
<1>1. cpu'[c] = t
  BY StacksAfter DEF CpuEffect
<1>2. c \notin via64 /\ via64' = via64 /\ used \subseteq used'
  BY DEF Step4
<1>3. /\ \A k : k \notin Writes(c) => (k \in n64' <=> k \in n64)
      /\ cpu[c].pc \in Refreshing => \A k \in Writes(c) : k \in n64' <=> c \in copy64
      /\ cpu[c].pc \notin Refreshing => \A k \in Writes(c) : k \notin n64'
  BY DEF Step4
<1>4. cpu[c].pc = "insrev" => \A k \in Writes(c) : k \in n64' <=> c \in via64
  BY <1>2, <1>3 DEF Refreshing
<1>5. /\ \A d : d # c => (d \in copy64' <=> d \in copy64)
      /\ t.pc \in Refreshing => (c \in copy64' <=> t.key \in n64)
  BY <1>1 DEF Step4
<1>6. cpu[c].pc = "idle" /\ t.pkt.src \in Guests =>
          <<t.pkt.src, t.pkt.sport, t.pkt.proto, 4>> \in used'
  BY <1>1 DEF Step4, At
<1> QED
  BY <1>2, <1>3, <1>4, <1>5, <1>6 DEF Carries

\* nat64_egress carries the flag along once the packet is translated.
LEMMA EgressCarries ==
    ASSUME Inv, FlagInv, NEW c \in Cpus, NEW t, CpuEffect(c, t),
           Nat64Reuse(c) \/ Nat64Probe(c) \/ Nat64InsertRev(c) \/ Nat64InsertFwd(c)
    PROVE  Carries(c, t)
<1>1. cpu'[c] = t
  BY StacksAfter DEF CpuEffect
<1>2. /\ c \in via64 /\ copy64' = copy64 /\ used' = used
      /\ via64' = via64 \/ (via64' = via64 \ {c} /\ Return(c))
  BY DEF Nat64Reuse, Nat64Probe, Nat64InsertRev, Nat64InsertFwd, Emit
<1>3. cpu[c].pc \in {"natfwd", "probe", "insrev", "insfwd"}
  BY <1>2, EgressLabels
<1>4. \/ n64' = n64 \cup Writes(c) /\ cpu[c].pc \in {"insrev", "insfwd"}
      \/ n64' = n64 /\ cpu[c].pc \in {"natfwd", "probe"}
  BY DEF Nat64Reuse, Nat64Probe, NatProbe, Nat64InsertRev, NatInsertRev, Nat64InsertFwd, At
<1>5. /\ \A k : k \notin Writes(c) => (k \in n64' <=> k \in n64)
      /\ cpu[c].pc = "insrev" => \A k \in Writes(c) : k \in n64' <=> c \in via64
  BY <1>2, <1>4
<1>6. Loads(cpu[c], t) \/ After(cpu[c], t)
  BY DEF CpuEffect
<1>7. t.pc \notin Refreshing /\ t.pc # "natfwd"
  BY <1>3, <1>6 DEF Loads, After, Refreshing
<1>8. t.pc \in {"probe", "insrev"} => (c \in via64' <=> c \in via64)
  <2>1. Return(c) => t.pc = "idle"
    BY <1>1, StacksAfter, IdleCpuType DEF Return
  <2> QED
    BY <1>2, <2>1
<1>9. \A d : d # c => (d \in via64' <=> d \in via64)
  BY <1>2
<1> QED
  BY <1>2, <1>3, <1>5, <1>7, <1>8, <1>9 DEF Carries, Refreshing

\* So does nat64_ingress.
LEMMA IngressCarries ==
    ASSUME Inv, FlagInv, NEW c \in Cpus, NEW t, CpuEffect(c, t), Nat64Ingress(c)
    PROVE  Carries(c, t)
<1>1. cpu'[c] = t
  BY StacksAfter DEF CpuEffect
<1>2. /\ cpu[c].pc = "itouch" /\ c \in copy64 /\ copy64' = copy64 \ {c} /\ via64' = via64
      /\ n64' = n64 \cup Writes(c) /\ used' = used
  BY DEF Nat64Ingress, At
<1>3. t.pc = "idle"
  <2>1. Return(c)
    BY DEF Nat64Ingress
  <2> QED
    BY <1>1, <2>1, StacksAfter, IdleCpuType DEF Return
<1> QED
  BY <1>2, <1>3 DEF Carries, Refreshing

\* The packet that nat64_egress takes up was sent from an IPv6 socket.
LEMMA ConfigFamilies ==
    ASSUME Inv, FlagInv, FamilyInv, NEW c \in Cpus, NEW k \in GuestPackets, Nat64Config(c, k)
    PROVE  FamilyInv'
<1>1. PICK t : Set(c, t) /\ t.pc = "natfwd" /\ t.pkt = k
  BY ConfigStack
<1>2. cpu'[c] = t /\ \A d \in Cpus : d # c => cpu'[d] = cpu[d]
  BY <1>1, StacksAfter
<1>3. /\ conntrack' = conntrack /\ n64' = n64 /\ copy64' = copy64
      /\ via64' = via64 \cup {c} /\ used \subseteq used'
      /\ <<k.src, k.sport, k.proto, 6>> \in used'
  BY DEF Nat64Config, maps
<1>4. TableFamilies'
  <2>1. ASSUME NEW x \in DOMAIN conntrack
        PROVE  RevFamily(x, conntrack[x], Family(x \in n64), used')
    <3>1. RevFamily(x, conntrack[x], Family(x \in n64), used)
      BY DEF FamilyInv, TableFamilies
    <3> QED
      BY <1>3, <3>1, FamilyGrows
  <2> QED
    BY <1>3, <2>1 DEF TableFamilies, RevFamily, Family
<1>5. ASSUME NEW d \in Cpus
      PROVE  StackFamily(cpu[d], Family(d \in copy64), Family(d \in via64), used)'
  <2>1. CASE d = c
    <3>1. c \in via64'
      BY <1>3
    <3> QED
      BY <1>1, <1>2, <1>3, <2>1, <3>1 DEF StackFamily, Family, Refreshing
  <2>2. CASE d # c
    BY <1>2, <1>3, <2>2, OtherFamilies DEF FamilyInv
  <2> QED
    BY <2>1, <2>2
<1> QED
  BY <1>4, <1>5 DEF FamilyInv, StackFamilies

\* Every step keeps the families.
LEMMA FamilyKept == Inv /\ FlagInv /\ FamilyInv /\ [Next64]_vars64 => FamilyInv'
<1> SUFFICES ASSUME Inv, FlagInv, FamilyInv, [Next64]_vars64 PROVE FamilyInv'
  OBVIOUS
<1>1. ASSUME NEW c \in Cpus, Step4(c) PROVE FamilyInv'
  <2>1. PICK t : CpuEffect(c, t)
    BY <1>1, ProgramEffect DEF Step4
  <2> QED
    BY <1>1, <2>1, Step4Carries, CarriesFamilies
<1>2. ASSUME NEW c \in Cpus,
             \/ Nat64Reuse(c) \/ Nat64Probe(c) \/ Nat64InsertRev(c) \/ Nat64InsertFwd(c)
             \/ Nat64Ingress(c)
      PROVE  FamilyInv'
  <2>1. PICK t : CpuEffect(c, t)
    BY <1>2, Nat64Effect
  <2>2. Carries(c, t)
    BY <1>2, <2>1, EgressCarries, IngressCarries
  <2> QED
    BY <2>1, <2>2, CarriesFamilies
<1>3. CASE Elsewhere4
  <2>1. /\ cpu' = cpu
        /\ DOMAIN conntrack' \subseteq DOMAIN conntrack
        /\ \A k \in DOMAIN conntrack' : SameTranslation(conntrack[k], conntrack'[k])
    BY <1>3, OthersRemove DEF Elsewhere4
  <2>2. n64' = n64 \cap DOMAIN conntrack' /\ copy64' = copy64 /\ via64' = via64 /\ used' = used
    BY <1>3 DEF Elsewhere4
  <2>3. TableFamilies'
    BY <2>1, <2>2 DEF FamilyInv, TableFamilies, RevFamily, SameTranslation, Family
  <2>4. ASSUME NEW d \in Cpus
        PROVE  StackFamily(cpu[d], Family(d \in copy64), Family(d \in via64), used)'
    BY <2>1, <2>2, OtherFamilies DEF FamilyInv
  <2> QED
    BY <2>3, <2>4 DEF FamilyInv, StackFamilies
<1>4. CASE UNCHANGED vars64
  <2>1. cpu' = cpu /\ conntrack' = conntrack /\ n64' = n64 /\ copy64' = copy64 /\ via64' = via64
        /\ used' = used
    BY <1>4 DEF vars64, vars, maps
  <2>2. TableFamilies'
    BY <2>1 DEF FamilyInv, TableFamilies, RevFamily, Family
  <2>3. ASSUME NEW d \in Cpus
        PROVE  StackFamily(cpu[d], Family(d \in copy64), Family(d \in via64), used)'
    BY <2>1, OtherFamilies DEF FamilyInv
  <2> QED
    BY <2>2, <2>3 DEF FamilyInv, StackFamilies
<1> QED
  BY <1>1, <1>2, <1>3, <1>4, ConfigFamilies DEF Next64, Nat64Step

(***************************************************************************)
(* The theorems.                                                           *)
(***************************************************************************)

\* The histories that NAT64 keeps are typed.
Counted == used \subseteq Sockets /\ ticks \in 0 .. MaxTicks

\* They stay typed.
LEMMA CountedKept == Inv /\ Inv' /\ Counted /\ [Next64]_vars64 => Counted'
<1> SUFFICES ASSUME Inv, Inv', Counted, [Next64]_vars64 PROVE Counted'
  OBVIOUS
<1>1. ASSUME used' = used, ticks' = ticks PROVE Counted'
  BY <1>1 DEF Counted
<1>2. ASSUME NEW c \in Cpus, Step4(c) PROVE Counted'
  <2>1. PICK k : k = cpu'[c].pkt
    OBVIOUS
  <2>2. k \in CtKey
    BY <2>1 DEF Inv, TypeOK, CpuState
  <2>3. k.sport \in Port /\ k.proto \in Protos
    BY <2>2 DEF CtKey
  <2>4. used' = used \/ (k.src \in Guests /\ used' = used \cup {<<k.src, k.sport, k.proto, 4>>})
    BY <1>2, <2>1 DEF Step4
  <2>5. ticks' = ticks
    BY <1>2 DEF Step4
  <2> QED
    BY <2>3, <2>4, <2>5 DEF Counted, Sockets
<1>3. ASSUME NEW c \in Cpus, NEW k \in GuestPackets, Nat64Config(c, k) PROVE Counted'
  <2>1. k \in CtKey /\ k.src \in Guests
    BY <1>3, ConfigStack
  <2>2. k.sport \in Port /\ k.proto \in Protos
    BY <2>1 DEF CtKey
  <2>3. used' = used \cup {<<k.src, k.sport, k.proto, 6>>} /\ ticks' = ticks
    BY <1>3 DEF Nat64Config
  <2> QED
    BY <2>1, <2>2, <2>3 DEF Counted, Sockets
<1>4. ASSUME NEW c \in Cpus,
             \/ Nat64Reuse(c) \/ Nat64Probe(c) \/ Nat64InsertRev(c) \/ Nat64InsertFwd(c)
             \/ Nat64Ingress(c)
      PROVE  Counted'
  BY <1>1, <1>4 DEF Nat64Reuse, Nat64Probe, Nat64InsertRev, Nat64InsertFwd, Nat64Ingress
<1>5. CASE Elsewhere4
  <2>1. used' = used /\ (ticks' = ticks \/ (ticks < MaxTicks /\ ticks' = ticks + 1))
    BY <1>5 DEF Elsewhere4
  <2>2. ticks' \in 0 .. MaxTicks
    BY <2>1, Nat64Assumption DEF Counted
  <2> QED
    BY <2>1, <2>2 DEF Counted
<1>6. CASE UNCHANGED vars64
  BY <1>1, <1>6 DEF vars64
<1> QED
  BY <1>2, <1>3, <1>4, <1>5, <1>6 DEF Next64, Nat64Step

\* The inductive invariant of NAT64.
Inv64 == Inv /\ RangeInv /\ FlagInv /\ FamilyInv /\ OutInv /\ Counted

\* It holds in the initial states.
LEMMA Init64Inv == Init64 => Inv64
<1> SUFFICES ASSUME Init64 PROVE Inv64
  OBVIOUS
<1>1. Init
  BY DEF Init64
<1>2. conntrack = << >> /\ cpu = [c \in Cpus |-> IdleCpu] /\ inner.op = "none"
  BY <1>1 DEF Init, Unlocked
<1>3. Inv
  BY <1>1, InitInv
<1>4. RangeInv
  BY <1>1, <1>2, CoverInit DEF RangeInv, Unmarking
<1>5. FlagInv
  <2>1. \A c \in Cpus : cpu[c].pc = "idle"
    BY <1>2, IdleCpuType
  <2> QED
    BY <2>1 DEF Init64, FlagInv, TableFlags, CopyFlags, ViaFlags, ReverseCopies
<1>6. FamilyInv
  <2>1. \A c \in Cpus : cpu[c].pc = "idle"
    BY <1>2, IdleCpuType
  <2>2. DOMAIN conntrack = {}
    BY <1>2
  <2> QED
    BY <2>1, <2>2 DEF FamilyInv, TableFamilies, StackFamilies, StackFamily, Refreshing
<1>7. OutInv
  <2>1. out.dir = "none"
    BY DEF Init64, NoPacket
  <2> QED
    BY <2>1 DEF OutInv, OutTyped, SegmentAccepted, EmittedInRange
<1>8. Counted
  BY Nat64Assumption DEF Init64, Counted
<1> QED
  BY <1>3, <1>4, <1>5, <1>6, <1>7, <1>8 DEF Inv64

\* Every step keeps it.
LEMMA Next64Inv == Inv64 /\ [Next64]_vars64 => Inv64'
<1> SUFFICES ASSUME Inv64, [Next64]_vars64 PROVE Inv64'
  OBVIOUS
<1>1. Inv /\ RangeInv /\ FlagInv /\ FamilyInv /\ OutInv /\ Counted
  BY DEF Inv64
<1>2. Inv'
  BY <1>1, NextInv64
<1>3. RangeInv'
  BY <1>1, RangeKept
<1>4. FlagInv'
  BY <1>1, FlagsKept
<1>5. FamilyInv'
  BY <1>1, FamilyKept
<1>6. OutInv'
  BY <1>1, OutKept
<1>7. Counted'
  BY <1>1, <1>2, CountedKept
<1> QED
  BY <1>2, <1>3, <1>4, <1>5, <1>6, <1>7 DEF Inv64

\* Type correctness: the flag CT_F_NAT64 is on translating entries only, the
\* CPUs that hold a flagged copy or run nat64_egress are at the operations
\* that use it, and every checksum written is a word.
THEOREM Nat64TypeCorrect == Spec64 => []TypeOK64
<1>1. Inv64 => TypeOK64
  BY DEF Inv64, FlagInv, TableFlags, CopyFlags, ViaFlags, OutInv, OutTyped, Counted, TypeOK64
<1> QED
  BY <1>1, Init64Inv, Next64Inv, PTL DEF Spec64

\* Packets of both families share the ports, the configuration and the table:
\* with nat64_egress and nat64_ingress beside the IPv4 programs, still no
\* guest is translated to what was never granted to it.
THEOREM Nat64OwnershipHolds == Spec64 => []OwnershipInv
<1>1. Inv64 => OwnershipInv
  BY DEF Inv64, Inv
<1> QED
  BY <1>1, Init64Inv, Next64Inv, PTL DEF Spec64

\* A port that nat64_egress takes from conntrack is in the range it read from
\* the NAT map, across delete_nat and create_nat, whatever ranges, wrapped
\* ones included, were requested.
THEOREM EmittedInRangeHolds == Spec64 => []EmittedInRange
<1>1. Inv64 => EmittedInRange
  BY DEF Inv64, OutInv
<1> QED
  BY <1>1, Init64Inv, Next64Inv, PTL DEF Spec64

\* A reply is translated to the family of a packet that its guest sent from
\* the port: refreshes on any CPU, of copies however old, carry CT_F_NAT64
\* along correctly.
THEOREM ReplyFamilyHolds == Spec64 => []ReplyFamily
<1>1. Inv64 => ReplyFamily
  BY FamilyReply DEF Inv64
<1> QED
  BY <1>1, Init64Inv, Next64Inv, PTL DEF Spec64

\* For every payload, every word size and every address, the checksum that
\* the incremental updates of nat64_egress and nat64_ingress leave in a TCP
\* or UDP packet is one the receiver accepts.
THEOREM SegmentAcceptedHolds == Spec64 => []SegmentAccepted
<1>1. Inv64 => SegmentAccepted
  BY DEF Inv64, OutInv
<1> QED
  BY <1>1, Init64Inv, Next64Inv, PTL DEF Spec64
=============================================================================
