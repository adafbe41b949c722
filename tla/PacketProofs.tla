---------------------------- MODULE PacketProofs ----------------------------
(***************************************************************************)
(* A packet's way to a worker's answer: its headers, for any chain of      *)
(* them; its Retry token, for any number of workers, addresses,            *)
(* configurations, reloads, moves and attempts, and a clock of any length; *)
(* and the rings that carry its descriptor, as bounded queues of any size. *)
(***************************************************************************)
EXTENDS FrameFilter, Retry, Ring, TLAPS

-----------------------------------------------------------------------------
(* Frames: the filter's walk over the headers and the worker's.              *)

INSTANCE WellFoundedInduction

\* Induction over the naturals, as a fact about sets.
LEMMA NatSetInduction ==
  ASSUME NEW S, 0 \in S, \A n \in Nat : n \in S => n + 1 \in S
  PROVE  Nat \subseteq S
<1> DEFINE R == OpToRel(<, Nat)
           T == Nat \ S
<1>1. IsWellFoundedOn(R, Nat)
  BY NatLessThanWellFounded, Zenon
<1>2. SUFFICES ASSUME T # {} PROVE FALSE
  OBVIOUS
<1> HIDE DEF R
<1>3. PICK m \in T : \A k \in T : ~(<<k, m>> \in R)
  BY <1>1, <1>2, WFMin, Zenon
<1>4. m \in Nat /\ m # 0 /\ m - 1 \in Nat /\ (m - 1) + 1 = m
  BY <1>3
<1>5. m - 1 \notin S
  BY <1>3, <1>4
<1>6. <<m - 1, m>> \in R
  BY <1>4 DEF R, OpToRel
<1> QED BY <1>3, <1>4, <1>5, <1>6

\* ExtsLen's recursion, to a length of n.
UptoRec(g, exts, n) == [k \in 0..n |-> IF k = 0 THEN 0 ELSE g[k - 1] + ExtLen(exts[k])]

LEMMA UptoRecursion ==
  ASSUME NEW exts, NEW N \in Nat
  PROVE  \E g : g = UptoRec(g, exts, N)
<1> DEFINE S == {n \in Nat : \E g : g = UptoRec(g, exts, n)}
<1>1. 0 \in S
  <2> DEFINE g == [k \in 0..0 |-> 0]
  <2>1. g = UptoRec(g, exts, 0)
    BY DEF UptoRec
  <2> QED BY <2>1
<1>2. ASSUME NEW n \in Nat, n \in S PROVE n + 1 \in S
  <2>1. PICK g : g = UptoRec(g, exts, n)
    BY <1>2
  <2> DEFINE h == [k \in 0..n + 1 |-> IF k = n + 1 THEN g[n] + ExtLen(exts[k]) ELSE g[k]]
  <2>2. \A k \in 0..n : g[k] = IF k = 0 THEN 0 ELSE g[k - 1] + ExtLen(exts[k])
    BY <2>1 DEF UptoRec
  <2>3. h[n + 1] = g[n] + ExtLen(exts[n + 1]) /\ \A k \in 0..n : h[k] = g[k]
    OBVIOUS
  <2>4. h = [k \in 0..n + 1 |-> h[k]]
    OBVIOUS
  <2> HIDE DEF h
  <2>5. ASSUME NEW k \in 0..n + 1
        PROVE  h[k] = IF k = 0 THEN 0 ELSE h[k - 1] + ExtLen(exts[k])
    <3>1. CASE k = n + 1
      <4>1. k # 0 /\ k - 1 = n /\ n \in 0..n
        BY <3>1
      <4> QED BY <2>3, <3>1, <4>1
    <3>2. CASE k = 0
      BY <2>2, <2>3, <3>2
    <3>3. CASE k \in 1..n
      <4>1. k \in 0..n /\ k - 1 \in 0..n /\ k # 0
        BY <3>3
      <4> QED BY <2>2, <2>3, <4>1, Zenon
    <3> QED BY <3>1, <3>2, <3>3
  <2>6. h = UptoRec(h, exts, n + 1)
    BY <2>4, <2>5, Zenon DEF UptoRec
  <2> QED BY <2>6
<1> HIDE DEF S
<1>3. N \in S
  BY <1>1, <1>2, NatSetInduction
<1> QED BY <1>3, Zenon DEF S

LEMMA ExtLenNat ==
  ASSUME NEW e \in Ext
  PROVE  ExtLen(e) \in Nat
<1>1. PICK n \in 0..255 : n = e.ext_len
  BY Zenon DEF Ext
<1>2. (n + 1) * 8 \in Nat
  OBVIOUS
<1> QED BY <1>1, <1>2, Zenon DEF ExtLen

\* Extension headers have lengths.
LEMMA ExtsLenNat ==
  ASSUME NEW exts \in Seq(Ext), NEW n \in 0..Len(exts)
  PROVE  ExtsLen(exts, n) \in Nat
<1> DEFINE N == Len(exts)
           g == CHOOSE g : g = [k \in 0..N |-> IF k = 0 THEN 0 ELSE g[k - 1] + ExtLen(exts[k])]
           S == {k \in Nat : k <= N => g[k] \in Nat}
<1>1. N \in Nat
  OBVIOUS
<1>2. ExtsLen(exts, n) = g[n]
  BY DEF ExtsLen
<1>3. g = UptoRec(g, exts, N)
  <2>1. \E f : f = UptoRec(f, exts, N)
    BY <1>1, UptoRecursion
  <2> QED BY <2>1, Zenon DEF UptoRec
<1>4. \A k \in 1..N : ExtLen(exts[k]) \in Nat
  <2> SUFFICES ASSUME NEW k \in 1..N PROVE ExtLen(exts[k]) \in Nat
    OBVIOUS
  <2>1. exts[k] \in Ext
    OBVIOUS
  <2> QED BY <2>1, ExtLenNat, Zenon
<1> HIDE DEF g, N
<1>5. \A k \in 0..N : g[k] = IF k = 0 THEN 0 ELSE g[k - 1] + ExtLen(exts[k])
  BY <1>3, Zenon DEF UptoRec
<1>6. 0 \in S
  BY <1>1, <1>5
<1>7. ASSUME NEW k \in Nat, k \in S PROVE k + 1 \in S
  <2> SUFFICES ASSUME k + 1 <= N PROVE g[k + 1] \in Nat
    OBVIOUS
  <2>1. g[k] \in Nat
    BY <1>1, <1>7
  <2>2. k + 1 \in 0..N /\ k + 1 \in 1..N /\ k + 1 # 0 /\ (k + 1) - 1 = k
    BY <1>1
  <2>3. g[k + 1] = g[k] + ExtLen(exts[k + 1])
    BY <1>5, <2>2
  <2> QED BY <1>4, <2>1, <2>2, <2>3
<1> HIDE DEF S
<1>8. n \in S
  BY <1>1, <1>6, <1>7, NatSetInduction DEF N
<1> QED BY <1>1, <1>2, <1>8 DEF S, N

\* The walk ends at an offset behind its start that does not depend on how much of the
\* frame arrived; a walk that stays inside a frame stays inside a longer one.
LEMMA WalkExtsLonger ==
  ASSUME NEW f, NEW g, f.len \in Nat, g.len \in Nat, f.len <= g.len,
         NEW hdr \in IpHeader, NEW start \in Nat
  PROVE  /\ WalkExts(f, hdr, start).offset \in Nat
         /\ WalkExts(f, hdr, start).offset >= start
         /\ WalkExts(g, hdr, start).offset = WalkExts(f, hdr, start).offset
         /\ WalkExts(g, hdr, start).proto = WalkExts(f, hdr, start).proto
         /\ WalkExts(g, hdr, start).short => WalkExts(f, hdr, start).short
<1> DEFINE n == Min({Len(hdr.exts), MAX_IPV6_EXT_HDRS})
<1>1. hdr.exts \in Seq(Ext) /\ Len(hdr.exts) \in Nat
  BY DEF IpHeader
<1>2. n \in 0..Len(hdr.exts)
  BY <1>1 DEF Min, MAX_IPV6_EXT_HDRS
<1>3. ExtsLen(hdr.exts, n) \in Nat
  BY <1>1, <1>2, ExtsLenNat, Zenon
<1>4. \A k \in 1..n : ExtsLen(hdr.exts, k - 1) \in Nat
  <2> SUFFICES ASSUME NEW k \in 1..n PROVE ExtsLen(hdr.exts, k - 1) \in Nat
    OBVIOUS
  <2>1. k - 1 \in 0..Len(hdr.exts)
    BY <1>1, <1>2
  <2> QED BY <1>1, <2>1, ExtsLenNat
<1> HIDE DEF n
<1>5. ASSUME NEW k \in 1..n, NEW m \in {1, 2}, ~Holds(g, start + ExtsLen(hdr.exts, k - 1), m)
      PROVE  ~Holds(f, start + ExtsLen(hdr.exts, k - 1), m)
  BY <1>4, <1>5 DEF Holds
<1> DEFINE m(k) == IF hdr.exts[k].kind = "fragment" THEN 1 ELSE 2
           cut(h) == \E k \in 1..n : ~Holds(h, start + ExtsLen(hdr.exts, k - 1), m(k))
<1>6. \A h : WalkExts(h, hdr, start) =
               [short |-> cut(h), offset |-> start + ExtsLen(hdr.exts, n),
                proto |-> IF Len(hdr.exts) > n THEN "ext" ELSE hdr.proto]
  BY Zenon DEF WalkExts, n
<1>7. \A k : m(k) \in {1, 2}
  OBVIOUS
<1> HIDE DEF m
<1>8. cut(g) => cut(f)
  BY <1>5, <1>7
<1> HIDE DEF cut
<1> QED BY <1>3, <1>6, <1>8

LEMMA FrameTypes ==
  ASSUME NEW f \in Frames
  PROVE  /\ f.eth \in {"ip4", "ip6", "other"} /\ f.len \in Nat /\ f.icmp_error \in BOOLEAN
         /\ f.ip \in IpHeader /\ f.ip.ihl \in Nat /\ f.ip.proto \in {"udp", "icmp", "other"}
         /\ f.inner \in IpHeader /\ f.inner.ihl \in Nat
         /\ f.inner.proto \in {"udp", "icmp", "other"}
BY FramesAssumption, Zenon DEF IpHeader

\* The frame as it was sent, or more of it than arrived.
Longer(f) == [f EXCEPT !.len = @ + 4]

LEMMA LongerFields ==
  ASSUME NEW f \in Frames
  PROVE  /\ Longer(f).len = f.len + 4 /\ Longer(f).eth = f.eth /\ Longer(f).ip = f.ip
         /\ Longer(f).inner = f.inner /\ Longer(f).icmp_error = f.icmp_error
         /\ Longer(f).dst_port = f.dst_port /\ Longer(f).inner_src_port = f.inner_src_port
BY FramesAssumption DEF Longer

\* IPv4: where the filter finds a port, the parser finds it if four more octets arrive,
\* and the other way round if none do.
LEMMA Ipv4Agrees ==
  ASSUME NEW f \in Frames
  PROVE  /\ parse_ipv4(f).r = "port" =>
              /\ parse_frame_ipv4(Longer(f)).l4 # "none"
              /\ parse_frame_ipv4(Longer(f)).port = parse_ipv4(f).port
              /\ Holds(f, 0, ETH_HDR_LEN)
         /\ parse_frame_ipv4(f).l4 # "none" =>
              /\ parse_ipv4(f).r = "port" /\ parse_ipv4(f).port = parse_frame_ipv4(f).port
<1> DEFINE g == Longer(f)
<1>1. /\ f.len \in Nat /\ f.ip.ihl \in Nat /\ f.inner.ihl \in Nat
      /\ f.ip.proto \in {"udp", "icmp", "other"}
  BY FrameTypes
<1>2. /\ g.len = f.len + 4 /\ g.ip = f.ip /\ g.inner = f.inner /\ g.icmp_error = f.icmp_error
      /\ g.dst_port = f.dst_port /\ g.inner_src_port = f.inner_src_port
  BY LongerFields
<1> HIDE DEF g
<1> USE DEF parse_ipv4, parse_frame_ipv4, parse_frame_icmp_ipv4, Udp, Icmp, NotParsed, Err, NoPort,
           PortAt, Holds, ETH_HDR_LEN, IPV4_MIN_HDR_LEN, ICMP_HDR_LEN, UDP_HDR_LEN
<1>3. CASE f.ip.proto = "udp"
  BY <1>1, <1>2, <1>3 DEF g
<1>4. CASE f.ip.proto = "icmp"
  BY <1>1, <1>2, <1>4 DEF g
<1>5. CASE f.ip.proto = "other"
  BY <1>1, <1>2, <1>5, Zenon DEF g
<1> QED BY <1>1, <1>3, <1>4, <1>5, Zenon

\* IPv6 likewise.
LEMMA Ipv6Agrees ==
  ASSUME NEW f \in Frames
  PROVE  /\ parse_ipv6(f).r = "port" =>
              /\ parse_frame_ipv6(Longer(f)).l4 # "none"
              /\ parse_frame_ipv6(Longer(f)).port = parse_ipv6(f).port
              /\ Holds(f, 0, ETH_HDR_LEN)
         /\ parse_frame_ipv6(f).l4 # "none" =>
              /\ parse_ipv6(f).r = "port" /\ parse_ipv6(f).port = parse_frame_ipv6(f).port
<1> DEFINE g == Longer(f)
           start == ETH_HDR_LEN + IPV6_HDR_LEN
           w == WalkExts(f, f.ip, start)
           wg == WalkExts(g, f.ip, start)
           inner == w.offset + ICMP_HDR_LEN + IPV6_HDR_LEN
           v == WalkExts(f, f.inner, inner)
           vg == WalkExts(g, f.inner, inner)
<1>1. f.len \in Nat /\ f.ip \in IpHeader /\ f.inner \in IpHeader
  BY FrameTypes, Zenon
<1>2. /\ g.len = f.len + 4 /\ g.ip = f.ip /\ g.inner = f.inner /\ g.icmp_error = f.icmp_error
      /\ g.dst_port = f.dst_port /\ g.inner_src_port = f.inner_src_port
  BY LongerFields
<1> HIDE DEF g
<1>3. start = 54
  BY DEF ETH_HDR_LEN, IPV6_HDR_LEN
<1>4. g.len \in Nat /\ f.len <= g.len
  BY <1>1, <1>2
<1>5. /\ w.offset \in Nat /\ w.offset >= 54
      /\ wg.offset = w.offset /\ wg.proto = w.proto /\ (wg.short => w.short)
  BY <1>1, <1>3, <1>4, WalkExtsLonger
<1> HIDE DEF w, wg
<1>6. inner \in Nat
  BY <1>5 DEF ICMP_HDR_LEN, IPV6_HDR_LEN
<1>7. /\ v.offset \in Nat /\ v.offset >= inner
      /\ vg.offset = v.offset /\ vg.proto = v.proto /\ (vg.short => v.short)
  BY <1>1, <1>4, <1>6, WalkExtsLonger
<1> HIDE DEF v, vg
<1>8. /\ parse_ipv6(f) =
           IF ~Holds(f, 20, 1) \/ w.short THEN Err
           ELSE IF w.proto = "udp" THEN PortAt(f, w.offset + 2, f.dst_port)
           ELSE IF w.proto # "icmp" THEN NoPort
           ELSE IF ~Holds(f, w.offset, 1) THEN Err
           ELSE IF ~f.icmp_error THEN NoPort
           ELSE IF ~Holds(f, w.offset + 14, 1) \/ v.short THEN Err
           ELSE IF v.proto # "udp" THEN NoPort
           ELSE PortAt(f, v.offset, f.inner_src_port)
  BY <1>5 DEF parse_ipv6, w, v, ETH_HDR_LEN, IPV6_HDR_LEN, ICMP_HDR_LEN
<1>9. parse_frame_ipv6(f) =
        IF ~Holds(f, 14, 40) \/ w.short THEN NotParsed
        ELSE IF w.proto = "udp" THEN Udp(f, w.offset)
        ELSE IF w.proto # "icmp" THEN NotParsed
        ELSE IF Holds(f, w.offset + 8, 40) /\ f.icmp_error /\ ~v.short /\ v.proto = "udp"
        THEN Icmp(f, v.offset) ELSE NotParsed
  BY <1>5, Zenon DEF parse_frame_ipv6, parse_frame_icmpv6, w, v, ETH_HDR_LEN, IPV6_HDR_LEN, ICMP_HDR_LEN
<1>10. parse_frame_ipv6(g) =
        IF ~Holds(g, 14, 40) \/ wg.short THEN NotParsed
        ELSE IF wg.proto = "udp" THEN Udp(g, wg.offset)
        ELSE IF wg.proto # "icmp" THEN NotParsed
        ELSE IF Holds(g, w.offset + 8, 40) /\ f.icmp_error /\ ~vg.short /\ vg.proto = "udp"
        THEN Icmp(g, vg.offset) ELSE NotParsed
  BY <1>2, <1>5 DEF parse_frame_ipv6, parse_frame_icmpv6, wg, vg, ETH_HDR_LEN, IPV6_HDR_LEN, ICMP_HDR_LEN
<1>11. inner = w.offset + 48
  BY <1>5 DEF ICMP_HDR_LEN, IPV6_HDR_LEN
<1> HIDE DEF inner
<1>12. ASSUME parse_ipv6(f).r = "port"
       PROVE  /\ parse_frame_ipv6(g).l4 # "none"
              /\ parse_frame_ipv6(g).port = parse_ipv6(f).port
              /\ Holds(f, 0, ETH_HDR_LEN)
  BY <1>1, <1>2, <1>5, <1>7, <1>8, <1>10, <1>11, <1>12
  DEF Holds, PortAt, Udp, Icmp, Err, NoPort, UDP_HDR_LEN, ETH_HDR_LEN
<1>13. ASSUME parse_frame_ipv6(f).l4 # "none"
       PROVE  parse_ipv6(f).r = "port" /\ parse_ipv6(f).port = parse_frame_ipv6(f).port
  BY <1>1, <1>5, <1>7, <1>8, <1>9, <1>11, <1>13
  DEF Holds, PortAt, Udp, Icmp, NotParsed, UDP_HDR_LEN
<1> QED BY <1>12, <1>13, Zenon DEF g

\* The two programs agree on a frame, up to four octets.
LEMMA FilterAgrees ==
  ASSUME NEW f \in Frames
  PROVE  /\ pesigitg(f) = "redirect" => ForWorkers(parse_frame(Longer(f)))
         /\ ForWorkers(parse_frame(f)) => pesigitg(f) = "redirect"
<1>1. f.eth \in {"ip4", "ip6", "other"} /\ f.len \in Nat
  BY FrameTypes
<1>2. Longer(f).len = f.len + 4 /\ Longer(f).eth = f.eth
  BY LongerFields, Zenon
<1>3. CASE f.eth = "ip4"
  BY <1>1, <1>2, <1>3, Ipv4Agrees
  DEF pesigitg, parse_frame, ForWorkers, Holds, ETH_HDR_LEN, NotParsed
<1>4. CASE f.eth = "ip6"
  BY <1>1, <1>2, <1>4, Ipv6Agrees
  DEF pesigitg, parse_frame, ForWorkers, Holds, ETH_HDR_LEN, NotParsed
<1>5. CASE f.eth = "other"
  BY <1>1, <1>2, <1>5, Zenon DEF pesigitg, parse_frame, ForWorkers, NotParsed
<1> QED BY <1>1, <1>3, <1>4, <1>5

\* How much of a frame the parser has seen.
LEMMA ParsedIsThere ==
  ASSUME NEW f \in Frames, parse_frame(f).l4 # "none"
  PROVE  /\ parse_frame(f).at \in Nat
         /\ \/ parse_frame(f).l4 = "udp" /\ parse_frame(f).at + 8 <= f.len
            \/ parse_frame(f).l4 = "icmp" /\ parse_frame(f).at + 4 <= f.len
<1> DEFINE There(p) == \/ p.l4 = "none"
                       \/ p.at \in Nat /\ p.l4 = "udp" /\ p.at + 8 <= f.len
                       \/ p.at \in Nat /\ p.l4 = "icmp" /\ p.at + 4 <= f.len
<1>1. /\ f.eth \in {"ip4", "ip6", "other"} /\ f.len \in Nat
      /\ f.ip \in IpHeader /\ f.ip.ihl \in Nat /\ f.inner \in IpHeader /\ f.inner.ihl \in Nat
  BY FrameTypes, Zenon
<1>2. There(NotParsed) /\ \A at \in Nat : There(Udp(f, at)) /\ There(Icmp(f, at))
  BY <1>1, Zenon DEF NotParsed, Udp, Icmp, Holds, UDP_HDR_LEN
<1> HIDE DEF There
<1>3. There(parse_frame_ipv4(f))
  BY <1>1, <1>2 DEF parse_frame_ipv4, parse_frame_icmp_ipv4, ETH_HDR_LEN, ICMP_HDR_LEN
<1>4. There(parse_frame_ipv6(f))
  <2> DEFINE w == WalkExts(f, f.ip, ETH_HDR_LEN + IPV6_HDR_LEN)
             v == WalkExts(f, f.inner, w.offset + ICMP_HDR_LEN + IPV6_HDR_LEN)
  <2>1. w.offset \in Nat
    BY <1>1, WalkExtsLonger DEF ETH_HDR_LEN, IPV6_HDR_LEN
  <2> HIDE DEF w
  <2>2. v.offset \in Nat
    BY <1>1, <2>1, WalkExtsLonger DEF ICMP_HDR_LEN, IPV6_HDR_LEN
  <2> HIDE DEF v
  <2> QED BY <1>2, <2>1, <2>2, Zenon DEF parse_frame_ipv6, parse_frame_icmpv6, w, v
<1>5. There(parse_frame(f))
  BY <1>2, <1>3, <1>4 DEF parse_frame
<1> QED BY <1>5, Zenon DEF There

\* The frame's place tells what the filter and the worker said of it.
WayInv ==
  /\ frame \in Frames
  /\ ~Astray(frame) =>
       /\ place \in {"kernel", "aborted"} => pesigitg(frame) # "redirect"
       /\ place \in {"ring", "parsed", "passed", "panicked"} => pesigitg(frame) = "redirect"
  /\ place = "panicked" =>
       parse_frame(frame).l4 # "none" /\ parse_frame(frame).at + UDP_HDR_LEN > frame.len

LEMMA WayInductive == WayInv /\ [WayNext]_wayVars => WayInv'
<1> SUFFICES ASSUME WayInv, [WayNext]_wayVars PROVE WayInv'
  OBVIOUS
<1>1. CASE Xdp
  <2>1. frame' = frame /\ place' \in {"kernel", "aborted", "ring"}
    BY <1>1, Zenon DEF Xdp, pesigitg
  <2>2. ~Astray(frame) => (place' = "ring" <=> pesigitg(frame) = "redirect")
    BY <1>1, Zenon DEF Xdp, pesigitg
  <2> QED BY <2>1, <2>2 DEF WayInv
<1>2. CASE process_packet_parsed
  BY <1>2, Zenon DEF process_packet_parsed, WayInv
<1>3. CASE UNCHANGED wayVars
  BY <1>3, Zenon DEF wayVars, WayInv
<1> QED BY <1>1, <1>2, <1>3, Zenon DEF WayNext

LEMMA WayInvariant == WaySpec => []WayInv
<1>1. WayInit => WayInv
  BY DEF WayInit, WayInv
<1> QED BY <1>1, WayInductive, PTL DEF WaySpec

\* For any chain of headers cut off anywhere, and any set of ports: pesigitg-ebpf and
\* packet.rs agree on which frames are the workers', within four octets.
THEOREM FilterAndParserAgree == WaySpec => []FilterMatchesParser
<1>1. WayInv => FilterMatchesParser
  BY FilterAgrees DEF WayInv, FilterMatchesParser, Longer
<1> QED BY <1>1, WayInvariant, PTL

\* ... and process_packet_parsed leaves the frame's bounds for no other frame than an
\* ICMP error cut off in the second half of the echoed UDP header.
THEOREM PanicsAreCutEchoes == WaySpec => []OnlyCutEchoesPanic
<1>1. WayInv => OnlyCutEchoesPanic
  <2> SUFFICES ASSUME WayInv, place = "panicked" PROVE OnlyCutEchoesPanic
    BY Zenon DEF OnlyCutEchoesPanic
  <2> DEFINE p == parse_frame(frame)
  <2>1. frame.len \in Nat
    BY FrameTypes DEF WayInv
  <2>2. p.l4 # "none" /\ p.at + 8 > frame.len
    BY DEF WayInv, UDP_HDR_LEN
  <2>3. /\ p.at \in Nat
        /\ \/ p.l4 = "udp" /\ p.at + 8 <= frame.len
           \/ p.l4 = "icmp" /\ p.at + 4 <= frame.len
    BY <2>2, ParsedIsThere, Zenon DEF WayInv
  <2> HIDE DEF p
  <2>4. p.l4 = "icmp" /\ frame.len \in (p.at + 4)..(p.at + 7)
    BY <2>1, <2>2, <2>3
  <2> QED BY <2>4 DEF OnlyCutEchoesPanic, p
<1> QED BY <1>1, WayInvariant, PTL

-----------------------------------------------------------------------------
(* Retry tokens.  The argument follows a token from the worker that mints   *)
(* it to the worker that verifies it: it is never dated after the clock,    *)
(* hence never after the sample of a worker that polls it later; and it     *)
(* reaches the client only by a Retry to the address and connection ID it   *)
(* is made of.                                                              *)

\* A token a client holds or sends: minted in the past, received where it says.
Traced(t) == t # NoToken => t.ts <= clock /\ <<t.ip, t.odcid>> \in got

\* What every token obeys, wherever it is.
Trace ==
  /\ Traced(token)
  /\ \A p \in initials : Traced(p.token)
  /\ \A r \in retries : r.token.ip = r.ip /\ r.token.odcid = r.odcid /\ r.token.ts <= clock
  /\ \A w \in Worker : pc[w] = "handle" =>
       /\ initial[w] \in Initial /\ snap[w] \in RetryConfig
       /\ Traced(initial[w].token)
       /\ initial[w].token # NoToken => initial[w].token.ts <= now_ms[w]

IInv == TypeOK /\ Trace

LEMMA RetryInit == Init => IInv
<1> SUFFICES ASSUME Init PROVE IInv
  OBVIOUS
<1> USE RetryAssumption DEF Init
<1>1. Current \in Initial
  BY DEF Current, Initial, Cid
<1>2. TypeOK
  <2>1. now_ms \in [Worker -> 0..clock] /\ clock \in 0..MAX_TIME
    OBVIOUS
  <2>2. passed_on \in BOOLEAN /\ retried \in BOOLEAN
    BY Zenon
  <2>3. /\ pc \in [Worker -> {"poll", "handle"}]
        /\ initial \in [Worker -> Initial \cup {NoInitial}]
        /\ snap \in [Worker -> RetryConfig \cup {NoConfig}]
    OBVIOUS
  <2>4. attempt \in 1..MAX_ATTEMPTS /\ reloads \in 0..MAX_RELOADS /\ moves \in 0..MAX_MOVES
    OBVIOUS
  <2> QED BY <1>1, <2>1, <2>2, <2>3, <2>4 DEF TypeOK
<1>3. Trace
  BY DEF Trace, Traced
<1> QED BY <1>2, <1>3 DEF IInv

LEMMA PollStep ==
  ASSUME IInv, NEW w \in Worker, NEW p \in initials, PollRecv(w, p)
  PROVE  IInv'
<1> USE DEF PollRecv, clientVars
<1>1. p \in Initial /\ clock \in 0..clock /\ live \in RetryConfig
  BY RetryAssumption DEF IInv, TypeOK
<1>2. TypeOK'
  BY <1>1, Zenon DEF IInv, TypeOK, Current
<1>3. \A v \in Worker : pc'[v] = "handle" =>
        /\ initial'[v] \in Initial /\ snap'[v] \in RetryConfig
        /\ Traced(initial'[v].token)
        /\ initial'[v].token # NoToken => initial'[v].token.ts <= now_ms'[v]
  <2> TAKE v \in Worker
  <2>1. CASE v = w
    <3>1. initial'[v] = p /\ snap'[v] = live /\ now_ms'[v] = clock
      BY <2>1 DEF IInv, TypeOK
    <3> QED BY <1>1, <3>1, Zenon DEF IInv, Trace, Traced
  <2>2. CASE v # w
    BY <2>2, Zenon DEF IInv, TypeOK, Trace
  <2> QED BY <2>1, <2>2, Zenon
<1>4. Trace'
  BY <1>3, Zenon DEF IInv, Trace, Traced
<1> QED BY <1>2, <1>4 DEF IInv

LEMMA HandleStep ==
  ASSUME IInv, NEW w \in Worker, NEW over \in BOOLEAN, Handle(w, over), pc[w] = "handle"
  PROVE  IInv'
<1> DEFINE r == RetryPacket(snap[w], initial[w], now_ms[w])
<1> USE DEF Handle, clientVars
<1>1. initial[w] \in Initial /\ snap[w] \in RetryConfig /\ now_ms[w] \in 0..clock
  BY Zenon DEF IInv, TypeOK, Trace
<1>2. /\ r \in RetryMessage
      /\ r.token.ip = r.ip /\ r.token.odcid = r.odcid /\ r.token.ts = now_ms[w]
  <2>1. now_ms[w] \in 0..MAX_TIME
    BY <1>1, RetryAssumption DEF IInv, TypeOK
  <2>2. mint(snap[w].token_key, initial[w].ip, initial[w].dcid, now_ms[w]) \in Token
    BY <1>1, <2>1, Zenon DEF mint, Token, Key, Initial
  <2> QED BY <1>1, <2>2, Zenon DEF RetryPacket, RetryMessage, mint, Initial
<1> HIDE DEF r
<1>3. retries' = {r} \/ retries' = retries
  BY DEF r
<1>4. retries' \subseteq RetryMessage
  BY <1>2, <1>3, Zenon DEF IInv, TypeOK
<1>5. now_ms' \in [Worker -> 0..clock]
  BY RetryAssumption DEF IInv, TypeOK
<1>6. passed_on' \in BOOLEAN
  BY Zenon DEF IInv, TypeOK
<1>7. TypeOK'
  BY <1>4, <1>5, <1>6, Zenon DEF IInv, TypeOK, Current
<1>8. \A v \in Worker : pc'[v] = "handle" =>
        v # w /\ pc[v] = "handle" /\ initial'[v] = initial[v]
              /\ snap'[v] = snap[v] /\ now_ms'[v] = now_ms[v]
  BY Zenon DEF IInv, TypeOK
<1>9. \A q \in retries' : q.token.ip = q.ip /\ q.token.odcid = q.odcid /\ q.token.ts <= clock
  BY <1>1, <1>2, <1>3, SMTT(20) DEF IInv, Trace
<1>10. Trace'
  BY <1>8, <1>9 DEF IInv, Trace, Traced
<1> QED BY <1>7, <1>10 DEF IInv

\* The clock only makes old tokens older.
LEMMA TickStep == ASSUME IInv, Tick PROVE IInv'
<1> USE DEF Tick, workerVars, netVars, clientVars
<1>1. clock \in Int /\ clock' = clock + 1 /\ clock' \in 0..MAX_TIME /\ 0..clock \subseteq 0..clock'
  BY RetryAssumption DEF IInv, TypeOK
<1>2. now_ms' \in [Worker -> 0..clock']
  BY <1>1 DEF IInv, TypeOK
<1>3. TypeOK'
  BY <1>1, <1>2, Zenon DEF IInv, TypeOK, Current
<1>4. ASSUME NEW t \in Token PROVE t.ts <= clock => t.ts <= clock'
  BY <1>1 DEF Token
<1>5. \A t \in Token \cup {NoToken} : Traced(t) => Traced(t)'
  BY <1>4 DEF Traced
<1>6. \A p \in initials : Traced(p.token)'
  BY <1>5, Zenon DEF IInv, TypeOK, Trace, Initial
<1>7. \A w \in Worker : pc[w] = "handle" => Traced(initial[w].token)'
  BY <1>5, Zenon DEF IInv, Trace, Initial
<1>8. Traced(token)'
  BY <1>5, Zenon DEF IInv, TypeOK, Trace, Initial, Current, Traced
<1>9. \A r \in retries : r.token.ts <= clock'
  BY <1>4, Zenon DEF IInv, TypeOK, Trace, RetryMessage
<1>10. Trace'
  BY <1>6, <1>7, <1>8, <1>9, Zenon DEF IInv, Trace, Traced
<1> QED BY <1>3, <1>10 DEF IInv

LEMMA TakeStep ==
  ASSUME IInv, NEW r \in retries, TakeRetry(r)
  PROVE  IInv'
<1> USE DEF TakeRetry, workerVars
<1>1. /\ r \in RetryMessage
      /\ Current \in Initial
  BY DEF IInv, TypeOK
<1>2. ip \in Ip /\ dcid \in Cid
  BY <1>1, Zenon DEF Current, Initial
<1>3. Current' \in Initial
  BY <1>1, <1>2, Zenon DEF Current, Initial, RetryMessage
<1>4. got' \subseteq Ip \X Cid /\ retried' \in BOOLEAN
  BY <1>2 DEF IInv, TypeOK
<1>5. TypeOK'
  BY <1>3, <1>4, Zenon DEF IInv, TypeOK
<1>6. Traced(token)'
  BY Zenon DEF IInv, Trace, Traced, Addressed
<1>7. Trace'
  BY <1>6, Zenon DEF IInv, Trace, Traced
<1> QED BY <1>5, <1>7 DEF IInv

LEMMA TryAgainStep ==
  ASSUME IInv, NEW r \in retries, TryAgain(r)
  PROVE  IInv'
<1> USE DEF TryAgain, workerVars
<1>1. attempt' \in 1..MAX_ATTEMPTS /\ dcid' \in Cid
  BY RetryAssumption DEF IInv, TypeOK, Cid
<1>2. Current' \in Initial
  BY <1>1, Zenon DEF IInv, TypeOK, Current, Initial
<1>3. TypeOK'
  BY <1>1, <1>2, Zenon DEF IInv, TypeOK
<1>4. Trace'
  BY Zenon DEF IInv, Trace, Traced
<1> QED BY <1>3, <1>4 DEF IInv

\* The steps that neither mint a token nor hand one on.
LEMMA OtherStep ==
  ASSUME IInv,
         \/ \E c \in RetryConfig : Sighup(c)
         \/ SendInitial
         \/ \E r \in retries : LoseRetry(r)
         \/ \E a \in Ip : Move(a)
         \/ UNCHANGED vars
  PROVE  IInv'
<1> USE DEF workerVars, netVars, clientVars
<1>1. ASSUME NEW c \in RetryConfig, Sighup(c) PROVE IInv'
  <2>1. reloads' \in 0..MAX_RELOADS
    BY <1>1, RetryAssumption DEF Sighup, IInv, TypeOK
  <2>2. TypeOK'
    BY <1>1, <2>1, ZenonT(30) DEF Sighup, IInv, TypeOK, Current
  <2> QED BY <1>1, <2>2, Zenon DEF Sighup, IInv, Trace, Traced
<1>2. CASE SendInitial
  <2>1. TypeOK'
    BY <1>2, Zenon DEF SendInitial, IInv, TypeOK, Current
  <2> QED BY <1>2, <2>1 DEF SendInitial, IInv, Trace, Traced, Current
<1>3. ASSUME NEW r \in retries, LoseRetry(r) PROVE IInv'
  <2>1. TypeOK'
    BY <1>3, Zenon DEF LoseRetry, IInv, TypeOK, Current
  <2> QED BY <1>3, <2>1, Zenon DEF LoseRetry, IInv, Trace, Traced
<1>4. ASSUME NEW a \in Ip, Move(a) PROVE IInv'
  <2>1. moves' \in 0..MAX_MOVES
    BY <1>4, RetryAssumption DEF Move, IInv, TypeOK
  <2>2. Current' \in Initial
    BY <1>4, Zenon DEF Move, IInv, TypeOK, Current, Initial
  <2>3. TypeOK'
    BY <1>4, <2>1, <2>2, Zenon DEF Move, IInv, TypeOK
  <2> QED BY <1>4, <2>3, Zenon DEF Move, IInv, Trace, Traced
<1>5. CASE UNCHANGED vars
  BY <1>5, Zenon DEF vars, IInv, TypeOK, Trace, Traced, Current
<1> QED BY <1>1, <1>2, <1>3, <1>4, <1>5

LEMMA RetryNext == IInv /\ [Next]_vars => IInv'
<1> SUFFICES ASSUME IInv, [Next]_vars PROVE IInv'
  OBVIOUS
<1>1. ASSUME NEW w \in Worker, Loop(w) PROVE IInv'
  <2>1. ASSUME NEW p \in initials, PollRecv(w, p) PROVE IInv'
    BY <2>1, PollStep
  <2>2. ASSUME NEW over \in BOOLEAN, Handle(w, over) PROVE IInv'
    <3>1. pc[w] = "handle"
      BY <2>2 DEF Handle
    <3> QED BY <2>2, <3>1, HandleStep
  <2> QED BY <1>1, <2>1, <2>2 DEF Loop
<1>2. CASE Tick
  BY <1>2, TickStep
<1>3. ASSUME NEW r \in retries, TakeRetry(r) PROVE IInv'
  BY <1>3, TakeStep
<1>4. ASSUME NEW r \in retries, TryAgain(r) PROVE IInv'
  BY <1>4, TryAgainStep
<1>5. CASE \/ \E c \in RetryConfig : Sighup(c)
           \/ SendInitial
           \/ \E r \in retries : LoseRetry(r)
           \/ \E a \in Ip : Move(a)
           \/ UNCHANGED vars
  BY <1>5, OtherStep
<1> QED BY <1>1, <1>2, <1>3, <1>4, <1>5 DEF Next

LEMMA RetryInvariant == Spec => []IInv
BY RetryInit, RetryNext, PTL DEF Spec

\* verify (retry/token.rs): an Initial forwarded on its token comes from where the client
\* received a Retry for that connection ID, for any number of workers, reloads and moves.
THEOREM RetryProvesAddress == Spec => []ValidatedOwnsAddress
<1>1. IInv => ValidatedOwnsAddress
  <2> SUFFICES ASSUME IInv, NEW w \in Worker, pc[w] = "handle",
                      Valid(snap[w], initial[w], now_ms[w])
               PROVE  <<initial[w].ip, initial[w].dcid>> \in got
    BY DEF ValidatedOwnsAddress
  <2> DEFINE t == initial[w].token
  <2>1. t # NoToken /\ t = mint(snap[w].token_key, initial[w].ip, initial[w].dcid, t.ts)
    BY DEF Valid, verify
  <2>2. <<t.ip, t.odcid>> \in got
    BY <2>1, Zenon DEF IInv, Trace, Traced
  <2>3. t.ip = initial[w].ip /\ t.odcid = initial[w].dcid
    BY <2>1 DEF mint
  <2> QED BY <2>2, <2>3
<1> QED BY <1>1, RetryInvariant, PTL

\* verify (retry/token.rs): no worker takes a token that another minted for a future-dated
\* one, and none expires before its lifetime, as long as the wall clock does not step back.
THEOREM HonestTokensVerify == Spec => []HonestTokenAccepted
<1>1. IInv => HonestTokenAccepted
  <2> SUFFICES ASSUME IInv, NEW w \in Worker, pc[w] = "handle", initial[w].token # NoToken,
                      initial[w].token = mint(snap[w].token_key, initial[w].ip,
                                              initial[w].dcid, initial[w].token.ts)
               PROVE  LET verdict == verify(snap[w], initial[w].token, initial[w].ip,
                                            initial[w].dcid, now_ms[w]) IN
                      /\ verdict # "invalid"
                      /\ verdict = "expired" =>
                           clock - initial[w].token.ts > snap[w].token_lifetime
    BY Zenon DEF HonestTokenAccepted
  <2> DEFINE t == initial[w].token
  <2>1. t \in Token /\ snap[w] \in RetryConfig /\ t.ts <= now_ms[w]
    BY Zenon DEF IInv, Trace, Initial
  <2>2. t.ts \in Int /\ now_ms[w] \in Int /\ clock \in Int /\ now_ms[w] <= clock
    BY <2>1 DEF Token, IInv, TypeOK
  <2>3. snap[w].token_lifetime \in Int
    BY <2>1, RetryAssumption DEF validate
  <2>4. ~(t.ts > now_ms[w])
    BY <2>1, <2>2
  <2>5. now_ms[w] - t.ts > snap[w].token_lifetime => clock - t.ts > snap[w].token_lifetime
    BY <2>2, <2>3
  <2> QED BY <2>4, <2>5, Zenon DEF verify
<1> QED BY <1>1, RetryInvariant, PTL

-----------------------------------------------------------------------------
(* Index arithmetic                                                         *)

Index == 0..WRAP - 1

\* Division with remainder.
LEMMA Division ==
  ASSUME NEW d \in Nat \ {0}, NEW n \in Int
  PROVE  n \div d \in Int /\ n % d \in 0..d - 1 /\ n = d * (n \div d) + (n % d)
BY SMT

\* The remainder is unique.
LEMMA Remainder ==
  ASSUME NEW d \in Nat \ {0}, NEW q \in Int, NEW r \in 0..d - 1
  PROVE  (d * q + r) % d = r
BY SMT

LEMMA Sums ==
  ASSUME NEW d \in Int, NEW p \in Int, NEW q \in Int
  PROVE  d * (p + q) = d * p + d * q
BY SMT

\* A remainder does not change with a multiple of the divisor.
LEMMA Shifted ==
  ASSUME NEW d \in Nat \ {0}, NEW n \in Int, NEW q \in Int
  PROVE  (n + d * q) % d = n % d
<1> DEFINE m == n \div d
           r == n % d
<1>1. m \in Int /\ r \in 0..d - 1 /\ n = d * m + r
  BY Division, Zenon
<1>2. d * (m + q) = d * m + d * q
  BY <1>1, Sums
<1> HIDE DEF m, r
<1>3. n + d * q = d * (m + q) + r
  BY <1>1, <1>2, SMT
<1>4. m + q \in Int
  BY <1>1
<1>5. (d * (m + q) + r) % d = r
  BY <1>1, <1>4, Remainder, Zenon
<1> QED BY <1>3, <1>5, Zenon DEF r

\* What wrapping_add and wrapping_sub return, without a division.
LEMMA WrappingAdd ==
  ASSUME NEW a \in Index, NEW n \in 0..WRAP
  PROVE  /\ wrapping_add(a, n) \in Index
         /\ wrapping_add(a, n) = IF a + n < WRAP THEN a + n ELSE a + n - WRAP
<1>1. WRAP \in Nat \ {0} /\ a \in Nat /\ n \in Nat /\ a < WRAP /\ n <= WRAP
  BY RingAssumption DEF Index
<1>2. ASSUME NEW r \in 0..WRAP - 1
      PROVE  r % WRAP = r /\ (r + WRAP) % WRAP = r
  <2>1. (WRAP * 0 + r) % WRAP = r /\ (WRAP * 1 + r) % WRAP = r
    BY <1>1, Remainder
  <2> QED BY <2>1, <1>1
<1>3. CASE a + n < WRAP
  BY <1>1, <1>2, <1>3 DEF wrapping_add, Index
<1>4. CASE ~(a + n < WRAP)
  <2>1. a + n - WRAP \in 0..WRAP - 1 /\ a + n = (a + n - WRAP) + WRAP
    BY <1>1, <1>4
  <2>2. ((a + n - WRAP) + WRAP) % WRAP = a + n - WRAP
    BY <2>1, <1>2, Zenon
  <2> QED BY <2>1, <2>2, <1>4, Zenon DEF wrapping_add, Index
<1> QED BY <1>3, <1>4, Zenon

LEMMA WrappingSub ==
  ASSUME NEW a \in Index, NEW b \in Index
  PROVE  /\ wrapping_sub(a, b) \in Index
         /\ wrapping_sub(a, b) = IF b <= a THEN a - b ELSE a - b + WRAP
<1>1. WRAP \in Nat \ {0} /\ a \in Nat /\ b \in Nat /\ a < WRAP /\ b < WRAP
  BY RingAssumption DEF Index
<1>2. ASSUME NEW r \in 0..WRAP - 1
      PROVE  r % WRAP = r /\ (r + WRAP) % WRAP = r
  <2>1. (WRAP * 0 + r) % WRAP = r /\ (WRAP * 1 + r) % WRAP = r
    BY <1>1, Remainder
  <2> QED BY <2>1, <1>1
<1>3. CASE b <= a
  <2>1. a - b \in 0..WRAP - 1
    BY <1>1, <1>3
  <2>2. ((a - b) + WRAP) % WRAP = a - b
    BY <2>1, <1>2, Zenon
  <2> QED BY <2>1, <2>2, <1>3, Zenon DEF wrapping_sub, Index
<1>4. CASE ~(b <= a)
  <2>1. a - b + WRAP \in 0..WRAP - 1
    BY <1>1, <1>4
  <2> QED BY <2>1, <1>2, <1>4, Zenon DEF wrapping_sub, Index
<1> QED BY <1>3, <1>4, Zenon

\* The distance between two indices, and how it moves with them.
LEMMA Distances ==
  ASSUME NEW p \in Index, NEW c \in Index
  PROVE  /\ wrapping_sub(p, c) \in Nat
         /\ wrapping_add(c, wrapping_sub(p, c)) = p
         /\ \A n \in Nat : wrapping_sub(p, c) + n <= SIZE =>
              /\ wrapping_add(p, n) \in Index
              /\ wrapping_sub(wrapping_add(p, n), c) = wrapping_sub(p, c) + n
         /\ \A n \in Nat : n <= wrapping_sub(p, c) =>
              /\ wrapping_add(c, n) \in Index
              /\ wrapping_sub(p, wrapping_add(c, n)) = wrapping_sub(p, c) - n
<1> DEFINE used == wrapping_sub(p, c)
<1>1. /\ WRAP \in Nat \ {0} /\ p \in Nat /\ p < WRAP /\ c \in Nat /\ c < WRAP
      /\ SIZE \in Nat /\ SIZE < WRAP
  BY RingAssumption DEF Index
<1>2. used \in Nat /\ used < WRAP /\ used = IF c <= p THEN p - c ELSE p - c + WRAP
  BY <1>1, WrappingSub DEF Index
<1> HIDE DEF used
<1>3. wrapping_add(c, used) = p
  <2>1. wrapping_add(c, used) = IF c + used < WRAP THEN c + used ELSE c + used - WRAP
    <3>1. used \in 0..WRAP
      BY <1>1, <1>2
    <3> QED BY <3>1, WrappingAdd, Zenon
  <2> QED BY <1>1, <1>2, <2>1
<1>4. ASSUME NEW n \in Nat, used + n <= SIZE
      PROVE  wrapping_add(p, n) \in Index /\ wrapping_sub(wrapping_add(p, n), c) = used + n
  <2> DEFINE q == wrapping_add(p, n)
  <2>1. q \in Index /\ q = IF p + n < WRAP THEN p + n ELSE p + n - WRAP
    <3>1. n \in 0..WRAP
      BY <1>1, <1>2, <1>4
    <3> QED BY <3>1, WrappingAdd, Zenon
  <2>2. wrapping_sub(q, c) = IF c <= q THEN q - c ELSE q - c + WRAP
    BY <2>1, WrappingSub, Zenon
  <2> HIDE DEF q
  <2>3. wrapping_sub(q, c) = used + n
    BY <2>1, <2>2, <1>1, <1>2, <1>4 DEF Index
  <2> QED BY <2>1, <2>3, Zenon DEF q
<1>5. ASSUME NEW n \in Nat, n <= used
      PROVE  wrapping_add(c, n) \in Index /\ wrapping_sub(p, wrapping_add(c, n)) = used - n
  <2> DEFINE q == wrapping_add(c, n)
  <2>1. q \in Index /\ q = IF c + n < WRAP THEN c + n ELSE c + n - WRAP
    <3>1. n \in 0..WRAP
      BY <1>1, <1>2, <1>5
    <3> QED BY <3>1, WrappingAdd, Zenon
  <2>2. wrapping_sub(p, q) = IF q <= p THEN p - q ELSE p - q + WRAP
    BY <2>1, WrappingSub, Zenon
  <2> HIDE DEF q
  <2>3. wrapping_sub(p, q) = used - n
    BY <2>1, <2>2, <1>1, <1>2, <1>5 DEF Index
  <2> QED BY <2>1, <2>3, Zenon DEF q
<1> QED BY <1>2, <1>3, <1>4, <1>5, Zenon DEF used

\* Advancing in two steps.
LEMMA Advances ==
  ASSUME NEW a \in Index, NEW n \in Nat, NEW k \in Nat, n + k <= WRAP
  PROVE  wrapping_add(wrapping_add(a, n), k) = wrapping_add(a, n + k)
<1> DEFINE b == wrapping_add(a, n)
<1>1. WRAP \in Nat \ {0} /\ a \in Nat /\ a < WRAP
  BY RingAssumption DEF Index
<1>2. b \in Index /\ b = IF a + n < WRAP THEN a + n ELSE a + n - WRAP
  <2>1. n \in 0..WRAP
    BY <1>1
  <2> QED BY <2>1, WrappingAdd, Zenon
<1>3. wrapping_add(a, n + k) = IF a + (n + k) < WRAP THEN a + (n + k) ELSE a + (n + k) - WRAP
  <2>1. n + k \in 0..WRAP
    BY <1>1
  <2> QED BY <2>1, WrappingAdd
<1>4. wrapping_add(b, k) = IF b + k < WRAP THEN b + k ELSE b + k - WRAP
  <2>1. k \in 0..WRAP
    BY <1>1
  <2> QED BY <2>1, <1>2, WrappingAdd, Zenon
<1> HIDE DEF b
<1>5. wrapping_add(b, k) = wrapping_add(a, n + k)
  BY <1>1, <1>2, <1>3, <1>4
<1> QED BY <1>5 DEF b

\* The wrap of the indices is invisible in the array, whose size divides it.
LEMMA MaskOfSum ==
  ASSUME NEW a \in Index, NEW n \in 0..WRAP
  PROVE  Mask(wrapping_add(a, n)) = (a + n) % SIZE
<1>1. SIZE \in Nat \ {0} /\ WRAP \in Nat /\ a \in Int /\ n \in Int
  BY RingAssumption DEF Index
<1>2. WRAP \div SIZE \in Int /\ WRAP = SIZE * (WRAP \div SIZE)
  <2>1. /\ WRAP \div SIZE \in Int
        /\ WRAP = SIZE * (WRAP \div SIZE) + (WRAP % SIZE)
    BY <1>1, Division
  <2>2. WRAP % SIZE = 0
    BY RingAssumption
  <2>3. SIZE * (WRAP \div SIZE) \in Int
    BY <1>1, <2>1
  <2> QED BY <1>1, <2>1, <2>2, <2>3
<1>3. (a + n - WRAP) % SIZE = (a + n) % SIZE
  <2> DEFINE s == a + n - WRAP
             q == WRAP \div SIZE
  <2>1. s \in Int /\ q \in Int /\ WRAP = SIZE * q
    BY <1>1, <1>2
  <2>2. (s + SIZE * q) % SIZE = s % SIZE
    <3> HIDE DEF s, q
    <3> QED BY <1>1, <2>1, Shifted, Zenon
  <2>3. s + WRAP = a + n
    BY <1>1
  <2>4. (s + WRAP) % SIZE = s % SIZE
    BY <2>1, <2>2, Zenon
  <2> QED BY <2>3, <2>4, Zenon
<1>4. wrapping_add(a, n) \in {a + n, a + n - WRAP}
  BY WrappingAdd
<1> QED BY <1>3, <1>4, Zenon DEF Mask

LEMMA MaskType ==
  ASSUME NEW a \in Index, NEW n \in 0..WRAP
  PROVE  Mask(wrapping_add(a, n)) \in 0..SIZE - 1
<1>1. SIZE \in Nat \ {0} /\ a + n \in Int
  BY RingAssumption DEF Index
<1> QED BY <1>1, MaskOfSum, Division, Zenon

\* No two of SIZE consecutive indices share an entry of the array.
LEMMA MaskApart ==
  ASSUME NEW a \in Index, NEW i \in Nat, NEW j \in Nat, i < j, j < SIZE
  PROVE  Mask(wrapping_add(a, i)) # Mask(wrapping_add(a, j))
<1>1. SIZE \in Nat \ {0} /\ a \in Int /\ i \in 0..WRAP /\ j \in 0..WRAP
  BY RingAssumption DEF Index
<1> SUFFICES ASSUME (a + i) % SIZE = (a + j) % SIZE PROVE FALSE
  BY <1>1, MaskOfSum, Zenon
<1> DEFINE r == (a + i) % SIZE
           p == (a + i) \div SIZE
           q == (a + j) \div SIZE
<1>2. r \in Int /\ p \in Int /\ q \in Int /\ a + i = SIZE * p + r /\ a + j = SIZE * q + r
  <2>1. a + i \in Int /\ a + j \in Int
    BY <1>1
  <2>2. r \in 0..SIZE - 1 /\ p \in Int /\ a + i = SIZE * p + r
    BY <1>1, <2>1, Division, Zenon
  <2>3. q \in Int /\ a + j = SIZE * q + r
    BY <1>1, <2>1, Division, Zenon
  <2> QED BY <2>2, <2>3
<1> HIDE DEF r, p, q
<1>3. SIZE * q - SIZE * p = j - i
  <2>1. SIZE * p \in Int /\ SIZE * q \in Int
    BY <1>1, <1>2
  <2> QED BY <1>1, <1>2, <2>1
<1>4. SIZE * (q - p) = j - i /\ q - p \in Int
  <2>1. SIZE * (q - p) = SIZE * q - SIZE * p
    BY <1>1, <1>2, SMT
  <2> QED BY <1>2, <1>3, <2>1
<1>5. q - p <= 0 \/ q - p >= 1
  BY <1>4
<1>6. CASE q - p <= 0
  <2>1. SIZE * (q - p) <= 0
    BY <1>1, <1>4, <1>6, SMT
  <2> QED BY <1>4, <2>1
<1>7. CASE q - p >= 1
  <2>1. SIZE * (q - p) >= SIZE
    BY <1>1, <1>4, <1>7, SMT
  <2> QED BY <1>1, <1>4, <2>1
<1> QED BY <1>5, <1>6, <1>7, Zenon

-----------------------------------------------------------------------------
(* The ring                                                                 *)

\* The number of entries in the ring, and where the k-th of them is.
Used == wrapping_sub(producer, consumer)
At(k) == Mask(wrapping_add(consumer, k))

\* Each side's load of its own index is current, the other side only makes room or
\* entries, and what lies in the array and in a call's locals agrees.
RingInv ==
  /\ producer \in Index /\ consumer \in Index /\ Used <= SIZE
  /\ descs \in [0..SIZE - 1 -> Entry]
  /\ p_pc \in {"idle", "acquire", "write"} /\ c_pc \in {"idle", "read"}
  /\ entries \in Entries /\ n_prod \in Nat /\ i_prod \in Nat
  /\ p_pc # "idle" => prod = producer
  /\ p_pc = "write" =>
       /\ n_prod <= Len(entries) /\ Used + n_prod <= SIZE /\ i_prod <= n_prod
       /\ \A k \in 0..i_prod - 1 : descs[At(Used + k)] = entries[k + 1]
  /\ out \in Seq(Entry) /\ n_cons \in 0..MAX_BATCH
  /\ c_pc = "read" =>
       /\ cons = consumer /\ n_cons <= Used /\ Len(out) <= n_cons
       /\ \A k \in 0..Len(out) - 1 : out[k + 1] = descs[At(k)]

\* A concatenation as a function.
LEMMA Concatenation ==
  ASSUME NEW a \in Seq(Entry), NEW b \in Seq(Entry)
  PROVE  a \o b = [k \in 1..Len(a) + Len(b) |-> IF k <= Len(a) THEN a[k] ELSE b[k - Len(a)]]
<1> DEFINE c == a \o b
<1>1. /\ c \in Seq(Entry) /\ Len(c) = Len(a) + Len(b)
      /\ \A k \in 1..Len(a) + Len(b) : c[k] = IF k <= Len(a) THEN a[k] ELSE b[k - Len(a)]
  OBVIOUS
<1> HIDE DEF c
<1>2. c = [k \in 1..Len(c) |-> c[k]]
  BY <1>1
<1>3. c = [k \in 1..Len(a) + Len(b) |-> IF k <= Len(a) THEN a[k] ELSE b[k - Len(a)]]
  BY <1>1, <1>2, Zenon
<1> QED BY <1>3, Zenon DEF c

\* A call's entries are a short sequence.
LEMMA EntriesAreSeqs ==
  /\ \A s \in Entries : s \in Seq(Entry) /\ Len(s) \in 0..MAX_BATCH
  /\ \A s \in Seq(Entry) : Len(s) <= MAX_BATCH => s \in Entries
<1> MAX_BATCH \in Nat
  BY RingAssumption, Zenon
<1>1. ASSUME NEW s \in Entries PROVE s \in Seq(Entry) /\ Len(s) \in 0..MAX_BATCH
  <2>1. PICK n \in 0..MAX_BATCH : s \in [1..n -> Entry]
    BY DEF Entries
  <2> QED BY <2>1
<1>2. ASSUME NEW s \in Seq(Entry), Len(s) <= MAX_BATCH PROVE s \in Entries
  <2>1. Len(s) \in 0..MAX_BATCH /\ s \in [1..Len(s) -> Entry]
    BY <1>2
  <2> QED BY <2>1, Zenon DEF Entries
<1> QED BY <1>1, <1>2, Zenon

\* Where the entries of the ring and the room behind them are.
LEMMA Places ==
  ASSUME producer \in Index, consumer \in Index, Used <= SIZE
  PROVE  /\ Used \in Nat
         /\ \A k \in 0..SIZE : At(k) \in 0..SIZE - 1
         /\ \A i, j \in 0..SIZE - 1 : i # j => At(i) # At(j)
         /\ \A k \in 0..SIZE - Used : Mask(wrapping_add(producer, k)) = At(Used + k)
<1>1. SIZE \in Nat /\ WRAP \in Nat /\ SIZE < WRAP
  BY RingAssumption, Zenon
<1>2. Used \in Nat /\ wrapping_add(consumer, Used) = producer
  BY Distances, Zenon DEF Used
<1>3. ASSUME NEW k \in 0..SIZE PROVE At(k) \in 0..SIZE - 1
  <2>1. k \in 0..WRAP
    BY <1>1
  <2> QED BY <2>1, MaskType, Zenon DEF At
<1>4. ASSUME NEW i \in 0..SIZE - 1, NEW j \in 0..SIZE - 1, i # j PROVE At(i) # At(j)
  <2>1. i \in Nat /\ j \in Nat /\ i < SIZE /\ j < SIZE /\ (i < j \/ j < i)
    BY <1>1, <1>4
  <2>2. CASE i < j
    BY <2>1, <2>2, MaskApart, Zenon DEF At
  <2>3. CASE j < i
    BY <2>1, <2>3, MaskApart, Zenon DEF At
  <2> QED BY <2>1, <2>2, <2>3, Zenon
<1>5. ASSUME NEW k \in 0..SIZE - Used PROVE Mask(wrapping_add(producer, k)) = At(Used + k)
  <2>1. k \in Nat /\ Used + k <= WRAP
    BY <1>1, <1>2
  <2>2. wrapping_add(wrapping_add(consumer, Used), k) = wrapping_add(consumer, Used + k)
    BY <2>1, <1>2, Advances, Zenon
  <2> QED BY <1>2, <2>2, Zenon DEF At
<1> QED BY <1>2, <1>3, <1>4, <1>5, Zenon

\* The queue the array holds.
LEMMA ContentsAre ==
  ASSUME RingInv
  PROVE  /\ Contents \in Seq(Entry) /\ Len(Contents) = Used
         /\ \A k \in 1..Used : Contents[k] = descs[At(k - 1)]
<1>1. Used \in Nat /\ Used <= SIZE /\ SIZE \in Nat
  BY Places, RingAssumption, Zenon DEF RingInv
<1>2. Contents = [k \in 1..Used |-> descs[At(k - 1)]]
  BY Zenon DEF Contents, Used, At
<1>3. ASSUME NEW k \in 1..Used PROVE descs[At(k - 1)] \in Entry
  <2>1. k - 1 \in 0..SIZE
    BY <1>1
  <2>2. At(k - 1) \in 0..SIZE - 1
    BY <2>1, Places, Zenon DEF RingInv
  <2> QED BY <2>2 DEF RingInv
<1>4. Contents \in [1..Used -> Entry]
  BY <1>2, <1>3, Zenon
<1>5. Contents \in Seq(Entry) /\ Len(Contents) = Used
  BY <1>1, <1>4
<1> QED BY <1>2, <1>5, Zenon

\* What the bounds and the types of the ring's state say about its numbers.
LEMMA RingFacts ==
  ASSUME RingInv
  PROVE  /\ SIZE \in Nat /\ WRAP \in Nat /\ SIZE < WRAP /\ MAX_BATCH \in Nat
         /\ Used \in Nat /\ Used <= SIZE
         /\ entries \in Seq(Entry) /\ Len(entries) \in Nat /\ Len(entries) <= MAX_BATCH
         /\ n_cons \in Nat /\ out \in Seq(Entry) /\ Len(out) \in Nat
<1>1. SIZE \in Nat /\ WRAP \in Nat /\ SIZE < WRAP /\ MAX_BATCH \in Nat
  BY RingAssumption
<1>2. Used \in Nat /\ Used <= SIZE
  BY Places, Zenon DEF RingInv
<1>3. entries \in Seq(Entry) /\ Len(entries) \in 0..MAX_BATCH
  BY EntriesAreSeqs, Zenon DEF RingInv
<1>4. out \in Seq(Entry) /\ n_cons \in 0..MAX_BATCH
  BY Zenon DEF RingInv
<1>5. Len(entries) \in Nat /\ Len(entries) <= MAX_BATCH /\ n_cons \in Nat
  BY <1>1, <1>3, <1>4
<1>6. Len(out) \in Nat
  BY <1>4
<1> QED BY <1>1, <1>2, <1>3, <1>4, <1>5, <1>6, Zenon

LEMMA RingInitInv == RingInit => RingInv /\ Abstract!Init
<1> SUFFICES ASSUME RingInit PROVE RingInv /\ Abstract!Init
  OBVIOUS
<1>1. SIZE \in Nat \ {0} /\ WRAP \in Nat /\ MAX_BATCH \in Nat /\ SIZE < WRAP
  BY RingAssumption, Zenon
<1>2. producer \in Index /\ consumer = producer
  BY DEF RingInit, Index
<1>3. Used = 0
  <2>1. Used = producer - producer
    BY <1>2, WrappingSub DEF Used, Index
  <2> QED BY <1>1, <1>2, <2>1 DEF Index
<1>4. << >> \in Entries
  <2> DEFINE e == << >>
  <2>1. e \in Seq(Entry) /\ Len(e) = 0
    OBVIOUS
  <2> HIDE DEF e
  <2>2. Len(e) <= MAX_BATCH
    BY <1>1, <2>1
  <2>3. e \in Entries
    BY <2>1, <2>2, EntriesAreSeqs, Zenon
  <2> QED BY <2>3 DEF e
<1>5. RingInv
  <2>1. descs \in [0..SIZE - 1 -> Entry]
    BY DEF RingInit
  <2> QED BY <1>1, <1>2, <1>3, <1>4, <2>1 DEF RingInit, RingInv
<1>6. Contents = << >>
  <2>1. Contents \in Seq(Entry) /\ Len(Contents) = 0
    BY <1>3, <1>5, ContentsAre, Zenon
  <2> QED BY <2>1
<1> QED BY <1>5, <1>6 DEF Abstract!Init, RingInit

\* The locals of the two calls, and what the steps that do not move an index keep.
LEMMA Standing ==
  ASSUME producer' = producer, consumer' = consumer
  PROVE  Used' = Used /\ \A k : At(k)' = At(k)
BY DEF Used, At

LEMMA SameContents ==
  ASSUME producer' = producer, consumer' = consumer, descs' = descs
  PROVE  Contents' = Contents
BY Zenon DEF Contents

LEMMA LoadProducerRefines ==
  ASSUME RingInv, NEW s \in Entries, LoadProducer(s)
  PROVE  RingInv' /\ UNCHANGED <<Contents, returned>>
<1>1. Used' = Used /\ (\A k : At(k)' = At(k)) /\ Contents' = Contents
  BY Standing, SameContents, Zenon DEF LoadProducer
<1>2. RingInv'
  BY <1>1, Zenon DEF RingInv, LoadProducer, consumeVars
<1> QED BY <1>1, <1>2, Zenon DEF LoadProducer, consumeVars

LEMMA AcquireConsumerRefines ==
  ASSUME RingInv, AcquireConsumer
  PROVE  RingInv' /\ UNCHANGED <<Contents, returned>>
<1>1. Used' = Used /\ (\A k : At(k)' = At(k)) /\ Contents' = Contents
  BY Standing, SameContents, Zenon DEF AcquireConsumer
<1>2. SIZE \in Index /\ Used \in Nat /\ Used <= SIZE /\ SIZE \in Nat /\ Used \in Index
  BY RingFacts DEF Index
<1>3. Free(consumer) = SIZE - Used
  <2>1. Free(consumer) = wrapping_sub(SIZE, Used)
    BY Zenon DEF Free, RingInv, AcquireConsumer, Used
  <2>2. wrapping_sub(SIZE, Used) = SIZE - Used
    BY <1>2, WrappingSub, Zenon
  <2> QED BY <2>1, <2>2
<1>4. Len(entries) \in Nat
  BY RingFacts, Zenon
<1>5. n_prod' \in Nat /\ n_prod' <= Len(entries) /\ Used + n_prod' <= SIZE
  BY <1>2, <1>3, <1>4 DEF AcquireConsumer, Lesser
<1>6. RingInv'
  <2>1. i_prod' \in Nat /\ i_prod' <= n_prod' /\ 0..i_prod' - 1 = {}
    BY <1>5 DEF AcquireConsumer
  <2> QED BY <1>1, <1>5, <2>1, Zenon DEF RingInv, AcquireConsumer, consumeVars
<1> QED BY <1>1, <1>6, Zenon DEF AcquireConsumer, consumeVars

LEMMA WriteEntryRefines ==
  ASSUME RingInv, WriteEntry
  PROVE  RingInv' /\ UNCHANGED <<Contents, returned>>
<1>1. Used' = Used /\ \A k : At(k)' = At(k)
  BY Standing DEF WriteEntry
<1>2. /\ Used \in Nat /\ SIZE \in Nat /\ n_prod \in Nat /\ i_prod \in Nat
      /\ i_prod < n_prod /\ Used + n_prod <= SIZE /\ n_prod <= Len(entries)
      /\ entries \in Seq(Entry) /\ p_pc = "write" /\ prod = producer
      /\ descs \in [0..SIZE - 1 -> Entry]
  BY RingFacts, Zenon DEF RingInv, WriteEntry
<1>3. /\ \A k \in 0..SIZE : At(k) \in 0..SIZE - 1
      /\ \A i, j \in 0..SIZE - 1 : i # j => At(i) # At(j)
  BY Places, Zenon DEF RingInv
<1>4. Mask(wrapping_add(prod, i_prod)) = At(Used + i_prod)
  <2>1. i_prod \in 0..SIZE - Used
    BY <1>2
  <2> QED BY <1>2, <2>1, Places, Zenon DEF RingInv
<1>5. Used + i_prod \in 0..SIZE - 1 /\ i_prod + 1 \in 1..Len(entries)
  BY <1>2
<1>6. descs' = [descs EXCEPT ![At(Used + i_prod)] = entries[i_prod + 1]]
  BY <1>4, Zenon DEF WriteEntry
<1>7. At(Used + i_prod) \in 0..SIZE - 1 /\ entries[i_prod + 1] \in Entry
  <2>1. entries[i_prod + 1] \in Entry
    BY <1>2, <1>5
  <2>2. Used + i_prod \in 0..SIZE
    BY <1>2
  <2> QED BY <1>3, <2>1, <2>2, Zenon
<1>8. /\ descs' \in [0..SIZE - 1 -> Entry]
      /\ descs'[At(Used + i_prod)] = entries[i_prod + 1]
      /\ \A k \in 0..SIZE - 1 : k # Used + i_prod => descs'[At(k)] = descs[At(k)]
  <2>1. descs' \in [0..SIZE - 1 -> Entry]
    BY <1>2, <1>6, <1>7, Zenon
  <2>2. descs'[At(Used + i_prod)] = entries[i_prod + 1]
    BY <1>2, <1>6, <1>7, Zenon
  <2>3. ASSUME NEW k \in 0..SIZE - 1, k # Used + i_prod PROVE descs'[At(k)] = descs[At(k)]
    <3>1. At(k) \in 0..SIZE - 1 /\ At(k) # At(Used + i_prod)
      <4>1. k \in 0..SIZE
        BY <1>2
      <4> QED BY <1>3, <1>5, <2>3, <4>1, Zenon
    <3> QED BY <1>2, <1>6, <3>1, Zenon
  <2> QED BY <2>1, <2>2, <2>3, Zenon
<1>9. ASSUME NEW k \in 0..i_prod PROVE descs'[At(Used + k)] = entries[k + 1]
  <2>1. CASE k = i_prod
    BY <1>8, <2>1, Zenon
  <2>2. CASE k # i_prod
    <3>1. k \in 0..i_prod - 1 /\ Used + k \in 0..SIZE - 1 /\ Used + k # Used + i_prod
      BY <1>2, <2>2
    <3>2. descs[At(Used + k)] = entries[k + 1]
      BY <1>2, <3>1, Zenon DEF RingInv
    <3> QED BY <1>8, <3>1, <3>2, Zenon
  <2> QED BY <2>1, <2>2
<1>10. c_pc = "read" => \A k \in 0..Len(out) - 1 : out[k + 1] = descs'[At(k)]
  <2> SUFFICES ASSUME c_pc = "read", NEW k \in 0..Len(out) - 1 PROVE out[k + 1] = descs'[At(k)]
    OBVIOUS
  <2>1. Len(out) \in Nat /\ n_cons \in Nat /\ Len(out) <= n_cons /\ n_cons <= Used
    BY RingFacts, Zenon DEF RingInv
  <2>2. k \in 0..SIZE - 1 /\ k # Used + i_prod
    BY <1>2, <2>1
  <2>3. out[k + 1] = descs[At(k)]
    BY Zenon DEF RingInv
  <2> QED BY <1>8, <2>2, <2>3, Zenon
<1>11. RingInv'
  <2>1. i_prod' = i_prod + 1 /\ i_prod' \in Nat /\ i_prod' <= n_prod /\ 0..i_prod' - 1 = 0..i_prod
    BY <1>2 DEF WriteEntry
  <2>2. \A k \in 0..i_prod' - 1 : descs'[At(Used + k)] = entries[k + 1]
    BY <1>9, <2>1, Zenon
  <2> QED BY <1>1, <1>2, <1>8, <1>10, <2>1, <2>2, Zenon DEF RingInv, WriteEntry, consumeVars
<1>12. Contents' = Contents
  <2>1. Contents = [k \in 1..Used |-> descs[At(k - 1)]]
    BY Zenon DEF Contents, Used, At
  <2>2. Contents' = [k \in 1..Used |-> descs'[At(k - 1)]]
    BY <1>1, Zenon DEF Contents, Used, At
  <2>3. ASSUME NEW k \in 1..Used PROVE descs'[At(k - 1)] = descs[At(k - 1)]
    <3>1. k - 1 \in 0..SIZE - 1 /\ k - 1 # Used + i_prod
      BY <1>2
    <3> QED BY <1>8, <3>1, Zenon
  <2> QED BY <2>1, <2>2, <2>3, Zenon
<1> QED BY <1>11, <1>12, Zenon DEF WriteEntry, consumeVars

LEMMA ReleaseProducerRefines ==
  ASSUME RingInv, ReleaseProducer
  PROVE  RingInv' /\ \E s \in Abstract!Entries : Abstract!Enqueue(s)
<1>1. /\ Used \in Nat /\ SIZE \in Nat /\ n_prod \in Nat /\ i_prod = n_prod
      /\ Used + n_prod <= SIZE /\ n_prod <= Len(entries)
      /\ entries \in Seq(Entry) /\ Len(entries) <= MAX_BATCH /\ MAX_BATCH \in Nat
      /\ prod = producer /\ p_pc = "write"
  BY RingFacts, Zenon DEF RingInv, ReleaseProducer
<1>2. producer' \in Index /\ Used' = Used + n_prod /\ \A k : At(k)' = At(k)
  <2>1. producer' = wrapping_add(producer, n_prod) /\ consumer' = consumer
    BY <1>1, Zenon DEF ReleaseProducer
  <2>2. /\ wrapping_add(producer, n_prod) \in Index
        /\ wrapping_sub(wrapping_add(producer, n_prod), consumer) = Used + n_prod
    BY <1>1, Distances DEF RingInv, Used
  <2> QED BY <2>1, <2>2, Zenon DEF Used, At
<1>3. RingInv'
  <2>1. Used' \in Nat /\ Used' <= SIZE /\ Used <= Used'
    BY <1>1, <1>2
  <2>2. c_pc = "read" => n_cons <= Used'
    <3>1. c_pc = "read" => n_cons <= Used
      BY Zenon DEF RingInv
    <3>2. n_cons \in Nat
      BY RingFacts, Zenon
    <3> QED BY <1>1, <2>1, <3>1, <3>2
  <2> QED BY <1>2, <2>1, <2>2, Zenon DEF RingInv, ReleaseProducer, consumeVars
<1> DEFINE s == SubSeq(entries, 1, n_prod)
<1>4. s \in Seq(Entry) /\ Len(s) = n_prod /\ \A k \in 1..n_prod : s[k] = entries[k]
  BY <1>1
<1>5. s \in Abstract!Entries
  <2> HIDE DEF s
  <2>1. s \in Entries
    BY <1>1, <1>4, EntriesAreSeqs
  <2> QED BY <2>1, Zenon DEF Entries, Abstract!Entries
<1>6. Contents' = Contents \o s
  <2> HIDE DEF s
  <2>1. /\ Contents \in Seq(Entry) /\ Len(Contents) = Used
        /\ \A k \in 1..Used : Contents[k] = descs[At(k - 1)]
    BY ContentsAre, Zenon
  <2>2. Contents' = [k \in 1..Used + n_prod |-> descs[At(k - 1)]]
    BY <1>2, Zenon DEF Contents, Used, At, ReleaseProducer
  <2>3. Contents \o s = [k \in 1..Used + n_prod |-> IF k <= Used THEN Contents[k] ELSE s[k - Used]]
    <3>1. Contents \o s = [k \in 1..Len(Contents) + Len(s) |->
                            IF k <= Len(Contents) THEN Contents[k] ELSE s[k - Len(Contents)]]
      BY <1>4, <2>1, Concatenation, Zenon
    <3> QED BY <1>4, <2>1, <3>1, Zenon
  <2>4. ASSUME NEW k \in 1..Used + n_prod
        PROVE  descs[At(k - 1)] = IF k <= Used THEN Contents[k] ELSE s[k - Used]
    <3>1. CASE k <= Used
      BY <1>1, <2>1, <3>1
    <3>2. CASE ~(k <= Used)
      <4>1. k - Used \in 1..n_prod /\ k - 1 = Used + (k - Used - 1) /\ k - Used - 1 \in 0..i_prod - 1
        BY <1>1, <3>2
      <4>2. descs[At(Used + (k - Used - 1))] = entries[(k - Used - 1) + 1]
        BY <1>1, <4>1, Zenon DEF RingInv
      <4>3. (k - Used - 1) + 1 = k - Used
        BY <1>1
      <4> QED BY <1>4, <3>2, <4>1, <4>2, <4>3, Zenon
    <3> QED BY <3>1, <3>2, Zenon
  <2> QED BY <2>2, <2>3, <2>4, Zenon
<1>7. Abstract!Enqueue(s)
  <2>1. Len(Contents) = Used
    BY ContentsAre, Zenon
  <2> HIDE DEF s
  <2>2. Len(Contents) + Len(s) <= SIZE
    BY <1>1, <1>4, <2>1, Zenon
  <2> QED BY <1>6, <2>2, Zenon DEF Abstract!Enqueue, ReleaseProducer, consumeVars
<1> QED BY <1>3, <1>5, <1>7, Zenon

LEMMA LoadIndicesRefines ==
  ASSUME RingInv, NEW m \in 0..MAX_BATCH, LoadIndices(m)
  PROVE  RingInv' /\ UNCHANGED <<Contents, returned>>
<1>1. Used' = Used /\ (\A k : At(k)' = At(k)) /\ Contents' = Contents
  BY Standing, SameContents, Zenon DEF LoadIndices
<1>2. Used \in Nat /\ MAX_BATCH \in Nat
  BY Places, RingAssumption, Zenon DEF RingInv
<1>3. n_cons' = Lesser(Used, m)
  BY DEF LoadIndices, Used
<1>4. n_cons' \in 0..MAX_BATCH /\ n_cons' <= Used
  BY <1>2, <1>3 DEF Lesser
<1>5. out' \in Seq(Entry) /\ Len(out') = 0 /\ 0 <= n_cons' /\ 0..Len(out') - 1 = {}
  BY <1>4 DEF LoadIndices
<1>6. RingInv'
  BY <1>1, <1>4, <1>5, Zenon DEF RingInv, LoadIndices, produceVars
<1> QED BY <1>1, <1>6, Zenon DEF LoadIndices

LEMMA ReadEntryRefines ==
  ASSUME RingInv, ReadEntry
  PROVE  RingInv' /\ UNCHANGED <<Contents, returned>>
<1>1. Used' = Used /\ (\A k : At(k)' = At(k)) /\ Contents' = Contents
  BY Standing, SameContents DEF ReadEntry
<1>2. /\ Used \in Nat /\ Used <= SIZE /\ SIZE \in Nat /\ n_cons \in Nat /\ n_cons <= Used
      /\ Len(out) \in Nat /\ Len(out) < n_cons /\ cons = consumer /\ c_pc = "read"
      /\ out \in Seq(Entry) /\ descs \in [0..SIZE - 1 -> Entry]
  <2>1. /\ producer \in Index /\ consumer \in Index /\ Used <= SIZE
        /\ out \in Seq(Entry) /\ descs \in [0..SIZE - 1 -> Entry] /\ n_cons \in 0..MAX_BATCH
        /\ c_pc = "read" /\ Len(out) < n_cons /\ n_cons <= Used /\ cons = consumer
    BY Zenon DEF RingInv, ReadEntry
  <2>2. Used \in Nat /\ SIZE \in Nat /\ n_cons \in Nat
    BY RingFacts, Zenon
  <2>3. Len(out) \in Nat
    BY <2>1
  <2> QED BY <2>1, <2>2, <2>3, Zenon
<1>3. out' = Append(out, descs[At(Len(out))])
  BY <1>2, Zenon DEF ReadEntry, At
<1>4. descs[At(Len(out))] \in Entry
  <2>1. Len(out) \in 0..SIZE
    BY <1>2
  <2>2. At(Len(out)) \in 0..SIZE - 1
    BY <2>1, Places, Zenon DEF RingInv
  <2> QED BY <1>2, <2>2, Zenon
<1>5. /\ out' \in Seq(Entry) /\ Len(out') = Len(out) + 1
      /\ out'[Len(out) + 1] = descs[At(Len(out))]
      /\ \A k \in 1..Len(out) : out'[k] = out[k]
  BY <1>2, <1>3, <1>4
<1>6. ASSUME NEW k \in 0..Len(out') - 1 PROVE out'[k + 1] = descs[At(k)]
  <2>1. CASE k = Len(out)
    BY <1>5, <2>1, Zenon
  <2>2. CASE k # Len(out)
    <3>1. k \in 0..Len(out) - 1 /\ k + 1 \in 1..Len(out)
      BY <1>2, <1>5, <2>2
    <3>2. out[k + 1] = descs[At(k)]
      BY <1>2, <3>1, Zenon DEF RingInv
    <3> QED BY <1>5, <3>1, <3>2, Zenon
  <2> QED BY <2>1, <2>2, Zenon
<1>7. Len(out') <= n_cons
  BY <1>2, <1>5
<1>8. RingInv'
  <2>1. /\ producer' = producer /\ consumer' = consumer /\ descs' = descs /\ p_pc' = p_pc
        /\ entries' = entries /\ prod' = prod /\ n_prod' = n_prod /\ i_prod' = i_prod
        /\ c_pc' = c_pc /\ cons' = cons /\ n_cons' = n_cons
    BY DEF ReadEntry, produceVars
  <2> QED BY <1>1, <1>5, <1>6, <1>7, <2>1, Zenon DEF RingInv
<1> QED BY <1>1, <1>8, Zenon DEF ReadEntry

LEMMA ReleaseConsumerRefines ==
  ASSUME RingInv, ReleaseConsumer
  PROVE  RingInv' /\ \E n \in 0..MAX_BATCH : Abstract!Dequeue(n)
<1>1. /\ Used \in Nat /\ Used <= SIZE /\ SIZE \in Nat /\ WRAP \in Nat /\ SIZE < WRAP
      /\ n_cons \in Nat /\ n_cons <= Used /\ n_cons \in 0..MAX_BATCH
      /\ Len(out) = n_cons /\ cons = consumer /\ c_pc = "read" /\ out \in Seq(Entry)
  BY RingFacts, Zenon DEF RingInv, ReleaseConsumer
<1>2. consumer' = wrapping_add(consumer, n_cons) /\ producer' = producer /\ descs' = descs
  BY <1>1, Zenon DEF ReleaseConsumer
<1>3. consumer' \in Index /\ Used' = Used - n_cons
  <2>1. /\ wrapping_add(consumer, n_cons) \in Index
        /\ wrapping_sub(producer, wrapping_add(consumer, n_cons)) = Used - n_cons
    BY <1>1, Distances DEF RingInv, Used
  <2> QED BY <1>2, <2>1, Zenon DEF Used
<1>4. ASSUME NEW k \in Nat, n_cons + k <= SIZE PROVE Mask(wrapping_add(consumer', k)) = At(n_cons + k)
  <2>1. n_cons + k <= WRAP
    BY <1>1, <1>4
  <2>2. wrapping_add(wrapping_add(consumer, n_cons), k) = wrapping_add(consumer, n_cons + k)
    BY <1>1, <2>1, Advances, Zenon DEF RingInv
  <2> QED BY <1>2, <2>2, Zenon DEF At
<1>5. RingInv'
  <2>1. Used' <= SIZE /\ (p_pc = "write" => Used' + n_prod <= SIZE)
    BY <1>1, <1>3 DEF RingInv
  <2>2. p_pc = "write" => \A k \in 0..i_prod - 1 : descs[Mask(wrapping_add(consumer', Used' + k))] = entries[k + 1]
    <3> SUFFICES ASSUME p_pc = "write", NEW k \in 0..i_prod - 1
                 PROVE  descs[Mask(wrapping_add(consumer', Used' + k))] = entries[k + 1]
      OBVIOUS
    <3>1. n_prod \in Nat /\ i_prod \in Nat /\ i_prod <= n_prod /\ Used + n_prod <= SIZE
      BY Zenon DEF RingInv
    <3>2. Used - n_cons + k \in Nat /\ n_cons + (Used - n_cons + k) = Used + k /\ Used + k <= SIZE
      BY <1>1, <3>1
    <3>3. Mask(wrapping_add(consumer', Used - n_cons + k)) = At(Used + k)
      BY <1>4, <3>2, Zenon
    <3>4. descs[At(Used + k)] = entries[k + 1]
      BY Zenon DEF RingInv
    <3> QED BY <1>3, <3>3, <3>4, Zenon
  <2> QED BY <1>2, <1>3, <2>1, <2>2, Zenon DEF RingInv, ReleaseConsumer, produceVars, At
<1>6. /\ Contents \in Seq(Entry) /\ Len(Contents) = Used
      /\ \A k \in 1..Used : Contents[k] = descs[At(k - 1)]
  BY ContentsAre, Zenon
<1>7. out = SubSeq(Contents, 1, n_cons)
  <2>1. SubSeq(Contents, 1, n_cons) = [k \in 1..n_cons |-> Contents[k]]
    BY <1>1, <1>6
  <2>2. out = [k \in 1..n_cons |-> out[k]]
    BY <1>1
  <2>3. ASSUME NEW k \in 1..n_cons PROVE out[k] = Contents[k]
    <3>1. k - 1 \in 0..Len(out) - 1 /\ (k - 1) + 1 = k /\ k \in 1..Used
      BY <1>1
    <3>2. out[(k - 1) + 1] = descs[At(k - 1)]
      BY <1>1, <3>1, Zenon DEF RingInv
    <3> QED BY <1>6, <3>1, <3>2, Zenon
  <2> QED BY <2>1, <2>2, <2>3, Zenon
<1>8. Contents' = SubSeq(Contents, n_cons + 1, Len(Contents))
  <2>1. Contents' = [k \in 1..Used - n_cons |-> descs[Mask(wrapping_add(consumer', k - 1))]]
    BY <1>2, <1>3, Zenon DEF Contents, Used, At
  <2>2. SubSeq(Contents, n_cons + 1, Used) = [k \in 1..Used - n_cons |-> Contents[n_cons + k]]
    BY <1>1, <1>6
  <2>3. ASSUME NEW k \in 1..Used - n_cons PROVE descs[Mask(wrapping_add(consumer', k - 1))] = Contents[n_cons + k]
    <3>1. /\ k - 1 \in Nat /\ n_cons + (k - 1) <= SIZE /\ n_cons + k \in 1..Used
          /\ n_cons + (k - 1) = (n_cons + k) - 1
      BY <1>1
    <3>2. Mask(wrapping_add(consumer', k - 1)) = At((n_cons + k) - 1)
      BY <1>4, <3>1, Zenon
    <3> QED BY <1>6, <3>1, <3>2, Zenon
  <2> QED BY <1>6, <2>1, <2>2, <2>3, Zenon
<1>9. Abstract!Dequeue(n_cons)
  BY <1>1, <1>6, <1>7, <1>8, Zenon DEF Abstract!Dequeue, ReleaseConsumer
<1> QED BY <1>1, <1>5, <1>9, Zenon

LEMMA RingStep ==
  ASSUME RingInv, [RingNext]_ringVars
  PROVE  RingInv' /\ [Abstract!Next]_<<Contents, returned>>
<1>1. CASE \E s \in Entries : LoadProducer(s)
  BY <1>1, LoadProducerRefines, Zenon
<1>2. CASE AcquireConsumer
  BY <1>2, AcquireConsumerRefines, Zenon
<1>3. CASE WriteEntry
  BY <1>3, WriteEntryRefines, Zenon
<1>4. CASE ReleaseProducer
  BY <1>4, ReleaseProducerRefines, Zenon DEF Abstract!Next
<1>5. CASE \E m \in 0..MAX_BATCH : LoadIndices(m)
  BY <1>5, LoadIndicesRefines, Zenon
<1>6. CASE ReadEntry
  BY <1>6, ReadEntryRefines, Zenon
<1>7. CASE ReleaseConsumer
  BY <1>7, ReleaseConsumerRefines, Zenon DEF Abstract!Next
<1>8. CASE UNCHANGED ringVars
  <2>1. Used' = Used /\ (\A k : At(k)' = At(k)) /\ Contents' = Contents
    BY <1>8, Standing, SameContents, Zenon DEF ringVars
  <2> QED BY <1>8, <2>1, Zenon DEF RingInv, ringVars, produceVars, consumeVars
<1> QED BY <1>1, <1>2, <1>3, <1>4, <1>5, <1>6, <1>7, <1>8, Zenon DEF RingNext

\* For every size, every number of index values it divides and every batch, the ring
\* implements the bounded queue: each call of produce and of consume takes effect at
\* its release store, and all other steps are invisible.
THEOREM RingImplementsFifo == RingSpec => RingIsFifo
BY RingInitInv, RingStep, PTL DEF RingSpec, RingIsFifo, Abstract!Spec

=============================================================================
