---------------------------- MODULE FrameFilter ----------------------------
(***************************************************************************)
(* Which frames reach a worker, and what it makes of them: the XDP filter  *)
(* (pesigitg-ebpf) and the worker's parse_frame (packet.rs) walk the same  *)
(* headers, each with its own bounds.                                      *)
(*                                                                         *)
(* A frame is its chain of headers and the number of octets that arrived;  *)
(* a field can be read if its octets did.  eth is "ip4", "ip6" or "other"; *)
(* ip and, for an ICMP error, the echoed header inner are [ihl, exts,      *)
(* proto]: the IPv4 header length, the IPv6 extension headers, and the     *)
(* protocol they lead to.                                                  *)
(***************************************************************************)
EXTENDS Integers, Sequences, FiniteSetsExt, Functions

CONSTANTS
  Frames,       \* the frames considered
  PORTS         \* the monitored ports

Ext == [kind: {"options", "fragment"}, ext_len: 0..255]
IpHeader == [ihl: Nat, exts: Seq(Ext), proto: {"udp", "icmp", "other"}]

Port == 0..65535

ASSUME FramesAssumption ==
  Frames \subseteq [eth: {"ip4", "ip6", "other"}, ip: IpHeader, icmp_error: BOOLEAN,
                    inner: IpHeader, len: Nat,
                    dst_port: Port, inner_src_port: Port, inner_dst_port: Port]

ETH_HDR_LEN == 14
IPV4_MIN_HDR_LEN == 20
IPV6_HDR_LEN == 40
ICMP_HDR_LEN == 8
UDP_HDR_LEN == 8
MAX_IPV6_EXT_HDRS == 6

\* Octets offset .. offset + n - 1 arrived.
Holds(f, offset, n) == offset + n <= f.len

\* The length field of an extension header counts groups of eight octets after the
\* first; fragment headers have none.
ExtLen(e) == IF e.kind = "fragment" THEN 8 ELSE (e.ext_len + 1) * 8

\* The first n extension headers.
ExtsLen(exts, n) ==
  LET upto[k \in 0..Len(exts)] == IF k = 0 THEN 0 ELSE upto[k - 1] + ExtLen(exts[k])
  IN  upto[n]

\* The bounded walk over extension headers from `start`: does it leave the frame,
\* where does it end and at which protocol.
WalkExts(f, ip, start) ==
  LET n == Min({Len(ip.exts), MAX_IPV6_EXT_HDRS})
  IN  [short  |-> \E k \in 1..n :
                    ~Holds(f, start + ExtsLen(ip.exts, k - 1),
                           IF ip.exts[k].kind = "fragment" THEN 1 ELSE 2),
       offset |-> start + ExtsLen(ip.exts, n),
       proto  |-> IF Len(ip.exts) > n THEN "ext" ELSE ip.proto]

-----------------------------------------------------------------------------
(* The XDP filter.  A result has r = "err" (XDP_ABORTED), "none" (XDP_PASS)  *)
(* or "port", the port it found.                                             *)

Err == [r |-> "err", port |-> 0]
NoPort == [r |-> "none", port |-> 0]
PortAt(f, offset, port) == IF Holds(f, offset, 2) THEN [r |-> "port", port |-> port] ELSE Err

parse_ipv4(f) ==
  LET l4 == ETH_HDR_LEN + f.ip.ihl
      inner == l4 + ICMP_HDR_LEN
  IN  IF ~Holds(f, ETH_HDR_LEN, 1) \/ f.ip.ihl < IPV4_MIN_HDR_LEN
         \/ ~Holds(f, ETH_HDR_LEN + 9, 1) THEN Err
      ELSE IF f.ip.proto = "udp" THEN PortAt(f, l4 + 2, f.dst_port)
      ELSE IF f.ip.proto # "icmp" THEN NoPort
      ELSE IF ~Holds(f, l4, 1) THEN Err
      ELSE IF ~f.icmp_error THEN NoPort
      ELSE IF ~Holds(f, inner, 1) THEN Err
      ELSE IF f.inner.ihl < IPV4_MIN_HDR_LEN THEN NoPort
      ELSE IF ~Holds(f, inner + 9, 1) THEN Err
      ELSE IF f.inner.proto # "udp" THEN NoPort
      ELSE PortAt(f, inner + f.inner.ihl, f.inner_src_port)

parse_ipv6(f) ==
  LET w == WalkExts(f, f.ip, ETH_HDR_LEN + IPV6_HDR_LEN)
      inner == w.offset + ICMP_HDR_LEN
      v == WalkExts(f, f.inner, inner + IPV6_HDR_LEN)
  IN  IF ~Holds(f, ETH_HDR_LEN + 6, 1) \/ w.short THEN Err
      ELSE IF w.proto = "udp" THEN PortAt(f, w.offset + 2, f.dst_port)
      ELSE IF w.proto # "icmp" THEN NoPort
      ELSE IF ~Holds(f, w.offset, 1) THEN Err
      ELSE IF ~f.icmp_error THEN NoPort
      ELSE IF ~Holds(f, inner + 6, 1) \/ v.short THEN Err
      ELSE IF v.proto # "udp" THEN NoPort
      ELSE PortAt(f, v.offset, f.inner_src_port)

\* try_pesigitg and its caller
pesigitg(f) ==
  LET found == IF f.eth = "ip4" THEN parse_ipv4(f) ELSE parse_ipv6(f)
  IN  IF ~Holds(f, 12, 2) THEN "XDP_ABORTED"
      ELSE IF f.eth = "other" THEN "XDP_PASS"
      ELSE IF found.r = "err" THEN "XDP_ABORTED"
      ELSE IF found.r = "port" /\ found.port \in PORTS THEN "redirect"
      ELSE "XDP_PASS"

\* The filter takes the length field modulo 32: with a longer header it goes on
\* reading somewhere inside that header.
Astray(f) ==
  \E e \in Range(f.ip.exts) \cup Range(f.inner.exts) : e.kind = "options" /\ e.ext_len >= 32

-----------------------------------------------------------------------------
(* The worker's parser: the layout found, or l4 = "none".  at is the offset  *)
(* of the (echoed) UDP header, port the local port.                          *)

NotParsed == [l4 |-> "none", at |-> 0, port |-> 0]

\* Mutant: the ports are enough, as in an echoed header.
UdpPortsOnly(f, at) ==
  IF Holds(f, at, 4) THEN [l4 |-> "udp", at |-> at, port |-> f.dst_port]
  ELSE NotParsed

Udp(f, at) ==
  IF Holds(f, at, UDP_HDR_LEN) THEN [l4 |-> "udp", at |-> at, port |-> f.dst_port]
  ELSE NotParsed

\* Mutant: the flow is not reversed.
IcmpForwardFlow(f, at) ==
  IF Holds(f, at, 4) THEN [l4 |-> "icmp", at |-> at, port |-> f.inner_dst_port]
  ELSE NotParsed

\* Of the echoed UDP header only the ports must be there.
Icmp(f, at) ==
  IF Holds(f, at, 4) THEN [l4 |-> "icmp", at |-> at, port |-> f.inner_src_port]
  ELSE NotParsed

parse_frame_icmp_ipv4(f, icmp) ==
  LET inner == icmp + ICMP_HDR_LEN
  IN  IF /\ Holds(f, inner, IPV4_MIN_HDR_LEN) /\ f.icmp_error
         /\ f.inner.ihl >= IPV4_MIN_HDR_LEN /\ f.inner.proto = "udp"
      THEN Icmp(f, inner + f.inner.ihl)
      ELSE NotParsed

parse_frame_ipv4(f) ==
  LET l4 == ETH_HDR_LEN + f.ip.ihl
  IN  IF ~Holds(f, ETH_HDR_LEN, IPV4_MIN_HDR_LEN) \/ f.ip.ihl < IPV4_MIN_HDR_LEN
      THEN NotParsed
      ELSE CASE f.ip.proto = "udp"  -> Udp(f, l4)
             [] f.ip.proto = "icmp" -> parse_frame_icmp_ipv4(f, l4)
             [] OTHER -> NotParsed

parse_frame_icmpv6(f, icmp) ==
  LET inner == icmp + ICMP_HDR_LEN
      v == WalkExts(f, f.inner, inner + IPV6_HDR_LEN)
  IN  IF Holds(f, inner, IPV6_HDR_LEN) /\ f.icmp_error /\ ~v.short /\ v.proto = "udp"
      THEN Icmp(f, v.offset)
      ELSE NotParsed

parse_frame_ipv6(f) ==
  LET w == WalkExts(f, f.ip, ETH_HDR_LEN + IPV6_HDR_LEN)
  IN  IF ~Holds(f, ETH_HDR_LEN, IPV6_HDR_LEN) \/ w.short THEN NotParsed
      ELSE CASE w.proto = "udp"  -> Udp(f, w.offset)
             [] w.proto = "icmp" -> parse_frame_icmpv6(f, w.offset)
             [] OTHER -> NotParsed

parse_frame(f) ==
  IF ~Holds(f, 0, ETH_HDR_LEN) \/ f.eth = "other" THEN NotParsed
  ELSE IF f.eth = "ip4" THEN parse_frame_ipv4(f) ELSE parse_frame_ipv6(f)

-----------------------------------------------------------------------------
(* A frame's way.                                                           *)

VARIABLES
  frame,
  place         \* "nic", "kernel", "aborted", "ring", "parsed", "passed", "panicked"

wayVars == <<frame, place>>

WayInit == frame \in Frames /\ place = "nic"

\* The program runs on the frame.  What it finds off the headers may be anything.
Xdp ==
  /\ place = "nic"
  /\ place' \in IF Astray(frame) THEN {"kernel", "aborted", "ring"}
            ELSE {CASE pesigitg(frame) = "XDP_PASS"    -> "kernel"
                    [] pesigitg(frame) = "XDP_ABORTED" -> "aborted"
                    [] pesigitg(frame) = "redirect"    -> "ring"}
  /\ UNCHANGED frame

\* The worker parses what the socket's ring gave it; process_udp and process_icmp
\* slice the frame behind the UDP header.
process_packet_parsed ==
  /\ place = "ring"
  /\ place' = LET p == parse_frame(frame)
           IN  IF p.l4 = "none" THEN "passed"
               ELSE IF p.at + UDP_HDR_LEN > frame.len THEN "panicked" ELSE "parsed"
  /\ UNCHANGED frame

WayNext == Xdp \/ process_packet_parsed

WaySpec == WayInit /\ [][WayNext]_wayVars

-----------------------------------------------------------------------------
(* Properties                                                               *)

ForWorkers(parsed) == parsed.l4 # "none" /\ parsed.port \in PORTS

\* The filter redirects every frame in which parse_frame finds a monitored port, and
\* no other, unless it ends inside its (echoed) UDP header: no flow is taken from
\* the kernel only to be dropped, and none that the daemon would route stays behind.
\* Frames with an extension header of more than 256 octets aside, which the filter
\* does not follow.
FilterMatchesParser ==
  ~Astray(frame) =>
    /\ place \in {"kernel", "aborted"} => ~ForWorkers(parse_frame(frame))
    /\ place \in {"ring", "parsed", "passed", "panicked"} =>
         ForWorkers(parse_frame([frame EXCEPT !.len = @ + 4]))

\* A worker leaves the bounds of a frame only if it is an ICMP error that ends inside
\* the echoed UDP header: parse_frame asks for four of that header's octets,
\* process_icmp starts behind all eight.
OnlyCutEchoesPanic ==
  place = "panicked" =>
    LET p == parse_frame(frame)
    IN  p.l4 = "icmp" /\ frame.len \in (p.at + 4)..(p.at + 7)
=============================================================================
