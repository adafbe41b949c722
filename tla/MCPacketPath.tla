---------------------------- MODULE MCPacketPath ----------------------------
(***************************************************************************)
(* The way of a packet for TLC: a frame from the NIC to the parser, the    *)
(* tally of the load tracker, and the routing of what was parsed.  They    *)
(* share no state; a behaviour is one of the part it starts with, and the  *)
(* others keep still.                                                      *)
(***************************************************************************)
EXTENDS MCDatapath, FrameFilter, LoadRate

VARIABLE part

Opt(n) == [kind |-> "options", ext_len |-> n]
Frag == [kind |-> "fragment", ext_len |-> 0]
ManyExts(n) == [i \in 1..n |-> Opt(0)]

\* Header chains: IPv4 with a bad, a plain and a long header, IPv6 with none, some, as
\* many as are followed and one more extension header, and one too long to follow.
Ip4 == [ihl: {16, 20, 24}, exts: {<< >>}, proto: {"udp", "icmp", "other"}]
Ip6 == [ihl: {0}, proto: {"udp", "icmp", "other"},
        exts: {<< >>, <<Frag, Opt(1)>>, <<Opt(32)>>, ManyExts(6), ManyExts(7)}]

\* One of the two flows is monitored, and the octets that arrived end anywhere.
Shape(eth, ips) ==
  {f \in [eth: {eth}, ip: ips, icmp_error: BOOLEAN, inner: ips, len: 12..172,
          dst_port: {1, 2}, inner_src_port: {1, 2}, inner_dst_port: {3}] :
     /\ f.inner_src_port = 3 - f.dst_port
     /\ f.ip.proto # "icmp" => ~f.icmp_error
     /\ ~f.icmp_error => f.inner = f.ip}
SomeFrames == Shape("ip4", Ip4) \cup Shape("ip6", Ip6) \cup Shape("other", Ip4)

AnyFrame == CHOOSE f \in Frames : TRUE

pathVars == <<part, vars, wayVars, rateVars>>

PathInit ==
  /\ part \in {"frame", "load", "routing"}
  /\ Init /\ (part # "routing" => live = Table(BothUp))
  /\ frame \in IF part = "frame" THEN Frames ELSE {AnyFrame}
  /\ WayInit
  /\ RateInit

PathNext ==
  /\ part' = part
  /\ \/ part = "frame" /\ WayNext /\ UNCHANGED <<vars, rateVars>>
     \/ part = "load" /\ RateNext /\ UNCHANGED <<vars, wayVars>>
     \/ part = "routing" /\ Next /\ UNCHANGED <<wayVars, rateVars>>

PathSpec == PathInit /\ [][PathNext]_pathVars
=============================================================================
