--------------------------- MODULE MCLwipTimeouts ---------------------------
(* TLC instances of LwipTimeouts. *)
EXTENDS LwipTimeouts, TLC

CONSTANTS Arp, Igmp

ArpAndIgmp == <<Arp, Igmp>>

\* ARP_TMR_INTERVAL is the longest; IGMP_TMR_INTERVAL and TCP_TMR_INTERVAL are
\* rounded to the same: a graph of this size has a timer cut short that is early.
Intervals == (Arp :> 4) @@ (Igmp :> 2) @@ (Tcp :> 2)
=============================================================================
