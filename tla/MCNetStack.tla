----------------------------- MODULE MCNetStack -----------------------------
(* Instances of NetStack for TLC.                                          *)
EXTENDS NetStack, TLC

AnyMbuf == Permutations(Mbuf)

(* One frame for each way the lower layers end.                            *)
SomeLow == {"arp_op", "icmp_echo", "igmp_query"}

Ignored == {"arp_reply", "tcp"}
Fatal == {"icmp_stranger", "igmp_bad"}
ServerFrames == {"request", "request_first", "request_rest"}
ClientFrames == {"ack", "reply", "reply_part", "reply_bad", "drop"}

AllFrames == SomeLow \cup Ignored \cup Fatal \cup ServerFrames \cup ClientFrames
=============================================================================
