---------------------------- MODULE MCRtpSender ----------------------------
(* Files of one to three units whose bytes look like start codes as much as *)
(* they can, units longer than a packet and longer than a block among them, *)
(* and files too short to hold a unit.                                      *)
EXTENDS RtpSender

Code == <<0, 0, 0, 1>>
Short(n) == UNION {[1 .. k -> {0, 1}] : k \in 0 .. n}
Long == {<<1, 0, 0, 1>>, <<1, 0, 0, 0, 0>>, <<0, 0, 1, 0, 0, 0>>,
         <<2, 1, 0, 0, 0, 2>>, <<1, 1, 0, 1, 1, 0, 0>>}
MCFiles ==
    {Code \o p \o Code \o q : p \in Short(3) \cup Long,
                               q \in Short(3) \cup Long}
    \cup {Code \o p \o Code \o q \o Code \o <<2>> :
              p \in Short(1), q \in Short(2)}
    \cup {SubSeq(Code, 1, k) : k \in 0 .. 4}
=============================================================================
