---------------------------- MODULE MCBroadcasts ----------------------------
(* Two broadcasts, two workers, two users and a chat. *)
EXTENDS Broadcasts

CONSTANTS m1, m2, w1, w2, u1, u2, group

MCMessages == {m1, m2}
MCWorkers == {w1, w2}
MCUsers == {u1, u2}
MCChats == {group}
=============================================================================
