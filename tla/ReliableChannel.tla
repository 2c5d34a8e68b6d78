--------------------------- MODULE ReliableChannel ---------------------------
(***************************************************************************)
(* What a UDT connection promises in one direction: the blocks that one    *)
(* application sends are delivered to the other in the order in which they *)
(* were sent, each of them once, and the sender forgets none before the    *)
(* receiver has accepted it.  Neither end holds more than it has room for. *)
(***************************************************************************)
EXTENDS Naturals, Sequences

CONSTANTS SndRoom,    \* the blocks the sender can hold
          RcvRoom     \* the blocks the receiver can hold

VARIABLES sent,       \* how many blocks have been sent
          accepted,   \* how many of them the receiver answers for
          freed,      \* how many of them the sender has forgotten
          out         \* the blocks delivered, by number

channelVars == <<sent, accepted, freed, out>>

ChannelInit == sent = 0 /\ accepted = 0 /\ freed = 0 /\ out = << >>

Send ==
  /\ sent' \in sent + 1 .. freed + SndRoom
  /\ UNCHANGED <<accepted, freed, out>>

Accept ==
  /\ accepted' \in accepted + 1 .. sent
  /\ accepted' <= Len(out) + RcvRoom
  /\ UNCHANGED <<sent, freed, out>>

Free ==
  /\ freed' \in freed + 1 .. accepted
  /\ UNCHANGED <<sent, accepted, out>>

Deliver ==
  /\ \E n \in Len(out) + 1 .. accepted : out' = [i \in 1 .. n |-> i]
  /\ UNCHANGED <<sent, accepted, freed>>

ChannelNext == Send \/ Accept \/ Free \/ Deliver

ChannelSpec == ChannelInit /\ [][ChannelNext]_channelVars
=============================================================================
