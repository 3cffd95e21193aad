---------------------------- MODULE ChannelUnit ----------------------------
(***************************************************************************)
(* The runtime's channel (module Channel) beside the same channel as a     *)
(* unit of registers (module Buffer), at the same edges and between the    *)
(* same two sides: tx_valid is the offer the run made in the step, and     *)
(* rx_ready is up if a receiver took something.  This is the comparison of *)
(* the test buffer_is_the_runtime_channel, whatever the two sides do.  The *)
(* netlist's own channel is a third thing, the hand-written module         *)
(* <top>_txhdl_chan, and not modelled.                                     *)
(***************************************************************************)
EXTENDS Channel

VARIABLES
  uhead, uhead_full, utail, utail_full,  \* the unit's registers
  usent, urcvd                           \* its counts

unit == <<uhead, uhead_full, utail, utail_full, usent, urcvd>>

B == INSTANCE Buffer WITH
  head <- uhead, head_full <- uhead_full,
  tail <- utail, tail_full <- utail_full,
  sent <- usent, rcvd <- urcvd

(* The unit has no bypass: beside an unregistered channel it stands still. *)
UnitEdge == IF Unreg THEN UNCHANGED unit ELSE B!Cycle(offering, got # <<>>)

UnitInit == Init /\ B!Init

UnitNext ==
  \/ EndStep /\ UnitEdge
  \/ (todo # {} \/ refused) /\ Next /\ UNCHANGED unit

UnitSpec == UnitInit /\ [][UnitNext]_<<vars, unit>> /\ Fairness

(* The unit keeps "the runtime's rules exactly" (the doc of buffer.rs): at *)
(* every edge it holds what the runtime's cell holds, has room when it has *)
(* and offers what it offers, whatever the processes did in whichever      *)
(* order, an #[axi] port's offers without room and resets included.        *)
UnitAgrees ==
  ~Unreg =>
    /\ B!Buffered = Buffered
    /\ B!tx_ready = Ready
    /\ usent = sent /\ urcvd = rcvd
=============================================================================
