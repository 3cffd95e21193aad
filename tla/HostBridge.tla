----------------------------- MODULE HostBridge -----------------------------
(***************************************************************************)
(* The host side of the network's exit, HostBridge in                      *)
(* lib/parts/src/bus/noc/bridge.rs, as it carries writes, with the         *)
(* registers of the source: a write of one beat is one packet, a longer    *)
(* one is split into as many, whose answers are merged into one, and a     *)
(* wrapping one is eaten and refused.                                      *)
(*                                                                         *)
(* Cycle is one cycle of the unit.  Between cycles the host offers writes, *)
(* as AxiHost does: each under an identifier none of its open writes has,  *)
(* its beats after those of the writes before.  The network brings the     *)
(* answers to the packets back in any order.                               *)
(*                                                                         *)
(* The address, the data and the hints of a phase pass through and are     *)
(* left out, and with them the choice of the node a packet goes to.  A     *)
(* read keeps nothing here: it takes the link in a cycle in which no write *)
(* does, and its answers pass; both are among the cycles in which nothing  *)
(* of this model moves.                                                    *)
(***************************************************************************)
EXTENDS Naturals, Sequences, FiniteSets

CONSTANTS
  Ids,       \* the host's identifiers
  LenBits,   \* the width of len, left and pend, 8 in the source
  Lens,      \* bound: the lengths the host uses, in beats less one
  Wraps,     \* bound: whether its long writes wrap
  MaxOpen,   \* bound: the writes the host has open at a time
  Careful    \* the host has several writes open only if each is to be split

Top == 2 ^ LenBits

ASSUME HostBridgeAssumption ==
  /\ 0 \in Ids /\ Ids \subseteq Nat
  /\ LenBits \in Nat \ {0} /\ Top \in Nat \ {0}
  /\ Lens \subseteq 0..(Top - 1)
  /\ Wraps \subseteq BOOLEAN
  /\ MaxOpen \in Nat /\ Careful \in BOOLEAN

(* A wrapping burst has two beats or more.                                 *)
Phases == {p \in [id : Ids, len : Lens, wrap : Wraps] : p.wrap => p.len > 0}

VARIABLES
  aw, w,       \* what the host's two channels will show, in order
  left, sid,   \* the burst being split: the beats to leave, its identifier
  pend, err,   \* the answers still to come for it, and any error in them
  eat,         \* the beats of a refused burst are being dropped
  owe, bad,    \* a refused burst's answer is owed, and under what
  net,         \* write packets the network has, per identifier
  want,        \* what each identifier's open write waits for (see Want)
  wrong        \* an answer went to the host that it should not have had

bridge == <<left, sid, pend, err, eat, owe, bad>>
vars == <<aw, w, bridge, net, want, wrong>>

(* What the host is to be told of a write: how many of its beats are still *)
(* to be answered by the far side, or eaten, and whether any failed.       *)
Split(p) == p.len > 0 /\ ~p.wrap
Idle == [open |-> FALSE, split |-> FALSE, beats |-> 0, fail |-> FALSE]
Want(p) ==
  [open |-> TRUE, split |-> Split(p), beats |-> p.len + 1, fail |-> p.wrap]

Init ==
  /\ aw = <<>> /\ w = <<>>
  /\ left = 0 /\ sid = 0 /\ pend = 0 /\ err = FALSE
  /\ eat = FALSE /\ owe = FALSE /\ bad = 0
  /\ net = [d \in Ids |-> 0]
  /\ want = [d \in Ids |-> Idle]
  /\ wrong = FALSE

Open == {d \in Ids : want[d].open}

(* The host issues a write.                                                *)
Offer(p) ==
  /\ p.id \notin Open
  /\ Cardinality(Open) < MaxOpen
  /\ Careful /\ Open # {} => Split(p) /\ \A d \in Open : want[d].split
  /\ aw' = Append(aw, p)
  /\ w' = w \o [k \in 1..(p.len + 1) |-> k = p.len + 1]
  /\ want' = [want EXCEPT ![p.id] = Want(p)]
  /\ UNCHANGED <<bridge, net, wrong>>

-----------------------------------------------------------------------------
(* The wires of a cycle.  here: a beat is shown; room: req has room;       *)
(* ans: the answer rsp shows, if any; broom: b has room.                   *)

offered == aw # <<>>
splitting == left # 0
merging == pend # 0
long == offered /\ aw[1].len # 0
refuse == ~eat /\ ~splitting /\ offered /\ aw[1].wrap

(* Wrong: a long write's first beat does not wait for the one before it.   *)
FirstUnmerged(here, room) ==
  ~eat /\ ~splitting /\ ~refuse /\ offered /\ here /\ room
First(here, room) ==
  /\ ~eat /\ ~splitting /\ ~refuse /\ offered /\ here /\ room
  /\ ~long \/ ~merging
More(here, room) == splitting /\ here /\ room
GoW(here, room) == First(here, room) \/ More(here, room)
DropW(here) == (eat \/ refuse) /\ here
AteLast(here) == DropW(here) /\ Head(w)
Start(here, room) == First(here, room) /\ long

(* The identifier a write packet carries.                                  *)
PacketId == IF splitting THEN sid ELSE aw[1].id

LastOne == pend = 1

(* Wrong: an answer is counted when no burst is being merged.              *)
MineUnmerged(ans) == \E a \in ans : a.id = sid
Mine(ans) == \E a \in ans : merging /\ a.id = sid
DoneB(ans, broom) == Mine(ans) /\ LastOne /\ broom

(* Wrong: the last answer is counted although the host has no room for it. *)
MergeBlind(ans, broom) == Mine(ans)
Merge(ans, broom) == Mine(ans) /\ (~LastOne \/ broom)
ToB(ans, broom) == ans # {} /\ ~Mine(ans) /\ broom

(* Wrong: only the last answer's error counts.                             *)
ErrNowLast(ans, broom) == Merge(ans, broom) /\ \E a \in ans : a.fail
ErrNow(ans, broom) == err \/ (Merge(ans, broom) /\ \E a \in ans : a.fail)

Say(ans, broom) == owe /\ ~ToB(ans, broom) /\ ~DoneB(ans, broom) /\ broom

OweNext(here, say) == IF say THEN FALSE ELSE owe \/ AteLast(here)

(* The answer the host is given, if any.                                   *)
Told(ans, broom) ==
  IF ToB(ans, broom) THEN ans
  ELSE IF DoneB(ans, broom) THEN {[id |-> sid, fail |-> ErrNow(ans, broom)]}
  ELSE IF Say(ans, broom) THEN {[id |-> bad, fail |-> TRUE]}
  ELSE {}

-----------------------------------------------------------------------------
Registers(here, room, ans, broom) ==
  /\ eat' = IF AteLast(here) THEN FALSE ELSE eat \/ refuse
  /\ bad' = IF refuse THEN aw[1].id ELSE bad
  /\ owe' = OweNext(here, Say(ans, broom))
  /\ left' = IF First(here, room) THEN aw[1].len
             ELSE IF More(here, room) THEN left - 1
             ELSE left
  /\ sid' = IF First(here, room) THEN aw[1].id ELSE sid
  /\ pend' = IF Start(here, room) THEN (aw[1].len + 1) % Top
             ELSE IF Merge(ans, broom) THEN pend - 1
             ELSE pend
  /\ err' = IF Start(here, room) THEN FALSE
            ELSE IF Merge(ans, broom) THEN ErrNow(ans, broom)
            ELSE err

Taken(ans, broom) == ToB(ans, broom) \/ Merge(ans, broom)

(* The write a beat that is dropped belongs to.                            *)
Refused == IF eat THEN bad ELSE aw[1].id

(* A beat answered or eaten, or an error, as the host's write sees it.     *)
Counted(here, ans, broom) ==
  LET answered == {a \in ans : Taken(ans, broom)}
      eaten == IF DropW(here) THEN {Refused} ELSE {}
  IN [d \in Ids |->
       LET n == Cardinality({a \in answered : a.id = d})
                  + (IF d \in eaten THEN 1 ELSE 0)
       IN IF n <= want[d].beats /\ n > 0
          THEN [want[d] EXCEPT !.beats = @ - n,
                  !.fail = @ \/ \E a \in answered : a.id = d /\ a.fail]
          ELSE want[d]]

(* Whether the host may be told this of a write.                           *)
Right(counted, told) ==
  \A t \in told : LET c == counted[t.id]
                  IN c.open /\ c.beats = 0 /\ c.fail = t.fail

Cycle(here, room, ans, broom) ==
  LET told == Told(ans, broom)
      counted == Counted(here, ans, broom)
  IN
    /\ here => w # <<>>
    /\ Registers(here, room, ans, broom)
    /\ aw' = IF First(here, room) \/ refuse THEN Tail(aw) ELSE aw
    /\ w' = IF GoW(here, room) \/ DropW(here) THEN Tail(w) ELSE w
    /\ net' = [d \in Ids |->
         net[d] + (IF GoW(here, room) /\ d = PacketId THEN 1 ELSE 0)
                - (IF Taken(ans, broom) /\ \E a \in ans : a.id = d THEN 1 ELSE 0)]
    /\ wrong' = (wrong \/ ~Right(counted, told))
    /\ want' = [d \in Ids |->
         IF \E t \in told : t.id = d THEN Idle ELSE counted[d]]

Answers == {[id |-> d, fail |-> f] : d \in {e \in Ids : net[e] > 0}, f \in BOOLEAN}

AnyCycle ==
  \E here, room, broom \in BOOLEAN, ans \in {{}} \cup {{a} : a \in Answers} :
    Cycle(here, room, ans, broom)

(* The reset empties the channels, and the units at the far ends.          *)
Reset ==
  /\ aw' = <<>> /\ w' = <<>>
  /\ left' = 0 /\ sid' = 0 /\ pend' = 0 /\ err' = FALSE
  /\ eat' = FALSE /\ owe' = FALSE /\ bad' = 0
  /\ net' = [d \in Ids |-> 0]
  /\ want' = [d \in Ids |-> Idle]
  /\ UNCHANGED wrong

Next == AnyCycle \/ (\E p \in Phases : Offer(p)) \/ Reset

Spec == Init /\ [][Next]_vars

-----------------------------------------------------------------------------
Count == 0..(Top - 1)

TypeOK ==
  /\ aw \in Seq(Phases) /\ w \in Seq(BOOLEAN)
  /\ left \in Count /\ sid \in Ids /\ pend \in Count /\ err \in BOOLEAN
  /\ eat \in BOOLEAN /\ owe \in BOOLEAN /\ bad \in Ids
  /\ net \in [Ids -> Nat]
  /\ want \in [Ids -> [open : BOOLEAN, split : BOOLEAN, beats : 0..Top, fail : BOOLEAN]]
  /\ wrong \in BOOLEAN

(* The host is answered for a write it has open, once, when the last of    *)
(* its beats has been answered or eaten, and with an error exactly if one  *)
(* of its beats' answers was an error or it was refused (pend, err, owe).  *)
AnswersRight == ~wrong

(* Every write is answered, or dropped by a reset.                         *)
AllAnswered == \A d \in Ids : []<>~want[d].open
=============================================================================
