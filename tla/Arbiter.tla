------------------------------ MODULE Arbiter ------------------------------
(***************************************************************************)
(* The AXI arbiter, Arbiter in lib/parts/src/bus/arbiter.rs: several hosts *)
(* on one peripheral link, with the registers of the source.               *)
(*                                                                         *)
(* Cycle is one cycle of the unit.  Between cycles a host whose channel    *)
(* shows no address phase may come to show one, and then shows it until it *)
(* is taken.  Whether the link has room in a cycle, whether the beat the   *)
(* unit wants is there, and which answer the peripheral side has and its   *)
(* host has room for, are anybody's choice.                                *)
(*                                                                         *)
(* A phase keeps the fields the arbiter reads: the identifier, lock, and a *)
(* write's length.  Addresses and data pass through; a beat is its last    *)
(* flag.  A read is answered by one beat, since the unit passes each beat  *)
(* by its identifier alone.  htimeouts, which only a test reads, is left   *)
(* out.                                                                    *)
(***************************************************************************)
EXTENDS Naturals, Sequences, FiniteSets

CONSTANTS
  N,          \* HOSTS
  I, J,       \* the widths of a host's identifier and of the link's
  FIXED, HOLD,
  PRIO,       \* the host whose reads go first, 8 for none
  HoldMax,    \* the cycles hleft starts from, 127 in the source
  Ids, Lens,  \* bounds: the identifiers and lengths used
  RLocks, WLocks,  \* bounds: the lock flags of reads, and of writes
  MaxReads,   \* bound: the reads it has open under one identifier
  MaxWrites,  \* bound: the writes it has open in all
  Track,      \* bound: whether to count the turns
  NoReq       \* a channel that shows nothing

ASSUME ArbiterAssumption ==
  /\ N \in 1..8 /\ I \in Nat /\ J \in Nat /\ I <= J /\ N <= 2 ^ (J - I)
  /\ FIXED \in BOOLEAN /\ HOLD \in BOOLEAN /\ PRIO \in 0..8
  /\ HoldMax \in Nat
  /\ Ids \subseteq 0..(2 ^ I - 1) /\ Lens \subseteq Nat \ {0}
  /\ RLocks \subseteq BOOLEAN /\ WLocks \subseteq BOOLEAN
  /\ MaxReads \in Nat /\ MaxWrites \in Nat /\ Track \in BOOLEAN

(* What this means for the tags, in the arithmetic the provers have: they  *)
(* take no powers.  The link's identifier has room for every host's.       *)
ASSUME PowerAssumption ==
  /\ 2 ^ I \in Nat \ {0} /\ 2 ^ J \in Nat \ {0}
  /\ N * 2 ^ I <= 2 ^ J

Hosts == 0..(N - 1)
Tags == 0..(2 ^ J - 1)
Reads == [id : Ids, lock : RLocks]
Writes == [id : Ids, lock : WLocks, len : Lens]
ASSUME NoReqAssumption == NoReq \notin Reads \cup Writes

VARIABLES
  ars, aws,     \* what each host's address channels show
  beats,        \* the beats each host has yet to hand over, as last flags
  wbusy, wsel,  \* the lock of the write data channel; wsel as a set of bits
  rturn, wturn, \* where the round robins start looking
  hold, howner, hleft,  \* the exclusive hold
  open,         \* write bursts on the link whose beats are not all out
  rdue, bdue,   \* answers the peripheral side owes, per link identifier
  rask, bask,   \* answers each host waits for, per identifier
  rpassed, wpassed,  \* grants of another host since a waiting one offered
  since         \* another's write granted since the host's exclusive read

unit == <<wbusy, wsel, rturn, wturn, hold, howner, hleft>>
world == <<ars, aws, beats, open, rdue, bdue, rask, bask>>
history == <<rpassed, wpassed, since>>
vars == <<unit, world, history>>

Init ==
  /\ ars = [i \in Hosts |-> NoReq] /\ aws = [i \in Hosts |-> NoReq]
  /\ beats = [i \in Hosts |-> <<>>]
  /\ wbusy = FALSE /\ wsel = {} /\ rturn = 0 /\ wturn = 0
  /\ hold = FALSE /\ howner = 0 /\ hleft = 0
  /\ open = <<>>
  /\ rdue = [t \in Tags |-> 0] /\ bdue = [t \in Tags |-> 0]
  /\ rask = [i \in Hosts |-> [d \in Ids |-> 0]]
  /\ bask = [i \in Hosts |-> [d \in Ids |-> 0]]
  /\ rpassed = [i \in Hosts |-> [j \in Hosts |-> 0]]
  /\ wpassed = [i \in Hosts |-> [j \in Hosts |-> 0]]
  /\ since = [i \in Hosts |-> FALSE]

-----------------------------------------------------------------------------
(* The hosts, between cycles.                                              *)

OfferRead(i) ==
  /\ ars[i] = NoReq
  /\ \E req \in Reads : ars' = [ars EXCEPT ![i] = req]
  /\ UNCHANGED <<unit, history, aws, beats, open, rdue, bdue, rask, bask>>

OfferWrite(i) ==
  /\ aws[i] = NoReq
  /\ \E req \in Writes :
       /\ aws' = [aws EXCEPT ![i] = req]
       /\ beats' = [beats EXCEPT ![i] = @ \o [k \in 1..req.len |-> k = req.len]]
  /\ UNCHANGED <<unit, history, ars, open, rdue, bdue, rask, bask>>

-----------------------------------------------------------------------------
(* The unit's wires.                                                       *)

held == hold /\ HOLD

Lowest(S) == CHOOSE i \in S : \A j \in S : i <= j

(* Wrong: the round robin starts from the host after the turn.             *)
FirstAfter(offers, turn) ==
  LET hi == IF FIXED THEN offers ELSE {i \in offers : turn < i}
  IN Lowest(IF hi # {} THEN hi ELSE offers)

(* The first eligible host that offers, or the first of any.               *)
First(offers, turn) ==
  LET hi == IF FIXED THEN offers ELSE {i \in offers : turn <= i}
  IN Lowest(IF hi # {} THEN hi ELSE offers)

ArOffers == {i \in Hosts : ars[i] # NoReq}

(* Wrong: the hold is forgotten.                                           *)
AwOffersUnheld == {i \in Hosts : aws[i] # NoReq}

(* A host's write waits while another holds.                               *)
AwOffers == {i \in Hosts : aws[i] # NoReq /\ ~(held /\ howner # i)}

ar_who == IF PRIO \in ArOffers THEN PRIO ELSE First(ArOffers, rturn)
aw_who == First(AwOffers, wturn)

ArGo(room) == ArOffers # {} /\ room

(* Wrong: a write address phase is granted in the middle of a burst.       *)
AwGoBusy(room) == AwOffers # {} /\ room

AwGo(room) == AwOffers # {} /\ room /\ ~wbusy

(* The beat that goes out, from the host whose burst it is.                *)
WGo(beat) == wbusy /\ beat /\ \E i \in wsel : beats[i] # <<>>
Sender == CHOOSE i \in wsel : beats[i] # <<>>

WDone(beat) == WGo(beat) /\ Head(beats[Sender])

(* Wrong: the port number one bit too low.                                 *)
TagLow(who, id) == (id + who * 2 ^ (I - 1)) % 2 ^ J

(* The identifier on the link, and the host it names.                      *)
Tag(who, id) == (id + who * 2 ^ I) % 2 ^ J
Who(tag) == tag \div 2 ^ I
Own(tag) == tag % 2 ^ I

(* Wrong: the turn leaves the last host.                                   *)
AfterWide(who) == who + 1
After(who) == IF who = N - 1 THEN 0 ELSE who + 1

HEnd(aw) == held /\ aw /\ aw_who = howner /\ aws[aw_who].lock

(* Wrong: the hold never runs out.                                         *)
HOutNever(aw) == FALSE
HOut(aw) == held /\ ~HEnd(aw) /\ hleft = 0

HStart(ar, aw) ==
  /\ ar /\ ars[ar_who].lock /\ HOLD
  /\ ~held \/ HEnd(aw) \/ HOut(aw) \/ ar_who = howner

-----------------------------------------------------------------------------
(* One cycle.                                                              *)

Grants(ar, aw, beat) ==
  /\ rturn' = IF ar /\ ~FIXED THEN After(ar_who) ELSE rturn
  /\ wturn' = IF aw /\ ~FIXED THEN After(aw_who) ELSE wturn
  /\ wbusy' = IF WDone(beat) THEN FALSE ELSE aw \/ wbusy
  /\ wsel' = IF aw THEN {aw_who} ELSE wsel
  /\ ars' = IF ar THEN [ars EXCEPT ![ar_who] = NoReq] ELSE ars
  /\ aws' = IF aw THEN [aws EXCEPT ![aw_who] = NoReq] ELSE aws
  /\ beats' = IF WGo(beat) THEN [beats EXCEPT ![Sender] = Tail(@)] ELSE beats

Holds(ar, aw) ==
  /\ hold' = (HStart(ar, aw) \/ (hold /\ ~HEnd(aw) /\ ~HOut(aw)))
  /\ howner' = IF HStart(ar, aw) THEN ar_who ELSE howner
  /\ hleft' = IF HStart(ar, aw) THEN HoldMax
              ELSE IF held THEN (hleft + HoldMax) % (HoldMax + 1)
              ELSE hleft

(* The answers: each to the host its identifier names, the tag taken off.  *)
(* r and b are the identifiers the link answers, if any.                   *)
Answers(ar, aw, r, b, done) ==
  /\ \A t \in r : rdue[t] > 0 /\ Who(t) \in Hosts
  /\ \A t \in b : bdue[t] > 0 /\ Who(t) \in Hosts
  /\ rdue' = [t \in Tags |->
       rdue[t] + (IF ar /\ t = Tag(ar_who, ars[ar_who].id) THEN 1 ELSE 0)
               - (IF t \in r THEN 1 ELSE 0)]
  /\ bdue' = [t \in Tags |->
       bdue[t] + (IF done /\ t = Head(open).tag THEN 1 ELSE 0)
               - (IF t \in b THEN 1 ELSE 0)]
  /\ rask' = [i \in Hosts |-> [d \in Ids |->
       rask[i][d] + (IF ar /\ i = ar_who /\ d = ars[i].id THEN 1 ELSE 0)
                  - (IF \E t \in r : Who(t) = i /\ Own(t) = d THEN 1 ELSE 0)]]
  /\ bask' = [i \in Hosts |-> [d \in Ids |->
       bask[i][d] + (IF aw /\ i = aw_who /\ d = aws[i].id THEN 1 ELSE 0)
                  - (IF \E t \in b : Who(t) = i /\ Own(t) = d THEN 1 ELSE 0)]]

(* The peripheral side's view of the write bursts: the beats belong to the *)
(* oldest address phase whose beats are not all out.                       *)
Opened(aw) ==
  IF aw THEN <<[who |-> aw_who, len |-> aws[aw_who].len,
                tag |-> Tag(aw_who, aws[aw_who].id)]>>
  ELSE <<>>
Advanced(beat) ==
  IF ~WGo(beat) \/ open = <<>> THEN open
  ELSE IF open[1].len = 1 THEN Tail(open)
  ELSE [open EXCEPT ![1].len = @ - 1]

(* How often each host was passed while it waited, counted up to two.      *)
Passed(passed, offers, go, who) ==
  [i \in Hosts |-> [j \in Hosts |->
    IF ~Track \/ i \notin offers \/ (go /\ i = who) THEN 0
    ELSE IF go /\ j = who /\ passed[i][j] < 2 THEN passed[i][j] + 1
    ELSE passed[i][j]]]

Recorded(ar, aw) ==
  /\ rpassed' = Passed(rpassed, ArOffers, ar, ar_who)
  /\ wpassed' = Passed(wpassed, AwOffers, aw, aw_who)
  /\ since' = [i \in Hosts |->
       IF ar /\ i = ar_who /\ ars[i].lock THEN FALSE
       ELSE since[i] \/ (HOLD /\ aw /\ aw_who # i)]

Cycle(arRoom, awRoom, beat, r, b) ==
  LET ar == ArGo(arRoom)
      aw == AwGo(awRoom)
      done == WGo(beat) /\ open # <<>> /\ open[1].len = 1
  IN
    /\ Grants(ar, aw, beat)
    /\ Holds(ar, aw)
    /\ open' = Advanced(beat) \o Opened(aw)
    /\ Answers(ar, aw, r, b, done)
    /\ Recorded(ar, aw)

Owing(due) == {t \in Tags : due[t] > 0}
AtMostOne(S) == {{}} \cup {{t} : t \in S}

(* A cycle in which the link may have the room it has within the bound.    *)
(* Room nobody asks for, and a beat nobody waits for, change nothing.      *)
Bounded(arRoom, awRoom, beat, r, b) ==
  /\ arRoom => ArOffers # {}
  /\ awRoom => AwOffers # {}
  /\ beat => wbusy
  /\ ArGo(arRoom) => rdue[Tag(ar_who, ars[ar_who].id)] < MaxReads
  /\ awRoom => \A t \in Tags : bdue[t] < MaxWrites
  /\ awRoom => Cardinality(Owing(bdue)) + Len(open) < MaxWrites
  /\ Cycle(arRoom, awRoom, beat, r, b)

AnyCycle ==
  \E arRoom, awRoom, beat \in BOOLEAN,
     r \in AtMostOne(Owing(rdue)), b \in AtMostOne(Owing(bdue)) :
    Bounded(arRoom, awRoom, beat, r, b)

(* The reset empties the channels and the units at the far ends as well.   *)
Reset ==
  /\ ars' = [i \in Hosts |-> NoReq] /\ aws' = [i \in Hosts |-> NoReq]
  /\ beats' = [i \in Hosts |-> <<>>]
  /\ wbusy' = FALSE /\ wsel' = {} /\ rturn' = 0 /\ wturn' = 0
  /\ hold' = FALSE /\ howner' = 0 /\ hleft' = 0
  /\ open' = <<>>
  /\ rdue' = [t \in Tags |-> 0] /\ bdue' = [t \in Tags |-> 0]
  /\ rask' = [i \in Hosts |-> [d \in Ids |-> 0]]
  /\ bask' = [i \in Hosts |-> [d \in Ids |-> 0]]
  /\ rpassed' = [i \in Hosts |-> [j \in Hosts |-> 0]]
  /\ wpassed' = [i \in Hosts |-> [j \in Hosts |-> 0]]
  /\ since' = [i \in Hosts |-> FALSE]

Working == AnyCycle \/ \E i \in Hosts : OfferRead(i) \/ OfferWrite(i)

Next == Working \/ Reset

Spec == Init /\ [][Next]_vars

-----------------------------------------------------------------------------
TypeOK ==
  /\ ars \in [Hosts -> Reads \cup {NoReq}]
  /\ aws \in [Hosts -> Writes \cup {NoReq}]
  /\ beats \in [Hosts -> Seq(BOOLEAN)]
  /\ wbusy \in BOOLEAN /\ wsel \subseteq Hosts /\ Cardinality(wsel) <= 1
  /\ rturn \in Hosts /\ wturn \in Hosts
  /\ hold \in BOOLEAN /\ howner \in Hosts /\ hleft \in 0..HoldMax
  /\ open \in Seq([who : Hosts, len : Nat \ {0}, tag : Tags])
  /\ rdue \in [Tags -> Nat] /\ bdue \in [Tags -> Nat]
  /\ rask \in [Hosts -> [Ids -> Nat]] /\ bask \in [Hosts -> [Ids -> Nat]]
  /\ rpassed \in [Hosts -> [Hosts -> 0..2]]
  /\ wpassed \in [Hosts -> [Hosts -> 0..2]]
  /\ since \in [Hosts -> BOOLEAN]

(* The write data channel belongs to the host of the oldest write whose    *)
(* beats are not all out, and the beats that come next on it are those of  *)
(* that write, up to its last: the bursts of two hosts never interleave    *)
(* and none is cut short (wbusy, wsel).                                    *)
BurstsWhole ==
  /\ Len(open) <= 1
  /\ wbusy <=> open # <<>>
  /\ wbusy => LET first == open[1] IN
       /\ wsel = {first.who}
       /\ Len(beats[first.who]) >= first.len
       /\ \A k \in 1..first.len : beats[first.who][k] = (k = first.len)

(* The link owes each host exactly the answers the host waits for, under   *)
(* the identifier that leads back to the host and to its own identifier,   *)
(* and owes nobody else anything (the tag above the identifier).           *)
AnswersHome ==
  /\ \A i \in Hosts, d \in Ids :
       /\ rask[i][d] = rdue[Tag(i, d)]
       /\ bask[i][d] = bdue[Tag(i, d)]
            + Cardinality({k \in DOMAIN open : open[k].tag = Tag(i, d)})
  /\ \A t \in Tags : rdue[t] + bdue[t] > 0 => Who(t) \in Hosts

(* No host is granted twice while another waits with the same kind of      *)
(* address phase: a host waits for at most one grant of each of the others *)
(* (the round robin).                                                      *)
TakeTurns == \A i, j \in Hosts : rpassed[i][j] <= 1 /\ wpassed[i][j] <= 1

(* The same among the hosts PRIO does not name: the round robin "goes on   *)
(* as before among the others" (the doc of Arbiter).                       *)
OthersTakeTurns == \A i, j \in Hosts \ {PRIO} : rpassed[i][j] <= 1

(* While the hold stands, no other host's write has been granted since its *)
(* owner's last exclusive read: the owner's exclusive write completes a    *)
(* pair nobody wrote into (issue 1408).                                    *)
HoldWhole == held => ~since[howner]
=============================================================================
