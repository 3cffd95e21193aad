----------------------------- MODULE MCMeshBusy -----------------------------
(***************************************************************************)
(* Model checking of Mesh under steady traffic: a source sends whenever it *)
(* has room and an exit is taken from in every cycle.  The flow that comes *)
(* up the column makes the switch below take turns, so the room on the way *)
(* down alternates, and the switch above moves its third input meanwhile.  *)
(***************************************************************************)
EXTENDS Mesh

VARIABLE passed  \* how many packets others moved to the port an input's
                 \* packet waits for, since it waits; five is the most kept

Flow(c1, r1, c2, r2) == [from |-> <<c1, r1>>, to |-> <<c2, r2>>]

MCFlows == {Flow(1, 0, 0, 1), Flow(0, 0, 0, 1), Flow(0, 1, 0, 0)}
MCMaxSent == [f \in MCFlows |-> 20]

Inputs == Nodes \X (0..4)

Waits(n, i) == Offered(Input(n, i)) /\ Pick(n) # i
PassedOver(n, i) == Moves(n) /\ Wanted(n, Pick(n)) = Wanted(n, i)

BusyInit == Init /\ passed = [p \in Inputs |-> 0]

BusyNext ==
  /\ Cycle({f \in Flows : Room(chan[<<f.from, "x">>]) /\ sent[f] < MaxSent[f]},
           Delivering)
  /\ passed' = [p \in Inputs |->
       LET n == p[1]
           i == p[2]
       IN IF ~Waits(n, i) THEN 0
          ELSE IF PassedOver(n, i) /\ passed[p] < 5 THEN passed[p] + 1
          ELSE passed[p]]

BusySpec == BusyInit /\ [][BusyNext]_<<vars, passed>>

(* What the switch's doc says of its choice: an input waits on at most     *)
(* four others, however busy they are.  Counted here are only the packets  *)
(* that went to the very port the input's own packet waits for.            *)
WaitsOnFour == \A p \in Inputs : passed[p] <= 4
=============================================================================
