--------------------------------- MODULE Ban ---------------------------------
(***************************************************************************)
(* Ban::acceptConnection (ban.cpp), which every accepted connection passes *)
(* (onAccept in Services) and which blocks an address that connects too    *)
(* often.  It has a lock of its own, so a call is one step.  Time passes   *)
(* in quarters of a second; only differences of times are kept, up to what *)
(* the code tells apart.  The clock of the system is not set back.         *)
(***************************************************************************)
EXTENDS Naturals

CONSTANTS
  Clients,   \* addresses
  MaxBlock   \* bound: quarters of a second a block is prolonged to

VARIABLES
  ipConnectMap, \* per client: known, the time since lastAttempt, what is
                \* left of the block, and count
  row           \* history: attempts in a row that were let in, with gaps of
                \* at most 500 ms (fast) and 5 s (slow)

vars == <<ipConnectMap, row>>

Quick == 2       \* 500 ms
Long == 20       \* 5 s
BlockTime == 12  \* 3 s

TypeOK ==
  /\ ipConnectMap \in [Clients -> [known : BOOLEAN, since : 0..(Long + 1),
                                   block : 0..MaxBlock, count : 0..5]]
  /\ row \in [Clients -> [fast : 0..7, slow : 0..7]]

Init ==
  /\ ipConnectMap = [c \in Clients |-> [known |-> FALSE, since |-> 0,
                                        block |-> 0, count |-> 0]]
  /\ row = [c \in Clients |-> [fast |-> 0, slow |-> 0]]

(* Variants of the operators below, each with one slip a change of this     *)
(* code could make; the runs must notice them.                              *)
StrictlyQuick(b) == b.known /\ b.count = 5 /\ b.since < Quick
NeverForgets(b) == IF b.known /\ b.count < 5 THEN b.count + 1 ELSE 1

-----------------------------------------------------------------------------
Capped(n, max) == IF n > max THEN max ELSE n

(* A call within 5 seconds of the last one that was not in a block; the     *)
(* sixth of them starts again, and is refused when it came quickly.         *)
Counts(b) == b.known /\ b.since <= Long
IsSixth(b) == Counts(b) /\ b.count = 5

NextCount(b) == IF IsSixth(b) THEN 0 ELSE IF Counts(b) THEN b.count + 1 ELSE 1

Blocked(b) == b.known /\ b.block > 0
BlockStarts(b) == IsSixth(b) /\ b.since <= Quick

(* The ConnectBlock after a call.  A refused call prolongs a block by       *)
(* 250 ms and is no attempt.                                                *)
After(b) ==
  IF Blocked(b) THEN [b EXCEPT !.block = @ + 1]
  ELSE [known |-> TRUE, since |-> 0, count |-> NextCount(b),
        block |-> IF BlockStarts(b) THEN BlockTime ELSE 0]

AcceptConnection(c) ==
  LET b == ipConnectMap[c] IN
  /\ b.block < MaxBlock
  /\ ipConnectMap' = [ipConnectMap EXCEPT ![c] = After(b)]
  /\ row' = [row EXCEPT ![c] =
       IF Blocked(b) THEN @
       ELSE IF BlockStarts(b) THEN [fast |-> 0, slow |-> 0]
       ELSE [fast |-> IF b.since <= Quick THEN Capped(@.fast + 1, 7) ELSE 1,
             slow |-> IF b.since <= Long THEN Capped(@.slow + 1, 7) ELSE 1]]

(* A quarter of a second passes. *)
Tick ==
  /\ ipConnectMap' = [c \in Clients |->
       [ipConnectMap[c] EXCEPT
          !.since = IF ipConnectMap[c].known THEN Capped(@ + 1, Long + 1) ELSE @,
          !.block = IF @ > 0 THEN @ - 1 ELSE 0]]
  /\ UNCHANGED row

Next == (\E c \in Clients : AcceptConnection(c)) \/ Tick

Spec == Init /\ [][Next]_vars

-----------------------------------------------------------------------------
(* However a client spaces its attempts, no more than six in a row with     *)
(* gaps of up to 500 ms are let in, also across the resets of the count.    *)
BanInv == TypeOK /\ \A c \in Clients : row[c].fast <= 6

(* Nobody is refused who has not just been let in five times in a row: the  *)
(* end of a block, however often it was prolonged, is a fresh start.        *)
BlocksAreEarned ==
  [][\A c \in Clients :
       ipConnectMap'[c].block > ipConnectMap[c].block
         => Blocked(ipConnectMap[c]) \/ row[c].slow >= 5]_vars

(* Clients are blocked exactly when they connect too often. *)
BansAreFair == []BanInv /\ BlocksAreEarned
=============================================================================
