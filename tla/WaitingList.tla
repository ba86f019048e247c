----------------------------- MODULE WaitingList -----------------------------
(***************************************************************************)
(* The waiting lists of a full server (protocolgame.cpp: clientLogin and   *)
(* what it calls).  A client that is told to wait retries after a while;   *)
(* its entry is to survive until then.  Everything runs on the dispatcher. *)
(* Time passes in units of 5 seconds, the shortest wait a client is told.  *)
(***************************************************************************)
EXTENDS Naturals, Sequences, FiniteSets, SequencesExt

CONSTANTS
  Players,
  Premium,     \* players that queue in priorityWaitList
  Always,      \* players with PlayerFlag_CanAlwaysLogin
  MaxPlayers,  \* ConfigManager::MAX_PLAYERS, 0 for no limit
  NoPlayer,    \* a guid that is none of theirs
  MaxEntries   \* bound: entries in the two lists

VARIABLES
  lists,      \* priorityWaitList and waitList
  online,     \* players in the game
  promised    \* history: the slot a waiting client was told, and for how long
              \* its entry is to stay

vars == <<lists, online, promised>>

TypeOK ==
  /\ DOMAIN lists = {"priority", "normal"}
  /\ \A l \in DOMAIN lists : \A i \in 1..Len(lists[l]) :
       lists[l][i] \in [timeout : 0..27, guid : Players \cup {NoPlayer}]
  /\ Len(lists["priority"]) + Len(lists["normal"]) <= MaxEntries
  /\ online \subseteq Players
  /\ promised \in [Players -> [slot : 0..(MaxEntries + 2), left : 0..27]]

Nothing == [slot |-> 0, left |-> 0]

Init ==
  /\ lists = [l \in {"priority", "normal"} |-> <<>>]
  /\ online = {}
  /\ promised = [p \in Players |-> Nothing]

(* Variants of the operators below, each with one slip a change of this     *)
(* code could make; the runs must notice them.                              *)
AnySlot(slot) == Cardinality(online) <= MaxPlayers
NothingErased(list, i) == list
OnlyPriority(ls) == ls["priority"] = <<>>
SoonerWrapped(n) == (n + 65535) % 65536   \* an unsigned counter past zero

-----------------------------------------------------------------------------
(* getWaitTime and getTimeout, in units of 5 seconds. *)
WaitTime(slot) ==
  IF slot < 5 THEN 1 ELSE IF slot < 10 THEN 2
  ELSE IF slot < 20 THEN 4 ELSE IF slot < 50 THEN 12 ELSE 24

Timeout(slot) == WaitTime(slot) + 3

(* cleanupList: what is left of a list, and of both. *)
StillWaiting(list) ==
  LET kept[n \in 0..Len(list)] ==
        IF n = 0 THEN <<>>
        ELSE IF list[n].timeout > 0 THEN Append(kept[n - 1], list[n]) ELSE kept[n - 1]
  IN kept[Len(list)]

Cleaned == [l \in DOMAIN lists |-> StillWaiting(lists[l])]

Before(ls, l) == IF l = "priority" THEN 0 ELSE Len(ls["priority"])

(* findClient: the lists and indices where p stands. *)
Found(ls, p) ==
  {at \in {"priority", "normal"} \X (1..MaxEntries) :
     at[2] <= Len(ls[at[1]]) /\ ls[at[1]][at[2]].guid = p}

(* The slot it returns, which counts from the entry to the end of its list. *)
Slot(ls, l, i) == Before(ls, l) + (Len(ls[l]) + 1 - i) + 1

HasRoom(slot) == Cardinality(online) + slot <= MaxPlayers

Erased(list, i) == RemoveAt(list, i)

NobodyWaits(ls) == ls["priority"] = <<>> /\ ls["normal"] = <<>>

DirectAccess(ls) ==
  \/ MaxPlayers = 0
  \/ NobodyWaits(ls) /\ Cardinality(online) < MaxPlayers

-----------------------------------------------------------------------------
(* clientLogin returns 0; the rest of login may still refuse the player. *)
LetIn(p) ==
  /\ online' \in {online, online \cup {p}}
  /\ promised' = [promised EXCEPT ![p] = Nothing]

(* clientLogin returns the slot; the client is told WaitTime(slot), and its *)
(* entry is to stay for Timeout(slot).                                      *)
ToldToWait(p, slot) ==
  /\ promised' = [promised EXCEPT ![p] = [slot |-> slot, left |-> Timeout(slot)]]
  /\ UNCHANGED online

(* "Let them wait a bit longer" writes the new timeout over the second half *)
(* of the pair, which is the guid.                                          *)
Retry(p, ls, l, i) ==
  IF HasRoom(Slot(ls, l, i))
  THEN LetIn(p) /\ lists' = [ls EXCEPT ![l] = Erased(@, i)]
  ELSE /\ ToldToWait(p, Slot(ls, l, i))
       /\ lists' = [ls EXCEPT ![l][i].guid = NoPlayer]

Arrive(p, ls) ==
  LET l == IF p \in Premium THEN "priority" ELSE "normal"
      slot == Before(ls, l) + Len(ls[l]) + 1
  IN  /\ ToldToWait(p, slot)
      /\ lists' = [ls EXCEPT ![l] =
                     Append(@, [timeout |-> Timeout(slot), guid |-> p])]

ClientLogin(p) ==
  /\ p \notin online
  /\ Len(lists["priority"]) + Len(lists["normal"]) < MaxEntries
  /\ IF p \in Always THEN LetIn(p) /\ UNCHANGED lists
     ELSE IF DirectAccess(Cleaned) THEN LetIn(p) /\ lists' = Cleaned
     ELSE IF Found(Cleaned, p) = {} THEN Arrive(p, Cleaned)
     ELSE \E at \in Found(Cleaned, p) : Retry(p, Cleaned, at[1], at[2])

Logout(p) ==
  /\ p \in online
  /\ online' = online \ {p}
  /\ UNCHANGED <<lists, promised>>

Sooner(n) == IF n > 0 THEN n - 1 ELSE 0

(* Five seconds pass. *)
Tick ==
  /\ lists' = [l \in DOMAIN lists |->
                 [i \in 1..Len(lists[l]) |->
                    [lists[l][i] EXCEPT !.timeout = Sooner(@)]]]
  /\ promised' = [p \in Players |-> IF promised[p].left <= 1 THEN Nothing
                                  ELSE [promised[p] EXCEPT !.left = @ - 1]]
  /\ UNCHANGED online

Next == (\E p \in Players : ClientLogin(p) \/ Logout(p)) \/ Tick

Spec == Init /\ [][Next]_vars

-----------------------------------------------------------------------------
(* The lists never let in more players than the server takes, but for those *)
(* who can always log in.                                                   *)
CapacityKept ==
  MaxPlayers # 0 => Cardinality(online \ Always) <= MaxPlayers

(* Nobody waits twice, or while in the game, so nobody holds others back by *)
(* an entry that will never be used.                                        *)
OnceInLine ==
  \A p \in Players :
    Cardinality(Found(lists, p)) <= (IF p \in online THEN 0 ELSE 1)

(* The lists and the players in the game fit together. *)
LineInv == TypeOK /\ CapacityKept /\ OnceInLine

(* A newcomer does not take a seat while others wait for it. *)
NewcomersWait ==
  [][\A p \in Players \ Always :
       p \in online' \ online /\ MaxPlayers # 0 /\ Found(Cleaned, p) = {}
         => Cleaned["priority"] = <<>> /\ Cleaned["normal"] = <<>>]_vars

(* The waiting list keeps the capacity and lets nobody jump the line. *)
LineIsKept == []LineInv /\ NewcomersWait

(* "Let them wait a bit longer", and "timeout is set to 15 seconds longer   *)
(* than expected retry attempt": a client that was told to wait has its     *)
(* entry until that time is over, also when it is told so again.            *)
WaitersKeepTheirEntry ==
  \A p \in Players : promised[p].left > 0 => Found(lists, p) # {}

(* "Currentslot = position in wait list": a client that asks again is told  *)
(* how many entries stand before its own, plus one.  The code counts from    *)
(* the other end.                                                           *)
SlotIsPosition ==
  [][\A p \in Players \ Always : \A at \in Found(Cleaned, p) :
       ClientLogin(p) /\ p \notin online' /\ promised'[p] # Nothing
         => promised'[p].slot = Before(Cleaned, at[1]) + at[2]]_vars
=============================================================================
